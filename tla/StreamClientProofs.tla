------------------------ MODULE StreamClientProofs ------------------------
(***************************************************************************)
(* Proofs about StreamClient: the split is measured, every request is      *)
(* accounted for, and the fingerprints tell completions apart.             *)
(***************************************************************************)
EXTENDS StreamClient, DataInduction, SequenceTheorems

-----------------------------------------------------------------------------
\* The split. The engine's past is in every scrape, so in no difference of two.

PastIsCounted ==
  /\ Past \in counted
  /\ before # None => Past \in before.seen

SplitInv ==
  /\ PastIsCounted
  /\ out # None => main = "ended" /\ out.split = Split

\* A mean that is a difference of two scrapes leaves out what the first one held, if that
\* one showed the histogram.
LEMMA DeltaIsNew ==
  ASSUME NEW metric, PastIsCounted, Delta(before, after, metric) # None
  PROVE  /\ before # None /\ after # None /\ metric \in after.shows
         /\ Delta(before, after, metric) # {}
         /\ metric \in before.shows => Past \notin Delta(before, after, metric)
  BY DEF Delta, PastIsCounted

\* A split in its final form is measured, whatever the scrapes were.
LEMMA SplitInvMeasures == SplitInv => SplitIsMeasured
  <1> SUFFICES ASSUME SplitInv, out # None
               PROVE  /\ out.split.source = "unavailable" <=> before = None \/ after = None
                      /\ out.split.queue # None => Measured(out.split.queue, {"queue"})
                      /\ out.split.prefill # None =>
                           Measured(out.split.prefill,
                                    IF out.split.source = "direct" THEN {"prefill"}
                                    ELSE {"inference", "decode"})
    BY DEF SplitIsMeasured
  <1> DEFINE queue     == Delta(before, after, "queue")
             direct    == Delta(before, after, "prefill")
             inference == Delta(before, after, "inference")
             decode    == Delta(before, after, "decode")
             derivable == direct = None /\ inference # None /\ decode # None
  <1>1. /\ out.split.queue = queue
        /\ out.split.prefill = IF derivable THEN inference \cup decode ELSE direct
        /\ out.split.source = IF before = None \/ after = None THEN "unavailable"
                              ELSE IF derivable THEN "derived" ELSE "direct"
    BY DEF SplitInv, Split
  <1>2. /\ queue # None => Measured(queue, {"queue"})
        /\ direct # None => Measured(direct, {"prefill"})
        /\ inference # None => Measured(inference, {"inference"})
        /\ decode # None => Measured(decode, {"decode"})
    BY DeltaIsNew DEF SplitInv, Measured
  <1> HIDE DEF queue, direct, inference, decode
  <1>3. derivable => Measured(inference \cup decode, {"inference", "decode"})
    BY <1>2 DEF Measured
  <1>4. derivable \/ direct # None => before # None /\ after # None
    BY <1>2 DEF Measured
  <1> QED BY <1>1, <1>2, <1>3, <1>4

\* The lifetime of the engine is counted before the client starts.
LEMMA InitSplit == Init => SplitInv
  BY DEF Init, SplitInv, PastIsCounted

\* No step takes a sample out of a histogram, and the scrapes stay what they were.
LEMMA NextSplit == SplitInv /\ [Next]_vars => SplitInv'
  <1> SUFFICES ASSUME SplitInv, [Next]_vars PROVE SplitInv'
    OBVIOUS
  <1>1. PastIsCounted'
    <2>1. Past \in counted' /\ Past' = Past
      BY DEF Next, MainStep, Converged, ConvergeProbe, ScrapeBefore, StartWorkers, Release, Join,
             ScrapeAfter, Write, WorkerStep, Arrive, Ask, Answered, Errored, Leave, Count, vars,
             knobs, server, scrapes, pool, SplitInv, PastIsCounted, Past
    <2>2. before' = before \/ before' = None \/ before'.seen = counted
      BY DEF Next, MainStep, Converged, ConvergeProbe, ScrapeBefore, StartWorkers, Release, Join,
             ScrapeAfter, Write, WorkerStep, Arrive, Ask, Answered, Errored, Leave, Count, vars,
             knobs, server, scrapes, pool, Scrape
    <2> QED BY <2>1, <2>2 DEF SplitInv, PastIsCounted
  <1>2. CASE Write
    <2>1. out' = [rows |-> Done, split |-> Split] /\ main' = "ended"
          /\ UNCHANGED <<engine, before, after>>
      BY <1>2 DEF Write, knobs, scrapes
    <2> QED BY <1>1, <2>1 DEF SplitInv, Split, Delta
  <1>3. CASE main # "ended" /\ ~Write
    <2>1. out' = out
      BY <1>3 DEF Next, MainStep, Converged, ConvergeProbe, ScrapeBefore, StartWorkers, Release,
                  Join, ScrapeAfter, WorkerStep, Arrive, Ask, Answered, Errored, Leave, Count, vars
    <2> QED BY <1>1, <1>3, <2>1 DEF SplitInv
  <1>4. CASE main = "ended" /\ ~Write
    <2>1. UNCHANGED <<engine, before, after, main, out>>
      BY <1>4 DEF Next, MainStep, Converged, ConvergeProbe, ScrapeBefore, StartWorkers, Release,
                  Join, ScrapeAfter, WorkerStep, Arrive, Ask, Answered, Errored, Leave, Count, vars,
                  knobs, scrapes
    <2> QED BY <1>1, <2>1 DEF SplitInv, Split, Delta
  <1> QED BY <1>2, <1>3, <1>4

\* A published queue wait or prefill is of two scrapes that succeeded, and holds no sample
\* of the engine's past unless the first of them lacked the histogram (split_first_token;
\* hist_delta_mean takes that for zero, which is what NoLifetimeMean denies).
THEOREM SplitMeasures == Spec => []SplitIsMeasured
  <1> QED BY InitSplit, NextSplit, SplitInvMeasures, PTL DEF Spec
-----------------------------------------------------------------------------
\* Lists in order.

IsInOrder(s, S) ==
  /\ s \in [1..Cardinality(S) -> S] /\ ToSet(s) = S
  /\ \A j, k \in DOMAIN s : j < k => s[j] < s[k]

Distinct(s) == \A j, k \in 1..Len(s) : s[j] = s[k] => j = k

\* A finite set of numbers has a greatest one.
LEMMA GreatestNumber ==
  ASSUME NEW S \in SUBSET Nat, IsFiniteSet(S)
  PROVE  S # {} => \E m \in S : \A k \in S : k <= m
  <1> DEFINE T == {s \in SUBSET S : s # {} => \E m \in s : \A k \in s : k <= m}
  <1>1. {} \in T
    OBVIOUS
  <1>2. ASSUME NEW s \in SUBSET S, s # {}, \A x \in s : s \ {x} \in T
        PROVE  s \in T
    <2>1. PICK x \in s : TRUE
      BY <1>2
    <2>2. CASE s \ {x} = {}
      <3>1. \A k \in s : k <= x
        BY <2>1, <2>2
      <3> QED BY <2>1, <3>1
    <2>3. CASE s \ {x} # {}
      <3>1. PICK m \in s \ {x} : \A k \in s \ {x} : k <= m
        BY <1>2, <2>1, <2>3
      <3>2. x \in Nat /\ m \in Nat
        OBVIOUS
      <3>3. \A k \in s : k <= m \/ k = x
        BY <3>1
      <3>4. CASE x <= m
        BY <3>1, <3>3, <3>4
      <3>5. CASE m <= x
        <4>1. \A k \in s : k <= x
          BY <3>2, <3>3, <3>5
        <4> QED BY <2>1, <4>1
      <3> QED BY <3>2, <3>4, <3>5
    <2> QED BY <2>2, <2>3
  <1> HIDE DEF T
  <1>3. S \in T
    BY <1>1, <1>2, SubsetInduction
  <1> QED BY <1>3 DEF T

\* Every finite set of numbers can be listed in order.
LEMMA InOrderExists ==
  ASSUME NEW S \in SUBSET Nat, IsFiniteSet(S)
  PROVE  \E s : IsInOrder(s, S)
  <1> DEFINE T == {s \in SUBSET S : \E q : IsInOrder(q, s)}
  <1>1. {} \in T
    <2> DEFINE q == [k \in 1..0 |-> k]
    <2>1. Cardinality({}) = 0
      BY FS_EmptySet
    <2>2. q \in [1..Cardinality({}) -> {}] /\ DOMAIN q = {} /\ ToSet(q) = {}
      BY <2>1 DEF ToSet
    <2> HIDE DEF q
    <2>3. IsInOrder(q, {})
      BY <2>2 DEF IsInOrder
    <2> QED BY <2>3
  <1>2. ASSUME NEW s \in SUBSET S, s # {}, \A x \in s : s \ {x} \in T
        PROVE  s \in T
    <2>0. s \in SUBSET Nat /\ IsFiniteSet(s)
      BY FS_Subset
    <2>1. PICK m \in s : \A k \in s : k <= m
      BY <1>2, <2>0, GreatestNumber
    <2> DEFINE t == s \ {m}
               n == Cardinality(t)
    <2>2. PICK q : IsInOrder(q, t)
      BY <1>2
    <2>3. Cardinality(s) = n + 1 /\ n \in Nat
      <3>1. IsFiniteSet(t) /\ Cardinality(t) = Cardinality(s) - 1
        BY <2>0, FS_RemoveElement
      <3> HIDE DEF t
      <3> QED BY <2>0, <3>1, FS_CardinalityType
    <2>4. /\ q \in [1..n -> t] /\ DOMAIN q = 1..n
          /\ \A x \in t : \E k \in 1..n : q[k] = x
          /\ \A j, k \in 1..n : j < k => q[j] < q[k]
      <3> HIDE DEF t
      <3> QED BY <2>2 DEF IsInOrder, ToSet
    <2> DEFINE p == [k \in 1..(n + 1) |-> IF k = n + 1 THEN m ELSE q[k]]
    <2>5. \A x \in t : x \in s /\ x < m
      BY <2>0, <2>1
    <2> HIDE DEF t, n
    <2>6. \A k \in 1..n : q[k] \in s /\ q[k] < m
      BY <2>4, <2>5
    <2>7. p \in [1..(n + 1) -> s] /\ DOMAIN p = 1..(n + 1) /\ p[n + 1] = m
          /\ \A k \in 1..n : p[k] = q[k]
      BY <2>3, <2>6
    <2> HIDE DEF p
    <2>8. \A x \in s : \E k \in 1..(n + 1) : p[k] = x
      <3> TAKE x \in s
      <3>1. CASE x = m
        BY <2>3, <2>7, <3>1
      <3>2. CASE x \in t
        <4>1. PICK k \in 1..n : q[k] = x
          BY <2>4, <3>2
        <4> QED BY <2>3, <2>7, <4>1
      <3> QED BY <3>1, <3>2 DEF t
    <2>9. ToSet(p) = s
      BY <2>7, <2>8 DEF ToSet
    <2>10. ASSUME NEW j \in 1..(n + 1), NEW k \in 1..(n + 1), j < k PROVE p[j] < p[k]
      <3>1. j \in 1..n
        BY <2>3, <2>10
      <3>2. CASE k \in 1..n
        BY <2>4, <2>7, <2>10, <3>1, <3>2
      <3>3. CASE k = n + 1
        BY <2>6, <2>7, <3>1, <3>3
      <3> QED BY <2>3, <3>2, <3>3
    <2>11. IsInOrder(p, s)
      BY <2>3, <2>7, <2>9, <2>10 DEF IsInOrder
    <2> QED BY <2>11
  <1> HIDE DEF T
  <1>3. S \in T
    BY <1>1, <1>2, SubsetInduction
  <1> QED BY <1>3 DEF T

\* The list has every element of the set once.
LEMMA InOrderLists ==
  ASSUME NEW S \in SUBSET Nat, IsFiniteSet(S)
  PROVE  /\ InOrder(S) \in Seq(S) /\ Len(InOrder(S)) = Cardinality(S)
         /\ ToSet(InOrder(S)) = S /\ Distinct(InOrder(S))
  <1>0. Cardinality(S) \in Nat
    BY FS_CardinalityType
  <1>1. InOrder(S) = CHOOSE s : IsInOrder(s, S)
    BY DEF InOrder, IsInOrder
  <1>2. IsInOrder(InOrder(S), S)
    BY <1>1, InOrderExists
  <1> DEFINE s == InOrder(S)
             n == Cardinality(S)
  <1>3. s \in [1..n -> S] /\ ToSet(s) = S /\ \A j, k \in 1..n : j < k => s[j] < s[k]
    BY <1>2 DEF IsInOrder
  <1> HIDE DEF s, n
  <1>4. n \in Nat
    BY <1>0 DEF n
  <1>5. s \in Seq(S) /\ Len(s) = n
    BY <1>3, <1>4
  <1>6. ASSUME NEW j \in 1..n, NEW k \in 1..n, s[j] = s[k] PROVE j = k
    <2>1. s[j] \in Nat /\ s[k] \in Nat
      BY <1>3
    <2> QED BY <1>3, <1>4, <1>6, <2>1
  <1>7. Distinct(s)
    BY <1>5, <1>6 DEF Distinct
  <1> QED BY <1>3, <1>5, <1>7 DEF s, n

\* Taking the head off a list without repetitions takes one element off its set.
LEMMA TailTakesHead ==
  ASSUME NEW S, NEW s \in Seq(S), s # <<>>
  PROVE  /\ Head(s) \in ToSet(s) /\ Head(s) \in S /\ Tail(s) \in Seq(S)
         /\ ToSet(Tail(s)) \subseteq ToSet(s)
         /\ Distinct(s) => Distinct(Tail(s)) /\ ToSet(Tail(s)) = ToSet(s) \ {Head(s)}
  <1>1. /\ Head(s) = s[1] /\ 1 \in DOMAIN s /\ DOMAIN s = 1..Len(s) /\ Len(s) \in Nat
        /\ Tail(s) \in Seq(S) /\ Len(Tail(s)) = Len(s) - 1
        /\ DOMAIN Tail(s) = 1..(Len(s) - 1)
        /\ \A k \in 1..(Len(s) - 1) : Tail(s)[k] = s[k + 1]
    OBVIOUS
  <1>2. ToSet(Tail(s)) \subseteq ToSet(s) /\ Head(s) \in ToSet(s)
    BY <1>1 DEF ToSet
  <1>3. ASSUME Distinct(s) PROVE Distinct(Tail(s)) /\ ToSet(Tail(s)) = ToSet(s) \ {Head(s)}
    <2>1. Distinct(Tail(s))
      BY <1>1, <1>3 DEF Distinct
    <2>2. ASSUME NEW x \in ToSet(s), x # Head(s) PROVE x \in ToSet(Tail(s))
      <3>1. PICK k \in 1..Len(s) : x = s[k]
        BY <1>1 DEF ToSet
      <3>2. k - 1 \in 1..(Len(s) - 1) /\ s[k] = Tail(s)[k - 1]
        BY <1>1, <2>2, <3>1
      <3> QED BY <1>1, <3>1, <3>2 DEF ToSet
    <2>3. Head(s) \notin ToSet(Tail(s))
      <3> SUFFICES ASSUME NEW k \in 1..(Len(s) - 1), Tail(s)[k] = Head(s) PROVE FALSE
        BY <1>1 DEF ToSet
      <3> QED BY <1>1, <1>3 DEF Distinct
    <2> QED BY <1>2, <2>1, <2>2, <2>3
  <1> QED BY <1>1, <1>2, <1>3

\* Appending an element adds it to the set.
LEMMA AppendAdds ==
  ASSUME NEW S, NEW s \in Seq(S), NEW x \in S
  PROVE  /\ Append(s, x) \in Seq(S) /\ ToSet(Append(s, x)) = ToSet(s) \cup {x}
         /\ Distinct(s) /\ x \notin ToSet(s) => Distinct(Append(s, x))
  <1> DEFINE t == Append(s, x)
  <1>1. /\ t \in Seq(S) /\ Len(s) \in Nat /\ Len(t) = Len(s) + 1
        /\ DOMAIN t = 1..(Len(s) + 1) /\ DOMAIN s = 1..Len(s)
        /\ t[Len(s) + 1] = x /\ \A k \in 1..Len(s) : t[k] = s[k]
    OBVIOUS
  <1> HIDE DEF t
  <1>2. ToSet(t) = ToSet(s) \cup {x}
    <2>1. ToSet(t) \subseteq ToSet(s) \cup {x}
      BY <1>1 DEF ToSet
    <2>2. x \in ToSet(t)
      BY <1>1 DEF ToSet
    <2>3. ToSet(s) \subseteq ToSet(t)
      BY <1>1 DEF ToSet
    <2> QED BY <2>1, <2>2, <2>3
  <1>3. Distinct(s) /\ x \notin ToSet(s) => Distinct(t)
    BY <1>1 DEF Distinct, ToSet
  <1> QED BY <1>1, <1>2, <1>3 DEF t

\* A list without repetitions is as long as its set is large.
LEMMA LengthOfDistinct ==
  ASSUME NEW S, NEW s \in Seq(S), Distinct(s)
  PROVE  IsFiniteSet(ToSet(s)) /\ Cardinality(ToSet(s)) = Len(s)
  <1>1. s \in Bijection(1..Len(s), ToSet(s))
    BY DEF Distinct, ToSet, Bijection, Injection, Surjection, IsInjective, Range
  <1>2. Len(s) \in Nat
    OBVIOUS
  <1>3. IsFiniteSet(1..Len(s)) /\ Cardinality(1..Len(s)) = Len(s)
    BY <1>2, FS_Interval
  <1> QED BY <1>1, <1>3, FS_Bijection DEF ExistsBijection
-----------------------------------------------------------------------------
\* The batch. Each worker has the requests that are congruent to it; what it has sent
\* is a result or an error, and what it has not is in its slice.

Owner(i) == (i % Cardinality(Worker)) + 1

BatchTypes ==
  /\ call \in Calls /\ engine \in Engines
  /\ DOMAIN place = Worker /\ DOMAIN slice = Worker /\ DOMAIN results = Request
  /\ errors \in Seq(Request) /\ Distinct(errors)
  /\ \A w \in Worker :
       /\ slice[w] \in Seq(Request) /\ Distinct(slice[w])
       /\ \A i \in ToSet(slice[w]) : Owner(i) = w
       /\ place[w] = "asking" => slice[w] # <<>>
       /\ place[w] = "left" => slice[w] = <<>>

\* Where the workers are, by the place of the main thread.
Started == main \notin {"converge", "before", "start"}
PlacesFollow ==
  /\ ~Started => /\ \A w \in Worker : place[w] = "unborn"
                 /\ \A i \in Request : results[i] = None
                 /\ errors = <<>>
  /\ main \in {"after", "write", "ended", "failed"} => \A w \in Worker : place[w] = "left"

InOnePlace(i) ==
  /\ i \in ToSet(slice[Owner(i)]) <=> (results[i] = None /\ i \notin ToSet(errors))
  /\ i \in ToSet(errors) => results[i] = None

BatchInv ==
  /\ BatchTypes
  /\ PlacesFollow
  /\ Started => \A i \in Request : InOnePlace(i)
  /\ out # None => main = "ended" /\ out.rows = Done

\* The clamps leave a worker and a request.
LEMMA Clamped ==
  ASSUME call \in Calls
  PROVE  /\ Cardinality(Worker) \in Nat \ {0} /\ Worker = 1..Cardinality(Worker)
         /\ IsFiniteSet(Request) /\ Request \subseteq Nat
         /\ \A i \in Request : Owner(i) \in Worker
  <1>1. /\ AtLeastOne(call.concurrency) \in Nat \ {0} /\ AtLeastOne(call.requests) \in Nat \ {0}
    BY ClientAssumption DEF AtLeastOne
  <1>2. Cardinality(Worker) = AtLeastOne(call.concurrency)
    BY <1>1, FS_Interval DEF Worker
  <1>3. IsFiniteSet(Request) /\ Request \subseteq Nat
    <2> DEFINE last == AtLeastOne(call.requests) - 1
    <2>1. last \in Nat /\ Request = 0..last
      BY <1>1 DEF Request
    <2> HIDE DEF last
    <2> QED BY <2>1, FS_Interval
  <1> DEFINE W == Cardinality(Worker)
  <1>4. W \in Nat \ {0} /\ Worker = 1..W
    BY <1>1, <1>2 DEF Worker
  <1> HIDE DEF W
  <1>5. \A i \in Nat : i % W \in 0..(W - 1)
    BY <1>4
  <1>6. \A i \in Request : (i % W) + 1 \in Worker
    BY <1>3, <1>4, <1>5
  <1> QED BY <1>3, <1>4, <1>6 DEF W, Owner

\* Nothing is dealt or sent at first.
LEMMA InitBatch == Init => BatchInv
  <1> SUFFICES ASSUME Init PROVE BatchInv
    OBVIOUS
  <1>1. <<>> \in Seq(Request) /\ Distinct(<<>>) /\ ToSet(<<>>) = {}
    BY DEF Distinct, ToSet
  <1>2. BatchTypes
    BY <1>1 DEF Init, BatchTypes
  <1>3. PlacesFollow /\ ~Started
    BY DEF Init, PlacesFollow, Started
  <1> QED BY <1>2, <1>3 DEF BatchInv, Init

\* Dealing the requests round gives every worker its own, and all of them.
LEMMA DealtIsOwn ==
  ASSUME call \in Calls, NEW w \in Worker
  PROVE  /\ Dealt(w) \in Seq(Request) /\ Distinct(Dealt(w))
         /\ \A i \in Request : i \in ToSet(Dealt(w)) <=> Owner(i) = w
         /\ \A i \in ToSet(Dealt(w)) : Owner(i) = w
  <1> DEFINE own == {i \in Request : i % Cardinality(Worker) = w - 1}
  <1>1. own \subseteq Request /\ own \in SUBSET Nat /\ IsFiniteSet(own)
    BY Clamped, FS_Subset
  <1>2. \A i \in Request : i \in own <=> Owner(i) = w
    <2> TAKE i \in Request
    <2>1. i % Cardinality(Worker) \in Int /\ w \in Int
      BY Clamped
    <2> QED BY <2>1 DEF Owner
  <1>3. Dealt(w) = InOrder(own)
    BY DEF Dealt
  <1> HIDE DEF own
  <1>4. /\ InOrder(own) \in Seq(own) /\ ToSet(InOrder(own)) = own /\ Distinct(InOrder(own))
    BY <1>1, InOrderLists
  <1>5. InOrder(own) \in Seq(Request)
    <2> DEFINE s == InOrder(own)
    <2> HIDE DEF s
    <2>1. s \in Seq(own)
      BY <1>4 DEF s
    <2>2. s \in Seq(Request)
      BY <1>1, <2>1, SeqMonotonic
    <2> QED BY <2>2 DEF s
  <1> QED BY <1>1, <1>2, <1>3, <1>4, <1>5

\* Starting the workers puts each request into the slice of its worker.
LEMMA StartKeepsBatch == BatchInv /\ StartWorkers => BatchInv'
  <1> SUFFICES ASSUME BatchInv, StartWorkers PROVE BatchInv'
    OBVIOUS
  <1>1. /\ slice' = [w \in Worker |-> Dealt(w)] /\ place' = [w \in Worker |-> "started"]
        /\ main = "start" /\ main' = "release"
        /\ UNCHANGED <<call, engine, results, errors, out>>
        /\ Worker' = Worker /\ Request' = Request
        /\ \A i \in Request : Owner(i)' = Owner(i)
    BY DEF StartWorkers, knobs, Worker, Request, Owner
  <1>2. call \in Calls
    BY DEF BatchInv, BatchTypes
  <1>3. BatchTypes'
    <2>1. \A w \in Worker : /\ slice'[w] \in Seq(Request) /\ Distinct(slice'[w])
                            /\ slice'[w] = Dealt(w)
                            /\ place'[w] = "started"
      BY <1>1, <1>2, DealtIsOwn
    <2>2. \A w \in Worker : \A i \in ToSet(slice'[w]) : Owner(i) = w /\ i \in Request
      BY <1>1, <1>2, DealtIsOwn, <2>1 DEF ToSet
    <2> QED BY <1>1, <2>1, <2>2 DEF BatchInv, BatchTypes
  <1>4. PlacesFollow'
    BY <1>1 DEF PlacesFollow, Started
  <1>5. \A i \in Request : InOnePlace(i)'
    <2> TAKE i \in Request
    <2>1. results[i] = None /\ errors = <<>> /\ ToSet(errors) = {}
      BY <1>1 DEF BatchInv, PlacesFollow, Started, ToSet
    <2>2. Owner(i) \in Worker /\ slice'[Owner(i)] = Dealt(Owner(i))
      BY <1>1, <1>2, Clamped
    <2>3. i \in ToSet(slice'[Owner(i)])
      BY <1>2, <2>2, DealtIsOwn
    <2> QED BY <1>1, <2>1, <2>3 DEF InOnePlace
  <1>6. out' = None
    BY <1>1 DEF BatchInv
  <1> QED BY <1>1, <1>3, <1>4, <1>5, <1>6 DEF BatchInv
\* A request that has been sent leaves its slice for the results or the errors.
LEMMA SentKeepsBatch ==
  ASSUME BatchInv, NEW w \in Worker, Answered(w) \/ Errored(w)
  PROVE  BatchInv'
  <1> DEFINE h == Head(slice[w])
  <1>1. /\ place[w] = "asking" /\ slice' = [slice EXCEPT ![w] = Tail(slice[w])]
        /\ place' = [place EXCEPT ![w] = "free"]
        /\ UNCHANGED <<call, engine, main, out>>
        /\ Worker' = Worker /\ Request' = Request
        /\ \A i : Owner(i)' = Owner(i)
    BY DEF Answered, Errored, knobs, Worker, Request, Owner
  <1>2. Started /\ main \notin {"after", "write", "ended", "failed"} /\ out = None
    BY <1>1 DEF BatchInv, PlacesFollow
  <1>3. /\ slice[w] \in Seq(Request) /\ slice[w] # <<>> /\ Distinct(slice[w])
        /\ h \in ToSet(slice[w]) /\ h \in Request /\ Owner(h) = w
        /\ Tail(slice[w]) \in Seq(Request) /\ Distinct(Tail(slice[w]))
        /\ ToSet(Tail(slice[w])) = ToSet(slice[w]) \ {h}
    <2>1. slice[w] \in Seq(Request) /\ slice[w] # <<>> /\ Distinct(slice[w])
      BY <1>1 DEF BatchInv, BatchTypes
    <2>2. /\ h \in ToSet(slice[w]) /\ h \in Request
          /\ Tail(slice[w]) \in Seq(Request) /\ Distinct(Tail(slice[w]))
          /\ ToSet(Tail(slice[w])) = ToSet(slice[w]) \ {h}
      BY <2>1, TailTakesHead
    <2> QED BY <2>1, <2>2 DEF BatchInv, BatchTypes
  <1> HIDE DEF h
  <1>4. InOnePlace(h) /\ results[h] = None /\ h \notin ToSet(errors)
    BY <1>2, <1>3 DEF BatchInv, InOnePlace
  <1>5. \A v \in Worker : slice'[v] = IF v = w THEN Tail(slice[w]) ELSE slice[v]
    BY <1>1 DEF BatchInv, BatchTypes
  <1>6. /\ DOMAIN results' = Request /\ errors' \in Seq(Request) /\ Distinct(errors')
        /\ \A i \in Request : i # h => /\ results'[i] = results[i]
                                       /\ i \in ToSet(errors') <=> i \in ToSet(errors)
        /\ h \notin ToSet(errors') <=> results'[h] # None
    <2>1. CASE Answered(w)
      <3>1. PICK cut \in engine.cuts : results' = [results EXCEPT ![h] = Record(engine, cut)]
        BY <2>1 DEF Answered, h
      <3>2. Record(engine, cut) # None
        BY <3>1, EngineAssumption DEF BatchInv, BatchTypes
      <3>3. errors' = errors
        BY <2>1 DEF Answered
      <3> QED BY <1>3, <1>4, <3>1, <3>2, <3>3 DEF BatchInv, BatchTypes
    <2>2. CASE Errored(w)
      <3>1. errors' = Append(errors, h) /\ results' = results
        BY <2>2 DEF Errored, h
      <3>2. errors \in Seq(Request) /\ Distinct(errors)
        BY DEF BatchInv, BatchTypes
      <3>3. /\ errors' \in Seq(Request) /\ ToSet(errors') = ToSet(errors) \cup {h}
            /\ Distinct(errors')
        BY <1>3, <1>4, <3>1, <3>2, AppendAdds
      <3> QED BY <1>4, <3>1, <3>3 DEF BatchInv, BatchTypes
    <2> QED BY <2>1, <2>2
  <1>7. BatchTypes'
    <2>1. /\ DOMAIN place' = Worker /\ DOMAIN slice' = Worker
          /\ \A v \in Worker : place'[v] = IF v = w THEN "free" ELSE place[v]
      BY <1>1 DEF BatchInv, BatchTypes
    <2>2. ASSUME NEW v \in Worker
          PROVE  /\ slice'[v] \in Seq(Request) /\ Distinct(slice'[v])
                 /\ \A i \in ToSet(slice'[v]) : Owner(i) = v
                 /\ place'[v] = "asking" => slice'[v] # <<>>
                 /\ place'[v] = "left" => slice'[v] = <<>>
      <3>1. CASE v = w
        <4>1. \A i \in ToSet(slice[w]) : Owner(i) = w
          BY DEF BatchInv, BatchTypes
        <4> QED BY <1>3, <1>5, <2>1, <3>1, <4>1
      <3>2. CASE v # w
        BY <1>5, <2>1, <3>2 DEF BatchInv, BatchTypes
      <3> QED BY <3>1, <3>2
    <2>3. call' \in Calls /\ engine' \in Engines
      BY <1>1 DEF BatchInv, BatchTypes
    <2> QED BY <1>1, <1>6, <2>1, <2>2, <2>3 DEF BatchTypes
  <1>8. PlacesFollow'
    BY <1>1, <1>2 DEF PlacesFollow, Started
  <1>9. ASSUME NEW i \in Request PROVE InOnePlace(i)'
    <2>1. InOnePlace(i) /\ Owner(i) \in Worker
      BY <1>2, Clamped DEF BatchInv, BatchTypes
    <2>2. i \in ToSet(slice'[Owner(i)]) <=> (i # h /\ i \in ToSet(slice[Owner(i)]))
      BY <1>3, <1>5, <2>1
    <2>3. CASE i = h
      BY <1>1, <1>6, <2>2, <2>3 DEF InOnePlace
    <2>4. CASE i # h
      BY <1>1, <1>6, <2>1, <2>2, <2>4 DEF InOnePlace
    <2> QED BY <2>3, <2>4
  <1> QED BY <1>1, <1>2, <1>7, <1>8, <1>9 DEF BatchInv
\* A worker that arrives, asks or leaves changes nothing but its place.
LEMMA WorkerMoves ==
  ASSUME BatchInv, NEW w \in Worker, Arrive(w) \/ Ask(w) \/ Leave(w)
  PROVE  BatchInv'
  <1>1. /\ UNCHANGED <<call, engine, main, slice, results, errors, out>>
        /\ Worker' = Worker /\ Request' = Request
        /\ \A i : Owner(i)' = Owner(i)
    BY DEF Arrive, Ask, Leave, knobs, Worker, Request, Owner
  <1>2. place[w] \notin {"unborn", "left"}
    BY DEF Arrive, Ask, Leave
  <1>3. DOMAIN place' = Worker /\ \A v \in Worker : v # w => place'[v] = place[v]
    BY DEF Arrive, Ask, Leave, BatchInv, BatchTypes
  <1>4. /\ place'[w] = "asking" => slice[w] # <<>>
        /\ place'[w] = "left" => slice[w] = <<>>
    BY DEF Arrive, Ask, Leave, BatchInv, BatchTypes
  <1>5. BatchTypes'
    <2>1. \A v \in Worker : /\ place'[v] = "asking" => slice[v] # <<>>
                            /\ place'[v] = "left" => slice[v] = <<>>
      BY <1>3, <1>4 DEF BatchInv, BatchTypes
    <2> QED BY <1>1, <1>3, <2>1 DEF BatchInv, BatchTypes
  <1>6. Started /\ main \notin {"after", "write", "ended", "failed"}
    BY <1>2 DEF BatchInv, PlacesFollow
  <1>7. PlacesFollow' /\ Started'
    BY <1>1, <1>6 DEF PlacesFollow, Started
  <1>8. \A i \in Request : InOnePlace(i)'
    BY <1>1, <1>6 DEF BatchInv, InOnePlace
  <1> QED BY <1>1, <1>5, <1>7, <1>8 DEF BatchInv, Done

\* The other steps of the main thread, and the engine's.
LEMMA MainKeepsBatch ==
  ASSUME BatchInv,
         \/ Converged \/ ConvergeProbe \/ ScrapeBefore \/ Release \/ Join
         \/ ScrapeAfter \/ Write \/ Count \/ UNCHANGED vars
  PROVE  BatchInv'
  <1>1. /\ UNCHANGED <<call, engine, slice, results, errors>>
        /\ Worker' = Worker /\ Request' = Request
        /\ \A i : Owner(i)' = Owner(i)
    BY DEF Converged, ConvergeProbe, ScrapeBefore, Release, Join, ScrapeAfter, Write, Count,
           vars, knobs, pool, Worker, Request, Owner
  <1>2. \/ UNCHANGED place
        \/ main' = "join" /\ main = "release" /\ place' = [w \in Worker |-> "free"]
    BY DEF Converged, ConvergeProbe, ScrapeBefore, Release, Join, ScrapeAfter, Write, Count,
           vars, pool
  <1>3. BatchTypes'
    BY <1>1, <1>2 DEF BatchInv, BatchTypes
  <1>4. Started' = Started
    BY DEF Converged, ConvergeProbe, ScrapeBefore, Release, Join, ScrapeAfter, Write, Count,
           vars, Started
  <1>5. PlacesFollow'
    <2>1. CASE Release
      BY <1>1, <1>4, <2>1 DEF PlacesFollow, Release, Started
    <2>2. CASE Join
      BY <1>1, <1>4, <2>2 DEF PlacesFollow, Join, Started, pool
    <2>3. CASE ~Release /\ ~Join
      <3>1. /\ UNCHANGED place
            /\ main' \in {"after", "write", "ended", "failed"} =>
                 main \in {"after", "write", "ended", "failed"}
        BY <2>3 DEF Converged, ConvergeProbe, ScrapeBefore, ScrapeAfter, Write, Count, vars, pool
      <3> QED BY <1>1, <1>4, <3>1 DEF BatchInv, PlacesFollow
    <2> QED BY <2>1, <2>2, <2>3
  <1>6. Started' => \A i \in Request : InOnePlace(i)'
    BY <1>1, <1>4 DEF BatchInv, InOnePlace
  <1>7. Done' = Done
    BY <1>1 DEF Done
  <1>8. out' # None => main' = "ended" /\ out'.rows = Done'
    <2>1. CASE Write
      BY <1>7, <2>1 DEF Write
    <2>2. CASE ~Write
      <3>1. out' = out /\ (main = "ended" => main' = "ended")
        BY <2>2 DEF Converged, ConvergeProbe, ScrapeBefore, Release, Join, ScrapeAfter, Count, vars
      <3> QED BY <1>7, <3>1 DEF BatchInv
    <2> QED BY <2>1, <2>2
  <1> QED BY <1>1, <1>3, <1>5, <1>6, <1>8 DEF BatchInv

\* Every step keeps a request in one place.
LEMMA NextBatch == BatchInv /\ [Next]_vars => BatchInv'
  BY StartKeepsBatch, SentKeepsBatch, WorkerMoves, MainKeepsBatch DEF Next, MainStep, WorkerStep

\* When the workers have left there is nothing in the slices.
LEMMA BatchInvAccounts == BatchInv => EveryRequestAccounted
  <1> SUFFICES ASSUME BatchInv, main \in {"after", "write", "ended", "failed"}
               PROVE  /\ \A i \in Request : results[i] = None <=> i \in ToSet(errors)
                      /\ Len(errors) = Cardinality(ToSet(errors))
                      /\ out # None =>
                           /\ Len(out.rows) = Cardinality(Request) - Len(errors)
                           /\ ToSet(out.rows) = Request \ ToSet(errors)
    BY DEF BatchInv, EveryRequestAccounted
  <1>1. \A i \in Request : results[i] = None <=> i \in ToSet(errors)
    <2> TAKE i \in Request
    <2>1. Owner(i) \in Worker
      BY Clamped DEF BatchInv, BatchTypes
    <2>2. slice[Owner(i)] = <<>>
      BY <2>1 DEF BatchInv, BatchTypes, PlacesFollow
    <2>3. ToSet(slice[Owner(i)]) = {}
      BY <2>2 DEF ToSet
    <2> QED BY <2>3 DEF BatchInv, Started, InOnePlace
  <1>2. errors \in Seq(Request) /\ Distinct(errors) /\ ToSet(errors) \subseteq Request
    BY DEF BatchInv, BatchTypes, ToSet
  <1>3. IsFiniteSet(ToSet(errors)) /\ Cardinality(ToSet(errors)) = Len(errors)
    BY <1>2, LengthOfDistinct
  <1> DEFINE done == {i \in Request : results[i] # None}
  <1>4. done = Request \ ToSet(errors)
    BY <1>1
  <1>5. IsFiniteSet(Request) /\ Request \subseteq Nat
    BY Clamped DEF BatchInv, BatchTypes
  <1>6. done \in SUBSET Nat /\ Done = InOrder(done)
    BY <1>5 DEF Done
  <1> HIDE DEF done
  <1>7. /\ IsFiniteSet(done) /\ Request \cap ToSet(errors) = ToSet(errors)
        /\ Cardinality(done) = Cardinality(Request) - Cardinality(ToSet(errors))
    <2>1. Request \cap ToSet(errors) = ToSet(errors)
      BY <1>2
    <2> QED BY <1>4, <1>5, <2>1, FS_Difference
  <1>8. Len(Done) = Cardinality(done) /\ ToSet(Done) = done
    BY <1>6, <1>7, InOrderLists
  <1>9. out # None => out.rows = Done
    BY DEF BatchInv
  <1> QED BY <1>1, <1>3, <1>4, <1>7, <1>8, <1>9

\* Every request of the batch is sent once and has a row or an error, never both,
\* however the slices were drained (run_concurrent).
THEOREM EveryRequestIsAccounted == Spec => []EveryRequestAccounted
  <1> QED BY InitBatch, NextBatch, BatchInvAccounts, PTL DEF Spec
-----------------------------------------------------------------------------
\* Joining sequences. Joins(f, seqs, m) says that f joins the first m of them, one by one.

Joins(f, seqs, m) == f = [i \in 1..m |-> IF i = 1 THEN seqs[i] ELSE f[i - 1] \o seqs[i]]
Mapped(g, s) == [j \in 1..Len(s) |-> g[s[j]]]

\* What Joins says, one sequence at a time.
LEMMA JoinsUnfolds ==
  ASSUME NEW f, NEW seqs, NEW m \in Nat, Joins(f, seqs, m)
  PROVE  /\ m > 0 => f[1] = seqs[1]
         /\ \A i \in 1..m : i > 1 => f[i] = f[i - 1] \o seqs[i]
  <1>1. \A i \in 1..m : f[i] = IF i = 1 THEN seqs[i] ELSE f[i - 1] \o seqs[i]
    BY Zenon DEF Joins
  <1>2. \A i \in 1..m : i > 1 => i # 1
    OBVIOUS
  <1>3. m > 0 => 1 \in 1..m
    OBVIOUS
  <1> QED BY <1>1, <1>2, <1>3

\* There is a function that joins as many as one likes.
LEMMA JoinsExists ==
  ASSUME NEW seqs, NEW n \in Nat
  PROVE  \E f : Joins(f, seqs, n)
  <1> DEFINE T == {m \in Nat : \E f : Joins(f, seqs, m)}
  <1>1. 0 \in T
    <2> DEFINE f == [i \in 1..0 |-> i]
    <2>1. f = [i \in 1..0 |-> IF i = 1 THEN seqs[i] ELSE f[i - 1] \o seqs[i]]
      OBVIOUS
    <2> HIDE DEF f
    <2>2. Joins(f, seqs, 0)
      BY <2>1 DEF Joins
    <2> QED BY <2>2
  <1>2. ASSUME NEW m \in Nat, m \in T PROVE m + 1 \in T
    <2>1. PICK f : Joins(f, seqs, m)
      BY <1>2
    <2> DEFINE last == IF m = 0 THEN seqs[1] ELSE f[m] \o seqs[m + 1]
               g == [i \in 1..(m + 1) |-> IF i = m + 1 THEN last ELSE f[i]]
    <2> HIDE DEF last
    <2>2. /\ g[m + 1] = last /\ \A i \in 1..m : g[i] = f[i]
          /\ g = [i \in 1..(m + 1) |-> g[i]]
      OBVIOUS
    <2>3. /\ m > 0 => f[1] = seqs[1]
          /\ \A i \in 1..m : i > 1 => f[i] = f[i - 1] \o seqs[i]
      BY <2>1, JoinsUnfolds
    <2> HIDE DEF g
    <2>4. \A i \in 1..(m + 1) : g[i] = IF i = 1 THEN seqs[i] ELSE g[i - 1] \o seqs[i]
      <3> TAKE i \in 1..(m + 1)
      <3>1. CASE i = m + 1 /\ m = 0
        BY <2>2, <3>1 DEF last
      <3>2. CASE i = m + 1 /\ m # 0
        <4>1. i - 1 = m /\ m \in 1..m /\ i # 1
          BY <3>2
        <4> QED BY <2>2, <3>2, <4>1 DEF last
      <3>3. CASE i \in 1..m /\ i = 1
        <4>1. m > 0 /\ 1 \in 1..m
          BY <3>3
        <4> QED BY <2>2, <2>3, <3>3, <4>1
      <3>4. CASE i \in 1..m /\ i # 1
        <4>1. i - 1 \in 1..m /\ i > 1
          BY <3>4
        <4> QED BY <2>2, <2>3, <3>4, <4>1
      <3> QED BY <3>1, <3>2, <3>3, <3>4
    <2>5. Joins(g, seqs, m + 1)
      BY <2>2, <2>4 DEF Joins
    <2> QED BY <2>5
  <1>3. n \in T
    <2> HIDE DEF T
    <2> QED BY <1>1, <1>2, SetInduction
  <1> QED BY <1>3

\* The joining of the community modules is such a function's last value.
LEMMA FlattenJoins ==
  ASSUME NEW seqs, Len(seqs) \in Nat \ {0}
  PROVE  \E f : Joins(f, seqs, Len(seqs)) /\ FlattenSeq(seqs) = f[Len(seqs)]
  <1> DEFINE f == CHOOSE f : Joins(f, seqs, Len(seqs))
  <1>1. Joins(f, seqs, Len(seqs))
    BY JoinsExists
  <1>2. FlattenSeq(seqs) = f[Len(seqs)]
    BY DEF FlattenSeq, Joins
  <1> HIDE DEF f
  <1> QED BY <1>1, <1>2

\* Mapping and concatenation commute.
LEMMA MappedConcat ==
  ASSUME NEW S, NEW g, NEW s \in Seq(S), NEW t \in Seq(S)
  PROVE  /\ s \o t \in Seq(S)
         /\ Mapped(g, s \o t) = Mapped(g, s) \o Mapped(g, t)
  <1> DEFINE R == {g[x] : x \in S}
             a == Mapped(g, s)
             b == Mapped(g, t)
             c == Mapped(g, s \o t)
  <1>1. a \in Seq(R) /\ Len(a) = Len(s) /\ \A j \in 1..Len(s) : a[j] = g[s[j]]
    BY DEF Mapped
  <1>2. b \in Seq(R) /\ Len(b) = Len(t) /\ \A j \in 1..Len(t) : b[j] = g[t[j]]
    BY DEF Mapped
  <1>3. s \o t \in Seq(S) /\ Len(s \o t) = Len(s) + Len(t)
    OBVIOUS
  <1>4. c \in Seq(R) /\ Len(c) = Len(s) + Len(t)
        /\ \A j \in 1..(Len(s) + Len(t)) : c[j] = g[(s \o t)[j]]
    BY <1>3 DEF Mapped
  <1> HIDE DEF a, b, c, R
  <1>5. a \o b \in Seq(R) /\ Len(a \o b) = Len(s) + Len(t)
    <2>1. a \in Seq(R) /\ b \in Seq(R) /\ Len(a) = Len(s) /\ Len(b) = Len(t)
      BY <1>1, <1>2
    <2>2. a \o b \in Seq(R) /\ Len(a \o b) = Len(a) + Len(b)
      BY <2>1, ConcatProperties
    <2> QED BY <2>1, <2>2
  <1>6. \A j \in 1..(Len(s) + Len(t)) : c[j] = (a \o b)[j]
    <2> TAKE j \in 1..(Len(s) + Len(t))
    <2>1. CASE j <= Len(s)
      <3>1. (s \o t)[j] = s[j] /\ (a \o b)[j] = a[j]
        BY <1>1, <1>2, <2>1
      <3> QED BY <1>1, <1>4, <2>1, <3>1
    <2>2. CASE j > Len(s)
      <3>1. (s \o t)[j] = t[j - Len(s)] /\ (a \o b)[j] = b[j - Len(s)]
        BY <1>1, <1>2, <2>2
      <3>2. j - Len(s) \in 1..Len(t)
        BY <2>2
      <3> QED BY <1>2, <1>4, <3>1, <3>2
    <2>3. j <= Len(s) \/ j > Len(s)
      OBVIOUS
    <2> QED BY <2>1, <2>2, <2>3, Zenon
  <1>7. c = a \o b
    BY <1>4, <1>5, <1>6
  <1> QED BY <1>1, <1>3, <1>7 DEF a, b, c

\* Joining mapped sequences is mapping the joined one.
LEMMA JoinedMapped ==
  ASSUME NEW S, NEW g, NEW a \in Seq(Seq(S)), NEW b,
         Len(b) = Len(a), Len(a) > 0, \A k \in 1..Len(a) : b[k] = Mapped(g, a[k])
  PROVE  /\ FlattenSeq(a) \in Seq(S)
         /\ FlattenSeq(b) = Mapped(g, FlattenSeq(a))
  <1>0. ASSUME NEW s \in Seq(S), NEW t \in Seq(S)
        PROVE  s \o t \in Seq(S) /\ Mapped(g, s \o t) = Mapped(g, s) \o Mapped(g, t)
    BY ONLY <1>0, MappedConcat
  <1> DEFINE n == Len(a)
  <1>1. n \in Nat \ {0} /\ \A k \in 1..n : a[k] \in Seq(S) /\ b[k] = Mapped(g, a[k])
    OBVIOUS
  <1>2. PICK fa : Joins(fa, a, n) /\ FlattenSeq(a) = fa[n]
    BY <1>1, FlattenJoins
  <1>3. PICK fb : Joins(fb, b, n) /\ FlattenSeq(b) = fb[n]
    BY <1>1, FlattenJoins
  <1> HIDE DEF n
  <1>4. /\ fa[1] = a[1] /\ \A i \in 1..n : i > 1 => fa[i] = fa[i - 1] \o a[i]
        /\ fb[1] = b[1] /\ \A i \in 1..n : i > 1 => fb[i] = fb[i - 1] \o b[i]
    <2>1. n \in Nat /\ n > 0
      BY <1>1
    <2>2. fa[1] = a[1] /\ \A i \in 1..n : i > 1 => fa[i] = fa[i - 1] \o a[i]
      BY <1>2, <2>1, JoinsUnfolds
    <2>3. fb[1] = b[1] /\ \A i \in 1..n : i > 1 => fb[i] = fb[i - 1] \o b[i]
      BY <1>3, <2>1, JoinsUnfolds
    <2> QED BY <2>2, <2>3
  <1> DEFINE T == {m \in Nat : m < n => /\ fa[m + 1] \in Seq(S)
                                        /\ fb[m + 1] = Mapped(g, fa[m + 1])}
  <1>5. 0 \in T
    BY <1>1, <1>4 DEF n
  <1>6. ASSUME NEW m \in Nat, m \in T PROVE m + 1 \in T
    <2> SUFFICES ASSUME m + 1 < n
                 PROVE  fa[m + 1 + 1] \in Seq(S) /\ fb[m + 1 + 1] = Mapped(g, fa[m + 1 + 1])
      OBVIOUS
    <2>1. /\ fa[m + 1] \in Seq(S) /\ fb[m + 1] = Mapped(g, fa[m + 1])
          /\ m + 2 \in 1..n /\ m + 2 > 1 /\ m + 2 - 1 = m + 1 /\ m + 1 + 1 = m + 2
      BY <1>1, <1>6
    <2>2. /\ fa[m + 2] = fa[m + 1] \o a[m + 2] /\ fb[m + 2] = fb[m + 1] \o b[m + 2]
          /\ a[m + 2] \in Seq(S) /\ b[m + 2] = Mapped(g, a[m + 2])
      <3> DEFINE k == m + 2
      <3>1. k \in 1..n /\ k > 1 /\ k - 1 = m + 1
        BY <2>1
      <3> HIDE DEF k
      <3>2. fa[k] = fa[m + 1] \o a[k] /\ fb[k] = fb[m + 1] \o b[k]
        BY <1>4, <3>1, Zenon
      <3>3. a[k] \in Seq(S) /\ b[k] = Mapped(g, a[k])
        BY <1>1, <3>1, Zenon
      <3> QED BY <3>2, <3>3 DEF k
    <2>3. /\ fa[m + 1] \o a[m + 2] \in Seq(S)
          /\ Mapped(g, fa[m + 1] \o a[m + 2]) = Mapped(g, fa[m + 1]) \o Mapped(g, a[m + 2])
      <3> DEFINE s == fa[m + 1]
                 t == a[m + 2]
      <3>1. s \in Seq(S) /\ t \in Seq(S)
        BY <2>1, <2>2
      <3> HIDE DEF s, t
      <3>2. s \o t \in Seq(S) /\ Mapped(g, s \o t) = Mapped(g, s) \o Mapped(g, t)
        BY <3>1, <1>0
      <3> QED BY <3>2 DEF s, t
    <2> QED BY <2>1, <2>2, <2>3
  <1>7. n - 1 \in T
    <2> HIDE DEF T
    <2>1. Nat \subseteq T
      BY <1>5, <1>6, SetInduction
    <2> QED BY <1>1, <2>1
  <1>8. n - 1 < n /\ n - 1 + 1 = n
    BY <1>1
  <1> QED BY <1>2, <1>3, <1>7, <1>8
\* Sequences grow by one element at a time.
LEMMA SeqSetInduction ==
  ASSUME NEW S, NEW T, <<>> \in T, \A s \in Seq(S) : s \in T => \A x \in S : Append(s, x) \in T
  PROVE  Seq(S) \subseteq T
  <1> DEFINE N == {n \in Nat : \A s \in Seq(S) : Len(s) = n => s \in T}
  <1>1. 0 \in N
    <2>1. \A s \in Seq(S) : Len(s) = 0 => s = <<>>
      OBVIOUS
    <2> QED BY <2>1
  <1>2. ASSUME NEW n \in Nat, n \in N PROVE n + 1 \in N
    <2> SUFFICES ASSUME NEW s \in Seq(S), Len(s) = n + 1 PROVE s \in T
      OBVIOUS
    <2>1. s # <<>>
      OBVIOUS
    <2>2. PICK f \in Seq(S), x \in S : s = Append(f, x)
      BY <2>1, SequenceEmptyOrAppend
    <2>3. Len(f) = n
      BY <2>2
    <2> QED BY <1>2, <2>2, <2>3
  <1> HIDE DEF N
  <1>3. Nat \subseteq N
    BY <1>1, <1>2, SetInduction
  <1> QED BY <1>3 DEF N

\* FlattenSeq joins one more sequence at the end.
LEMMA FlattenAppend ==
  ASSUME NEW S, NEW s \in Seq(Seq(S)), NEW x \in Seq(S)
  PROVE  /\ FlattenSeq(s) \in Seq(S)
         /\ FlattenSeq(Append(s, x)) = FlattenSeq(s) \o x
  <1> DEFINE n == Len(s)
             t == Append(s, x)
  <1>1. /\ n \in Nat /\ Len(t) = n + 1 /\ t[n + 1] = x
        /\ \A k \in 1..n : t[k] = s[k] /\ s[k] \in Seq(S)
    OBVIOUS
  <1>2. n = 0 => s = <<>>
    OBVIOUS
  <1> HIDE DEF n, t
  <1>3. PICK ft : Joins(ft, t, n + 1) /\ FlattenSeq(t) = ft[n + 1]
    <2>1. Len(t) \in Nat \ {0}
      BY <1>1
    <2> QED BY <1>1, <2>1, FlattenJoins
  <1>4. ft[1] = t[1] /\ \A i \in 1..(n + 1) : i > 1 => ft[i] = ft[i - 1] \o t[i]
    <2>1. n + 1 \in Nat /\ n + 1 > 0
      BY <1>1
    <2> QED BY <1>3, <2>1, JoinsUnfolds
  <1>5. CASE n = 0
    <2>1. FlattenSeq(s) = <<>>
      BY <1>2, <1>5 DEF FlattenSeq
    <2>2. FlattenSeq(t) = x
      BY <1>1, <1>3, <1>4, <1>5
    <2> QED BY <2>1, <2>2, ConcatEmptySeq DEF t
  <1>6. CASE n # 0
    <2>1. PICK fs : Joins(fs, s, n) /\ FlattenSeq(s) = fs[n]
      <3>1. Len(s) \in Nat \ {0}
        BY <1>1, <1>6 DEF n
      <3> QED BY <3>1, FlattenJoins DEF n
    <2>2. fs[1] = s[1] /\ \A i \in 1..n : i > 1 => fs[i] = fs[i - 1] \o s[i]
      <3>1. n \in Nat /\ n > 0
        BY <1>1, <1>6
      <3> QED BY <2>1, <3>1, JoinsUnfolds
    <2> DEFINE T == {m \in Nat : m < n => fs[m + 1] \in Seq(S) /\ ft[m + 1] = fs[m + 1]}
    <2>3. 0 \in T
      BY <1>1, <1>4, <1>6, <2>2
    <2>4. ASSUME NEW m \in Nat, m \in T PROVE m + 1 \in T
      <3> SUFFICES ASSUME m + 1 < n PROVE fs[m + 2] \in Seq(S) /\ ft[m + 2] = fs[m + 2]
        OBVIOUS
      <3> DEFINE k == m + 2
      <3>1. k \in 1..n /\ k \in 1..(n + 1) /\ k > 1 /\ k - 1 = m + 1
            /\ fs[m + 1] \in Seq(S) /\ ft[m + 1] = fs[m + 1]
        BY <1>1, <2>4
      <3> HIDE DEF k
      <3>2. fs[k] = fs[m + 1] \o s[k] /\ ft[k] = ft[m + 1] \o t[k] /\ t[k] = s[k] /\ s[k] \in Seq(S)
        BY <1>1, <1>4, <2>2, <3>1, Zenon
      <3>3. fs[m + 1] \o s[k] \in Seq(S)
        BY <3>1, <3>2, ConcatProperties
      <3> QED BY <3>1, <3>2, <3>3 DEF k
    <2>5. n - 1 \in T
      <3> HIDE DEF T
      <3>1. Nat \subseteq T
        BY <2>3, <2>4, SetInduction
      <3> QED BY <1>1, <1>6, <3>1
    <2>6. fs[n] \in Seq(S) /\ ft[n] = fs[n]
      BY <1>1, <1>6, <2>5
    <2>7. ft[n + 1] = ft[n] \o x
      <3> DEFINE k == n + 1
      <3>1. k \in 1..(n + 1) /\ k > 1 /\ k - 1 = n
        BY <1>1, <1>6
      <3> HIDE DEF k
      <3>2. ft[k] = ft[k - 1] \o t[k]
        BY <1>4, <3>1
      <3> QED BY <1>1, <3>1, <3>2 DEF k
    <2> QED BY <1>3, <2>1, <2>6, <2>7 DEF t
  <1> QED BY <1>5, <1>6

\* It keeps what is joined apart from where.
LEMMA FlattenConcat ==
  ASSUME NEW S, NEW s \in Seq(Seq(S)), NEW u \in Seq(Seq(S))
  PROVE  FlattenSeq(s \o u) = FlattenSeq(s) \o FlattenSeq(u)
  <1> DEFINE T == {v \in Seq(Seq(S)) : FlattenSeq(s \o v) = FlattenSeq(s) \o FlattenSeq(v)}
  <1>00. ASSUME NEW p \in Seq(S), NEW q \in Seq(S), NEW r \in Seq(S)
         PROVE  (p \o q) \o r = p \o (q \o r)
    BY ConcatAssociative
  <1>0. ASSUME NEW v \in Seq(Seq(S)), NEW x \in Seq(S)
        PROVE  /\ FlattenSeq(v) \in Seq(S)
               /\ FlattenSeq(Append(v, x)) = FlattenSeq(v) \o x
    BY FlattenAppend
  <1>1. <<>> \in T
    <2>1. FlattenSeq(<<>>) = <<>> /\ <<>> \in Seq(Seq(S)) /\ <<>> \in Seq(S)
      BY DEF FlattenSeq
    <2>2. FlattenSeq(s) \in Seq(S)
      BY <1>0, <2>1
    <2>3. s \o <<>> = s /\ FlattenSeq(s) \o <<>> = FlattenSeq(s)
      BY <2>2, ConcatEmptySeq
    <2> QED BY <2>1, <2>3
  <1>2. ASSUME NEW v \in Seq(Seq(S)), v \in T, NEW x \in Seq(S) PROVE Append(v, x) \in T
    <2>1. s \o Append(v, x) = Append(s \o v, x) /\ s \o v \in Seq(Seq(S))
      OBVIOUS
    <2>2. FlattenSeq(Append(s \o v, x)) = FlattenSeq(s \o v) \o x
      BY <1>0, <2>1
    <2>3. FlattenSeq(s \o v) = FlattenSeq(s) \o FlattenSeq(v)
      BY <1>2
    <2>4. FlattenSeq(s) \in Seq(S) /\ FlattenSeq(v) \in Seq(S)
      BY <1>0
    <2>5. (FlattenSeq(s) \o FlattenSeq(v)) \o x = FlattenSeq(s) \o (FlattenSeq(v) \o x)
      BY ONLY <1>00, <2>4, x \in Seq(S), Zenon
    <2>6. FlattenSeq(Append(v, x)) = FlattenSeq(v) \o x
      BY <1>0
    <2>7. Append(v, x) \in Seq(Seq(S))
      OBVIOUS
    <2> QED BY <2>1, <2>2, <2>3, <2>5, <2>6, <2>7
  <1> HIDE DEF T
  <1>3. Seq(Seq(S)) \subseteq T
    BY <1>1, <1>2, SeqSetInduction
  <1> QED BY <1>3 DEF T

Each(c) == [k \in 1..Len(c) |-> FlattenSeq(c[k])]

\* Three levels may be joined from either end.
LEMMA FlattenTwice ==
  ASSUME NEW S, NEW c \in Seq(Seq(Seq(S)))
  PROVE  /\ FlattenSeq(c) \in Seq(Seq(S)) /\ Each(c) \in Seq(Seq(S))
         /\ FlattenSeq(FlattenSeq(c)) = FlattenSeq(Each(c))
  <1> DEFINE T == {d \in Seq(Seq(Seq(S))) :
                     /\ FlattenSeq(d) \in Seq(Seq(S)) /\ Each(d) \in Seq(Seq(S))
                     /\ FlattenSeq(FlattenSeq(d)) = FlattenSeq(Each(d))}
  <1>1. <<>> \in T
    <2>1. FlattenSeq(<<>>) = <<>> /\ Each(<<>>) = <<>>
      BY DEF FlattenSeq, Each
    <2>2. <<>> \in Seq(Seq(Seq(S))) /\ <<>> \in Seq(Seq(S))
      OBVIOUS
    <2>3. FlattenSeq(FlattenSeq(<<>>)) = FlattenSeq(Each(<<>>))
      BY <2>1
    <2> QED BY <2>1, <2>2, <2>3, Zenon
  <1>2. ASSUME NEW d \in Seq(Seq(Seq(S))), d \in T, NEW y \in Seq(Seq(S)) PROVE Append(d, y) \in T
    <2>1. /\ FlattenSeq(Append(d, y)) = FlattenSeq(d) \o y
          /\ FlattenSeq(d) \in Seq(Seq(S))
      BY FlattenAppend
    <2>2. FlattenSeq(d) \o y \in Seq(Seq(S))
      BY <2>1, ConcatProperties
    <2>3. FlattenSeq(FlattenSeq(d) \o y) = FlattenSeq(FlattenSeq(d)) \o FlattenSeq(y)
      BY <2>1, FlattenConcat
    <2>4. FlattenSeq(y) \in Seq(S)
      <3>1. <<>> \in Seq(S)
        OBVIOUS
      <3> QED BY <3>1, FlattenAppend
    <2>5. Each(Append(d, y)) = Append(Each(d), FlattenSeq(y))
      <3>1. /\ Len(Append(d, y)) = Len(d) + 1 /\ Append(d, y)[Len(d) + 1] = y /\ Len(d) \in Nat
            /\ \A k \in 1..Len(d) : Append(d, y)[k] = d[k]
        OBVIOUS
      <3>2. /\ Each(d) \in Seq(Seq(S)) /\ Len(Each(d)) = Len(d)
            /\ \A k \in 1..Len(d) : Each(d)[k] = FlattenSeq(d[k])
        BY <1>2 DEF Each
      <3> DEFINE l == Each(Append(d, y))
                 r == Append(Each(d), FlattenSeq(y))
                 n == Len(d)
      <3>3. l = [k \in 1..(n + 1) |-> FlattenSeq(Append(d, y)[k])]
        BY <3>1 DEF Each
      <3>4. r \in Seq(Seq(S)) /\ Len(r) = n + 1 /\ r[n + 1] = FlattenSeq(y)
            /\ \A k \in 1..n : r[k] = FlattenSeq(d[k])
        BY <2>4, <3>2
      <3>5. \A k \in 1..(n + 1) : r[k] = FlattenSeq(Append(d, y)[k])
        <4> TAKE k \in 1..(n + 1)
        <4>1. CASE k = n + 1
          BY <3>1, <3>4, <4>1
        <4>2. CASE k \in 1..n
          BY <3>1, <3>4, <4>2
        <4>3. k = n + 1 \/ k \in 1..n
          BY <3>1
        <4> QED BY <4>1, <4>2, <4>3, Zenon
      <3>6. r = [k \in 1..(n + 1) |-> r[k]]
        <4> HIDE DEF r, n
        <4> QED BY <3>4
      <3> HIDE DEF r, n, l
      <3> QED BY <3>3, <3>5, <3>6 DEF l, r
    <2>6. FlattenSeq(Append(Each(d), FlattenSeq(y))) = FlattenSeq(Each(d)) \o FlattenSeq(y)
      BY <1>2, <2>4, FlattenAppend
    <2>7. Append(d, y) \in Seq(Seq(Seq(S))) /\ Append(Each(d), FlattenSeq(y)) \in Seq(Seq(S))
      BY <1>2, <2>4
    <2> QED BY <1>2, <2>1, <2>2, <2>3, <2>5, <2>6, <2>7
  <1> HIDE DEF T
  <1>3. Seq(Seq(Seq(S))) \subseteq T
    BY <1>1, <1>2, SeqSetInduction
  <1> QED BY <1>3 DEF T

-----------------------------------------------------------------------------
\* The bytes that are hashed. Bodies that do not hold an End can be read off them.

Symbols(P, tag) == P \cup {tag, End}
\* What precedes an item.
Whole(u) == u = <<>> \/ u[Len(u)] = End

Spelled(P, tag, x) ==
  /\ Item(tag, x) \in Seq(Symbols(P, tag)) /\ Len(Item(tag, x)) = Len(x) + 2
  /\ Item(tag, x)[1] = tag /\ Item(tag, x)[Len(x) + 2] = End
  /\ \A k \in 1..Len(x) : Item(tag, x)[k + 1] = x[k]
\* An item, symbol by symbol.
LEMMA ItemIs ==
  ASSUME NEW P, NEW tag, NEW x \in Seq(P)
  PROVE  Spelled(P, tag, x)
  <1> DEFINE S == Symbols(P, tag)
             u == <<tag>> \o x
  <1>1. x \in Seq(S) /\ <<tag>> \in Seq(S) /\ <<End>> \in Seq(S) /\ Len(x) \in Nat
    BY DEF Symbols
  <1>2. /\ u \in Seq(S) /\ Len(u) = Len(x) + 1 /\ u[1] = tag
        /\ \A k \in 1..Len(x) : u[k + 1] = x[k]
    BY <1>1
  <1> HIDE DEF u, S
  <1>3. /\ u \o <<End>> \in Seq(S) /\ Len(u \o <<End>>) = Len(x) + 2
        /\ (u \o <<End>>)[Len(x) + 2] = End
        /\ \A k \in 1..(Len(x) + 1) : (u \o <<End>>)[k] = u[k]
    BY <1>1, <1>2
  <1>4. \A k \in 1..Len(x) : (u \o <<End>>)[k + 1] = x[k]
    BY <1>1, <1>2, <1>3
  <1>5. (u \o <<End>>)[1] = tag
    BY <1>1, <1>2, <1>3
  <1> QED BY <1>3, <1>4, <1>5 DEF Spelled, Item, u, S

\* The parts of a concatenation are where they were, and after the first.
LEMMA ConcatParts ==
  ASSUME NEW S, NEW s \in Seq(S), NEW t \in Seq(S)
  PROVE  /\ Len(s \o t) = Len(s) + Len(t) /\ Len(s) \in Nat /\ Len(t) \in Nat
         /\ \A n \in 1..Len(s) : (s \o t)[n] = s[n]
         /\ \A n \in 1..Len(t) : (s \o t)[Len(s) + n] = t[n]
  OBVIOUS

\* Of two readings of the same bytes, neither has its last item begin before the other's.
LEMMA NoneBeginsEarlier ==
  ASSUME NEW P, NEW tag, End \notin P, tag # End,
         NEW u \in Seq(Symbols(P, tag)), NEW v \in Seq(Symbols(P, tag)), Whole(v),
         NEW x \in Seq(P), NEW y \in Seq(P), u \o Item(tag, x) = v \o Item(tag, y)
  PROVE  Len(u) >= Len(v)
  <1> DEFINE S == Symbols(P, tag)
             i == Item(tag, x)
             j == Item(tag, y)
             m == Len(u)
             k == Len(v)
             d == k - m
  <1>1. /\ i \in Seq(S) /\ Len(i) = Len(x) + 2 /\ i[1] = tag
        /\ \A n \in 1..Len(x) : i[n + 1] = x[n]
    <2>1. Spelled(P, tag, x)
      BY ItemIs
    <2> QED BY <2>1 DEF Spelled
  <1>2. j \in Seq(S) /\ Len(j) = Len(y) + 2
    <2>1. Spelled(P, tag, y)
      BY ItemIs
    <2> QED BY <2>1 DEF Spelled
  <1>3. m \in Nat /\ k \in Nat /\ Len(x) \in Nat /\ Len(y) \in Nat
    OBVIOUS
  <1> HIDE DEF i, j, S
  <1>4. /\ Len(u \o i) = m + Len(x) + 2 /\ Len(v \o j) = k + Len(y) + 2
        /\ \A n \in 1..Len(i) : (u \o i)[m + n] = i[n]
        /\ \A n \in 1..k : (v \o j)[n] = v[n]
    <2>1. u \in Seq(S) /\ v \in Seq(S)
      BY DEF S
    <2>0. ASSUME NEW s \in Seq(S), NEW t \in Seq(S)
          PROVE  /\ Len(s \o t) = Len(s) + Len(t)
                 /\ \A n \in 1..Len(s) : (s \o t)[n] = s[n]
                 /\ \A n \in 1..Len(t) : (s \o t)[Len(s) + n] = t[n]
      BY ConcatParts
    <2>2. /\ Len(u \o i) = Len(u) + Len(i)
          /\ \A n \in 1..Len(i) : (u \o i)[Len(u) + n] = i[n]
      BY ONLY <1>1, <2>1, <2>0, Zenon
    <2>3. /\ Len(v \o j) = Len(v) + Len(j)
          /\ \A n \in 1..Len(v) : (v \o j)[n] = v[n]
      BY ONLY <1>2, <2>1, <2>0, Zenon
    <2> QED BY <1>1, <1>2, <1>3, <2>2, <2>3
  <1>5. u \o i = v \o j
    BY DEF i, j
  <1> SUFFICES ASSUME m < k PROVE FALSE
    BY <1>3
  <1> HIDE DEF d, m, k
  <1>6. k \in 1..k /\ v # <<>> /\ v[k] = End
    BY <1>3 DEF Whole, k, m
  <1>7. d \in 1..Len(x)
    BY <1>3, <1>4, <1>5 DEF d
  <1>8. i[d] = End
    <2>1. d \in 1..Len(i) /\ m + d = k
      BY <1>1, <1>3, <1>7 DEF d
    <2>2. (u \o i)[k] = i[d]
      BY <1>4, <2>1
    <2> QED BY <1>4, <1>5, <1>6, <2>2
  <1>9. CASE d = 1
    BY <1>1, <1>8, <1>9
  <1>10. CASE d # 1
    <2>1. PICK e \in 1..Len(x) : e + 1 = d
      <3>1. d - 1 \in 1..Len(x) /\ (d - 1) + 1 = d
        BY <1>3, <1>7, <1>10
      <3> QED BY <3>1
    <2>2. i[d] = x[e] /\ x[e] \in P
      BY <1>1, <2>1
    <2> QED BY <1>8, <2>2
  <1> QED BY <1>9, <1>10

TwoReadings(P, tag, u, x, v, y) ==
  /\ End \notin P /\ tag # End
  /\ u \in Seq(Symbols(P, tag)) /\ v \in Seq(Symbols(P, tag)) /\ Whole(u) /\ Whole(v)
  /\ x \in Seq(P) /\ y \in Seq(P) /\ u \o Item(tag, x) = v \o Item(tag, y)

\* So the last item, and what precedes it, can be read off.
LEMMA LastItemTells ==
  ASSUME NEW P, NEW tag, NEW u, NEW v, NEW x, NEW y, TwoReadings(P, tag, u, x, v, y)
  PROVE  u = v /\ x = y
  <1> DEFINE i == Item(tag, x)
             j == Item(tag, y)
             m == Len(u)
             S == Symbols(P, tag)
  <1>0. /\ End \notin P /\ tag # End
        /\ u \in Seq(Symbols(P, tag)) /\ v \in Seq(Symbols(P, tag)) /\ Whole(u) /\ Whole(v)
        /\ x \in Seq(P) /\ y \in Seq(P) /\ u \o Item(tag, x) = v \o Item(tag, y)
    BY DEF TwoReadings
  <1>1. Len(u) >= Len(v) /\ Len(v) >= Len(u)
    BY <1>0, NoneBeginsEarlier
  <1>2. m = Len(v) /\ m \in Nat /\ Len(x) \in Nat /\ Len(y) \in Nat
    BY <1>0, <1>1
  <1>3. /\ i \in Seq(S) /\ Len(i) = Len(x) + 2 /\ \A n \in 1..Len(x) : i[n + 1] = x[n]
        /\ j \in Seq(S) /\ Len(j) = Len(y) + 2 /\ \A n \in 1..Len(y) : j[n + 1] = y[n]
    <2>1. Spelled(P, tag, x) /\ Spelled(P, tag, y)
      BY <1>0, ItemIs
    <2> QED BY <2>1 DEF Spelled
  <1> HIDE DEF i, j, S, m
  <1>4. /\ Len(u \o i) = m + Len(x) + 2 /\ Len(v \o j) = m + Len(y) + 2
        /\ \A n \in 1..m : (u \o i)[n] = u[n] /\ (v \o j)[n] = v[n]
        /\ \A n \in 1..Len(i) : (u \o i)[m + n] = i[n]
        /\ \A n \in 1..Len(j) : (v \o j)[m + n] = j[n]
    <2>1. u \in Seq(S) /\ v \in Seq(S)
      BY <1>0 DEF S
    <2>0. ASSUME NEW s \in Seq(S), NEW t \in Seq(S)
          PROVE  /\ Len(s \o t) = Len(s) + Len(t)
                 /\ \A n \in 1..Len(s) : (s \o t)[n] = s[n]
                 /\ \A n \in 1..Len(t) : (s \o t)[Len(s) + n] = t[n]
      BY ConcatParts
    <2>2. /\ Len(u \o i) = Len(u) + Len(i) /\ \A n \in 1..Len(u) : (u \o i)[n] = u[n]
          /\ \A n \in 1..Len(i) : (u \o i)[Len(u) + n] = i[n]
      BY ONLY <1>3, <2>1, <2>0, Zenon
    <2>3. /\ Len(v \o j) = Len(v) + Len(j) /\ \A n \in 1..Len(v) : (v \o j)[n] = v[n]
          /\ \A n \in 1..Len(j) : (v \o j)[Len(v) + n] = j[n]
      BY ONLY <1>3, <2>1, <2>0, Zenon
    <2> QED BY <1>2, <1>3, <2>2, <2>3 DEF m
  <1>5. u \o i = v \o j
    BY <1>0 DEF i, j
  <1>6. \A n \in 1..m : u[n] = v[n]
    BY <1>4, <1>5
  <1>7. Len(x) = Len(y)
    BY <1>2, <1>4, <1>5
  <1>8. \A n \in 1..Len(x) : x[n] = y[n]
    <2> TAKE n \in 1..Len(x)
    <2>1. n + 1 \in 1..Len(i) /\ n + 1 \in 1..Len(j) /\ n \in 1..Len(y)
      BY <1>2, <1>3, <1>7
    <2>2. i[n + 1] = j[n + 1]
      <3> DEFINE k == n + 1
      <3>1. (u \o i)[m + k] = i[k] /\ (v \o j)[m + k] = j[k]
        BY <1>4, <2>1
      <3> QED BY <1>5, <3>1
    <2> QED BY <1>3, <2>1, <2>2
  <1>9. u = v
    BY <1>0, <1>2, <1>6, SeqEqual DEF m
  <1>10. x = y
    BY <1>0, <1>7, <1>8, SeqEqual
  <1> QED BY <1>9, <1>10

\* The hash input of one item more.
LEMMA HashedAppend ==
  ASSUME NEW P, NEW tag, NEW a \in Seq(Seq(P)), NEW x \in Seq(P)
  PROVE  /\ Hashed(tag, a) \in Seq(Symbols(P, tag))
         /\ Hashed(tag, Append(a, x)) = Hashed(tag, a) \o Item(tag, x)
  <1> DEFINE S == Symbols(P, tag)
             items(b) == [k \in 1..Len(b) |-> Item(tag, b[k])]
             t == Append(a, x)
             n == Len(a)
  <1>0. ASSUME NEW w \in Seq(P) PROVE Item(tag, w) \in Seq(S)
    <2>1. Spelled(P, tag, w)
      BY ItemIs
    <2> QED BY <2>1 DEF Spelled
  <1>1. /\ n \in Nat /\ Len(t) = n + 1 /\ t[n + 1] = x
        /\ \A k \in 1..n : t[k] = a[k] /\ a[k] \in Seq(P)
    OBVIOUS
  <1> HIDE DEF S, n, t
  <1>2. /\ items(a) \in Seq(Seq(S)) /\ Len(items(a)) = n
        /\ \A k \in 1..n : items(a)[k] = Item(tag, a[k])
    BY <1>0, <1>1 DEF n
  <1>3. items(t) = Append(items(a), Item(tag, x))
    <2> DEFINE r == Append(items(a), Item(tag, x))
    <2>1. r \in Seq(Seq(S)) /\ Len(r) = n + 1 /\ r[n + 1] = Item(tag, x)
          /\ \A k \in 1..n : r[k] = Item(tag, a[k])
      BY <1>0, <1>2
    <2>2. \A k \in 1..(n + 1) : r[k] = Item(tag, t[k])
      <3> HIDE DEF r
      <3> TAKE k \in 1..(n + 1)
      <3>1. k = n + 1 \/ k \in 1..n
        BY <1>1
      <3> QED BY <1>1, <2>1, <3>1
    <2>3. r = [k \in 1..(n + 1) |-> r[k]]
      <3> HIDE DEF r
      <3> QED BY <2>1
    <2>4. items(t) = [k \in 1..(n + 1) |-> Item(tag, t[k])]
      BY <1>1
    <2> HIDE DEF r, items
    <2> QED BY <2>2, <2>3, <2>4 DEF r
  <1>4. /\ FlattenSeq(items(a)) \in Seq(S)
        /\ FlattenSeq(Append(items(a), Item(tag, x))) = FlattenSeq(items(a)) \o Item(tag, x)
    BY <1>0, <1>2, FlattenAppend
  <1> HIDE DEF items
  <1> QED BY <1>3, <1>4 DEF Hashed, items, S, t

Closed(P, tag, a) ==
  /\ Hashed(tag, a) \in Seq(Symbols(P, tag)) /\ Whole(Hashed(tag, a))
  /\ (Hashed(tag, a) = <<>> <=> a = <<>>)
\* Nothing is hashed of no body; otherwise the input ends with the end of an item.
LEMMA HashedIsWhole ==
  ASSUME NEW P, NEW tag, NEW a \in Seq(Seq(P))
  PROVE  Closed(P, tag, a)
  <1>1. CASE a = <<>>
    BY <1>1 DEF Closed, Hashed, FlattenSeq, Whole
  <1>2. CASE a # <<>>
    <2>1. PICK b \in Seq(Seq(P)), x \in Seq(P) : a = Append(b, x)
      BY <1>2, SequenceEmptyOrAppend
    <2> DEFINE h == Hashed(tag, b)
               i == Item(tag, x)
               S == Symbols(P, tag)
    <2>2. h \in Seq(S) /\ Hashed(tag, a) = h \o i
      BY <2>1, HashedAppend
    <2>3. i \in Seq(S) /\ Len(i) \in Nat /\ Len(i) > 0 /\ i[Len(i)] = End
      <3>0. Spelled(P, tag, x)
        BY ItemIs
      <3>1. i \in Seq(S) /\ Len(i) = Len(x) + 2 /\ i[Len(x) + 2] = End
        BY <3>0 DEF Spelled
      <3> HIDE DEF i, S
      <3>2. Len(x) \in Nat
        OBVIOUS
      <3> QED BY <3>1, <3>2
    <2> HIDE DEF h, i, S
    <2>4. /\ h \o i \in Seq(S) /\ Len(h \o i) = Len(h) + Len(i)
          /\ (h \o i)[Len(h) + Len(i)] = i[Len(i)]
      BY <2>2, <2>3
    <2>5. h \o i # <<>>
      BY <2>2, <2>3, <2>4
    <2> QED BY <1>2, <2>2, <2>3, <2>4, <2>5 DEF Closed, Whole, S
  <1> QED BY <1>1, <1>2

\* The bodies can be read off.
LEMMA HashedTells ==
  ASSUME NEW P, NEW tag, End \notin P, tag # End,
         NEW a \in Seq(Seq(P)), NEW b \in Seq(Seq(P)), Hashed(tag, a) = Hashed(tag, b)
  PROVE  a = b
  <1>00. ASSUME NEW c \in Seq(Seq(P)), NEW w \in Seq(P)
         PROVE  Hashed(tag, Append(c, w)) = Hashed(tag, c) \o Item(tag, w)
    BY HashedAppend
  <1> DEFINE T == {c \in Seq(Seq(P)) :
                     \A d \in Seq(Seq(P)) : Hashed(tag, c) = Hashed(tag, d) => c = d}
  <1>0. ASSUME NEW c \in Seq(Seq(P))
        PROVE  /\ Hashed(tag, c) \in Seq(Symbols(P, tag)) /\ Whole(Hashed(tag, c))
               /\ (Hashed(tag, c) = <<>> <=> c = <<>>)
    <2>1. Closed(P, tag, c)
      BY HashedIsWhole
    <2> QED BY <2>1 DEF Closed
  <1>1. <<>> \in T
    <2>1. <<>> \in Seq(Seq(P))
      OBVIOUS
    <2> QED BY <1>0, <2>1
  <1>2. ASSUME NEW c \in Seq(Seq(P)), c \in T, NEW x \in Seq(P) PROVE Append(c, x) \in T
    <2>1. Append(c, x) \in Seq(Seq(P)) /\ Append(c, x) # <<>>
      BY ONLY c \in Seq(Seq(P)), x \in Seq(P), AppendProperties
    <2> SUFFICES ASSUME NEW d \in Seq(Seq(P)), Hashed(tag, Append(c, x)) = Hashed(tag, d)
                 PROVE  Append(c, x) = d
      BY <2>1
    <2>2. d # <<>>
      BY <1>0, <2>1
    <2>3. PICK e \in Seq(Seq(P)), y \in Seq(P) : d = Append(e, y)
      BY <2>2, SequenceEmptyOrAppend
    <2>4. Hashed(tag, Append(c, x)) = Hashed(tag, c) \o Item(tag, x)
      BY <1>00
    <2>5. Hashed(tag, Append(e, y)) = Hashed(tag, e) \o Item(tag, y)
      BY <1>00
    <2>6. Hashed(tag, c) \o Item(tag, x) = Hashed(tag, e) \o Item(tag, y)
      BY <2>3, <2>4, <2>5
    <2>7. Hashed(tag, c) = Hashed(tag, e) /\ x = y
      <3>1. /\ Hashed(tag, c) \in Seq(Symbols(P, tag)) /\ Whole(Hashed(tag, c))
            /\ Hashed(tag, e) \in Seq(Symbols(P, tag)) /\ Whole(Hashed(tag, e))
        BY <1>0
      <3> DEFINE u == Hashed(tag, c)
                 v == Hashed(tag, e)
      <3>2. u \o Item(tag, x) = v \o Item(tag, y)
        BY <2>6
      <3> HIDE DEF u, v
      <3>3. u \in Seq(Symbols(P, tag)) /\ v \in Seq(Symbols(P, tag)) /\ Whole(u) /\ Whole(v)
        BY <3>1 DEF u, v
      <3>4. TwoReadings(P, tag, u, x, v, y)
        BY <3>2, <3>3 DEF TwoReadings
      <3>5. u = v /\ x = y
        BY <3>4, LastItemTells
      <3> QED BY <3>5 DEF u, v
    <2>8. c = e
      BY <1>2, <2>7
    <2> QED BY <2>3, <2>7, <2>8
  <1> HIDE DEF T
  <1>3. Seq(Seq(P)) \subseteq T
    BY <1>1, <1>2, SeqSetInduction
  <1> QED BY <1>3 DEF T

-----------------------------------------------------------------------------
\* What is hashed of a completion: the ids of what was said, or its strings, or the pieces
\* of its text that are not empty.

Tokens(e) == DOMAIN e.text
TokenSent(e) ==
  [t \in Tokens(e) |-> [id  |-> IF SendsIds(e) THEN t ELSE None,
                        str |-> IF e.shape = "direct" THEN <<>> ELSE e.text[t]]]
Singles(said) == [k \in 1..Len(said) |-> <<said[k]>>]
Kept(w) == IF w = <<>> THEN <<>> ELSE <<w>>
KeptPieces(e, cut) == [k \in 1..Len(cut) |-> Kept(Written(e, cut[k]))]
Pieces(e, cut) == FlattenSeq(KeptPieces(e, cut))
PrintOf(tag, bodies) == IF bodies = <<>> THEN <<>> ELSE <<Hashed(tag, bodies)>>

\* Max of two numbers.
LEMMA GreaterOfTwo ==
  ASSUME NEW m \in Nat, NEW n \in Nat
  PROVE  Max({m, n}) = IF m >= n THEN m ELSE n
  <1> DEFINE top == IF m >= n THEN m ELSE n
  <1>1. top \in {m, n} /\ \A y \in {m, n} : top >= y
    OBVIOUS
  <1>2. \A x \in {m, n} : (\A y \in {m, n} : x >= y) => x = top
    OBVIOUS
  <1> HIDE DEF top
  <1>3. Max({m, n}) = top
    BY <1>1, <1>2 DEF Max
  <1> QED BY <1>3 DEF top

\* Token by token, a chunk gives the tokens of its piece in the halves its shape has.
LEMMA ChunkTokens ==
  ASSUME NEW e, e.shape \in Shapes, e.shape # "text", NEW piece \in Seq(Tokens(e))
  PROVE  TokensOf(Chunk(e, piece)) = Mapped(TokenSent(e), piece)
  <1> DEFINE n == Len(piece)
             x == Extracted(Chunk(e, piece))
             strs == Strs(e, piece)
  <1>1. /\ n \in Nat /\ Len(strs) = n /\ (strs = <<>> <=> n = 0) /\ (piece = <<>> <=> n = 0)
        /\ \A k \in 1..n : strs[k] = e.text[piece[k]] /\ piece[k] \in Tokens(e)
    BY DEF Strs
  <1>2. /\ e.shape = "both" => Chunk(e, piece) =
             [ids |-> piece, strs |-> strs, direct |-> <<>>, text |-> <<>>]
        /\ e.shape = "strs" => Chunk(e, piece) =
             [ids |-> <<>>, strs |-> strs, direct |-> <<>>, text |-> <<>>]
        /\ e.shape = "direct" => Chunk(e, piece) =
             [ids |-> <<>>, strs |-> <<>>, direct |-> piece, text |-> <<>>]
    BY DEF Chunk, Blank
  <1> HIDE DEF strs
  <1>3. /\ x.ids = IF SendsIds(e) THEN piece ELSE <<>>
        /\ x.strs = IF e.shape = "direct" THEN <<>> ELSE strs
    BY <1>1, <1>2 DEF Extracted, Shapes, SendsIds
  <1>4. /\ Len(x.ids) = IF SendsIds(e) THEN n ELSE 0
        /\ Len(x.strs) = IF e.shape = "direct" THEN 0 ELSE n
        /\ e.shape # "direct" \/ SendsIds(e)
    BY <1>1, <1>3 DEF SendsIds
  <1> HIDE DEF x
  <1>5. Max({Len(x.ids), Len(x.strs)}) = n
    <2>1. Len(x.ids) \in Nat /\ Len(x.strs) \in Nat
      BY <1>1, <1>4
    <2> QED BY <1>1, <1>4, <2>1, GreaterOfTwo
  <1>6. TokensOf(Chunk(e, piece)) =
          [k \in 1..n |-> [id  |-> IF k <= Len(x.ids) THEN x.ids[k] ELSE None,
                           str |-> IF k <= Len(x.strs) THEN x.strs[k] ELSE <<>>]]
    BY <1>5 DEF TokensOf, x
  <1>7. \A k \in 1..n :
          [id  |-> IF k <= Len(x.ids) THEN x.ids[k] ELSE None,
           str |-> IF k <= Len(x.strs) THEN x.strs[k] ELSE <<>>]
          = TokenSent(e)[piece[k]]
    <2> TAKE k \in 1..n
    <2>1. (IF k <= Len(x.ids) THEN x.ids[k] ELSE None) = IF SendsIds(e) THEN piece[k] ELSE None
      BY <1>1, <1>3, <1>4
    <2>2. (IF k <= Len(x.strs) THEN x.strs[k] ELSE <<>>)
          = IF e.shape = "direct" THEN <<>> ELSE e.text[piece[k]]
      <3>0. k \in Nat /\ k >= 1 /\ k <= n /\ strs[k] = e.text[piece[k]]
        BY <1>1
      <3> HIDE DEF n
      <3>1. CASE e.shape = "direct"
        <4>1. ~(k <= Len(x.strs))
          BY <1>4, <3>0, <3>1
        <4> QED BY <3>1, <4>1, Zenon
      <3>2. CASE e.shape # "direct"
        <4>1. k <= Len(x.strs) /\ x.strs[k] = e.text[piece[k]]
          BY <1>3, <1>4, <3>0, <3>2
        <4> QED BY <3>2, <4>1, Zenon
      <3> QED BY <3>1, <3>2
    <2>3. TokenSent(e)[piece[k]] = [id  |-> IF SendsIds(e) THEN piece[k] ELSE None,
                                    str |-> IF e.shape = "direct" THEN <<>> ELSE e.text[piece[k]]]
      BY <1>1 DEF TokenSent
    <2> QED BY <2>1, <2>2, <2>3
  <1> QED BY <1>6, <1>7 DEF Mapped

\* A token of text alone.
TextSent == [w \in Seq(Int) |-> [id |-> None, str |-> w]]

\* A chunk of text gives one token, unless the text is empty.
LEMMA TextTokens ==
  ASSUME NEW e, e.shape = "text", NEW piece, Written(e, piece) \in Seq(Int)
  PROVE  TokensOf(Chunk(e, piece)) = Mapped(TextSent, Kept(Written(e, piece)))
  <1> DEFINE w == Written(e, piece)
             x == Extracted(Chunk(e, piece))
  <1>1. Chunk(e, piece) = [ids |-> <<>>, strs |-> <<>>, direct |-> <<>>, text |-> w]
    BY DEF Chunk, Blank
  <1> HIDE DEF w
  <1>2. x.ids = <<>> /\ x.strs = Kept(w)
    BY <1>1 DEF Extracted, Kept
  <1>3. TokensOf(Chunk(e, piece)) =
          [k \in 1..Max({Len(x.ids), Len(x.strs)}) |->
             [id  |-> IF k <= Len(x.ids) THEN x.ids[k] ELSE None,
              str |-> IF k <= Len(x.strs) THEN x.strs[k] ELSE <<>>]]
    BY DEF TokensOf
  <1> HIDE DEF x
  <1>4. CASE w = <<>>
    <2>1. Len(x.ids) = 0 /\ Len(x.strs) = 0 /\ Kept(w) = <<>>
      BY <1>2, <1>4 DEF Kept
    <2>2. Max({Len(x.ids), Len(x.strs)}) = 0
      BY <2>1, GreaterOfTwo
    <2> QED BY <1>3, <2>1, <2>2 DEF Mapped, w
  <1>5. CASE w # <<>>
    <2>1. Len(x.ids) = 0 /\ Len(x.strs) = 1 /\ Kept(w) = <<w>> /\ x.strs[1] = w
      BY <1>2, <1>5 DEF Kept
    <2>2. Max({Len(x.ids), Len(x.strs)}) = 1
      BY <2>1, GreaterOfTwo
    <2>3. TextSent[w] = [id |-> None, str |-> w]
      BY DEF TextSent, w
    <2>4. \A k \in 1..1 : [id  |-> IF k <= Len(x.ids) THEN x.ids[k] ELSE None,
                           str |-> IF k <= Len(x.strs) THEN x.strs[k] ELSE <<>>]
                          = TextSent[<<w>>[k]]
      BY <2>1, <2>3
    <2>5. Len(<<w>>) = 1
      OBVIOUS
    <2> QED BY <1>3, <2>1, <2>2, <2>4, <2>5 DEF Mapped, w
  <1> QED BY <1>4, <1>5

\* Token by token, the stream gives the tokens of what was said.
LEMMA StreamedTokens ==
  ASSUME NEW e \in Engines, NEW cut \in e.cuts, e.shape # "text"
  PROVE  /\ FlattenSeq(cut) \in Seq(Tokens(e))
         /\ Streamed([k \in 1..Len(cut) |-> Chunk(e, cut[k])])
            = Mapped(TokenSent(e), FlattenSeq(cut))
  <1> DEFINE chunks == [k \in 1..Len(cut) |-> Chunk(e, cut[k])]
             b == [k \in 1..Len(chunks) |-> TokensOf(chunks[k])]
             g == TokenSent(e)
  <1>1. cut \in Seq(Seq(Tokens(e))) /\ e.shape \in Shapes
    BY EngineAssumption DEF Tokens
  <1>2. Len(cut) \in Nat /\ \A k \in 1..Len(cut) : cut[k] \in Seq(Tokens(e))
    BY <1>1
  <1>3. Len(chunks) = Len(cut) /\ Len(b) = Len(cut)
    BY <1>2
  <1>4. \A k \in 1..Len(cut) : b[k] = Mapped(g, cut[k])
    <2> TAKE k \in 1..Len(cut)
    <2>1. b[k] = TokensOf(Chunk(e, cut[k]))
      BY <1>3
    <2>2. cut[k] \in Seq(Tokens(e))
      BY <1>2
    <2> HIDE DEF b, chunks
    <2> QED BY <1>1, <2>1, <2>2, ChunkTokens
  <1>5. Streamed(chunks) = FlattenSeq(b)
    BY DEF Streamed
  <1>6. CASE Len(cut) = 0
    <2>1. cut = <<>> /\ b = <<>>
      BY <1>1, <1>3, <1>6
    <2> HIDE DEF b, chunks
    <2>2. FlattenSeq(cut) = <<>> /\ FlattenSeq(b) = <<>>
      BY <2>1 DEF FlattenSeq
    <2>3. Mapped(g, <<>>) = <<>>
      BY DEF Mapped
    <2> HIDE DEF g
    <2> QED BY <1>5, <2>2, <2>3 DEF g, chunks
  <1>7. CASE Len(cut) # 0
    <2> HIDE DEF b, g, chunks
    <2>1. Len(cut) > 0
      BY <1>2, <1>7
    <2> DEFINE T == Tokens(e)
    <2>2. cut \in Seq(Seq(T))
      BY <1>1
    <2> HIDE DEF T
    <2>3. FlattenSeq(cut) \in Seq(T) /\ FlattenSeq(b) = Mapped(g, FlattenSeq(cut))
      BY <1>3, <1>4, <2>1, <2>2, JoinedMapped
    <2> QED BY <1>5, <2>3 DEF g, chunks, T
  <1> QED BY <1>6, <1>7

\* A completion is a sequence of tokens, however it was cut.
LEMMA SaidTokens ==
  ASSUME NEW e \in Engines, NEW cut \in e.cuts
  PROVE  FlattenSeq(cut) \in Seq(Tokens(e)) /\ cut \in Seq(Seq(Tokens(e)))
  <1>1. cut \in Seq(Seq(Tokens(e)))
    BY EngineAssumption DEF Tokens
  <1>2. CASE cut = <<>>
    BY <1>1, <1>2 DEF FlattenSeq
  <1>3. CASE cut # <<>>
    <2>1. PICK a \in Seq(Seq(Tokens(e))), x \in Seq(Tokens(e)) : cut = Append(a, x)
      BY <1>1, <1>3, SequenceEmptyOrAppend
    <2>2. /\ FlattenSeq(a) \in Seq(Tokens(e))
          /\ FlattenSeq(Append(a, x)) = FlattenSeq(a) \o x
      BY FlattenAppend
    <2> QED BY <1>1, <2>1, <2>2
  <1> QED BY <1>2, <1>3

\* The strings of a piece joined are a string over whatever the tokens are over.
LEMMA WrittenType ==
  ASSUME NEW e, NEW P, \A t \in Tokens(e) : e.text[t] \in Seq(P), NEW piece \in Seq(Tokens(e))
  PROVE  Strs(e, piece) \in Seq(Seq(P)) /\ Written(e, piece) \in Seq(P)
  <1>1. Strs(e, piece) \in Seq(Seq(P))
    BY DEF Strs
  <1>2. CASE Strs(e, piece) = <<>>
    BY <1>2, <1>1 DEF Written, FlattenSeq
  <1>3. CASE Strs(e, piece) # <<>>
    <2> DEFINE s == Strs(e, piece)
    <2> HIDE DEF s
    <2>0. s \in Seq(Seq(P)) /\ s # <<>>
      BY <1>1, <1>3 DEF s
    <2>1. PICK a \in Seq(Seq(P)), x \in Seq(P) : s = Append(a, x)
      BY <2>0, SequenceEmptyOrAppend
    <2>2. /\ FlattenSeq(a) \in Seq(P)
          /\ FlattenSeq(Append(a, x)) = FlattenSeq(a) \o x
      BY FlattenAppend
    <2> QED BY <1>1, <2>1, <2>2 DEF Written, s
  <1> QED BY <1>2, <1>3

\* The pieces that are kept are not empty, and joined they are the text of what was said.
LEMMA PiecesRead ==
  ASSUME NEW e, NEW P, \A t \in Tokens(e) : e.text[t] \in Seq(P), NEW cut \in Seq(Seq(Tokens(e)))
  PROVE  /\ KeptPieces(e, cut) \in Seq(Seq(Seq(P) \ {<<>>}))
         /\ Pieces(e, cut) \in Seq(Seq(P) \ {<<>>})
         /\ FlattenSeq(Pieces(e, cut)) = Written(e, FlattenSeq(cut))
  <1> DEFINE kept == KeptPieces(e, cut)
             c == [k \in 1..Len(cut) |-> Strs(e, cut[k])]
             N == Seq(P) \ {<<>>}
  <1>1. Len(cut) \in Nat /\ \A k \in 1..Len(cut) : cut[k] \in Seq(Tokens(e))
    OBVIOUS
  <1>2. \A k \in 1..Len(cut) : Strs(e, cut[k]) \in Seq(Seq(P)) /\ Written(e, cut[k]) \in Seq(P)
    <2> TAKE k \in 1..Len(cut)
    <2>1. cut[k] \in Seq(Tokens(e))
      BY <1>1
    <2> QED BY <2>1, WrittenType
  <1>3. \A w \in Seq(P) : Kept(w) \in Seq(N) /\ Kept(w) \in Seq(Seq(P)) /\ FlattenSeq(Kept(w)) = w
    <2> TAKE w \in Seq(P)
    <2>1. CASE w = <<>>
      BY <2>1 DEF Kept, FlattenSeq
    <2>2. CASE w # <<>>
      <3>1. Kept(w) = <<w>> /\ <<w>> = Append(<<>>, w) /\ <<>> \in Seq(Seq(P))
        BY <2>2 DEF Kept
      <3>2. FlattenSeq(Append(<<>>, w)) = FlattenSeq(<<>>) \o w
        BY <3>1, FlattenAppend
      <3>3. FlattenSeq(<<>>) = <<>>
        BY DEF FlattenSeq
      <3>4. <<>> \o w = w
        OBVIOUS
      <3>5. <<w>> \in Seq(N) /\ <<w>> \in Seq(Seq(P))
        BY <2>2
      <3>6. FlattenSeq(Kept(w)) = w
        BY <3>1, <3>2, <3>3, <3>4, Zenon
      <3> QED BY <3>1, <3>5, <3>6
    <2> QED BY <2>1, <2>2
  <1>4. kept \in Seq(Seq(N)) /\ kept \in Seq(Seq(Seq(P))) /\ Len(kept) = Len(cut)
    BY <1>1, <1>2, <1>3 DEF KeptPieces
  <1>5. Each(kept) = Each(c)
    <2>1. Len(c) = Len(cut) /\ Len(kept) = Len(cut)
      BY <1>1, <1>4
    <2>2. \A k \in 1..Len(cut) : FlattenSeq(kept[k]) = FlattenSeq(c[k])
      <3> TAKE k \in 1..Len(cut)
      <3>1. kept[k] = Kept(Written(e, cut[k])) /\ c[k] = Strs(e, cut[k])
        BY DEF KeptPieces
      <3> HIDE DEF kept, c
      <3>2. FlattenSeq(kept[k]) = Written(e, cut[k])
        BY <1>2, <1>3, <3>1
      <3> QED BY <3>1, <3>2 DEF Written
    <2> HIDE DEF kept, c
    <2> QED BY <2>1, <2>2 DEF Each
  <1>6. c \in Seq(Seq(Seq(P)))
    BY <1>1, <1>2
  <1> HIDE DEF kept, c
  <1>7. FlattenSeq(FlattenSeq(kept)) = FlattenSeq(FlattenSeq(c))
    <2>1. FlattenSeq(FlattenSeq(kept)) = FlattenSeq(Each(kept))
      BY <1>4, FlattenTwice
    <2>2. FlattenSeq(FlattenSeq(c)) = FlattenSeq(Each(c))
      BY <1>6, FlattenTwice
    <2> QED BY <1>5, <2>1, <2>2
  <1>8. FlattenSeq(c) = Strs(e, FlattenSeq(cut))
    <2>1. CASE Len(cut) = 0
      <3>1. cut = <<>> /\ c = <<>>
        BY <2>1 DEF c
      <3>2. FlattenSeq(cut) = <<>> /\ FlattenSeq(c) = <<>>
        BY <3>1 DEF FlattenSeq
      <3>3. Strs(e, <<>>) = <<>>
        BY DEF Strs
      <3> QED BY <3>2, <3>3
    <2>2. CASE Len(cut) # 0
      <3>1. Len(cut) > 0 /\ Len(c) = Len(cut)
        BY <1>1, <2>2 DEF c
      <3>2. \A k \in 1..Len(cut) : c[k] = Mapped(e.text, cut[k])
        BY DEF c, Mapped, Strs
      <3>3. FlattenSeq(c) = Mapped(e.text, FlattenSeq(cut))
        BY <3>1, <3>2, JoinedMapped
      <3> QED BY <3>3 DEF Mapped, Strs
    <2> QED BY <2>1, <2>2
  <1>9. FlattenSeq(kept) \in Seq(N)
    <2> HIDE DEF N
    <2>1. <<>> \in Seq(N)
      OBVIOUS
    <2> QED BY <1>4, <2>1, FlattenAppend
  <1> QED BY <1>4, <1>7, <1>8, <1>9 DEF Pieces, Written, kept, N

\* The record of a completion, and the bodies its print is of.
Reduced(e, cut) ==
  LET r == Record(e, cut)
  IN  /\ r.said = FlattenSeq(cut) /\ r.said \in Seq(Tokens(e))
      /\ r.text = Written(e, r.said)
      /\ SendsIds(e) => r.print = PrintOf(IdTag, Singles(r.said))
      /\ e.shape = "strs" => r.print = PrintOf(StrTag, Strs(e, r.said))
      /\ e.shape = "text" => r.print = PrintOf(StrTag, Pieces(e, cut))

\* A stream of tokens is hashed token by token.
LEMMA TokensPrinted ==
  ASSUME NEW e \in Engines, NEW cut \in e.cuts, e.shape # "text"
  PROVE  Reduced(e, cut)
  <1> DEFINE said == FlattenSeq(cut)
             chunks == [k \in 1..Len(cut) |-> Chunk(e, cut[k])]
             s == Streamed(chunks)
             n == Len(said)
  <1>1. /\ Record(e, cut).said = said /\ Record(e, cut).print = Fingerprint(chunks)
        /\ Record(e, cut).text = Written(e, said)
    BY DEF Record
  <1>2. said \in Seq(Tokens(e)) /\ s = Mapped(TokenSent(e), said)
    BY StreamedTokens
  <1>3. Fingerprint(chunks) =
          IF s = <<>> THEN <<>>
          ELSE IF \A k \in 1..Len(s) : s[k].id # None
               THEN <<Hashed(IdTag, [k \in 1..Len(s) |-> <<s[k].id>>])>>
               ELSE <<Hashed(StrTag, [k \in 1..Len(s) |-> s[k].str])>>
    BY DEF Fingerprint
  <1>0. e.shape \in Shapes
    BY EngineAssumption
  <1> HIDE DEF said, chunks, s
  <1>4. /\ n \in Nat /\ Len(s) = n /\ (s = <<>> <=> n = 0) /\ (said = <<>> <=> n = 0)
        /\ \A k \in 1..n : s[k] = TokenSent(e)[said[k]] /\ said[k] \in Tokens(e)
    BY <1>2 DEF Mapped
  <1>5. \A k \in 1..n : /\ s[k].id = IF SendsIds(e) THEN said[k] ELSE None
                        /\ ~SendsIds(e) => s[k].str = e.text[said[k]]
                        /\ said[k] # None
    <2>1. \A t \in Tokens(e) : /\ TokenSent(e)[t].id = IF SendsIds(e) THEN t ELSE None
                               /\ ~SendsIds(e) => TokenSent(e)[t].str = e.text[t]
                               /\ t # None
      BY EngineAssumption DEF TokenSent, SendsIds, Tokens
    <2> HIDE DEF n
    <2> QED BY <1>4, <2>1
  <1>6. CASE n = 0
    <2>1. Fingerprint(chunks) = <<>> /\ said = <<>>
      BY <1>3, <1>4, <1>6
    <2>2. Singles(<<>>) = <<>> /\ Strs(e, <<>>) = <<>>
      BY DEF Singles, Strs
    <2>3. PrintOf(IdTag, Singles(said)) = <<>> /\ PrintOf(StrTag, Strs(e, said)) = <<>>
      BY <2>1, <2>2 DEF PrintOf
    <2> QED BY <1>1, <1>2, <2>1, <2>3 DEF Reduced, said
  <1>7. CASE n # 0 /\ SendsIds(e)
    <2>1. \A k \in 1..Len(s) : s[k].id # None
      BY <1>4, <1>5, <1>7
    <2>2. [k \in 1..Len(s) |-> <<s[k].id>>] = Singles(said)
      BY <1>4, <1>5, <1>7 DEF Singles
    <2>3. Fingerprint(chunks) = <<Hashed(IdTag, Singles(said))>>
      BY <1>3, <1>4, <1>7, <2>1, <2>2, Zenon
    <2>4. Singles(said) # <<>>
      <3>1. Len(Singles(said)) = n
        BY <1>4 DEF Singles
      <3> QED BY <1>7, <3>1
    <2>5. PrintOf(IdTag, Singles(said)) = <<Hashed(IdTag, Singles(said))>>
      BY <2>4 DEF PrintOf
    <2>6. e.shape # "strs"
      BY <1>7 DEF SendsIds
    <2> QED BY <1>1, <1>2, <2>3, <2>5, <2>6 DEF Reduced, said
  <1>8. CASE n # 0 /\ ~SendsIds(e)
    <2>1. ~\A k \in 1..Len(s) : s[k].id # None
      <3>1. 1 \in 1..n
        BY <1>4, <1>8
      <3> QED BY <1>4, <1>5, <1>8, <3>1
    <2>2. [k \in 1..Len(s) |-> s[k].str] = Strs(e, said)
      BY <1>4, <1>5, <1>8 DEF Strs
    <2>3. Fingerprint(chunks) = <<Hashed(StrTag, Strs(e, said))>>
      BY <1>3, <1>4, <1>8, <2>1, <2>2, Zenon
    <2>4. Strs(e, said) # <<>>
      <3>1. Len(Strs(e, said)) = n
        BY <1>4 DEF Strs
      <3> QED BY <1>8, <3>1
    <2>5. PrintOf(StrTag, Strs(e, said)) = <<Hashed(StrTag, Strs(e, said))>>
      BY <2>4 DEF PrintOf
    <2> QED BY <1>1, <1>2, <1>8, <2>3, <2>5 DEF Reduced, said
  <1> QED BY <1>6, <1>7, <1>8

\* A stream of text is hashed piece by piece.
LEMMA TextPrinted ==
  ASSUME NEW e \in Engines, NEW cut \in e.cuts, e.shape = "text"
  PROVE  Reduced(e, cut)
  <1> DEFINE said == FlattenSeq(cut)
             chunks == [k \in 1..Len(cut) |-> Chunk(e, cut[k])]
             b == [k \in 1..Len(chunks) |-> TokensOf(chunks[k])]
             s == Streamed(chunks)
             kept == KeptPieces(e, cut)
             w == Pieces(e, cut)
  <1>0. (\A t \in Tokens(e) : e.text[t] \in Seq(Int)) /\ cut \in Seq(Seq(Tokens(e)))
    BY EngineAssumption DEF Tokens
  <1>1. /\ Record(e, cut).said = said /\ Record(e, cut).print = Fingerprint(chunks)
        /\ Record(e, cut).text = Written(e, said)
    BY DEF Record
  <1>2. said \in Seq(Tokens(e))
    BY SaidTokens
  <1>3. Fingerprint(chunks) =
          IF s = <<>> THEN <<>>
          ELSE IF \A k \in 1..Len(s) : s[k].id # None
               THEN <<Hashed(IdTag, [k \in 1..Len(s) |-> <<s[k].id>>])>>
               ELSE <<Hashed(StrTag, [k \in 1..Len(s) |-> s[k].str])>>
    BY DEF Fingerprint
  <1>4. kept \in Seq(Seq(Seq(Int) \ {<<>>})) /\ w \in Seq(Seq(Int) \ {<<>>})
    BY <1>0, PiecesRead
  <1>5. Len(cut) \in Nat /\ Len(b) = Len(cut) /\ Len(kept) = Len(cut)
    BY <1>0 DEF KeptPieces
  <1>6. \A k \in 1..Len(cut) : b[k] = Mapped(TextSent, kept[k])
    <2> TAKE k \in 1..Len(cut)
    <2>1. b[k] = TokensOf(Chunk(e, cut[k])) /\ kept[k] = Kept(Written(e, cut[k]))
      BY <1>5 DEF KeptPieces
    <2>2. cut[k] \in Seq(Tokens(e))
      BY <1>0
    <2>3. Written(e, cut[k]) \in Seq(Int)
      BY <1>0, <2>2, WrittenType
    <2> HIDE DEF b, kept
    <2> QED BY <2>1, <2>3, TextTokens
  <1>7. s = FlattenSeq(b) /\ w = FlattenSeq(kept)
    BY DEF Streamed, Pieces
  <1> HIDE DEF said, chunks, s, b, kept, w
  <1>8. s = Mapped(TextSent, w)
    <2>1. CASE Len(cut) = 0
      <3>1. b = <<>> /\ kept = <<>>
        BY <1>4, <1>5, <2>1 DEF b
      <3>2. s = <<>> /\ w = <<>>
        BY <1>7, <3>1 DEF FlattenSeq
      <3> QED BY <3>2 DEF Mapped
    <2>2. CASE Len(cut) # 0
      <3> DEFINE N == Seq(Int) \ {<<>>}
      <3>1. Len(kept) > 0 /\ kept \in Seq(Seq(N))
        BY <1>4, <1>5, <2>2
      <3> HIDE DEF N
      <3> QED BY <1>5, <1>6, <1>7, <3>1, JoinedMapped
    <2> QED BY <2>1, <2>2
  <1>9. /\ Len(w) \in Nat /\ Len(s) = Len(w) /\ (s = <<>> <=> w = <<>>)
        /\ (w # <<>> => Len(w) > 0)
        /\ \A k \in 1..Len(w) : s[k].id = None /\ s[k].str = w[k]
    <2>1. \A k \in 1..Len(w) : TextSent[w[k]] = [id |-> None, str |-> w[k]]
      BY <1>4 DEF TextSent
    <2>2. Len(w) \in Nat /\ (w # <<>> => Len(w) > 0) /\ (w = <<>> => Len(w) = 0)
      BY <1>4
    <2>3. s = [k \in 1..Len(w) |-> TextSent[w[k]]]
      BY <1>8 DEF Mapped
    <2>4. \A k \in 1..Len(w) : s[k] = [id |-> None, str |-> w[k]]
      BY <2>1, <2>3
    <2>5. Len(s) = Len(w) /\ (s = <<>> <=> Len(w) = 0)
      BY <2>2, <2>3
    <2>6. s = <<>> <=> w = <<>>
      BY <2>2, <2>5
    <2>7. \A k \in 1..Len(w) : s[k].id = None /\ s[k].str = w[k]
      <3> TAKE k \in 1..Len(w)
      <3>1. s[k] = [id |-> None, str |-> w[k]]
        BY <2>4
      <3> QED BY <3>1
    <2> QED BY <2>2, <2>5, <2>6, <2>7
  <1>10. CASE w = <<>>
    <2>1. Fingerprint(chunks) = <<>> /\ PrintOf(StrTag, w) = <<>>
      BY <1>3, <1>9, <1>10 DEF PrintOf
    <2> QED BY <1>1, <1>2, <2>1 DEF Reduced, SendsIds, said, w
  <1>11. CASE w # <<>>
    <2>1. ~\A k \in 1..Len(s) : s[k].id # None
      <3>1. 1 \in 1..Len(w)
        BY <1>9, <1>11
      <3> QED BY <1>9, <3>1
    <2>2. [k \in 1..Len(s) |-> s[k].str] = w
      <3>1. w = [k \in 1..Len(w) |-> w[k]]
        BY <1>4
      <3> QED BY <1>9, <3>1
    <2>3. Fingerprint(chunks) = <<Hashed(StrTag, w)>>
      BY <1>3, <1>9, <1>11, <2>1, <2>2, Zenon
    <2>4. PrintOf(StrTag, w) = <<Hashed(StrTag, w)>>
      BY <1>11 DEF PrintOf
    <2> QED BY <1>1, <1>2, <2>3, <2>4 DEF Reduced, SendsIds, said, w
  <1> QED BY <1>10, <1>11

\* So the record of every completion is as said.
LEMMA RecordPrinted ==
  ASSUME NEW e \in Engines, NEW cut \in e.cuts
  PROVE  Reduced(e, cut)
  BY TokensPrinted, TextPrinted

\* Two prints are the same when the bodies are, and only then.
LEMMA PrintsTell ==
  ASSUME NEW P, NEW tag, End \notin P, tag # End,
         NEW a \in Seq(Seq(P)), NEW b \in Seq(Seq(P))
  PROVE  /\ PrintOf(tag, a) = PrintOf(tag, b) => a = b
         /\ PrintOf(tag, a) = <<>> <=> a = <<>>
  <1>1. \A x : <<x>> # <<>>
    OBVIOUS
  <1>2. \A x, y : <<x>> = <<y>> => x = y
    OBVIOUS
  <1>3. Hashed(tag, a) = Hashed(tag, b) => a = b
    BY HashedTells
  <1> QED BY <1>1, <1>2, <1>3 DEF PrintOf

\* Ids are told apart one by one.
LEMMA SinglesTell ==
  ASSUME NEW S, NEW a \in Seq(S), NEW b \in Seq(S)
  PROVE  /\ Singles(a) \in Seq(Seq(S)) /\ (Singles(a) = <<>> <=> a = <<>>)
         /\ Singles(a) = Singles(b) => a = b
  <1>1. Singles(a) \in Seq(Seq(S)) /\ Len(Singles(a)) = Len(a) /\ Len(Singles(b)) = Len(b)
    BY DEF Singles
  <1>2. Singles(a) = <<>> <=> a = <<>>
    BY <1>1
  <1>3. ASSUME Singles(a) = Singles(b) PROVE a = b
    <2>1. \A k \in 1..Len(a) : Singles(a)[k] = <<a[k]>>
      BY DEF Singles
    <2>2. \A k \in 1..Len(b) : Singles(b)[k] = <<b[k]>>
      BY DEF Singles
    <2>3. Len(a) = Len(b)
      BY <1>1, <1>3
    <2>4. \A k \in 1..Len(a) : <<a[k]>> = <<b[k]>>
      BY <1>3, <2>1, <2>2, <2>3
    <2>5. \A k \in 1..Len(a) : a[k] = b[k]
      <3>1. \A x, y : <<x>> = <<y>> => x = y
        OBVIOUS
      <3> QED BY <2>4, <3>1
    <2> QED BY <2>3, <2>5, SeqEqual
  <1> QED BY <1>1, <1>2, <1>3

\* A sequence without a value.
LEMMA NoneOfThese ==
  ASSUME NEW S, NEW x \in Seq(S), NEW v, v \notin ToSet(x)
  PROVE  x \in Seq(S \ {v})
  <1>1. Len(x) \in Nat /\ DOMAIN x = 1..Len(x) /\ \A k \in 1..Len(x) : x[k] \in S
    OBVIOUS
  <1>2. \A k \in 1..Len(x) : x[k] # v
    BY <1>1 DEF ToSet
  <1> QED BY <1>1, <1>2

\* What may be concluded from the prints of two completions of one build.
LEMMA TwoTell ==
  ASSUME NEW e \in Engines, NEW p \in e.cuts, NEW q \in e.cuts
  PROVE  LET r == Record(e, p)
             s == Record(e, q)
         IN  /\ SendsIds(e) => (r.print = s.print <=> r.said = s.said)
             /\ Legible(e) => (r.print = s.print => r.text = s.text \/ SendsIds(e))
             /\ e.shape # "text" => (r.said = s.said => r.print = s.print)
             /\ r.print = <<>> <=> IF e.shape = "text" THEN r.text = <<>> ELSE r.said = <<>>
  <1> DEFINE r == Record(e, p)
             s == Record(e, q)
             T == Tokens(e)
  <1>0. /\ T \subseteq Nat /\ e.shape \in Shapes
        /\ \A t \in T : e.text[t] \in Seq(Int)
        /\ p \in Seq(Seq(T)) /\ q \in Seq(Seq(T))
    BY EngineAssumption DEF Tokens
  <1>1. Reduced(e, p) /\ Reduced(e, q)
    BY RecordPrinted
  <1>2. /\ r.said \in Seq(T) /\ s.said \in Seq(T)
        /\ r.said = FlattenSeq(p) /\ s.said = FlattenSeq(q)
        /\ r.text = Written(e, r.said) /\ s.text = Written(e, s.said)
        /\ SendsIds(e) => /\ r.print = PrintOf(IdTag, Singles(r.said))
                          /\ s.print = PrintOf(IdTag, Singles(s.said))
        /\ e.shape = "strs" => /\ r.print = PrintOf(StrTag, Strs(e, r.said))
                               /\ s.print = PrintOf(StrTag, Strs(e, s.said))
        /\ e.shape = "text" => /\ r.print = PrintOf(StrTag, Pieces(e, p))
                               /\ s.print = PrintOf(StrTag, Pieces(e, q))
    BY <1>1 DEF Reduced
  <1>3. SendsIds(e) \/ e.shape = "strs" \/ e.shape = "text"
    BY <1>0 DEF Shapes, SendsIds
  <1>4. ~(SendsIds(e) /\ e.shape \in {"strs", "text"})
    BY DEF SendsIds
  <1> HIDE DEF r, s
  <1>5. CASE SendsIds(e)
    <2>1. r.said \in Seq(Nat) /\ s.said \in Seq(Nat)
      BY <1>0, <1>2
    <2>2. /\ Singles(r.said) \in Seq(Seq(Nat)) /\ Singles(s.said) \in Seq(Seq(Nat))
          /\ Singles(r.said) = <<>> <=> r.said = <<>>
          /\ Singles(r.said) = Singles(s.said) => r.said = s.said
      BY <2>1, SinglesTell
    <2>3. End \notin Nat /\ IdTag # End
      BY DEF End, IdTag
    <2>4. /\ PrintOf(IdTag, Singles(r.said)) = PrintOf(IdTag, Singles(s.said))
               => Singles(r.said) = Singles(s.said)
          /\ PrintOf(IdTag, Singles(r.said)) = <<>> <=> Singles(r.said) = <<>>
      BY <2>2, <2>3, PrintsTell
    <2> QED BY <1>2, <1>4, <1>5, <2>2, <2>4 DEF r, s
  <1>6. CASE e.shape = "strs"
    <2>1. Strs(e, r.said) = <<>> <=> r.said = <<>>
      <3>1. Len(Strs(e, r.said)) = Len(r.said)
        BY <1>2 DEF Strs
      <3> QED BY <1>2, <3>1 DEF Strs
    <2>2. PrintOf(StrTag, Strs(e, r.said)) = <<>> <=> Strs(e, r.said) = <<>>
      <3>1. \A x : <<x>> # <<>>
        OBVIOUS
      <3> QED BY <3>1 DEF PrintOf
    <2>3. ASSUME Legible(e), r.print = s.print PROVE r.text = s.text
      <3> DEFINE P == Int \ {End}
      <3>1. \A t \in T : e.text[t] \in Seq(P)
        BY <1>0, <2>3, NoneOfThese DEF Legible, Tokens
      <3>2. End \notin P /\ StrTag # End
        BY DEF End, StrTag
      <3> HIDE DEF P
      <3>3. Strs(e, r.said) \in Seq(Seq(P)) /\ Strs(e, s.said) \in Seq(Seq(P))
        BY <1>2, <3>1, WrittenType
      <3>4. Strs(e, r.said) = Strs(e, s.said)
        <4>1. PrintOf(StrTag, Strs(e, r.said)) = PrintOf(StrTag, Strs(e, s.said))
          BY <1>2, <1>6, <2>3
        <4> QED BY <3>2, <3>3, <4>1, PrintsTell
      <3> QED BY <1>2, <3>4 DEF Written
    <2> QED BY <1>2, <1>4, <1>6, <2>1, <2>2, <2>3 DEF r, s
  <1>7. CASE e.shape = "text"
    <2>1. /\ Pieces(e, p) \in Seq(Seq(Int) \ {<<>>}) /\ FlattenSeq(Pieces(e, p)) = r.text
          /\ FlattenSeq(Pieces(e, q)) = s.text
      BY <1>0, <1>2, PiecesRead
    <2>2. Pieces(e, p) = <<>> <=> r.text = <<>>
      <3>1. CASE Pieces(e, p) = <<>>
        BY <2>1, <3>1 DEF FlattenSeq
      <3>2. CASE Pieces(e, p) # <<>>
        <4> DEFINE w == Pieces(e, p)
        <4>1. PICK b \in Seq(Seq(Int) \ {<<>>}), x \in Seq(Int) \ {<<>>} : w = Append(b, x)
          BY <2>1, <3>2, SequenceEmptyOrAppend
        <4>2. b \in Seq(Seq(Int)) /\ x \in Seq(Int) /\ Len(x) \in Nat /\ Len(x) > 0
          OBVIOUS
        <4>3. FlattenSeq(b) \in Seq(Int) /\ FlattenSeq(Append(b, x)) = FlattenSeq(b) \o x
          BY <4>2, FlattenAppend
        <4>4. Len(FlattenSeq(b) \o x) = Len(FlattenSeq(b)) + Len(x) /\ Len(FlattenSeq(b)) \in Nat
          BY <4>2, <4>3
        <4>5. FlattenSeq(b) \o x # <<>>
          BY <4>2, <4>4
        <4> QED BY <2>1, <3>2, <4>1, <4>3, <4>5
      <3> QED BY <3>1, <3>2
    <2>3. PrintOf(StrTag, Pieces(e, p)) = <<>> <=> Pieces(e, p) = <<>>
      <3>1. \A x : <<x>> # <<>>
        OBVIOUS
      <3> QED BY <3>1 DEF PrintOf
    <2>4. ASSUME Legible(e), r.print = s.print PROVE r.text = s.text
      <3> DEFINE P == Int \ {End}
      <3>1. \A t \in T : e.text[t] \in Seq(P)
        BY <1>0, <2>4, NoneOfThese DEF Legible, Tokens
      <3>2. End \notin P /\ StrTag # End
        BY DEF End, StrTag
      <3> HIDE DEF P
      <3>3. Pieces(e, p) \in Seq(Seq(P) \ {<<>>}) /\ Pieces(e, q) \in Seq(Seq(P) \ {<<>>})
        BY <1>0, <3>1, PiecesRead
      <3>4. Pieces(e, p) \in Seq(Seq(P)) /\ Pieces(e, q) \in Seq(Seq(P))
        BY <3>3
      <3>5. Pieces(e, p) = Pieces(e, q)
        <4>1. PrintOf(StrTag, Pieces(e, p)) = PrintOf(StrTag, Pieces(e, q))
          BY <1>2, <1>7, <2>4
        <4> QED BY <3>2, <3>4, <4>1, PrintsTell
      <3> QED BY <2>1, <3>5
    <2> QED BY <1>2, <1>4, <1>7, <2>2, <2>3, <2>4 DEF r, s
  <1> QED BY <1>3, <1>5, <1>6, <1>7

\* Every result is the record of a completion of the build.
PrintInv ==
  /\ engine \in Engines /\ DOMAIN results = Request
  /\ \A i \in Request : results[i] # None =>
       \E cut \in engine.cuts : results[i] = Record(engine, cut)

\* No result is printed at first.
LEMMA InitPrint == Init => PrintInv
  BY DEF Init, PrintInv

\* A result is stored with its print, and stays.
LEMMA NextPrint == PrintInv /\ [Next]_vars => PrintInv'
  <1> SUFFICES ASSUME PrintInv, [Next]_vars PROVE PrintInv'
    OBVIOUS
  <1>1. UNCHANGED <<call, engine>> /\ Request' = Request
    BY DEF Next, MainStep, Converged, ConvergeProbe, ScrapeBefore, StartWorkers, Release, Join,
           ScrapeAfter, Write, WorkerStep, Arrive, Ask, Answered, Errored, Leave, Count, vars,
           knobs, Request
  <1>2. CASE UNCHANGED results
    BY <1>1, <1>2 DEF PrintInv
  <1>3. ASSUME NEW w \in Worker, Answered(w) PROVE PrintInv'
    <2>1. PICK cut \in engine.cuts :
            results' = [results EXCEPT ![Head(slice[w])] = Record(engine, cut)]
      BY <1>3 DEF Answered
    <2> DEFINE new == Record(engine, cut)
    <2>2. DOMAIN results' = Request /\ \A i \in Request : results'[i] \in {results[i], new}
      BY <2>1 DEF PrintInv
    <2>3. \A i \in Request : results'[i] # None =>
            \E c \in engine.cuts : results'[i] = Record(engine, c)
      <3> TAKE i \in Request
      <3>1. CASE results'[i] = new
        BY <3>1
      <3>2. CASE results'[i] = results[i]
        BY <3>2 DEF PrintInv
      <3> QED BY <2>2, <3>1, <3>2
    <2> QED BY <1>1, <2>2, <2>3 DEF PrintInv
  <1>4. UNCHANGED results \/ \E w \in Worker : Answered(w)
    BY DEF Next, MainStep, Converged, ConvergeProbe, ScrapeBefore, StartWorkers, Release, Join,
           ScrapeAfter, Write, WorkerStep, Arrive, Ask, Errored, Leave, Count, vars, pool
  <1> QED BY <1>2, <1>3, <1>4

\* So the results are told apart.
LEMMA PrintInvTells == PrintInv => FingerprintsTell
  <1> SUFFICES ASSUME PrintInv PROVE FingerprintsTell
    OBVIOUS
  <1>1. \A r \in Told : \E cut \in engine.cuts : r = Record(engine, cut)
    BY DEF PrintInv, Told
  <1>2. engine \in Engines
    BY DEF PrintInv
  <1>3. ASSUME NEW r \in Told, NEW s \in Told
        PROVE  /\ SendsIds(engine) => (r.print = s.print <=> r.said = s.said)
               /\ Legible(engine) => (r.print = s.print => r.text = s.text \/ SendsIds(engine))
               /\ engine.shape # "text" => (r.said = s.said => r.print = s.print)
               /\ r.print = <<>> <=> IF engine.shape = "text" THEN r.text = <<>> ELSE r.said = <<>>
    <2>1. PICK p \in engine.cuts, q \in engine.cuts : r = Record(engine, p) /\ s = Record(engine, q)
      BY <1>1
    <2> QED BY <1>2, <2>1, TwoTell
  <1> QED BY <1>3 DEF FingerprintsTell

\* What run-matrix.sh may conclude from two fingerprints: with ids, that the same was said
\* or was not; with strings, that the same text was, if none holds the end of an item; and
\* that there is no print exactly of nothing. The reduction is unfolded chunk by chunk
\* and the bytes that are hashed are read back, item by item (fingerprint_of).
THEOREM FingerprintsAreTelling == Spec => []FingerprintsTell
  <1> QED BY InitPrint, NextPrint, PrintInvTells, PTL DEF Spec
=============================================================================
