-------------------------- MODULE Tp2GuardsProofs --------------------------
(***************************************************************************)
(* For every checkpoint, size and command line: a launch of the gate is a  *)
(* launch over whole experts, heads and blocks, and its record is true.    *)
(* The arithmetic comes first, since it is what the assertions rest on.    *)
(***************************************************************************)
EXTENDS Tp2Guards, DataInduction

-----------------------------------------------------------------------------
\* Division.

\* The quotient is the one number whose multiples enclose the dividend.
LEMMA DivUnique ==
  ASSUME NEW a \in Nat, NEW b \in Nat \ {0}, NEW q \in Int, q * b <= a, a < q * b + b
  PROVE  a \div b = q
<1> DEFINE d == a \div b
<1>1. d \in Int /\ d * b <= a /\ a < d * b + b BY Z3
<1> HIDE DEF d
<1>2. d * b < (q + 1) * b /\ q * b < (d + 1) * b BY <1>1, Z3
<1>3. d < q + 1 /\ q < d + 1 BY <1>1, <1>2, Z3
<1> QED BY <1>1, <1>3 DEF d

LEMMA DivRange ==
  ASSUME NEW a \in Nat, NEW b \in Nat \ {0}
  PROVE  a \div b \in Nat /\ (a \div b) * b <= a /\ a < (a \div b) * b + b
BY Z3

\* A number that divides another is a factor of it.
LEMMA Factor ==
  ASSUME NEW a \in Nat, NEW b \in Nat \ {0}, a % b = 0
  PROVE  a \div b \in Nat /\ a = (a \div b) * b
BY Z3

\* Element i of k * m, cut over k ranks, lies on rank i \div m.
LEMMA CutEvenly ==
  ASSUME NEW k \in Nat \ {0}, NEW m \in Nat \ {0}, NEW i \in Nat
  PROVE  (i * k) \div (k * m) = i \div m
<1> DEFINE q == i \div m
<1>1. q \in Nat /\ q * m <= i /\ i < q * m + m BY DivRange
<1> HIDE DEF q
<1>2. k * m \in Nat \ {0} /\ i * k \in Nat BY Z3
<1>3. (q * m) * k <= i * k /\ i * k < (q * m + m) * k BY <1>1, Z3
<1>4. (q * m) * k = q * (k * m) /\ (q * m + m) * k = q * (k * m) + k * m BY <1>1, Z3
<1>5. q * (k * m) <= i * k /\ i * k < q * (k * m) + k * m BY <1>3, <1>4
<1>6. (i * k) \div (k * m) = q BY <1>1, <1>2, <1>5, DivUnique
<1> QED BY <1>6 DEF q

\* Dividing twice is dividing by the product.
LEMMA DivTwice ==
  ASSUME NEW i \in Nat, NEW g \in Nat \ {0}, NEW m \in Nat \ {0}
  PROVE  (i \div g) \div m = i \div (m * g)
<1> DEFINE j == i \div g
           q == j \div m
<1>1. j \in Nat /\ j * g <= i /\ i < j * g + g BY DivRange
<1>2. q \in Nat /\ q * m <= j /\ j < q * m + m BY <1>1, DivRange
<1> HIDE DEF j, q
<1>3. m * g \in Nat \ {0} BY Z3
<1>4. (q * m) * g <= j * g /\ j + 1 <= q * m + m BY <1>1, <1>2, Z3
<1>5. (j + 1) * g <= (q * m + m) * g BY <1>1, <1>2, <1>4, Z3
<1>6. (q * m) * g = q * (m * g) /\ (q * m + m) * g = q * (m * g) + m * g BY <1>2, Z3
<1>9. (j + 1) * g = j * g + g BY <1>1, Z3
<1>7. q * (m * g) <= i /\ i < q * (m * g) + m * g BY <1>1, <1>2, <1>3, <1>4, <1>5, <1>6, <1>9, Z3
<1>8. i \div (m * g) = q BY <1>2, <1>3, <1>7, DivUnique
<1> QED BY <1>8 DEF j, q

LEMMA Multiple ==
  ASSUME NEW x \in Nat, NEW b \in Nat \ {0}
  PROVE  (x * b) % b = 0
BY Z3

-----------------------------------------------------------------------------
\* What the arithmetic of the assertions means for elements.

\* An expert of E lies on the rank the plan gives it (A1, shard_plan).
LEMMA PlanOfExpert ==
  ASSUME NEW E \in Nat \ {0}, NEW n \in Nat \ {0}, E % n = 0, NEW e \in 0..(E - 1)
  PROVE  /\ E \div n > 0
         /\ Min({e \div (E \div n), n - 1}) = (e * n) \div E
         /\ (e * n) \div E \in 0..(n - 1)
<1> DEFINE s == E \div n
<1>1. s \in Nat /\ E = s * n BY Factor
<1> HIDE DEF s
<1>2. s # 0 /\ E = n * s BY <1>1, Z3
<1>3. (e * n) \div E = e \div s BY <1>1, <1>2, CutEvenly
<1> DEFINE d == e \div s
<1>4. d \in Nat /\ d * s <= e BY <1>1, <1>2, DivRange
<1> HIDE DEF d
<1>5. d * s < n * s
  <2>1. d * s < E BY <1>1, <1>4
  <2> QED BY <1>2, <2>1
<1>6. d < n BY <1>1, <1>4, <1>5, Z3
<1>7. Min({d, n - 1}) = d BY <1>4, <1>6 DEF Min
<1> QED BY <1>1, <1>2, <1>3, <1>4, <1>6, <1>7 DEF s, d

\* A query head lies on the rank of its key/value head (A4, A5).
LEMMA HeadsStayTogether ==
  ASSUME NEW q \in Nat, NEW k \in Nat \ {0}, NEW n \in Nat \ {0}, GroupsWhole(q, k, n),
         NEW i \in 0..(q - 1)
  PROVE  (i * n) \div q = ((i \div (q \div k)) * n) \div k
<1> DEFINE m == k \div n
           g == q \div k
<1>1. m \in Nat /\ k = m * n /\ g \in Nat /\ q = g * k BY Factor DEF GroupsWhole
<1> HIDE DEF m, g
<1>2. m # 0 BY <1>1, Z3
<1>3. g # 0 BY <1>1, Z3
<1>4. m * g \in Nat \ {0} BY <1>1, <1>2, <1>3, Z3
<1>5. q = n * (m * g) BY <1>1, Z3
<1>6. (i * n) \div q = i \div (m * g) BY <1>4, <1>5, CutEvenly
<1> DEFINE j == i \div g
<1>7. j \in Nat BY <1>1, <1>3, DivRange
<1> HIDE DEF j
<1>8. k = n * m BY <1>1, Z3
<1>9. (j * n) \div k = j \div m BY <1>1, <1>2, <1>7, <1>8, CutEvenly
<1>10. (i \div g) \div m = i \div (m * g)
  <2>1. i \in Nat /\ g \in Nat \ {0} /\ m \in Nat \ {0} BY <1>1, <1>2, <1>3
  <2> QED BY <2>1, DivTwice
<1> QED BY <1>6, <1>9, <1>10 DEF j, g

\* Each rank has as many of them as any other.
LEMMA EqualNumbers ==
  ASSUME NEW k \in Nat \ {0}, NEW n \in Nat \ {0}, k % n = 0, NEW r \in 0..(n - 1)
  PROVE  Cardinality({i \in 0..(k - 1) : (i * n) \div k = r}) * n = k
<1> DEFINE m == k \div n
           On == {i \in 0..(k - 1) : (i * n) \div k = r}
           here == r * m
<1>1. m \in Nat /\ k = m * n BY Factor
<1> HIDE DEF m
<1>2. m # 0 /\ k = n * m BY <1>1, Z3
<1>3. here \in Nat BY <1>1, Z3
<1>4. here + m <= k
  <2>1. (r + 1) * m <= n * m BY <1>1, Z3
  <2>2. (r + 1) * m = r * m + m BY <1>1, Z3
  <2> QED BY <1>2, <2>1, <2>2
<1>5. \A i \in 0..(k - 1) : (i * n) \div k = i \div m BY <1>1, <1>2, CutEvenly
<1>6. \A i \in Nat : i \div m = r <=> here <= i /\ i < here + m
  <2> SUFFICES ASSUME NEW i \in Nat PROVE i \div m = r <=> here <= i /\ i < here + m OBVIOUS
  <2>1. i \div m = r => here <= i /\ i < here + m BY <1>1, <1>2, DivRange
  <2>2. here <= i /\ i < here + m => i \div m = r BY <1>1, <1>2, DivUnique
  <2> QED BY <2>1, <2>2
<1> HIDE DEF here
<1>7. On = here..(here + m - 1)
  <2>1. \A i \in 0..(k - 1) : i \in On <=> here <= i /\ i < here + m BY <1>5, <1>6
  <2>2. \A i \in here..(here + m - 1) : i \in 0..(k - 1) BY <1>1, <1>3, <1>4
  <2>3. \A i \in On : i \in 0..(k - 1) OBVIOUS
  <2>4. \A i \in On : i \in here..(here + m - 1) BY <1>1, <1>3, <2>1, <2>3
  <2>5. \A i \in here..(here + m - 1) : i \in On BY <1>1, <1>3, <2>1, <2>2
  <2> HIDE DEF On
  <2> QED BY <2>4, <2>5
<1>8. Cardinality(On) = m
  <2>1. here \in Int /\ here + m - 1 \in Int /\ here <= here + m - 1 BY <1>1, <1>2, <1>3
  <2>2. Cardinality(here..(here + m - 1)) = (here + m - 1) - here + 1 BY <2>1, FS_Interval
  <2>3. (here + m - 1) - here + 1 = m BY <1>1, <1>3
  <2> QED BY <1>7, <2>2, <2>3
<1> HIDE DEF On
<1>9. Cardinality(On) * n = k BY <1>1, <1>8
<1> QED BY <1>9 DEF On, here

\* A cut between two ranks is where an element begins, and a block if they are whole (A6).
LEMMA CutAtEdge ==
  ASSUME NEW d \in Nat, NEW n \in Nat \ {0}, NEW b \in Nat \ {0}, d % n = 0, (d \div n) % b = 0,
         NEW r \in 0..n
  PROVE  \E edge \in 0..d : edge * n = r * d /\ edge % b = 0
<1> DEFINE w == d \div n
           x == w \div b
<1>1. w \in Nat /\ d = w * n BY Factor
<1>2. x \in Nat /\ w = x * b BY <1>1, Factor
<1> HIDE DEF w, x
<1>3. r * w \in Nat /\ r * w <= n * w BY <1>1, Z3
<1>4. (r * w) * n = r * d BY <1>1, Z3
<1>5. r * w = (r * x) * b /\ r * x \in Nat BY <1>1, <1>2, Z3
<1>6. (r * w) % b = 0 BY <1>5, Multiple
<1>7. n * w = d BY <1>1, Z3
<1> QED BY <1>1, <1>3, <1>4, <1>6, <1>7

-----------------------------------------------------------------------------
\* One bring-up.

\* The peer's answer is the twin's, and a verdict without failures is one on this input.
Judged ==
  /\ peer \in {None, Digest(twin, tp)}
  /\ failed = {} => Evaluable(mine, tp) /\ Failures(mine, tp, argv, peer) = {}
\* What is known at each place of the bring-up.
Ordered ==
  /\ place \in {"read", "ask", "assert"} => failed = None
  /\ place \in {"read", "ask", "assert", "report", "exit", "raise"} => ~launched
  /\ place # "over" => folded = None
  /\ place \in {"raise", "wait", "fold"} \/ launched => failed = {}
  /\ place \in {"wait", "fold"} => launched
  /\ folded # None => launched /\ folded = report
\* A report of tonight is the verdict.
Told ==
  report \in Reports("tonight") =>
    /\ place \in {"exit", "raise", "wait", "fold", "over"}
    /\ report.ok = (failed = {})
GateInv ==
  /\ mine \in {p[1] : p \in Pairs} /\ tp \in Tps
  /\ launched \in BOOLEAN
  /\ place \in {"read", "ask", "assert", "report", "exit", "raise", "wait", "fold", "over"}
  /\ Judged /\ Ordered /\ Told

LEMMA InitGate == Init => GateInv
<1> SUFFICES ASSUME Init PROVE GateInv OBVIOUS
<1>1. mine \in {p[1] : p \in Pairs} /\ tp \in Tps BY DEF Init
<1>2. report \notin Reports("tonight") BY NoneAssumption DEF Init, Reports, Torn
<1> QED BY <1>1, <1>2, NoneAssumption DEF Init, GateInv, Judged, Ordered, Told

LEMMA NextGate == GateInv /\ [Next]_vars => GateInv'
<1> SUFFICES ASSUME GateInv, [Next]_vars PROVE GateInv' OBVIOUS
<1>1. CASE Read
  BY <1>1 DEF Read, found, GateInv, Judged, Ordered, Told
<1>2. CASE AskPeer
  BY <1>2, NoneAssumption DEF AskPeer, found, GateInv, Judged, Ordered, Told
<1>3. CASE RunAssertions
  BY <1>3, NoneAssumption DEF RunAssertions, found, GateInv, Judged, Ordered, Told
<1>4. CASE WriteReport
  <2>1. GateInv!1' /\ GateInv!2' /\ GateInv!3' /\ Judged' /\ Ordered'
    BY <1>4 DEF WriteReport, found, GateInv, Judged, Ordered
  <2>2. Told'
    <3>1. report \notin Reports("tonight") BY <1>4 DEF WriteReport, GateInv, Told
    <3>2. Torn \notin Reports("tonight") BY DEF Torn, Reports
    <3> QED BY <1>4, <3>1, <3>2 DEF WriteReport, Told
  <2> QED BY <2>1, <2>2 DEF GateInv
<1>5. CASE Exit
  BY <1>5 DEF Exit, found, GateInv, Judged, Ordered, Told
<1>6. CASE Fold
  BY <1>6 DEF Fold, found, GateInv, Judged, Ordered, Told
<1>7. CASE Raise
  BY <1>7 DEF Raise, found, GateInv, Judged, Ordered, Told
<1>8. CASE AwaitServe
  BY <1>8 DEF AwaitServe, found, GateInv, Judged, Ordered, Told
<1>9. CASE Kill
  BY <1>9 DEF Kill, found, GateInv, Judged, Ordered, Told
<1>10. CASE UNCHANGED vars
  BY <1>10 DEF vars, found, GateInv, Judged, Ordered, Told
<1> QED BY <1>1, <1>2, <1>3, <1>4, <1>5, <1>6, <1>7, <1>8, <1>9, <1>10 DEF Next

\* The invariant the theorems below rest on.
THEOREM GateInvHolds == Spec => []GateInv
BY InitGate, NextGate, PTL DEF Spec

-----------------------------------------------------------------------------
\* What a launch rests on.

LEMMA LaunchIsJudged == GateInv /\ launched => failed = {}
BY DEF GateInv, Ordered

\* What a pass of the gate has found, and the size the command line asks for.
LEMMA Verdict ==
  ASSUME GateInv, failed = {}
  PROVE  /\ WellFormed(mine) /\ tp \in Nat \ {0} /\ argv.tp = tp
         /\ Evaluable(mine, tp)
         /\ A1(mine, tp) /\ A2(mine, tp) /\ A4(mine, tp) /\ A5(mine, tp) /\ A6(mine, tp)
         /\ A8(mine, tp, peer) /\ S2(mine, tp) /\ S4(mine, tp)
<1>2. Evaluable(mine, tp) /\ Failures(mine, tp, argv, peer) = {} BY DEF GateInv, Judged
<1>3. WellFormed(mine) /\ tp \in Int BY InputAssumption DEF GateInv
<1>4. tp > 0 BY <1>2 DEF Evaluable
<1>5. /\ A1(mine, tp) /\ A2(mine, tp) /\ A4(mine, tp) /\ A5(mine, tp) /\ A6(mine, tp)
      /\ A8(mine, tp, peer) /\ S1(tp, argv) /\ S2(mine, tp) /\ S4(mine, tp)
  <2> HIDE DEF A1, A2, A4, A5, A6, A8, S1, S2, S4
  <2> QED BY <1>2 DEF Failures
<1> QED BY <1>2, <1>3, <1>4, <1>5 DEF S1

\* Nothing is launched over a refusal or without a verdict, a pass of tonight was given
\* with the twin's own digest, and the receipt says nothing else (main, fold_state).
THEOREM ReceiptIsTonights == Spec => []RecordIsTonights
<1> DEFINE pass == [of |-> "tonight", ok |-> TRUE]
           refusal == [of |-> "tonight", ok |-> FALSE]
<1>1. pass \in Reports("tonight") /\ refusal \in Reports("tonight") /\ pass.ok /\ ~refusal.ok
  BY DEF Reports
<1>2. None # pass BY <1>1, NoneAssumption
<1> HIDE DEF pass, refusal
<1>3. ASSUME GateInv
      PROVE  /\ launched => report # refusal /\ Failures(mine, tp, argv, peer) = {}
             /\ pass \in {report, folded} =>
                  peer = Digest(twin, tp) /\ Failures(mine, tp, argv, peer) = {}
             /\ folded # None => launched /\ folded # refusal
  <2>1. failed = {} => Failures(mine, tp, argv, peer) = {} BY <1>3 DEF GateInv, Judged
  <2>2. report = refusal => failed # {} BY <1>1, <1>3 DEF GateInv, Told
  <2>3. report = pass => failed = {} BY <1>1, <1>3 DEF GateInv, Told
  <2>4. launched => failed = {} BY <1>3, LaunchIsJudged
  <2>5. folded # None => launched /\ folded = report BY <1>3 DEF GateInv, Ordered
  <2>6. failed = {} => peer = Digest(twin, tp)
    <3>1. failed = {} => peer # None BY <1>3, Verdict DEF A8
    <3> QED BY <1>3, <3>1 DEF GateInv, Judged
  <2> QED BY <1>2, <2>1, <2>2, <2>3, <2>4, <2>5, <2>6
<1>4. GateInv => RecordIsTonights BY <1>3 DEF RecordIsTonights, pass, refusal
<1> QED BY <1>4, GateInvHolds, PTL

\* Query and key/value heads of a launch keep together, in equal numbers.
LEMMA Together ==
  ASSUME NEW q \in Nat, NEW k \in Nat \ {0}, tp \in Nat \ {0}, argv.tp = tp, GroupsWhole(q, k, tp)
  PROVE  /\ \A i \in 0..(q - 1) : RankOf(i, q) = RankOf(i \div (q \div k), k)
         /\ \A r \in 0..(argv.tp - 1) :
              Cardinality({i \in 0..(k - 1) : RankOf(i, k) = r}) * argv.tp = k
<1>1. \A i \in 0..(q - 1) : RankOf(i, q) = RankOf(i \div (q \div k), k)
  BY HeadsStayTogether DEF RankOf
<1>2. k % tp = 0 BY DEF GroupsWhole
<1>3. \A r \in 0..(tp - 1) : Cardinality({i \in 0..(k - 1) : (i * tp) \div k = r}) * tp = k
  BY <1>2, EqualNumbers
<1> QED BY <1>1, <1>3 DEF RankOf

\* The rows of a head lie on the rank of the head, in equal numbers, where the heads are
\* dealt out in whole numbers (A4).
LEMMA RowsStayTogether ==
  ASSUME NEW h \in Nat, NEW d \in Nat, tp \in Nat \ {0}, argv.tp = tp, h % tp = 0
  PROVE  /\ \A i \in 0..(h * d - 1) : RankOf(i, h * d) = RankOf(i \div ((h * d) \div h), h)
         /\ \A r \in 0..(argv.tp - 1) :
              Cardinality({i \in 0..(h - 1) : RankOf(i, h) = r}) * argv.tp = h
<1>1. CASE h = 0
  <2>1. h * d = 0 /\ 0..(h * d - 1) = {} /\ 0..(h - 1) = {} BY <1>1, Z3
  <2>2. \A r : {i \in 0..(h - 1) : RankOf(i, h) = r} = {} BY <2>1
  <2>3. Cardinality({}) = 0 BY FS_EmptySet
  <2> QED BY <1>1, <2>1, <2>2, <2>3
<1>2. CASE h # 0
  <2> DEFINE m == h \div tp
  <2>1. m \in Nat /\ h = m * tp BY Factor
  <2> HIDE DEF m
  <2>2. m # 0 BY <1>2, <2>1, Z3
  <2>3. h * d \in Nat /\ h * d = d * h /\ h * d = tp * (d * m) /\ d * m \in Nat BY <2>1, Z3
  <2>4. (h * d) % h = 0 BY <1>2, <2>3, Multiple
  <2>5. (h * d) \div tp = d * m
    <3> DEFINE a == h * d
               q == d * m
    <3>1. q * tp = a BY <2>1, <2>3, Z3
    <3>2. a \in Nat /\ q \in Nat /\ tp \in Nat \ {0} BY <2>3
    <3> HIDE DEF a, q
    <3>3. q \in Int /\ q * tp <= a /\ a < q * tp + tp BY <3>1, <3>2
    <3>4. a \div tp = q BY <3>2, <3>3, DivUnique
    <3> QED BY <3>4 DEF a, q
  <2>6. ((h * d) \div tp) % (h \div tp) = 0 BY <2>2, <2>5, <2>1, Multiple DEF m
  <2>7. GroupsWhole(h * d, h, tp) BY <2>4, <2>6 DEF GroupsWhole
  <2> QED BY <1>2, <2>3, <2>7, Together
<1> QED BY <1>1, <1>2

\* For every checkpoint, twin, size and command line, a launch of the gate cuts heads
\* between groups, the indexer between heads, other tensors between blocks, and finds
\* both nodes alike (A4-A6, A8, S1).
THEOREM LaunchesAreWhole == Spec => []SlicesAreWhole
<1>1. ASSUME GateInv, launched
      PROVE  SlicesAreWhole
  <2>1. /\ WellFormed(mine) /\ tp \in Nat \ {0} /\ argv.tp = tp
        /\ Evaluable(mine, tp)
        /\ A4(mine, tp) /\ A5(mine, tp) /\ A6(mine, tp) /\ A8(mine, tp, peer)
    BY <1>1, LaunchIsJudged, Verdict
  <2> DEFINE x == mine.cfg
  <2>2. x.heads \in Nat /\ x.kv \in Nat /\ x.gdnK \in Nat /\ x.gdnV \in Nat
    BY <2>1 DEF WellFormed, Scalars, Evaluable
  <2>3. GroupsWhole(x.heads, x.kv, tp) /\ x.kv # 0
    BY <2>1 DEF A4, GroupsWhole, Evaluable
  <2>4. GroupsWhole(x.gdnV, x.gdnK, tp) /\ x.gdnK # 0
    BY <2>1 DEF A5, GroupsWhole, Evaluable
  <2>5. /\ \A i \in 0..(x.heads - 1) : RankOf(i, x.heads) = RankOf(i \div (x.heads \div x.kv), x.kv)
        /\ \A r \in 0..(argv.tp - 1) :
             Cardinality({i \in 0..(x.kv - 1) : RankOf(i, x.kv) = r}) * argv.tp = x.kv
    BY <2>1, <2>2, <2>3, Together
  <2>6. /\ \A i \in 0..(x.gdnV - 1) : RankOf(i, x.gdnV) = RankOf(i \div (x.gdnV \div x.gdnK), x.gdnK)
        /\ \A r \in 0..(argv.tp - 1) :
             Cardinality({i \in 0..(x.gdnK - 1) : RankOf(i, x.gdnK) = r}) * argv.tp = x.gdnK
    BY <2>1, <2>2, <2>4, Together
  <2>7. ASSUME NEW t \in Sliced(mine) \ Fused(mine), NEW r \in 1..(tp - 1)
        PROVE  CutIsAtEdge(mine, t, r)
    <3> DEFINE d == t.shape[Axis(t)]
               b == IF t.fp8 THEN mine.block[Axis(t)] ELSE 1
    <3>1. t \in mine.tensors BY DEF Sliced
    <3>2. d \in Nat BY <2>1, <3>1 DEF WellFormed, Axis
    <3>3. mine.block \in Positive \X Positive BY <2>1 DEF WellFormed, Evaluable
    <3>4. b \in Nat \ {0} BY <3>3 DEF Axis, Positive
    <3>5. d % tp = 0 /\ (d \div tp) % b = 0 BY <2>1 DEF A6
    <3>6. r \in 0..tp BY <2>1
    <3> HIDE DEF d, b
    <3>7. tp \in Nat \ {0} BY <2>1
    <3>8. \E edge \in 0..d : edge * tp = r * d /\ edge % b = 0
      BY ONLY <3>2, <3>4, <3>5, <3>6, <3>7, CutAtEdge
    <3>9. CutRows(mine, t) = d BY DEF CutRows, d
    <3> QED BY <2>1, <3>8, <3>9 DEF CutIsAtEdge, b
  <2>10. x.idxHeads \in Nat /\ x.idxDim \in Nat /\ x.idxHeads % tp = 0
    BY <2>1 DEF WellFormed, Scalars, Evaluable, A4
  <2>11. /\ \A i \in 0..(QueryRows(mine) - 1) :
              RankOf(i, QueryRows(mine)) = RankOf(i \div (QueryRows(mine) \div x.idxHeads), x.idxHeads)
         /\ \A r \in 0..(argv.tp - 1) :
              Cardinality({i \in 0..(x.idxHeads - 1) : RankOf(i, x.idxHeads) = r}) * argv.tp
                = x.idxHeads
    BY <2>1, <2>10, RowsStayTogether DEF QueryRows
  <2>12. ASSUME NEW t \in Fused(mine)
         PROVE  t.shape[1] = QueryRows(mine) + x.idxKv * x.idxDim
    <3>1. t \in mine.tensors /\ t.leaf = "index_qk_proj" BY DEF Fused, Sliced
    <3>2. t.shape[1] = (x.idxHeads + x.idxKv) * x.idxDim BY <2>1, <3>1 DEF A4
    <3>3. x.idxKv \in Nat BY <2>1 DEF WellFormed, Scalars, Evaluable
    <3>4. (x.idxHeads + x.idxKv) * x.idxDim = x.idxHeads * x.idxDim + x.idxKv * x.idxDim
      BY <2>10, <3>3, Z3
    <3> QED BY <3>2, <3>4 DEF QueryRows
  <2>8. Digest(twin, tp) = Digest(mine, tp) BY <1>1, <2>1 DEF A8, GateInv, Judged
  <2>9. /\ Schedule(mine) = Schedule(twin)
        /\ {[t EXCEPT !.bytes = 0] : t \in mine.tensors}
             = {[t EXCEPT !.bytes = 0] : t \in twin.tensors}
    BY <2>8 DEF Digest
  <2> QED BY <2>1, <2>5, <2>6, <2>7, <2>9, <2>11, <2>12 DEF SlicesAreWhole
<1>2. GateInv => SlicesAreWhole BY <1>1 DEF SlicesAreWhole
<1> QED BY <1>2, GateInvHolds, PTL

\* The ranks of a launch own the experts as the plan says.
LEMMA OneOwner == GateInv => EveryExpertHasOneOwner
<1>1. ASSUME GateInv, launched, Named(mine)
      PROVE  EveryExpertHasOneOwner
  <2>1. /\ WellFormed(mine) /\ tp \in Nat \ {0} /\ argv.tp = tp
        /\ Evaluable(mine, tp) /\ A1(mine, tp) /\ A2(mine, tp) /\ S2(mine, tp)
    BY <1>1, LaunchIsJudged, Verdict
  <2> DEFINE E == mine.cfg.experts
             held(r) == {t \in Experts(mine) : RankOf(t.expert, E) = r}
             share(s, r) == Cardinality({t \in held(r) : t.stack = s})
  <2>2. E \in Nat BY <2>1 DEF WellFormed, Scalars, Evaluable
  <2>3. \A s \in Stacks(mine) : IdsOf(mine, s) = 0..(E - 1) BY <1>1 DEF Named
  <2>4. Cardinality(0..(E - 1)) = E
    <3>1. CASE E = 0 BY <3>1, FS_EmptySet, 0..(0 - 1) = {}
    <3>2. CASE E # 0 BY <2>2, <3>2, FS_Interval
    <3> QED BY <3>1, <3>2
  <2>5. \A s \in Stacks(mine) : Cardinality(IdsOf(mine, s)) = E BY <2>3, <2>4
  <2>6. ASSUME NEW t \in Experts(mine)
        PROVE  Owner(mine, tp, t) = RankOf(t.expert, E)
    <3>1. t.stack \in Stacks(mine) /\ t.expert \in IdsOf(mine, t.stack)
      BY DEF Stacks, IdsOf
    <3>2. t.expert \in 0..(E - 1) BY <2>3, <3>1
    <3>3. E \in Nat \ {0} /\ E % tp = 0 BY <2>1, <2>2, <3>2 DEF A1
    <3> DEFINE e == t.expert
    <3>4. e \in 0..(E - 1) /\ tp \in Nat \ {0} BY <2>1, <3>2
    <3> HIDE DEF e, E
    <3>5. Min({e \div (E \div tp), tp - 1}) = (e * tp) \div E
      BY <3>3, <3>4, PlanOfExpert
    <3>6. Owner(mine, tp, t) = Min({e \div (E \div tp), tp - 1}) BY <2>5, <3>1 DEF Owner, e
    <3> QED BY <2>1, <3>5, <3>6 DEF RankOf, e
  <2>7. \A r \in 0..(tp - 1) : held(r) = Owned(mine, tp, r) BY <2>6 DEF Owned
  <2>8. \A r \in 0..(tp - 1), s \in Stacks(mine) : share(s, r) > 0 /\ share(s, r) = share(s, 0)
    <3>1. 0 \in 0..(tp - 1) BY <2>1
    <3> QED BY <2>1, <2>7, <3>1 DEF S2
  <2>9. \A t \in Experts(mine) : \E u \in mine.tensors :
          u.part = "shared" /\ u.stack = t.stack /\ u.layer = t.layer
    <3> SUFFICES ASSUME NEW t \in Experts(mine)
                 PROVE  \E u \in mine.tensors :
                          u.part = "shared" /\ u.stack = t.stack /\ u.layer = t.layer
      OBVIOUS
    <3> DEFINE layers(p) == {<<u.stack, u.layer>> : u \in {v \in mine.tensors : v.part = p}}
    <3>1. layers("expert") \subseteq layers("shared") BY <2>1 DEF A2
    <3>2. <<t.stack, t.layer>> \in layers("expert") BY DEF Experts
    <3> QED BY <3>1, <3>2
  <2>10. Cardinality(Stacks(mine)) >= 2 BY <2>1 DEF S2
  <2> HIDE DEF held, share
  <2> QED BY <2>1, <2>7, <2>8, <2>9, <2>10 DEF EveryExpertHasOneOwner, held, share
<1> QED BY <1>1 DEF EveryExpertHasOneOwner

-----------------------------------------------------------------------------
\* Bytes.

\* Bytes adds up the bytes of a set of tensors.
LEMMA BytesIsTotal ==
  ASSUME NEW S, IsFiniteSet(S), \A t \in S : t.bytes \in Int
  PROVE  Bytes(S) = Total([t \in S |-> t.bytes], S)
<1> DEFINE w == [t \in S |-> t.bytes]
           Sums(f) == f = [s \in SUBSET S |->
                             IF s = {} THEN 0 ELSE Some(s).bytes + f[s \ {Some(s)}]]
           iter == CHOOSE f : Sums(f)
<1>1. \A f : Sums(f) <=> Adds(f, w, S)
  <2> TAKE f
  <2>1. \A s \in SUBSET S : s # {} => w[Some(s)] = Some(s).bytes
    BY SomeIsIn
  <2> HIDE DEF w
  <2> QED BY <2>1 DEF Adds
<1>2. w \in [S -> Int]
  OBVIOUS
<1>3. \E f : Sums(f)
  <2>1. \E f : Adds(f, w, S)
    BY AddsExists
  <2> HIDE DEF w, Sums
  <2> QED BY <1>1, <2>1
<1>4. Adds(iter, w, S)
  <2> HIDE DEF Sums, w
  <2> QED BY <1>1, <1>3
<1>5. Bytes(S) = iter[S]
  BY DEF Bytes, MapThenSumSet, MapThenFoldSet, Some
<1>6. iter[S] = Total(w, S)
  <2> HIDE DEF w, iter
  <2> QED BY <1>2, <1>4, TotalOf
<1> QED BY <1>5, <1>6

\* A multiple divided by its factor.
LEMMA MultipleDiv ==
  ASSUME NEW b \in Int, NEW n \in Nat \ {0}
  PROVE  (n * b) \div n = b
BY Z3

\* A set dealt out to n ranks in parts of equal weight weighs n of them.
LEMMA EqualParts ==
  ASSUME NEW S, IsFiniteSet(S), NEW w \in [S -> Int], NEW n \in Nat \ {0}, NEW rank \in [S -> 0..(n - 1)],
         NEW b \in Int, \A r \in 0..(n - 1) : Total(w, OfClass(S, rank, r)) = b
  PROVE  Total(w, S) = n * b
<1> DEFINE upto(m) == {t \in S : rank[t] < m}
           on(m) == OfClass(S, rank, m)
           T == {m \in Nat : m <= n => Total(w, upto(m)) = m * b}
<1> USE DEF OfClass
<1>1. 0 \in T
  <2>1. upto(0) = {}
    OBVIOUS
  <2>2. 0 * b = 0
    BY Z3
  <2> QED BY <2>1, <2>2, TotalEmpty
<1>2. ASSUME NEW m \in Nat, m \in T PROVE m + 1 \in T
  <2> SUFFICES ASSUME m + 1 <= n PROVE Total(w, upto(m + 1)) = (m + 1) * b
    OBVIOUS
  <2>1. upto(m + 1) = upto(m) \cup on(m) /\ upto(m) \cap on(m) = {}
    OBVIOUS
  <2>2. upto(m) \in SUBSET S /\ on(m) \in SUBSET S
    OBVIOUS
  <2>3. Total(w, upto(m)) = m * b /\ Total(w, on(m)) = b
    BY <1>2
  <2> HIDE DEF upto, on
  <2>4. Total(w, upto(m + 1)) = m * b + b
    BY <2>1, <2>2, <2>3, TotalUnion
  <2>5. (m + 1) * b = m * b + b
    BY Z3
  <2> QED BY <2>4, <2>5
<1>3. Nat \subseteq T
  <2> HIDE DEF T
  <2> QED BY <1>1, <1>2, SetInduction
<1>4. upto(n) = S
  OBVIOUS
<1>5. Total(w, upto(n)) = n * b
  BY <1>3
<1> QED BY <1>4, <1>5

\* Where the shares are equal in number and the experts of a stack in size, each rank
\* holds the part of the bytes that the guard has predicted (S4).
LEMMA RanksFitTheBound == GateInv => RanksFit
<1> SUFFICES ASSUME GateInv, launched, Named(mine), Uniform(mine), NEW r \in 0..(argv.tp - 1)
             PROVE  Bytes({t \in Experts(mine) : RankOf(t.expert, mine.cfg.experts) = r})
                      + Bytes(Replicated(mine)) + Kv <= Bound
  BY DEF RanksFit
<1> DEFINE E == mine.cfg.experts
           X == Experts(mine)
           held(q) == {t \in X : RankOf(t.expert, E) = q}
           w == [t \in X |-> t.bytes]
           b == Total(w, held(0))
<1>1. /\ WellFormed(mine) /\ tp \in Nat \ {0} /\ argv.tp = tp
      /\ Evaluable(mine, tp) /\ A1(mine, tp) /\ S4(mine, tp)
  BY LaunchIsJudged, Verdict
<1>2. IsFiniteSet(X) /\ w \in [X -> Int] /\ (\A t \in X : t.bytes \in Int)
  <2>1. X \in SUBSET mine.tensors /\ IsFiniteSet(mine.tensors)
    BY <1>1 DEF Experts, WellFormed
  <2> QED BY <1>1, <2>1, FS_Subset DEF WellFormed
<1>3. ASSUME NEW t \in X PROVE RankOf(t.expert, E) \in 0..(tp - 1)
  <2>1. t.expert \in 0..(E - 1)
    BY DEF Named, Stacks, IdsOf
  <2>2. E \in Nat
    BY <1>1 DEF WellFormed, Scalars, Evaluable
  <2>3. E \in Nat \ {0} /\ E % tp = 0
    BY <1>1, <2>1, <2>2 DEF A1
  <2> HIDE DEF E
  <2>4. (t.expert * tp) \div E \in 0..(tp - 1)
    BY <1>1, <2>1, <2>3, PlanOfExpert
  <2> QED BY <1>1, <2>4 DEF RankOf
<1>4. ASSUME NEW q \in 0..(tp - 1) PROVE Total(w, held(q)) = b
  <2> DEFINE class == [t \in X |-> t.stack]
  <2>1. \A t, u \in X : class[t] = class[u] => w[t] = w[u]
    BY DEF Uniform
  <2>2. \A s \in Stacks(mine) : Cardinality({t \in held(q) : t.stack = s})
                                  = Cardinality({t \in held(0) : t.stack = s})
    BY <1>1, OneOwner DEF EveryExpertHasOneOwner
  <2>3. \A k : Cardinality(OfClass(held(q), class, k)) = Cardinality(OfClass(held(0), class, k))
    <3> TAKE k
    <3>1. \A i : OfClass(held(i), class, k) = {t \in held(i) : t.stack = k}
      BY DEF OfClass
    <3>2. CASE k \in Stacks(mine)
      BY <2>2, <3>1, <3>2
    <3>3. CASE k \notin Stacks(mine)
      <4>1. \A i : {t \in held(i) : t.stack = k} = {}
        BY <3>3 DEF Stacks
      <4> QED BY <3>1, <4>1
    <3> QED BY <3>2, <3>3
  <2>4. held(q) \in SUBSET X /\ held(0) \in SUBSET X
    OBVIOUS
  <2> HIDE DEF held, w, class, X
  <2> QED BY <1>2, <2>1, <2>3, <2>4, TotalByClass
<1>5. b \in Int
  <2>1. held(0) \in SUBSET X /\ IsFiniteSet(held(0))
    BY <1>2, FS_Subset
  <2>2. [t \in held(0) |-> w[t]] \in [held(0) -> Int]
    BY <1>2
  <2>3. Total(w, held(0)) = Total([t \in held(0) |-> w[t]], held(0))
    BY <2>1, <2>2, TotalSame
  <2> QED BY <2>1, <2>2, <2>3, TotalType
<1>6. Total(w, X) = tp * b
  <2> DEFINE rank == [t \in X |-> RankOf(t.expert, E)]
  <2>1. rank \in [X -> 0..(tp - 1)]
    BY <1>3
  <2>2. \A q : OfClass(X, rank, q) = held(q)
    BY DEF OfClass
  <2>3. \A q \in 0..(tp - 1) : Total(w, OfClass(X, rank, q)) = b
    <3> HIDE DEF rank, X, w, b, held
    <3> QED BY <1>4, <2>2
  <2> HIDE DEF rank, X, w, b
  <2> QED BY <1>1, <1>2, <1>5, <2>1, <2>3, EqualParts
<1>7. Bytes(X) = tp * b
  BY <1>2, <1>6, BytesIsTotal
<1>8. Bytes(held(r)) = b
  <2>1. held(r) \in SUBSET X /\ IsFiniteSet(held(r)) /\ (\A t \in held(r) : t.bytes \in Int)
    BY <1>2, FS_Subset
  <2>2. Bytes(held(r)) = Total([t \in held(r) |-> t.bytes], held(r))
    BY <2>1, BytesIsTotal
  <2>3. \A t \in held(r) : w[t] = [u \in held(r) |-> u.bytes][t]
    OBVIOUS
  <2>4. [u \in held(r) |-> u.bytes] \in [held(r) -> Int]
    BY <2>1
  <2>5. Total(w, held(r)) = Total([t \in held(r) |-> t.bytes], held(r))
    <3> HIDE DEF w, held
    <3> QED BY <2>1, <2>3, <2>4, TotalSame
  <2> QED BY <1>1, <1>4, <2>2, <2>5
<1>9. Bytes(X) \div tp = b
  BY <1>1, <1>5, <1>7, MultipleDiv
<1> QED BY <1>1, <1>8, <1>9 DEF S4, Predicted

\* For every checkpoint and size, a launch over a checkpoint whose ids are its config's puts
\* each expert of every stack on exactly one rank, as many on each, the shared expert on
\* all; and if the experts of a stack are equally large every rank fits its memory (A1, A2,
\* S1, S2, S4).
THEOREM ExpertsHaveOneOwner == Spec => []ExpertsAreOwnedOnce
<1>1. GateInv => ExpertsAreOwnedOnce
  BY OneOwner, RanksFitTheBound DEF ExpertsAreOwnedOnce
<1> QED BY <1>1, GateInvHolds, PTL
=============================================================================
