------------------------- MODULE InstrumentsProofs -------------------------
(***************************************************************************)
(* The recorders, for every window, warmup, set of stacks and number of    *)
(* failures: the layer and the compute gap of a row are true, and a worker *)
(* that is shut down in order leaves both of its files. And the budgets of *)
(* the offloading connector, for any groups, sizes, tier and fraction: no  *)
(* store moves a cursor back.                                              *)
(***************************************************************************)
EXTENDS Instruments, OffloadBatch, DataInduction

LEMMA Constants ==
  /\ Start \in Nat /\ Window \in Nat
  /\ Room \in Nat \ {0} /\ Room >= Window /\ (Window > 0 => Room = Window)
  /\ None \notin Nat
  BY InstrumentsAssumption DEF Room

USE Constants
USE DEF proc, timer, union, disk, Serving

-----------------------------------------------------------------------------
(***************************************************************************)
(* The gaps. Rows are only ever appended, so that what they are about is   *)
(* the cursor: while the window is open, whatever came after the last      *)
(* collective that returned has been missed.                               *)
(***************************************************************************)

\* What the rows are made of is left open here.
RowsAreASequence == \E Row : rows \in Seq(Row)

GapsInv ==
  /\ RowsAreASequence
  /\ calls \in Nat /\ n \in Nat /\ n >= Len(rows)
  /\ lastExit = None \/ lastExit \in Nat
  /\ Len(rows) <= Room /\ (~done => Len(rows) < Room)
  /\ ~done /\ lastExit # None => (lastExit + 1)..calls \subseteq missed
  /\ \A k \in 1..Len(rows) :
       /\ rows[k].of \in Nat /\ rows[k].of <= calls
       /\ rows[k].since # None => (rows[k].since + 1)..(rows[k].of - 1) \subseteq missed
       /\ k > 1 => rows[k - 1].of < rows[k].of

LEMMA InitGaps == Init => GapsInv
  <1> SUFFICES ASSUME Init PROVE GapsInv
    OBVIOUS
  <1>1. rows \in Seq({})
    BY DEF Init
  <1> QED BY <1>1 DEF Init, GapsInv, RowsAreASequence

\* A row that is appended leaves the earlier ones where they are.
LEMMA RowAppended ==
  ASSUME RowsAreASequence, NEW row, rows' = Append(rows, row)
  PROVE  /\ RowsAreASequence'
         /\ Len(rows') = Len(rows) + 1 /\ Len(rows) \in Nat
         /\ rows'[Len(rows) + 1] = row
         /\ \A k \in 1..Len(rows) : rows'[k] = rows[k]
  <1>1. PICK Row : rows \in Seq(Row)
    BY DEF RowsAreASequence
  <1>2. rows \in Seq(Row \cup {row})
    BY <1>1
  <1>3. rows' \in Seq(Row \cup {row})
    BY <1>2
  <1> QED BY <1>2, <1>3 DEF RowsAreASequence

\* The cursor moves to the collective that has returned, and the row runs from where
\* it was.
LEMMA ReturnKeepsGaps ==
  ASSUME GapsInv, NEW stack \in Stacks, CollectiveReturns(stack)
  PROVE  GapsInv'
  <1> USE DEF GapsInv
  <1>1. /\ ~done /\ calls' = calls + 1 /\ n' = n + 1 /\ lastExit' = calls'
        /\ missed' = missed
    BY DEF CollectiveReturns, Timed, Probed
  <1>2. (lastExit' + 1)..calls' \subseteq missed'
    BY <1>1
  <1>3. CASE rows' = rows /\ done' = done
    BY <1>1, <1>2, <1>3 DEF RowsAreASequence
  <1>4. CASE Recorded(stack)
    <2> DEFINE row == [of |-> calls', since |-> lastExit, kind |-> OrUnknown(Walk(stack).kind),
                       owner |-> OrUnknown(Owner(stack))]
    <2>1. rows' = Append(rows, row) /\ done' = (Len(rows') >= Window)
      BY <1>4 DEF Recorded
    <2>2. row.of = calls + 1 /\ row.since = lastExit
      BY <1>1
    <2> HIDE DEF row
    <2>3. /\ RowsAreASequence'
          /\ Len(rows') = Len(rows) + 1 /\ Len(rows) \in Nat
          /\ rows'[Len(rows) + 1] = row
          /\ \A k \in 1..Len(rows) : rows'[k] = rows[k]
      BY <2>1, RowAppended
    <2>4. /\ n' >= Len(rows') /\ Len(rows') <= Room
          /\ (~done' => Len(rows') < Room)
      <3>1. Len(rows) < Room
        BY <1>1
      <3>2. n' >= Len(rows') /\ Len(rows') <= Room
        BY <1>1, <2>3, <3>1
      <3>3. ~done' => Len(rows') < Room
        <4>1. Len(rows') >= Window => done'
          BY <2>1, Zenon
        <4> QED BY <2>3, <4>1
      <3> QED BY <3>2, <3>3
    <2>5. ASSUME NEW k \in 1..Len(rows')
          PROVE  /\ rows'[k].of \in Nat /\ rows'[k].of <= calls'
                 /\ rows'[k].since # None =>
                      (rows'[k].since + 1)..(rows'[k].of - 1) \subseteq missed'
                 /\ k > 1 => rows'[k - 1].of < rows'[k].of
      <3>1. CASE k \in 1..Len(rows)
        <4>1. k > 1 => k - 1 \in 1..Len(rows)
          BY <3>1, <2>3
        <4>2. rows'[k] = rows[k] /\ (k > 1 => rows'[k - 1] = rows[k - 1])
          BY <2>3, <3>1, <4>1
        <4> QED BY <1>1, <3>1, <4>2
      <3>2. CASE k = Len(rows) + 1
        <4>1. k > 1 => k - 1 \in 1..Len(rows) /\ rows'[k - 1] = rows[k - 1]
          BY <3>2, <2>3
        <4>2. calls + 1 - 1 = calls
          BY <1>1
        <4>3. rows'[k].of = calls + 1 /\ rows'[k].since = lastExit
          BY <2>2, <2>3, <3>2
        <4>4. k > 1 => rows'[k - 1].of < rows'[k].of
          BY <4>1, <4>3
        <4> QED BY <1>1, <4>2, <4>3, <4>4
      <3> QED BY <2>3, <2>5, <3>1, <3>2
    <2> QED BY <1>1, <1>2, <2>3, <2>4, <2>5
  <1> QED BY <1>3, <1>4 DEF CollectiveReturns

\* A collective that raises, or passes unwrapped, is missed; one that passes by a
\* closed window leaves a cursor that is not used again.
LEMMA NextGaps == GapsInv /\ [Next]_vars => GapsInv'
  <1> SUFFICES ASSUME GapsInv, [Next]_vars PROVE GapsInv'
    OBVIOUS
  <1> USE DEF GapsInv, RowsAreASequence
  <1>1. ASSUME NEW stack \in Stacks, CollectiveReturns(stack)
        PROVE  GapsInv'
    BY <1>1, ReturnKeepsGaps
  <1>2. ASSUME NEW stack \in Stacks, CollectiveRaises(stack)
        PROVE  GapsInv'
    <2>1. /\ calls' = calls + 1 /\ n' = n + 1 /\ missed' = missed \cup {calls'} /\ ~done
          /\ UNCHANGED <<rows, lastExit, done>>
      BY <1>2 DEF CollectiveRaises, Timed, Probed
    <2>2. lastExit # None => (lastExit + 1)..calls' \subseteq missed'
      BY <2>1
    <2>3. \A k \in 1..Len(rows) : rows[k].of <= calls'
      BY <2>1
    <2> QED BY <2>1, <2>2, <2>3
  <1>3. CASE PassThrough
    BY <1>3 DEF PassThrough
  <1>4. CASE Reset \/ Relaunch
    <2>1. rows' = <<>> /\ <<>> \in Seq({}) /\ Len(<<>>) = 0
      BY <1>4 DEF Reset, Relaunch
    <2>2. RowsAreASequence'
      BY <2>1
    <2> QED BY <1>4, <2>1, <2>2 DEF Reset, Relaunch
  <1>5. CASE \/ Install \/ Uninstall \/ Recycle \/ InstallUnion \/ Route
             \/ Fill \/ Exit \/ ExitHandler \/ Kill \/ UNCHANGED vars
    BY <1>5 DEF Install, Uninstall, Recycle, InstallUnion, Route, Fill, Exit, ExitHandler, Kill,
                vars
  <1> QED BY <1>1, <1>2, <1>3, <1>4, <1>5 DEF Next

\* The compute gap of a row holds no collective that was timed, and the window holds
\* no more rows than it should (wrapped, fn_allreduce_timer.py).
THEOREM GapsHold == Spec => []GapsAreTrue
  <1>1. GapsInv => GapsAreTrue
    BY DEF GapsInv, GapsAreTrue
  <1> QED BY <1>1, InitGaps, NextGaps, PTL DEF Spec

-----------------------------------------------------------------------------
(***************************************************************************)
(* The layers. What the cache holds of an address is true of the object    *)
(* that lies there, since an object it knows keeps its address; so a walk  *)
(* finds what a walk without a cache would, by induction along the stack.  *)
(***************************************************************************)

TrueOf(known) == \A id \in DOMAIN known : known[id] = Classify(heap[id])

Bare(stack, k) == Classify(heap[stack[k]]) = None

\* Where the walk stands after k frames.
Walked(w, stack, k) ==
  /\ w = [kind |-> w.kind, cache |-> w.cache]
  /\ TrueOf(w.cache) /\ DOMAIN w.cache \subseteq Ids
  /\ w.kind = None => \A j \in 1..k : Bare(stack, j)
  /\ w.kind # None => \E j \in 1..k : /\ Classify(heap[stack[j]]) = w.kind
                                      /\ \A i \in 1..(j - 1) : Bare(stack, i)

\* One frame more: the walk has found the layer, or it is further out.
LEMMA FrameWalks ==
  ASSUME NEW stack \in Seq(Ids), NEW k \in Nat, k + 1 <= Len(stack), NEW w, Walked(w, stack, k)
  PROVE  Walked(Frame(w, stack[k + 1]), stack, k + 1)
  <1> DEFINE id == stack[k + 1]
             v == Frame(w, id)
  <1>0. id \in Ids
    OBVIOUS
  <1>1. CASE w.kind # None
    <2>1. v = w
      BY <1>1 DEF Frame
    <2> HIDE DEF v
    <2>2. PICK j \in 1..k : /\ Classify(heap[stack[j]]) = w.kind
                            /\ \A i \in 1..(j - 1) : Bare(stack, i)
      BY <1>1 DEF Walked
    <2>3. j \in 1..(k + 1)
      OBVIOUS
    <2> QED BY <1>1, <2>1, <2>2, <2>3 DEF Walked, v
  <1>2. CASE w.kind = None
    <2>1. /\ v = [kind |-> v.kind, cache |-> v.cache]
          /\ TrueOf(v.cache) /\ DOMAIN v.cache \subseteq Ids
          /\ v.kind = Classify(heap[id])
      <3>1. CASE id \in DOMAIN w.cache
        <4>1. v = [w EXCEPT !.kind = w.cache[id]]
          BY <1>2, <3>1 DEF Frame
        <4>2. v.kind = w.cache[id] /\ v.cache = w.cache /\ v = [kind |-> v.kind, cache |-> v.cache]
          BY <4>1 DEF Walked
        <4> HIDE DEF v, id
        <4> QED BY <3>1, <4>2 DEF Walked, TrueOf
      <3>3. CASE id \notin DOMAIN w.cache /\ Raises(heap[id])
        <4>1. v = [w EXCEPT !.kind = "unknown"]
          BY <1>2, <3>3 DEF Frame
        <4>2. v.kind = "unknown" /\ v.cache = w.cache /\ v = [kind |-> v.kind, cache |-> v.cache]
          BY <4>1 DEF Walked
        <4>3. Classify(heap[id]) = "unknown"
          BY <3>3 DEF Classify
        <4> HIDE DEF v, id
        <4> QED BY <4>2, <4>3 DEF Walked
      <3>2. CASE id \notin DOMAIN w.cache /\ ~Raises(heap[id])
        <4> DEFINE kept == IF Cardinality(DOMAIN w.cache) >= CacheMax THEN {} ELSE DOMAIN w.cache
                   kind == Classify(heap[id])
                   known == [i \in kept \cup {id} |-> IF i = id THEN kind ELSE w.cache[i]]
        <4>1. v = [kind |-> kind, cache |-> known]
          BY <1>2, <3>2 DEF Frame
        <4>2. kept \subseteq DOMAIN w.cache
          OBVIOUS
        <4> HIDE DEF kept, v
        <4>3. TrueOf(known) /\ DOMAIN known \subseteq Ids
          BY <1>0, <4>2 DEF Walked, TrueOf
        <4> HIDE DEF known
        <4> QED BY <4>1, <4>3
      <3> QED BY <3>1, <3>2, <3>3
    <2>2. \A j \in 1..k : Bare(stack, j)
      BY <1>2 DEF Walked
    <2> HIDE DEF v
    <2>3. v.kind = None => \A j \in 1..(k + 1) : Bare(stack, j)
      <3>1. v.kind = None => Bare(stack, k + 1)
        BY <2>1 DEF Bare
      <3> QED BY <2>2, <3>1
    <2>4. v.kind # None => \E j \in 1..(k + 1) : /\ Classify(heap[stack[j]]) = v.kind
                                                 /\ \A i \in 1..(j - 1) : Bare(stack, i)
      <3>1. k + 1 \in 1..(k + 1) /\ 1..(k + 1 - 1) = 1..k
        OBVIOUS
      <3> QED BY <2>1, <2>2, <3>1
    <2> QED BY <2>1, <2>3, <2>4 DEF Walked, v
  <1> QED BY <1>1, <1>2

\* The walk finds the layer it is to find.
LEMMA WalkFinds ==
  ASSUME NEW stack \in Seq(Ids), TrueOf(cache), DOMAIN cache \subseteq Ids
  PROVE  /\ Walk(stack).kind = Owner(stack)
         /\ TrueOf(Walk(stack).cache) /\ DOMAIN Walk(stack).cache \subseteq Ids
  <1> DEFINE top == IF Len(stack) < Depth THEN Len(stack) ELSE Depth
             start == [kind |-> None, cache |-> cache]
             Walks(f, m) == f = [k \in 0..m |-> IF k = 0 THEN start ELSE Frame(f[k - 1], stack[k])]
             T == {m \in Nat : m <= top => \E f : Walks(f, m) /\ Walked(f[m], stack, m)}
  <1>1. top \in Nat /\ top <= Len(stack)
    BY InstrumentsAssumption
  <1>2. Walked(start, stack, 0)
    BY DEF Walked
  <1>3. 0 \in T
    <2> DEFINE f == [k \in 0..0 |-> start]
    <2>1. Walks(f, 0) /\ f[0] = start
      OBVIOUS
    <2> HIDE DEF f, start, Walks
    <2> QED BY <1>2, <2>1
  <1>4. ASSUME NEW m \in Nat, m \in T PROVE m + 1 \in T
    <2> HIDE DEF Walks, top
    <2> SUFFICES ASSUME m + 1 <= top
                 PROVE  \E f : Walks(f, m + 1) /\ Walked(f[m + 1], stack, m + 1)
      OBVIOUS
    <2>1. PICK f : Walks(f, m) /\ Walked(f[m], stack, m)
      BY <1>4, <1>1
    <2> DEFINE g == [k \in 0..(m + 1) |-> IF k = m + 1 THEN Frame(f[m], stack[m + 1]) ELSE f[k]]
    <2>2. /\ f[0] = start
          /\ \A k \in 1..m : f[k] = Frame(f[k - 1], stack[k])
      BY <2>1 DEF Walks
    <2>3. /\ g[0] = start /\ g[m + 1] = Frame(g[m], stack[m + 1]) /\ g[m] = f[m]
          /\ \A k \in 1..m : g[k] = f[k] /\ g[k - 1] = f[k - 1]
          /\ g = [k \in 0..(m + 1) |-> g[k]]
      BY <2>2
    <2> HIDE DEF g, start
    <2>4. Walks(g, m + 1)
      <3>1. \A k \in 0..(m + 1) : g[k] = IF k = 0 THEN start ELSE Frame(g[k - 1], stack[k])
        <4> TAKE k \in 0..(m + 1)
        <4>1. CASE k = 0
          BY <2>3, <4>1
        <4>2. CASE k \in 1..m
          BY <2>2, <2>3, <4>2
        <4>3. CASE k = m + 1
          <5>1. k - 1 = m /\ k # 0
            BY <4>3
          <5> QED BY <2>3, <4>3, <5>1
        <4> QED BY <4>1, <4>2, <4>3
      <3> QED BY <2>3, <3>1 DEF Walks
    <2>5. Walked(g[m + 1], stack, m + 1)
      BY <1>1, <2>1, <2>3, FrameWalks
    <2> QED BY <2>4, <2>5
  <1>5. top \in T
    <2> HIDE DEF T
    <2> QED BY <1>1, <1>3, <1>4, SetInduction
  <1> DEFINE walked == CHOOSE f : Walks(f, top)
  <1>6. PICK f : Walks(f, top) /\ Walked(f[top], stack, top)
    BY <1>1, <1>5
  <1>7. Walks(walked, top)
    <2> HIDE DEF Walks
    <2> QED BY <1>6
  <1>8. walked[top] = f[top]
    <2>0. /\ walked[0] = f[0]
          /\ \A k \in 1..top : /\ walked[k] = Frame(walked[k - 1], stack[k])
                                /\ f[k] = Frame(f[k - 1], stack[k])
      <3> HIDE DEF walked
      <3> QED BY <1>1, <1>6, <1>7
    <2> HIDE DEF walked, top
    <2> DEFINE U == {k \in Nat : k <= top => walked[k] = f[k]}
    <2>1. 0 \in U
      BY <2>0
    <2>2. ASSUME NEW k \in Nat, k \in U PROVE k + 1 \in U
      <3>1. k + 1 - 1 = k
        OBVIOUS
      <3> QED BY <1>1, <2>0, <2>2, <3>1
    <2>3. Nat \subseteq U
      <3> HIDE DEF U
      <3> QED BY <2>1, <2>2, SetInduction
    <2> QED BY <1>1, <2>3
  <1>9. Walk(stack) = f[top]
    BY <1>8 DEF Walk
  <1> DEFINE w == Walk(stack)
  <1>10. Walked(w, stack, top)
    BY <1>6, <1>9
  <1>11. w.kind = Owner(stack)
    <2> DEFINE near == {k \in 1..Len(stack) : k <= Depth /\ Classify(heap[stack[k]]) # None}
    <2>1. \A k \in 1..Len(stack) : k <= Depth => k \in 1..top
      BY InstrumentsAssumption
    <2>2. 1..top \subseteq {k \in 1..Len(stack) : k <= Depth}
      BY InstrumentsAssumption
    <2>3. CASE w.kind = None
      <3>1. near = {}
        BY <1>10, <2>1, <2>3 DEF Walked, Bare
      <3> QED BY <2>3, <3>1 DEF Owner
    <2>4. CASE w.kind # None
      <3>1. PICK j \in 1..top : /\ Classify(heap[stack[j]]) = w.kind
                                /\ \A i \in 1..(j - 1) : Bare(stack, i)
        BY <1>10, <2>4 DEF Walked
      <3>2. j \in near
        BY <2>2, <2>4, <3>1
      <3>3. \A k \in near : j <= k
        BY <3>1 DEF Bare
      <3>4. near \subseteq Int
        OBVIOUS
      <3> DEFINE first == CHOOSE k \in near : \A i \in near : k <= i
      <3>5. first = j
        <4> HIDE DEF near
        <4>1. first \in near /\ \A i \in near : first <= i
          BY <3>2, <3>3
        <4> HIDE DEF first
        <4> QED BY <3>2, <3>3, <3>4, <4>1
      <3>6. Owner(stack) = Classify(heap[stack[first]])
        BY <3>2 DEF Owner
      <3> QED BY <3>1, <3>5, <3>6
    <2> QED BY <2>3, <2>4
  <1> QED BY <1>10, <1>11 DEF Walked

LayersInv ==
  /\ RowsAreASequence
  /\ heap \in [Ids -> Objects]
  /\ TrueOf(cache) /\ DOMAIN cache \subseteq Ids
  /\ LayersAreTrue

LEMMA InitLayers == Init => LayersInv
  <1> SUFFICES ASSUME Init PROVE LayersInv
    OBVIOUS
  <1>1. rows \in Seq({}) /\ rows = <<>> /\ DOMAIN cache = {}
    BY DEF Init
  <1> QED BY <1>1 DEF Init, LayersInv, RowsAreASequence, TrueOf, LayersAreTrue

\* What a collective walks is as the invariant has it, and so is the row.
LEMMA CallKeepsLayers ==
  ASSUME LayersInv, NEW stack \in Stacks, CollectiveReturns(stack) \/ CollectiveRaises(stack)
  PROVE  LayersInv'
  <1> USE DEF LayersInv
  <1>1. stack \in Seq(Ids)
    BY InstrumentsAssumption
  <1>2. /\ Walk(stack).kind = Owner(stack)
        /\ TrueOf(Walk(stack).cache) /\ DOMAIN Walk(stack).cache \subseteq Ids
    BY <1>1, WalkFinds
  <1>3. heap' = heap /\ cache' \in {cache, Walk(stack).cache}
    BY DEF CollectiveReturns, CollectiveRaises, Probed
  <1>4. TrueOf(cache)' /\ DOMAIN cache' \subseteq Ids
    BY <1>2, <1>3 DEF TrueOf
  <1>5. CASE rows' = rows
    BY <1>3, <1>4, <1>5 DEF RowsAreASequence, LayersAreTrue
  <1>6. CASE Recorded(stack)
    <2> DEFINE row == [of |-> calls', since |-> lastExit, kind |-> OrUnknown(Walk(stack).kind),
                       owner |-> OrUnknown(Owner(stack))]
    <2>1. rows' = Append(rows, row)
      BY <1>6 DEF Recorded
    <2>2. row.kind = row.owner
      BY <1>2
    <2> HIDE DEF row
    <2>3. /\ RowsAreASequence'
          /\ Len(rows') = Len(rows) + 1 /\ Len(rows) \in Nat
          /\ rows'[Len(rows) + 1] = row
          /\ \A k \in 1..Len(rows) : rows'[k] = rows[k]
      BY <2>1, RowAppended
    <2>4. LayersAreTrue'
      BY <2>2, <2>3 DEF LayersAreTrue
    <2> QED BY <1>3, <1>4, <2>3, <2>4
  <1> QED BY <1>5, <1>6 DEF CollectiveReturns, CollectiveRaises

LEMMA NextLayers == LayersInv /\ [Next]_vars => LayersInv'
  <1> SUFFICES ASSUME LayersInv, [Next]_vars PROVE LayersInv'
    OBVIOUS
  <1> USE DEF LayersInv
  <1>1. ASSUME NEW stack \in Stacks, CollectiveReturns(stack) \/ CollectiveRaises(stack)
        PROVE  LayersInv'
    BY <1>1, CallKeepsLayers
  <1>2. CASE Recycle
    <2>1. PICK id \in Ids \ DOMAIN cache, o \in Objects : heap' = [heap EXCEPT ![id] = o]
      BY <1>2 DEF Recycle
    <2>2. heap' \in [Ids -> Objects] /\ \A i \in DOMAIN cache : heap'[i] = heap[i]
      BY <2>1
    <2> QED BY <1>2, <2>2 DEF Recycle, TrueOf, Classify, Raises, LayersAreTrue, RowsAreASequence
  <1>3. CASE Reset \/ Relaunch
    <2>1. /\ rows' = <<>> /\ <<>> \in Seq({}) /\ Len(<<>>) = 0 /\ heap' = heap
          /\ cache' = <<>> /\ DOMAIN cache' = {}
      BY <1>3 DEF Reset, Relaunch
    <2>2. RowsAreASequence'
      BY <2>1 DEF RowsAreASequence
    <2> QED BY <2>1, <2>2 DEF TrueOf, LayersAreTrue
  <1>4. CASE \/ Install \/ Uninstall \/ PassThrough \/ InstallUnion \/ Route
             \/ Fill \/ Exit \/ ExitHandler \/ Kill \/ UNCHANGED vars
    <2>1. UNCHANGED <<heap, cache, rows>>
      BY <1>4 DEF Install, Uninstall, PassThrough, InstallUnion, Route, Fill, Exit, ExitHandler,
                  Kill, vars
    <2> QED BY <2>1 DEF TrueOf, LayersAreTrue, RowsAreASequence
  <1> QED BY <1>1, <1>2, <1>3, <1>4 DEF Next

\* The layer of a row is the innermost one on the stack of its collective, or unknown behind
\* a frame that cannot be read, however small the cache, whatever the interval and whatever
\* lay at an address before (_site_kind and _walk, fn_allreduce_timer.py).
THEOREM LayersHold == Spec => []LayersAreTrue
  <1>1. LayersInv => LayersAreTrue
    BY DEF LayersInv
  <1> QED BY <1>1, InitLayers, NextLayers, PTL DEF Spec

-----------------------------------------------------------------------------
(***************************************************************************)
(* The shutdown. A recorder that has something to leave has a handler that *)
(* will leave it, and one whose handler has run, or whose window is closed,*)
(* has its file, is writing it, or has failed to.                          *)
(***************************************************************************)

Receipts == {"canonical", "ranked"}
TimerFacts == {Facts(rows, done, n, rank) : rank \in {Rank, None}}
Seen == {i \in 1..Window : i <= routes - Start}

\* What is being written is what its recorder has: nobody records meanwhile.
WriterInv ==
  /\ DOMAIN files = Receipts \cup {"dump"}
  /\ pending = Closed \/ pending.who \in {"timer", "union"}
  /\ pending.who = "timer" => pending.path \in Receipts /\ pending.what \in TimerFacts
  /\ pending.who = "union" => pending.path = "dump" /\ pending.what = Dump(buf)
  /\ life = "gone" => hooks = {} /\ pending = Closed

TimerInv ==
  /\ life = "up" /\ (wrapped \/ n > 0) => "timer" \in hooks
  /\ life \in {"exiting", "gone"} /\ n > 0 /\ "timer" \notin hooks =>
       \/ "timer" \in unwritten \/ pending.who = "timer"
       \/ \E p \in Receipts : files[p] \in TimerFacts

\* The buffer holds all of the window that has been seen, but for the holes, of which it
\* may hold a part.
Holds(b) ==
  /\ (Seen \ holes) \X {3} \subseteq b
  /\ \A row \in b : /\ row \in (1..Window) \X (1..3)
                    /\ IF row[1] \in holes THEN row[2] < 3 ELSE row[1] \in Seen /\ row[2] = 3
BufferInv ==
  IF routes = None THEN buf = None /\ holes = {}
  ELSE /\ routes \in Nat /\ holes \subseteq Seen
       /\ buf = None => Seen \subseteq holes
       /\ buf # None => Holds(buf)

UnionInv ==
  /\ life = "up" /\ routes # None => "union" \in hooks
  /\ udone /\ life # "killed" =>
       \/ "union" \in unwritten \/ pending.who = "union"
       \/ files["dump"] = Dump(buf)
  /\ life \in {"exiting", "gone"} /\ buf # None /\ "union" \notin hooks => udone

ShutdownInv == WriterInv /\ TimerInv /\ BufferInv /\ UnionInv

LEMMA InitShutdown == Init => ShutdownInv
  BY DEF Init, ShutdownInv, WriterInv, TimerInv, BufferInv, UnionInv, Closed, Receipts

\* A flush of the timer finds its receipt there, opens one, or fails.
LEMMA TimerFlushed ==
  ASSUME NEW r, NEW closed, NEW seen, FlushTimer(r, closed, seen)
  PROVE  \E p \in Receipts, rank \in {Rank, None} :
           \/ UNCHANGED <<pending, unwritten, files>> /\ files[p] = Facts(r, closed, seen, rank)
           \/ /\ pending' = [who |-> "timer", path |-> p, what |-> Facts(r, closed, seen, rank)]
              /\ files' = [files EXCEPT ![p] = Torn] /\ unwritten' = unwritten
           \/ UNCHANGED <<pending, files>> /\ unwritten' = unwritten \cup {"timer"}
  <1>1. PICK rank \in KnownRank :
          \/ files[ReceiptPath(rank)] = Facts(r, closed, seen, rank) /\ NoWrite
          \/ Opened("timer", ReceiptPath(rank), Facts(r, closed, seen, rank))
          \/ Fails("timer")
    BY DEF FlushTimer
  <1>2. ReceiptPath(rank) \in Receipts /\ rank \in {Rank, None}
    BY DEF ReceiptPath, Receipts, KnownRank
  <1> QED BY <1>1, <1>2 DEF NoWrite, Opened, Fails

\* A flush of the union opens the dump or fails, once.
LEMMA UnionFlushed ==
  ASSUME FlushUnion
  PROVE  \/ (udone \/ buf = None) /\ UNCHANGED <<pending, unwritten, files, udone>>
         \/ /\ ~udone /\ udone'
            /\ pending' = [who |-> "union", path |-> "dump", what |-> Dump(buf)]
            /\ files' = [files EXCEPT !["dump"] = Torn] /\ unwritten' = unwritten
         \/ /\ ~udone /\ udone'
            /\ UNCHANGED <<pending, files>> /\ unwritten' = unwritten \cup {"union"}
  BY DEF FlushUnion, NoWrite, Opened, Fails

-----------------------------------------------------------------------------
\* One lemma for the actions of each part.

\* What does not route leaves the buffer be.
LEMMA BufferKept == BufferInv /\ UNCHANGED <<routes, buf, holes>> => BufferInv'
  BY DEF BufferInv, Holds, Seen

LEMMA TimerKeepsShutdown ==
  ShutdownInv /\ (Install \/ Uninstall \/ Reset \/ PassThrough \/ Recycle) => ShutdownInv'
  <1> USE DEF ShutdownInv, WriterInv, TimerInv, UnionInv, Seen, TimerFacts, Closed
  <1>1. ShutdownInv /\ Install => ShutdownInv'
    BY BufferKept DEF Install
  <1>2. ShutdownInv /\ Uninstall => ShutdownInv'
    BY BufferKept DEF Uninstall
  <1>3. ShutdownInv /\ Reset => ShutdownInv'
    BY BufferKept DEF Reset
  <1>4. ShutdownInv /\ PassThrough => ShutdownInv'
    BY BufferKept DEF PassThrough
  <1>5. ShutdownInv /\ Recycle => ShutdownInv'
    BY BufferKept DEF Recycle
  <1> QED BY <1>1, <1>2, <1>3, <1>4, <1>5

\* The receipt that is opened at the close of the window says what the rows say.
LEMMA CallKeepsShutdown ==
  ASSUME ShutdownInv, NEW stack \in Stacks, CollectiveReturns(stack) \/ CollectiveRaises(stack)
  PROVE  ShutdownInv'
  <1> USE DEF ShutdownInv, WriterInv, TimerInv, UnionInv, Seen, Closed
  <1>1. /\ life = "up" /\ pending = Closed /\ wrapped /\ "timer" \in hooks
        /\ UNCHANGED <<life, wrapped, hooks, routes, buf, holes, udone>>
    BY DEF CollectiveReturns, CollectiveRaises, Timed
  <1>2. CASE UNCHANGED <<pending, files>> /\ unwritten \subseteq unwritten'
    BY <1>1, <1>2, BufferKept
  <1>3. CASE \E p \in Receipts : /\ pending'.who = "timer" /\ pending'.path = p
                                 /\ pending'.what \in TimerFacts'
                                 /\ files' = [files EXCEPT ![p] = Torn]
                                 /\ unwritten' = unwritten
    BY <1>1, <1>3, BufferKept DEF Receipts
  <1>4. CASE CollectiveReturns(stack)
    <2>1. CASE Recorded(stack) /\ done'
      <3>1. FlushTimer(rows', TRUE, n')
        BY <2>1 DEF Recorded
      <3>2. done' = TRUE
        BY <2>1 DEF Recorded
      <3>3. PICK p \in Receipts, rank \in {Rank, None} :
              \/ UNCHANGED <<pending, unwritten, files>> /\ files[p] = Facts(rows', TRUE, n', rank)
              \/ /\ pending' = [who |-> "timer", path |-> p, what |-> Facts(rows', TRUE, n', rank)]
                 /\ files' = [files EXCEPT ![p] = Torn] /\ unwritten' = unwritten
              \/ UNCHANGED <<pending, files>> /\ unwritten' = unwritten \cup {"timer"}
        BY <3>1, TimerFlushed, Zenon
      <3>4. Facts(rows', TRUE, n', rank) \in TimerFacts'
        BY <3>2 DEF TimerFacts, Facts
      <3>5. CASE UNCHANGED <<pending, files>> /\ unwritten \subseteq unwritten'
        BY <1>2, <3>5
      <3>6. CASE /\ pending' = [who |-> "timer", path |-> p, what |-> Facts(rows', TRUE, n', rank)]
                 /\ files' = [files EXCEPT ![p] = Torn] /\ unwritten' = unwritten
        BY <1>3, <3>4, <3>6
      <3> QED BY <3>3, <3>5, <3>6
    <2>2. CASE Recorded(stack) /\ ~done'
      BY <1>2, <2>2 DEF Recorded, NoWrite
    <2> QED BY <1>2, <1>4, <2>1, <2>2 DEF CollectiveReturns, NoWrite
  <1>5. CASE CollectiveRaises(stack)
    BY <1>2, <1>5 DEF CollectiveRaises
  <1> QED BY <1>4, <1>5

\* A row more, whole; a hole more, without a part of it and with one.
LEMMA RowAdded ==
  ASSUME NEW b, Holds(b), NEW i \in (1..Window) \ holes, Seen' = Seen \cup {i},
         holes' = holes, buf' = b \cup {<<i, 3>>}
  PROVE  Holds(buf)'
  BY DEF Holds

LEMMA HoleAdded ==
  ASSUME NEW b, Holds(b), NEW i \in (1..Window) \ Seen, Seen' = Seen \cup {i},
         holes' = holes \cup {i}, buf' = b
  PROVE  Holds(buf)'
  BY DEF Holds

LEMMA PartAdded ==
  ASSUME NEW b, Holds(b), NEW i \in (1..Window) \ Seen, Seen' = Seen \cup {i},
         holes' = holes \cup {i}, NEW c \in {1, 2}, buf' = b \cup {<<i, c>>}
  PROVE  Holds(buf)'
  BY DEF Holds

\* A buffer that holds something is a buffer.
LEMMA HeldIsSome == Holds(buf)' => buf' # None
  BY InstrumentsAssumption DEF Holds

LEMMA RouteKeepsShutdown ==
  ShutdownInv /\ (InstallUnion \/ Route) => ShutdownInv'
  <1> SUFFICES ASSUME ShutdownInv, InstallUnion \/ Route PROVE ShutdownInv'
    OBVIOUS
  <1> USE DEF ShutdownInv, WriterInv, TimerInv, BufferInv, UnionInv, TimerFacts, Closed
  <1>1. CASE InstallUnion
    BY <1>1 DEF InstallUnion, Seen
  <1>2. CASE Route
    <2> DEFINE i == routes' - Start
               kept == IF buf = None THEN {} ELSE buf
    <2>1. /\ life = "up" /\ pending = Closed /\ routes \in Nat /\ ~udone /\ routes' = routes + 1
          /\ UNCHANGED <<life, hooks, wrapped, rows, done, n>>
      BY <1>2 DEF Route
    <2>2. Seen' = IF i \in 1..Window THEN Seen \cup {i} ELSE Seen
      BY <2>1 DEF Seen
    <2>3. i \in 1..Window => i \notin Seen
      BY <2>1 DEF Seen
    <2>4. Holds(kept) /\ kept # None
      <3>1. CASE buf = None
        BY <2>1, <3>1, InstrumentsAssumption DEF Holds
      <3>2. CASE buf # None
        BY <2>1, <3>2
      <3> QED BY <3>1, <3>2
    <2> HIDE DEF kept
    <2>5. BufferInv'
      <3>1. CASE i \notin 1..Window /\ UNCHANGED <<buf, holes>>
        BY <2>1, <2>2, <3>1 DEF Holds
      <3>2. CASE i \in 1..Window /\ buf' = kept \cup {<<i, 3>>} /\ holes' = holes
        <4>1. i \notin holes /\ Seen' = Seen \cup {i} /\ holes' \subseteq Seen'
          BY <2>1, <2>2, <2>3, <3>2
        <4>2. Holds(buf)'
          BY <2>4, <3>2, <4>1, RowAdded
        <4>3. buf' # None
          BY <4>2, HeldIsSome
        <4> QED BY <2>1, <4>1, <4>2, <4>3
      <3>3. CASE /\ i \in 1..Window /\ holes' = holes \cup {i}
                 /\ buf' \in {buf, kept} \cup {kept \cup {<<i, c>>} : c \in {1, 2}}
        <4>1. Seen' = Seen \cup {i} /\ i \notin Seen /\ i \notin holes
          BY <2>1, <2>2, <2>3, <3>3
        <4>2. CASE buf' = buf
          <5>1. buf # None => Holds(buf)'
            BY <2>1, <3>3, <4>1, <4>2, HoleAdded
          <5> QED BY <2>1, <3>3, <4>1, <4>2, <5>1
        <4>3. CASE buf' = kept
          <5>1. Holds(buf)'
            BY <2>4, <3>3, <4>1, <4>3, HoleAdded
          <5> QED BY <2>1, <2>4, <3>3, <4>1, <4>3, <5>1
        <4>4. ASSUME NEW c \in {1, 2}, buf' = kept \cup {<<i, c>>}
              PROVE  BufferInv'
          <5>1. Holds(buf)'
            BY <2>4, <3>3, <4>1, <4>4, PartAdded
          <5>2. buf' # None
            BY <5>1, HeldIsSome
          <5> QED BY <2>1, <3>3, <4>1, <5>1, <5>2
        <4> QED BY <3>3, <4>2, <4>3, <4>4
      <3> QED BY <1>2, <3>1, <3>2, <3>3 DEF Route, kept
    <2>6. CASE UNCHANGED <<pending, unwritten, files, udone>>
      BY <2>1, <2>5, <2>6
    <2>7. CASE FlushUnion /\ UNCHANGED <<buf, holes>>
      BY <2>1, <2>5, <2>7, UnionFlushed DEF Receipts
    <2> QED BY <1>2, <2>6, <2>7 DEF Route, NoWrite
  <1> QED BY <1>1, <1>2

\* A file is filled with what its recorder has, or its recorder has failed.
LEMMA FillKeepsShutdown == ShutdownInv /\ Fill => ShutdownInv'
  <1> SUFFICES ASSUME ShutdownInv, Fill PROVE ShutdownInv'
    OBVIOUS
  <1> USE DEF ShutdownInv, WriterInv, TimerInv, UnionInv, TimerFacts, Seen, Fill
  <1>1. CASE pending.who = "timer"
    BY <1>1, BufferKept DEF Receipts, Closed
  <1>2. CASE pending.who = "union"
    BY <1>2, BufferKept DEF Receipts, Closed
  <1> QED BY <1>1, <1>2

LEMMA ExitKeepsShutdown == ShutdownInv /\ (Exit \/ ExitHandler) => ShutdownInv'
  <1> SUFFICES ASSUME ShutdownInv, Exit \/ ExitHandler PROVE ShutdownInv'
    OBVIOUS
  <1> USE DEF ShutdownInv, WriterInv, TimerInv, UnionInv, Seen, Closed
  <1>1. CASE Exit
    <2>1. buf # None => routes # None
      BY DEF BufferInv
    <2> QED BY <1>1, <2>1, BufferKept DEF Exit, TimerFacts
  <1>2. CASE /\ ExitHandler /\ "union" \in hooks /\ hooks' = hooks \ {"union"}
             /\ FlushUnion /\ UNCHANGED <<routes, buf, holes, life>>
    BY <1>2, UnionFlushed, BufferKept DEF ExitHandler, TimerFacts, Receipts
  <1>3. CASE /\ ExitHandler /\ "timer" \in hooks /\ hooks' = hooks \ {"timer"}
             /\ FlushTimer(rows, done, n) /\ UNCHANGED <<union, life>>
    BY <1>3, TimerFlushed, BufferKept DEF ExitHandler, TimerFacts, Receipts
  <1>4. CASE ExitHandler /\ hooks = {} /\ life' = "gone" /\ NoWrite /\ UNCHANGED <<union, hooks>>
    BY <1>4, BufferKept DEF ExitHandler, NoWrite, TimerFacts
  <1> QED BY <1>1, <1>2, <1>3, <1>4 DEF ExitHandler

LEMMA LifeKeepsShutdown == ShutdownInv /\ (Kill \/ Relaunch \/ UNCHANGED vars) => ShutdownInv'
  <1> USE DEF ShutdownInv, WriterInv, TimerInv, UnionInv, TimerFacts, Seen, Closed,
              Receipts
  <1>1. ShutdownInv /\ Kill => ShutdownInv'
    BY BufferKept DEF Kill
  <1>2. ShutdownInv /\ Relaunch => ShutdownInv'
    BY DEF Relaunch, BufferInv
  <1>3. ShutdownInv /\ UNCHANGED vars => ShutdownInv'
    BY BufferKept DEF vars
  <1> QED BY <1>1, <1>2, <1>3

-----------------------------------------------------------------------------
\* A worker that exits leaves the receipt of what it has timed, unless the last write of it
\* failed, and the dump with every routing call whole whose recording did not fail, unless
\* its only write did (flush, fn_allreduce_timer.py; _flush, fn_expert_union.py).
THEOREM BothAreLeft == Spec => []ShutdownLeavesBoth
  <1>1. ShutdownInv /\ [Next]_vars => ShutdownInv'
    BY TimerKeepsShutdown, CallKeepsShutdown, RouteKeepsShutdown, FillKeepsShutdown,
       ExitKeepsShutdown, LifeKeepsShutdown DEF Next
  <1>2. ShutdownInv => ShutdownLeavesBoth
    <2> SUFFICES ASSUME ShutdownInv, life = "gone"
                 PROVE  /\ n > 0 /\ "timer" \notin unwritten =>
                             \E p \in Receipts : files[p] \in TimerFacts
                        /\ buf # None /\ "union" \notin unwritten =>
                             files["dump"].is = "dump" /\ Holds(files["dump"].rows)
      BY DEF ShutdownLeavesBoth, Receipts, TimerFacts, Seen, Holds
    <2> USE DEF ShutdownInv, WriterInv, TimerInv, BufferInv, UnionInv
    <2>1. hooks = {} /\ pending.who \notin {"timer", "union"}
      BY DEF Closed
    <2>2. buf # None => Holds(buf)
      OBVIOUS
    <2>3. Dump(buf).is = "dump" /\ Dump(buf).rows = buf
      BY DEF Dump
    <2> QED BY <2>1, <2>2, <2>3
  <1> QED BY <1>1, <1>2, InitShutdown, PTL DEF Spec

-----------------------------------------------------------------------------
\* The budgets of the offloading connector (OffloadBatch): no store moves a cursor back,
\* and it is the floor of the budget that makes this true.

\* Blocks of s tokens up to a position: what is cut off is less than a block.
LEMMA DivBounds ==
  ASSUME NEW p \in Nat, NEW s \in Nat \ {0}
  PROVE  p \div s \in Nat /\ (p \div s) * s <= p /\ p - s < (p \div s) * s
  BY Z3

\* A later position has no fewer blocks.
LEMMA DivMonotone ==
  ASSUME NEW p \in Nat, NEW q \in Nat, NEW s \in Nat \ {0}, p <= q
  PROVE  p \div s <= q \div s
<1> DEFINE a == p \div s
           b == q \div s
<1>1. a \in Nat /\ b \in Nat /\ a * s <= p /\ q - s < b * s BY DivBounds
<1> HIDE DEF a, b
<1>2. a * s < (b + 1) * s BY <1>1, Z3
<1>3. a < b + 1 BY <1>1, <1>2, Z3
<1> QED BY <1>1, <1>3 DEF a, b

\* The coarsest group is one of them, and there is none coarser.
LEMMA CoarsestBounds ==
  Coarsest \in Nat \ {0} /\ \A g \in Group : Size[g] <= Coarsest
<1>1. \E s \in {Size[g] : g \in Group} : \A g \in Group : Size[g] <= s
  BY SizeAssumption
<1>2. Coarsest \in {Size[g] : g \in Group} /\ \A g \in Group : Size[g] <= Coarsest
  BY <1>1 DEF Coarsest
<1> QED BY <1>2, SizeAssumption

\* The share of a tier is one block at least and all of them at most.
LEMMA ShareOfAll ==
  ASSUME NEW blocks \in Nat \ {0}, NEW num \in Int, NEW den \in Nat \ {0}, num > 0
  PROVE  Share(blocks, num, den) \in 1..blocks
<1> DEFINE m == AtMost(num, den)
<1>1. m \in 1..den BY DEF AtMost
<1> HIDE DEF m
<1>2. blocks * m \in Nat /\ blocks * m <= blocks * den BY <1>1, Z3
<1> DEFINE q == (blocks * m) \div den
<1>3. q \in Nat /\ q * den <= blocks * m BY <1>2, DivBounds
<1> HIDE DEF q
<1>4. q * den <= blocks * den BY <1>2, <1>3, Z3
<1>5. q <= blocks BY <1>3, <1>4, Z3
<1>6. Share(blocks, num, den) = AtLeast(q, 1) BY DEF Share, q, m
<1> QED BY <1>3, <1>5, <1>6 DEF AtLeast

\* A budget is a number of tokens, and no less than one coarsest block.
LEMMA BudgetFloor ==
  StoreBudget # Unbounded => StoreBudget \in Int /\ StoreBudget >= Coarsest
<1> DEFINE b == Share(Tier, FracNum, FracDen)
<1>1. b \in Int BY TierAssumption DEF Share, AtLeast, AtMost
<1>2. TokensFor(b) \in Int BY <1>1, RateAssumption DEF TokensFor
<1> HIDE DEF b
<1>3. AtLeast(TokensFor(b), Coarsest) \in Int /\ AtLeast(TokensFor(b), Coarsest) >= Coarsest
  BY <1>2, CoarsestBounds DEF AtLeast
<1> QED BY <1>3 DEF StoreBudget, b

\* A store or a promotion that is bounded is bounded by no more blocks than the tier has,
\* however large the fraction, and by one at least, however small: never by none, which
\* would keep the cache from ever being filled or read.
THEOREM BudgetsFitTheTier ==
  ASSUME NEW blocks \in Nat, NEW num \in Int, NEW den \in Nat \ {0}, Unbounded \notin Int
  PROVE  /\ PromoteBudget(blocks, num, den) = Unbounded <=> blocks = 0 \/ num <= 0
         /\ PromoteBudget(blocks, num, den) # Unbounded => PromoteBudget(blocks, num, den) \in 1..blocks
<1>1. CASE blocks = 0 \/ num <= 0 BY <1>1 DEF PromoteBudget
<1>2. CASE blocks # 0 /\ num > 0
  <2>1. Share(blocks, num, den) \in 1..blocks BY <1>2, ShareOfAll
  <2>2. PromoteBudget(blocks, num, den) = Share(blocks, num, den) BY <1>2 DEF PromoteBudget
  <2> QED BY <1>2, <2>1, <2>2
<1> QED BY <1>1, <1>2

\* Every group has stored the blocks up to one position that they share.
Position(p) == \A g \in Group : next[g] = p \div Size[g]
Aligned ==
  /\ ready \in Nat /\ next \in [Group -> Nat]
  /\ \E p \in 0..ready : Position(p)

\* The laggard is less than one coarsest block behind the shared position.
LEMMA LaggardIsNear ==
  ASSUME next \in [Group -> Nat], NEW p \in Nat, Position(p)
  PROVE  Laggard \in Nat /\ p - Coarsest < Laggard
<1> DEFINE At == {next[g] * Size[g] : g \in Group}
<1>1. At \in SUBSET Nat /\ At # {} BY SizeAssumption
<1>2. \E x \in At : \A y \in At : x <= y BY <1>1, LeastNumber
<1>3. Laggard \in At BY <1>2 DEF Laggard
<1>4. PICK g \in Group : Laggard = next[g] * Size[g] BY <1>3
<1>5. Size[g] \in Nat \ {0} /\ Size[g] <= Coarsest /\ Coarsest \in Nat
  BY CoarsestBounds, SizeAssumption
<1>6. p - Size[g] < next[g] * Size[g] BY <1>5, DivBounds DEF Position
<1> QED BY <1>1, <1>3, <1>4, <1>5, <1>6

\* So the target of a store is not before that position, nor after what is ready.
LEMMA TargetIsAhead ==
  ASSUME Aligned, NEW p \in 0..ready, Position(p)
  PROVE  Target \in p..ready
<1>1. Laggard \in Nat /\ p - Coarsest < Laggard BY LaggardIsNear DEF Aligned
<1>2. CASE StoreBudget = Unbounded BY <1>2 DEF Target, Aligned
<1>3. CASE StoreBudget # Unbounded
  <2>1. StoreBudget \in Int /\ StoreBudget >= Coarsest BY <1>3, BudgetFloor
  <2>2. p < Laggard + StoreBudget /\ Laggard + StoreBudget \in Int
    BY <1>1, <2>1, CoarsestBounds
  <2> QED BY <1>3, <2>2 DEF Target, AtMost, Aligned
<1> QED BY <1>2, <1>3

\* A store moves every cursor to the target, which is a shared position again.
LEMMA StoreAdvances ==
  ASSUME Aligned, Store
  PROVE  Aligned' /\ \A g \in Group : next'[g] >= next[g]
<1>1. PICK p \in 0..ready : Position(p) BY DEF Aligned
<1>2. Target \in p..ready /\ p \in Nat /\ ready \in Nat BY <1>1, TargetIsAhead DEF Aligned
<1>3. next' = [g \in Group |-> Target \div Size[g]] /\ ready' = ready BY DEF Store, Blocks
<1> DEFINE t == Target
<1>4. t \in Nat /\ p <= t /\ t <= ready BY <1>2
<1>5. next' = [g \in Group |-> t \div Size[g]] BY <1>3
<1> HIDE DEF t
<1>6. ASSUME NEW g \in Group
      PROVE  t \div Size[g] \in Nat /\ t \div Size[g] >= next[g]
  <2>1. Size[g] \in Nat \ {0} BY SizeAssumption
  <2>2. t \div Size[g] \in Nat /\ p \div Size[g] \in Nat BY <1>2, <1>4, <2>1, DivBounds
  <2>3. p \div Size[g] <= t \div Size[g] BY <1>2, <1>4, <2>1, DivMonotone
  <2> QED BY <1>1, <2>2, <2>3 DEF Position
<1>7. next' \in [Group -> Nat] BY <1>5, <1>6
<1>8. t \in 0..ready' /\ \A g \in Group : next'[g] = t \div Size[g] BY <1>2, <1>3, <1>4, <1>5
<1> QED BY <1>2, <1>3, <1>5, <1>6, <1>7, <1>8 DEF Aligned, Position

\* It holds at the start, where they share what was found in the cache.
LEMMA AlignedInit == OffloadInit => Aligned
<1> SUFFICES ASSUME OffloadInit PROVE Aligned OBVIOUS
<1>1. ready \in Nat BY TierAssumption DEF OffloadInit
<1>2. PICK p \in 0..ready : next = [g \in Group |-> p \div Size[g]] BY DEF OffloadInit
<1>3. \A g \in Group : p \div Size[g] \in Nat
  <2> SUFFICES ASSUME NEW g \in Group PROVE p \div Size[g] \in Nat OBVIOUS
  <2>1. Size[g] \in Nat \ {0} /\ p \in Nat BY <1>1, SizeAssumption
  <2> QED BY <2>1, DivBounds
<1> QED BY <1>1, <1>2, <1>3 DEF Aligned, Position

\* Every step keeps it.
LEMMA AlignedStep == Aligned /\ [OffloadNext]_offloadVars => Aligned' /\ \A g \in Group : next'[g] >= next[g]
<1> SUFFICES ASSUME Aligned, [OffloadNext]_offloadVars
             PROVE  Aligned' /\ \A g \in Group : next'[g] >= next[g]
  OBVIOUS
<1>1. CASE Store BY <1>1, StoreAdvances
<1>2. CASE Grow
  <2>1. ready' \in Nat /\ ready <= ready' /\ next' = next
    BY <1>2, TierAssumption DEF Grow, Aligned
  <2> QED BY <2>1 DEF Aligned, Position
<1>3. CASE Drain \/ UNCHANGED offloadVars BY <1>3 DEF Drain, offloadVars, Aligned, Position
<1> QED BY <1>1, <1>2, <1>3 DEF OffloadNext

\* resolve_store_batch_tokens keeps its promise ("never smaller than one block of the
\* coarsest group ... the cursor would rewind"): whatever the groups, the tier and the
\* fraction, no step moves the cursor of a group back.
THEOREM NoRewind == OffloadSpec => CursorsNeverRewind
<1>1. OffloadInit => Aligned BY AlignedInit
<1>2. Aligned /\ [OffloadNext]_offloadVars => Aligned' BY AlignedStep
<1>3. Aligned /\ [OffloadNext]_offloadVars =>
        [\A g \in Group : next'[g] >= next[g]]_offloadVars
  BY AlignedStep
<1> QED BY <1>1, <1>2, <1>3, PTL DEF OffloadSpec, CursorsNeverRewind
=============================================================================
