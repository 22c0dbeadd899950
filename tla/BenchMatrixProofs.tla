------------------------- MODULE BenchMatrixProofs -------------------------
(***************************************************************************)
(* The matrix says what was measured, for any number of loads and depths:  *)
(* rows name the warm arm that served them, no cell counts twice, an       *)
(* accepted receipt is complete, a finished sweep is banked, a divergence  *)
(* is replayed, and an arm that has died stays down.                       *)
(***************************************************************************)
EXTENDS BenchMatrix, DataInduction, FunctionTheorems

Standing == {"stop", "ready", "warm"}

Serves == [arm : Arm \cup {"none"}, up : BOOLEAN, ranks : BOOLEAN, warm : BOOLEAN]

Types ==
  /\ force \in BOOLEAN /\ found \in Arm \cup {"none"} /\ dead \in BOOLEAN
  /\ serve \in Serves /\ current \in Arm \cup {"none"} /\ goal \in Arm /\ degrading \in BOOLEAN
  /\ phase \in {"sweep", "replay"} /\ idx \in Nat /\ 0 < idx /\ todo \subseteq Depth
  /\ pc \in Standing \cup Stop \cup {"ensure", "next", "cell", "interim", "final", "hung"}

Row == [arm : Arm, load : 1..Loads, depth : Depth, at : 1..(2 * Loads),
        by : Arm \cup {"none"}, warm : BOOLEAN]
Cells == /\ rows \subseteq Row
         /\ prints \in [Arm \X Depth -> SUBSET (Prints \cup {Silence})]
         /\ serials \in [Arm \X Depth -> SUBSET (Prints \cup {Silence})]

\* Where the loops stand, and what the arm that is stood up has to do with it.
Cursor ==
  /\ pc = "ensure" => phase = "sweep" /\ idx = 1 /\ ~dead
                             /\ current = (IF force THEN "none" ELSE "spec_off")
  /\ pc \in Standing \cup {"cell"} => idx <= Turns
  /\ pc \in Standing => IF degrading THEN dead /\ Turn(idx) = "spec_on" ELSE goal = Turn(idx)
  /\ pc = "cell" => ~degrading /\ goal = Turn(idx)
  /\ pc = "interim" => phase = "sweep" /\ idx > Turns
  /\ pc \in {"final", "done"} => phase = "replay" /\ idx > Turns
  /\ pc \in Standing \cup {"cell"} /\ dead => goal = "spec_off"

\* A run that may trust what it found knows which arm it has.
Trusted == found = "spec_on" => force

Believed ==
  /\ serve.ranks => serve.arm \in Arm
  /\ Trusted /\ current \in Arm /\ serve.ranks => serve.arm = current
  /\ pc \in {"ready", "warm", "cell"} => current = goal
  /\ pc \in {"next", "cell"} /\ phase = "sweep" /\ current \in Arm /\ Completes /\ ~serve.warm =>
       ~force /\ ~dead /\ current = "spec_off" /\ (idx = 1 \/ (idx = 2 /\ pc = "next"))

\* A row lies where the schedule put it, and is one of those already measured.
Placed ==
  /\ \A r \in rows : r.arm = Schedule(r.at) /\ r.load = LoadAt(r.at)
  /\ phase = "sweep" => \A r \in rows :
       r.at < idx \/ (r.at = idx /\ r.depth \notin todo /\ pc \in {"cell"} \cup Stop)
  /\ \A r, s \in rows : r.at = s.at /\ r.depth = s.depth => r = s
  /\ RowsNameTheirArm /\ RowsAreWarm

\* While no arm has died the turns behind have measured every depth.
Measured(k, d) == \E r \in rows : r.at = k /\ r.depth = d

Whole == \A k \in 1..(2 * Loads), d \in Depth : Measured(k, d)

Filled ==
  /\ ~dead /\ phase = "sweep" =>
       /\ \A k \in 1..(2 * Loads), d \in Depth : k < idx => Measured(k, d)
       /\ pc \in Standing \cup {"cell"} => \A d \in Depth \ todo : Measured(idx, d)
  /\ ~dead /\ phase = "replay" => Whole

\* The receipt and what it says.
Banked ==
  /\ receipt.kind \in {"absent", "earlier", "torn", "interim", "final"}
  /\ receipt.kind = "absent" => receipt = NoReceipt
  /\ receipt.kind = "torn" => receipt = TornReceipt
  /\ receipt.kind = "earlier" => receipt = EarlierReceipt
  /\ receipt.kind \in {"interim", "final"} => "spec_off" \notin receipt.arms
  /\ receipt.kind \in {"interim", "final"} => receipt.spec_on_failed \/ Whole
  /\ phase = "sweep" => receipt.kind \in {"absent", "earlier", "torn"}
  /\ pc = "done" => receipt.suspects = Suspects
  /\ pc = "final" => receipt = TornReceipt
  /\ SweepIsBanked

\* The labels behind have been replayed.
Replayed ==
  phase = "replay" =>
    /\ \A k \in 1..Turns : \A d \in DepthsOf(Labels[k]) :
         k < idx => serials[<<Labels[k], d>>] # {} \/ (Labels[k] = "spec_on" /\ dead)
    /\ pc \in Standing \cup {"cell"} /\ ~degrading =>
         \A d \in DepthsOf(goal) \ todo : serials[<<goal, d>>] # {}

MatrixInv == Types /\ Cells /\ Cursor /\ Believed /\ Placed /\ Filled /\ Banked /\ Replayed

-----------------------------------------------------------------------------
\* The schedule and the labels.

\* Each arm has one position in each load.
LEMMA ScheduleIsPlan ==
  ASSUME NEW k \in Nat, 0 < k
  PROVE  /\ Schedule(k) \in Arm /\ LoadAt(k) \in Nat
         /\ k <= 2 * Loads => LoadAt(k) \in 1..Loads
  BY MatrixAssumption, Z3 DEF Schedule, LoadAt, Arm

LEMMA ScheduleIsOneToOne ==
  ASSUME NEW j \in Nat, NEW k \in Nat,
         Schedule(j) = Schedule(k), LoadAt(j) = LoadAt(k)
  PROVE  j = k
  BY Z3 DEF Schedule, LoadAt

LEMMA ScheduleIsOnto ==
  ASSUME NEW arm \in Arm, NEW l \in 1..Loads
  PROVE  \E k \in 1..(2 * Loads) : Schedule(k) = arm /\ LoadAt(k) = l
<1>1. 2 * l - 1 \in 1..(2 * Loads) /\ 2 * l \in 1..(2 * Loads) BY MatrixAssumption
<1>2. LoadAt(2 * l - 1) = l /\ LoadAt(2 * l) = l BY Z3 DEF LoadAt
<1>3. Schedule(2 * l - 1) # Schedule(2 * l) BY <1>2, Z3 DEF Schedule
<1>4. Schedule(2 * l - 1) \in Arm /\ Schedule(2 * l) \in Arm BY DEF Schedule, Arm
<1> QED BY <1>1, <1>2, <1>3, <1>4 DEF Arm

LEMMA LabelsAreDue ==
  /\ Len(Labels) \in Nat
  /\ \A k \in 1..Len(Labels) : Labels[k] \in Arm /\ DepthsOf(Labels[k]) # {}
  /\ \A arm \in Arm : DepthsOf(arm) # {} => \E k \in 1..Len(Labels) : Labels[k] = arm
<1> DEFINE off == DepthsOf("spec_off")
           on  == DepthsOf("spec_on")
<1>1. CASE off = {} /\ on = {}
  BY <1>1 DEF Labels, Arm
<1>2. CASE off = {} /\ on # {}
  <2>1. Labels = <<"spec_on">> BY <1>2 DEF Labels
  <2> QED BY <1>2, <2>1 DEF Arm
<1>3. CASE off # {} /\ on = {}
  <2>1. Labels = <<"spec_off">> BY <1>3 DEF Labels
  <2> QED BY <1>3, <2>1 DEF Arm
<1>4. CASE off # {} /\ on # {}
  <2>1. Labels = <<"spec_off">> \o <<"spec_on">> BY <1>4 DEF Labels
  <2>2. Len(Labels) = 2 /\ Labels[1] = "spec_off" /\ Labels[2] = "spec_on" BY <2>1
  <2> QED BY <1>4, <2>2 DEF Arm
<1> QED BY <1>1, <1>2, <1>3, <1>4

LEMMA TurnsAreArms ==
  ASSUME phase \in {"sweep", "replay"}
  PROVE  /\ Turns \in Nat /\ (phase = "sweep" => Turns = 2 * Loads)
         /\ \A k \in 1..Turns : Turn(k) \in Arm /\ DepthsDue(Turn(k)) \subseteq Depth
  BY LabelsAreDue, ScheduleIsPlan, MatrixAssumption DEF Turns, Turn, DepthsDue, DepthsOf

\* The loops do not move under a step that leaves the prints alone, nor in the sweep.
LEMMA TurnsKept ==
  ASSUME phase' = phase, phase = "sweep" \/ prints' = prints
  PROVE  /\ Turns' = Turns
         /\ \A k \in Nat : Turn(k)' = Turn(k)
  BY DEF Turns, Turn, Labels, DepthsOf, Divergent

\* The depths due are a set of naturals, which has a least element.
LEMMA NextDepthIsDue ==
  ASSUME todo \subseteq Depth, todo # {}
  PROVE  NextDepth \in todo
<1>1. todo \in SUBSET Nat BY MatrixAssumption DEF Depth
<1>2. \E d \in todo : \A e \in todo : d <= e BY <1>1, LeastNumber
<1> QED BY <1>2 DEF NextDepth

-----------------------------------------------------------------------------
\* MatrixInv is inductive.

\* What the steps make of a serve is one.
LEMMA ServesAre ==
  /\ NoServe \in Serves
  /\ \A arm \in Arm : /\ Serving(arm) \in Serves
                       /\ Booting(arm) \in Serves
  /\ serve \in Serves => /\ Hollow(serve) \in Serves
                         /\ [serve EXCEPT !.up = TRUE] \in Serves
                         /\ [serve EXCEPT !.warm = TRUE] \in Serves
                         /\ serve.arm \in Arm \cup {"none"} /\ serve.warm \in BOOLEAN
<1>1. NoServe \in Serves BY DEF NoServe, Serves
<1>2. \A arm \in Arm : Serving(arm) \in Serves BY DEF Serving, Serves
<1>3. \A arm \in Arm : Booting(arm) \in Serves BY DEF Booting, Serves
<1>4. ASSUME serve \in Serves
      PROVE  /\ Hollow(serve) \in Serves
             /\ [serve EXCEPT !.up = TRUE] \in Serves
             /\ [serve EXCEPT !.warm = TRUE] \in Serves
             /\ serve.arm \in Arm \cup {"none"} /\ serve.warm \in BOOLEAN
  BY <1>4 DEF Serves, Hollow
<1> QED BY <1>1, <1>2, <1>3, <1>4

USE DEF knobs, pair, place, data, Goto, NextTurn, Fatal, ServeFailed, Standing, Stop

LEMMA InitInv == Init => MatrixInv
<1> SUFFICES ASSUME Init PROVE MatrixInv OBVIOUS
<1>0. serve = NoServe \/ \E a \in Arm : serve = Serving(a) BY Zenon DEF Init
<1>1. Types /\ Cells
  <2>1. serve \in Serves BY <1>0, ServesAre
  <2>2. found \in Arm \cup {"none"} BY <2>1, ServesAre DEF Init
  <2>3. force \in BOOLEAN /\ dead \in BOOLEAN /\ degrading \in BOOLEAN BY DEF Init
  <2>4. current \in Arm \cup {"none"} /\ goal \in Arm BY DEF Init, Arm
  <2>5. phase = "sweep" /\ pc = "ensure" /\ idx = 1 /\ todo = {} BY DEF Init
  <2>6. Types BY <2>1, <2>2, <2>3, <2>4, <2>5 DEF Types
  <2> QED BY <2>6 DEF Init, Cells
<1>2. Cursor BY DEF Init, Cursor
<1>3. Believed BY <1>0 DEF Init, Believed, Trusted, Arm, NoServe, Serving
<1>4. Placed BY DEF Init, Placed, RowsNameTheirArm, RowsAreWarm
<1>5. Filled BY MatrixAssumption DEF Init, Filled
<1>6. Banked
  <2>1. phase = "sweep" /\ pc = "ensure" /\ receipt \in {NoReceipt, EarlierReceipt} BY DEF Init
  <2> QED BY <2>1 DEF Banked, SweepIsBanked, NoReceipt, EarlierReceipt
<1>7. Replayed BY DEF Init, Replayed
<1> QED BY <1>1, <1>2, <1>3, <1>4, <1>5, <1>6, <1>7 DEF MatrixInv

LEMMA StepTypes == MatrixInv /\ [Next]_vars => Types'
<1> SUFFICES ASSUME MatrixInv, [Next]_vars PROVE Types' OBVIOUS
<1> USE DEF MatrixInv, Types
<1>1. CASE EnsureUp
  BY <1>1, ServesAre DEF EnsureUp, Arm
<1>2. CASE TakeTurn
  <2>1. Turn(idx) \in Arm /\ DepthsDue(Turn(idx)) \subseteq Depth
    BY <1>2, TurnsAreArms DEF TakeTurn
  <2>2. CASE NextTurn BY <1>2, <2>2 DEF TakeTurn
  <2>3. CASE ~NextTurn BY <1>2, <2>1, <2>3, Zenon DEF TakeTurn
  <2> QED BY <2>2, <2>3
<1>3. CASE StopOldServe
  BY <1>3, ServesAre DEF StopOldServe
<1>4. CASE WaitReady
  BY <1>4, ServesAre DEF WaitReady, Arm
<1>5. CASE Warmup
  <2>1. serve' = serve \/ serve' = [serve EXCEPT !.warm = TRUE] BY <1>5 DEF Warmup
  <2>2. serve' \in Serves BY <2>1, ServesAre
  <2>3. CASE NextTurn BY <1>5, <2>2, <2>3 DEF Warmup
  <2>4. CASE ServeFailed BY <1>5, <2>2, <2>4 DEF Warmup, Arm
  <2>5. CASE ~NextTurn /\ ~ServeFailed
    <3>1. /\ UNCHANGED <<knobs, current, dead, phase, idx, goal, degrading, todo>>
          /\ pc' \in {"cell", "failed"}
      BY <1>5, <2>5, Zenon DEF Warmup
    <3> QED BY <2>2, <3>1
  <2> QED BY <2>3, <2>4, <2>5
<1>6. CASE MeasureCell
  BY <1>6, NextDepthIsDue DEF MeasureCell
<1>7. CASE ReplayCell
  BY <1>7, NextDepthIsDue DEF ReplayCell
<1>8. CASE EndTurn
  BY <1>8 DEF EndTurn
<1>9. CASE BankInterim
  BY <1>9 DEF BankInterim
<1>10. CASE Reduce
  BY <1>10 DEF Reduce
<1>11. CASE BankFinal
  BY <1>11 DEF BankFinal
<1>12. CASE Finish
  BY <1>12 DEF Finish
<1>13. CASE ServeCrashes
  BY <1>13, ServesAre DEF ServeCrashes
<1>14. CASE Kill
  BY <1>14 DEF Kill
<1>15. CASE UNCHANGED vars
  BY <1>15 DEF vars
<1>16. CASE Hang
  BY <1>16 DEF Hang
<1> QED BY <1>1, <1>2, <1>3, <1>4, <1>5, <1>6, <1>7, <1>8, <1>9, <1>10, <1>11, <1>12, <1>13,
           <1>14, <1>15, <1>16 DEF Next, Script

\* Only the two cells add a row or a replay.
LEMMA StepCells == MatrixInv /\ [Next]_vars => Cells'
<1> SUFFICES ASSUME MatrixInv, [Next]_vars PROVE Cells' OBVIOUS
<1> USE DEF MatrixInv, Cells
<1>1. CASE MeasureCell
  <2>1. /\ NextDepth \in Depth /\ goal \in Arm
        /\ serve.arm \in Arm \cup {"none"} /\ serve.warm \in BOOLEAN
    BY <1>1, NextDepthIsDue, ServesAre DEF MeasureCell, Types
  <2>2. idx \in 1..(2 * Loads) /\ LoadAt(idx) \in 1..Loads
    <3>1. idx \in Nat /\ 0 < idx /\ idx <= 2 * Loads
      BY <1>1, TurnsAreArms DEF MeasureCell, Cursor, Types
    <3> QED BY <3>1, ScheduleIsPlan, MatrixAssumption
  <2>3. [arm |-> goal, load |-> LoadAt(idx), depth |-> NextDepth, at |-> idx,
         by |-> serve.arm, warm |-> serve.warm] \in Row
    BY <2>1, <2>2 DEF Row
  <2>4. \A reply \in Replies : reply \subseteq Prints \cup {Silence} BY MatrixAssumption
  <2>5. rows' \subseteq Row /\ serials' = serials BY <1>1, <2>3 DEF MeasureCell
  <2>6. prints' \in [Arm \X Depth -> SUBSET (Prints \cup {Silence})]
    BY <1>1, <2>4 DEF MeasureCell
  <2> QED BY <2>5, <2>6
<1>2. CASE ReplayCell
  <2>1. \A reply \in Replies : reply \subseteq Prints \cup {Silence} BY MatrixAssumption
  <2> QED BY <1>2, <2>1 DEF ReplayCell
<1>3. CASE ~MeasureCell /\ ~ReplayCell
  <2>1. rows' = rows /\ serials' = serials /\ prints' = prints
    BY <1>3 DEF Next, Script, EnsureUp, TakeTurn, StopOldServe, WaitReady, Warmup, EndTurn,
                BankInterim, Reduce, BankFinal, Finish, ServeCrashes,
                Hang, Kill, vars
  <2> QED BY <2>1
<1> QED BY <1>1, <1>2, <1>3

\* Where the loops stand.
LEMMA StepCursor == MatrixInv /\ [Next]_vars => Cursor'
<1> SUFFICES ASSUME MatrixInv, [Next]_vars PROVE Cursor' OBVIOUS
<1> USE DEF MatrixInv, Types, Cursor
<1>0. /\ Turns \in Nat /\ (phase = "sweep" => Turns = 2 * Loads)
      /\ \A k \in 1..Turns : Turn(k) \in Arm
  BY TurnsAreArms
<1>1. CASE EnsureUp
  BY <1>1 DEF EnsureUp
<1>2. CASE TakeTurn
  <2>1. Turns' = Turns /\ (idx' = idx => Turn(idx)' = Turn(idx))
    BY <1>2, TurnsKept DEF TakeTurn
  <2> QED BY <1>0, <1>2, <2>1 DEF TakeTurn, MustSkip, Arm
<1>3. CASE StopOldServe
  <2>1. Turns' = Turns /\ Turn(idx)' = Turn(idx)
    BY <1>3, TurnsKept DEF StopOldServe
  <2> QED BY <1>3, <2>1 DEF StopOldServe
<1>4. CASE WaitReady
  <2>1. Turns' = Turns /\ Turn(idx)' = Turn(idx)
    BY <1>4, TurnsKept DEF WaitReady
  <2> QED BY <1>4, <2>1 DEF WaitReady, Arm
<1>5. CASE Warmup
  <2>1. Turns' = Turns /\ (idx' = idx => Turn(idx)' = Turn(idx))
    BY <1>5, TurnsKept DEF Warmup
  <2> QED BY <1>5, <2>1 DEF Warmup, Arm
<1>6. CASE MeasureCell
  <2>1. Turns' = Turns /\ Turn(idx)' = Turn(idx)
    BY <1>6, TurnsKept DEF MeasureCell
  <2> QED BY <1>6, <2>1 DEF MeasureCell
<1>7. CASE ReplayCell
  <2>1. Turns' = Turns /\ Turn(idx)' = Turn(idx)
    BY <1>7, TurnsKept DEF ReplayCell
  <2> QED BY <1>7, <2>1 DEF ReplayCell
<1>8. CASE EndTurn
  BY <1>8 DEF EndTurn
<1>9. CASE BankInterim
  <2>1. Turns' = Turns BY <1>9, TurnsKept DEF BankInterim
  <2> QED BY <1>9, <2>1 DEF BankInterim
<1>10. CASE Reduce
  BY <1>10 DEF Reduce
<1>11. CASE BankFinal
  <2>1. Turns' = Turns BY <1>11, TurnsKept DEF BankFinal
  <2> QED BY <1>11, <2>1 DEF BankFinal
<1>12. CASE Finish
  <2>1. Turns' = Turns BY <1>12, TurnsKept DEF Finish
  <2> QED BY <1>12, <2>1 DEF Finish
<1>13. CASE ServeCrashes
  <2>1. Turns' = Turns /\ Turn(idx)' = Turn(idx)
    BY <1>13, TurnsKept DEF ServeCrashes
  <2> QED BY <1>13, <2>1 DEF ServeCrashes
<1>14. CASE Kill
  BY <1>14 DEF Kill
<1>15. CASE UNCHANGED vars
  <2>1. Turns' = Turns /\ Turn(idx)' = Turn(idx)
    BY <1>15, TurnsKept DEF vars
  <2> QED BY <1>15, <2>1 DEF vars
<1>16. CASE Hang
  BY <1>16 DEF Hang
<1> QED BY <1>1, <1>2, <1>3, <1>4, <1>5, <1>6, <1>7, <1>8, <1>9, <1>10, <1>11, <1>12, <1>13,
           <1>14, <1>15, <1>16 DEF Next, Script

\* What the script believes of the serve, and when it may be cold. The one cold serve
\* it measures is the baseline it was told to trust; the second turn replaces it.
LEMMA StepBelieved == MatrixInv /\ [Next]_vars => Believed'
<1> SUFFICES ASSUME MatrixInv, [Next]_vars PROVE Believed' OBVIOUS
<1> USE DEF MatrixInv, Types, Serves, Believed, Trusted, Arm, Completes, Hollow, Booting, Serving
<1>1. CASE EnsureUp
  BY <1>1 DEF EnsureUp, Serving, Cursor
<1>2. CASE TakeTurn
  <2>1. phase = "sweep" => Turn(1) = "spec_off" /\ Turn(2) = "spec_on" /\ 2 <= Turns
    BY MatrixAssumption, Z3 DEF Turn, Turns, Schedule, LoadAt
  <2> QED BY <1>2, <2>1 DEF TakeTurn, MustSkip
<1>3. CASE StopOldServe
  BY <1>3 DEF StopOldServe
<1>4. CASE WaitReady
  BY <1>4 DEF WaitReady
<1>5. CASE Warmup
  BY <1>5 DEF Warmup
<1>6. CASE MeasureCell
  BY <1>6 DEF MeasureCell
<1>7. CASE ReplayCell
  BY <1>7 DEF ReplayCell
<1>8. CASE EndTurn
  BY <1>8 DEF EndTurn
<1>9. CASE BankInterim
  BY <1>9 DEF BankInterim
<1>10. CASE Reduce
  BY <1>10 DEF Reduce
<1>11. CASE BankFinal
  BY <1>11 DEF BankFinal
<1>12. CASE Finish
  BY <1>12 DEF Finish
<1>13. CASE ServeCrashes
  BY <1>13 DEF ServeCrashes, NoServe
<1>14. CASE Kill
  BY <1>14 DEF Kill
<1>15. CASE UNCHANGED vars
  BY <1>15 DEF vars
<1>16. CASE Hang
  BY <1>16 DEF Hang
<1> QED BY <1>1, <1>2, <1>3, <1>4, <1>5, <1>6, <1>7, <1>8, <1>9, <1>10, <1>11, <1>12, <1>13,
           <1>14, <1>15, <1>16 DEF Next, Script

\* A new row lies at the turn that is on, and its depth was still due.
LEMMA StepPlaced == MatrixInv /\ [Next]_vars => Placed'
<1> SUFFICES ASSUME MatrixInv, [Next]_vars PROVE Placed' OBVIOUS
<1> USE DEF MatrixInv
<1>0. \A r \in rows : r.at \in Nat BY MatrixAssumption DEF Cells, Row
<1>1. CASE MeasureCell /\ rows' # rows
  <2> DEFINE new == [arm |-> goal, load |-> LoadAt(idx), depth |-> NextDepth, at |-> idx,
                     by |-> serve.arm, warm |-> serve.warm]
  <2>1. /\ rows' = rows \cup {new} /\ Completes /\ todo' = todo \ {NextDepth}
        /\ phase = "sweep" /\ pc = "cell" /\ UNCHANGED <<phase, pc, idx, goal, force, found>>
    BY <1>1 DEF MeasureCell
  <2>2. goal = Schedule(idx) BY <2>1 DEF Cursor, Turn
  <2>3. \A r \in rows : r.at < idx \/ (r.at = idx /\ r.depth \notin todo)
    BY <2>1 DEF Placed
  <2>4. NextDepth \in todo BY <1>1, NextDepthIsDue DEF MeasureCell, Types
  <2>5. Trusted => new.by = new.arm BY <2>1 DEF Believed, Types, Completes
  <2>6. new.warm \/ (~force /\ new.at = 1)
    BY <2>1, ServesAre DEF Believed, Types
  <2>7. /\ new.arm = Schedule(new.at) /\ new.load = LoadAt(new.at)
        /\ new.at = idx /\ new.depth = NextDepth
    BY <2>2
  <2> HIDE DEF new
  <2>8. \A r \in rows' : r.arm = Schedule(r.at) /\ r.load = LoadAt(r.at)
    BY <2>1, <2>7 DEF Placed
  <2>9. \A r \in rows' : r.at < idx \/ (r.at = idx /\ r.depth \notin todo')
    BY <2>1, <2>3, <2>7
  <2>10. \A r \in rows : ~(r.at = new.at /\ r.depth = new.depth)
    BY <1>0, <2>3, <2>4, <2>7 DEF Types
  <2>11. \A r, q \in rows' : r.at = q.at /\ r.depth = q.depth => r = q
    BY <2>1, <2>10 DEF Placed
  <2>12. RowsNameTheirArm'
    BY <2>1, <2>5 DEF Placed, RowsNameTheirArm, Trusted
  <2>13. RowsAreWarm'
    BY <2>1, <2>6 DEF Placed, RowsAreWarm
  <2> QED BY <2>1, <2>8, <2>9, <2>11, <2>12, <2>13 DEF Placed
<1>2. CASE rows' = rows
  <2>1. UNCHANGED knobs
    BY DEF Next, Script, EnsureUp, TakeTurn, StopOldServe, WaitReady, Warmup, MeasureCell,
           ReplayCell, EndTurn, BankInterim, Reduce, BankFinal, Finish, ServeCrashes,
           Hang, Kill, vars
  <2>2. \/ phase' = "replay"
        \/ phase' = phase /\ idx' = idx + 1 /\ (pc = "cell" => todo = {})
        \/ phase' = phase /\ idx' = idx /\ pc \notin {"cell"} \cup Stop
        \/ phase' = phase /\ idx' = idx /\ todo' \subseteq todo /\ pc' \in {"cell"} \cup Stop
    BY DEF Next, Script, EnsureUp, TakeTurn, StopOldServe, WaitReady, Warmup, MeasureCell,
           ReplayCell, EndTurn, BankInterim, Reduce, BankFinal, Finish, ServeCrashes,
           Hang, Kill, vars, Types
  <2>3. phase' = "sweep" => \A r \in rows :
          r.at < idx' \/ (r.at = idx' /\ r.depth \notin todo' /\ pc' \in {"cell"} \cup Stop)
    BY <1>0, <2>2 DEF Placed, Types
  <2>4. RowsNameTheirArm' /\ RowsAreWarm'
    BY <1>2, <2>1 DEF Placed, RowsNameTheirArm, RowsAreWarm
  <2> QED BY <1>2, <2>3, <2>4 DEF Placed
<1>3. rows' = rows \/ MeasureCell
  BY DEF Next, Script, EnsureUp, TakeTurn, StopOldServe, WaitReady, Warmup, ReplayCell,
         EndTurn, BankInterim, Reduce, BankFinal, Finish, ServeCrashes,
         Hang, Kill, vars
<1> QED BY <1>1, <1>2, <1>3

\* A turn that ends has measured every depth of its load, or an arm has died.
LEMMA StepFilled == MatrixInv /\ [Next]_vars => Filled'
<1> SUFFICES ASSUME MatrixInv, [Next]_vars, ~dead' PROVE Filled' BY DEF Filled
<1> USE DEF MatrixInv
<1>1. ~dead /\ rows \subseteq rows'
  BY DEF Next, Script, EnsureUp, TakeTurn, StopOldServe, WaitReady, Warmup, MeasureCell,
         ReplayCell, EndTurn, BankInterim, Reduce, BankFinal, Finish, ServeCrashes,
         Hang, Kill, vars, Types
<1>2. \A k, d : Measured(k, d) => Measured(k, d)'
  BY <1>1 DEF Measured
<1>3. CASE phase' = "sweep"
  <2>1. phase = "sweep"
    BY <1>3
       DEF Next, Script, EnsureUp, TakeTurn, StopOldServe, WaitReady, Warmup, MeasureCell,
           ReplayCell, EndTurn, BankInterim, Reduce, BankFinal, Finish, ServeCrashes,
           Hang, Kill, vars
  <2>2. \/ idx' = idx
        \/ idx' = idx + 1 /\ pc = "cell" /\ todo = {}
    <3>1. CASE TakeTurn BY <1>1, <3>1 DEF TakeTurn, MustSkip
    <3>2. CASE Warmup BY <1>1, <3>2 DEF Warmup, Cursor
    <3>3. CASE ~TakeTurn /\ ~Warmup
      BY <2>1, <1>3, <3>3
         DEF Next, Script, EnsureUp, StopOldServe, WaitReady, MeasureCell, ReplayCell, EndTurn,
             BankInterim, Reduce, BankFinal, Finish, ServeCrashes,
             Hang, Kill, vars
    <3> QED BY <3>1, <3>2, <3>3
  <2>3. \A k \in 1..(2 * Loads), d \in Depth : k < idx' => Measured(k, d)
    BY <1>1, <2>1, <2>2, MatrixAssumption DEF Filled, Types
  <2>4. ASSUME pc' \in Standing \cup {"cell"}, NEW d \in Depth \ todo'
        PROVE  \E r \in rows' : r.at = idx' /\ r.depth = d
    <3>1. CASE MeasureCell
      <4>1. NextDepth \in todo BY <3>1, NextDepthIsDue DEF MeasureCell, Types
      <4>2. [arm |-> goal, load |-> LoadAt(idx), depth |-> NextDepth, at |-> idx,
             by |-> serve.arm, warm |-> serve.warm] \in rows'
        BY <2>4, <3>1 DEF MeasureCell
      <4>3. todo' = todo \ {NextDepth} /\ idx' = idx /\ pc = "cell" BY <2>4, <3>1 DEF MeasureCell
      <4>4. CASE d = NextDepth BY <4>2, <4>3, <4>4
      <4>5. CASE d # NextDepth
        <5>1. Measured(idx, d) BY <1>1, <2>1, <2>4, <4>3, <4>5 DEF Filled
        <5> QED BY <1>1, <4>3, <5>1 DEF Measured
      <4> QED BY <4>4, <4>5
    <3>2. CASE TakeTurn
      <4>1. todo' = Depth BY <2>1, <2>4, <3>2 DEF TakeTurn, DepthsDue
      <4> QED BY <2>4, <4>1
    <3>3. CASE ~MeasureCell /\ ~TakeTurn
      <4>1. idx' = idx /\ todo' = todo /\ pc \in Standing \cup {"cell"}
        BY <1>1, <2>1, <2>4, <3>3
           DEF Next, Script, EnsureUp, StopOldServe, WaitReady, Warmup, MeasureCell, ReplayCell,
               EndTurn, BankInterim, Reduce, BankFinal, Finish, ServeCrashes,
               Hang, Kill, vars, Types
      <4>2. Measured(idx, d) BY <1>1, <2>1, <2>4, <4>1 DEF Filled
      <4> QED BY <1>1, <4>1, <4>2 DEF Measured
    <3> QED BY <3>1, <3>2, <3>3
  <2> QED BY <1>2, <1>3, <2>3, <2>4 DEF Filled, Measured
<1>4. CASE phase' = "replay"
  <2>1. Whole
    <3>1. CASE phase = "replay" BY <1>1, <3>1 DEF Filled
    <3>2. CASE phase = "sweep"
      <4>1. pc = "interim"
        BY <1>4, <3>2
           DEF Next, Script, EnsureUp, TakeTurn, StopOldServe, WaitReady, Warmup, MeasureCell,
               ReplayCell, EndTurn, BankInterim, Reduce, BankFinal, Finish, ServeCrashes, Hang,
           Kill,
               vars
      <4>2. idx \in Nat /\ idx > 2 * Loads BY <3>2, <4>1, TurnsAreArms DEF Cursor, Types
      <4> QED BY <1>1, <3>2, <4>2, MatrixAssumption DEF Filled, Whole
    <3> QED BY <3>1, <3>2 DEF Types
  <2>2. Whole' BY <1>2, <2>1 DEF Whole
  <2> QED BY <1>4, <2>2 DEF Filled
<1> QED BY <1>3, <1>4, StepTypes DEF Types

\* What the receipt says of the rows.
LEMMA FactsSay ==
  ASSUME NEW kind
  PROVE  /\ Facts(kind).kind = kind /\ Facts(kind).spec_on_failed = dead
         /\ Facts(kind).arms = {Label(a) : a \in MeasuredArms} /\ Facts(kind).loads = LoadsPerArm
         /\ "spec_off" \notin Facts(kind).arms
  BY DEF Facts, Label

LEMMA StepBanked == MatrixInv /\ [Next]_vars => Banked'
<1> SUFFICES ASSUME MatrixInv, [Next]_vars PROVE Banked' OBVIOUS
<1> USE DEF MatrixInv
<1>1. CASE Reduce
  <2>1. receipt' = Facts("interim") /\ UNCHANGED <<rows, dead>> /\ phase' = "replay" /\ pc' = "next"
    BY <1>1 DEF Reduce
  <2>2. dead \/ Whole
    <3>1. idx \in Nat /\ idx > 2 * Loads /\ phase = "sweep"
      BY <1>1, TurnsAreArms DEF Reduce, Cursor, Types
    <3> QED BY <3>1, MatrixAssumption DEF Filled, Whole
  <2>3. Whole' = Whole /\ MeasuredArms' = MeasuredArms /\ LoadsPerArm' = LoadsPerArm
    BY <2>1 DEF Whole, Measured, MeasuredArms, LoadsPerArm, LoadsOf
  <2> QED BY <2>1, <2>2, <2>3, FactsSay DEF Banked, SweepIsBanked
<1>2. CASE Finish
  <2>1. receipt' = Facts("final") /\ UNCHANGED <<rows, dead, phase>> /\ pc' = "done" /\ pc = "final"
    BY <1>2 DEF Finish
  <2>2. phase = "replay" /\ (dead \/ Whole) BY <2>1 DEF Cursor, Filled
  <2>3. Whole' = Whole BY <2>1 DEF Whole, Measured
  <2>4. Facts("final").suspects = Suspects /\ Suspects' = Suspects
    BY <2>1, <1>2 DEF Facts, Suspects, Finish
  <2> QED BY <2>1, <2>2, <2>3, <2>4, FactsSay DEF Banked, SweepIsBanked
<1>3. CASE BankInterim \/ BankFinal
  BY <1>3 DEF BankInterim, BankFinal, Banked, TornReceipt, SweepIsBanked
<1>4. CASE UNCHANGED <<phase, receipt>> /\ phase = "sweep"
  BY <1>4, StepCursor DEF Banked, Cursor, SweepIsBanked
<1>5. CASE ~Reduce /\ ~Finish /\ ~BankFinal /\ ~BankInterim /\ phase = "replay"
  <2>1. UNCHANGED <<phase, receipt, rows, prints>>
    BY <1>5 DEF Next, Script, EnsureUp, TakeTurn, StopOldServe, WaitReady, Warmup, MeasureCell,
       ReplayCell, EndTurn, ServeCrashes, Hang, Kill, vars
  <2>2. \/ pc' = pc /\ idx' = idx
        \/ pc \notin Stop /\ pc' = "killed" /\ idx' = idx
        \/ pc \notin Stop \cup {"final"} /\ pc' \notin {"final", "done"}
    BY <1>5 DEF Next, Script, EnsureUp, TakeTurn, StopOldServe, WaitReady, Warmup, MeasureCell,
       ReplayCell, EndTurn, ServeCrashes, Hang, Kill, vars
  <2>3. /\ Whole' = Whole /\ Turns' = Turns /\ Suspects' = Suspects
        /\ MeasuredArms' = MeasuredArms /\ LoadsPerArm' = LoadsPerArm
    BY <2>1, TurnsKept DEF Whole, Measured, MeasuredArms, LoadsPerArm, LoadsOf, Suspects
  <2>4. pc = "final" => receipt = TornReceipt /\ idx > Turns
    BY DEF Banked, Cursor
  <2>5. SweepIsBanked'
    <3>1. CASE pc = "final"
      BY <2>1, <2>2, <2>3, <2>4, <3>1 DEF SweepIsBanked
    <3>2. CASE pc # "final"
      <4>1. SweepIsBanked BY DEF Banked
      <4> QED BY <2>1, <2>2, <2>3, <3>2, <4>1 DEF SweepIsBanked
    <3> QED BY <3>1, <3>2
  <2> QED BY <1>5, <2>1, <2>2, <2>3, <2>4, <2>5 DEF Banked
<1>6. \/ Reduce \/ Finish \/ BankInterim \/ BankFinal \/ UNCHANGED <<phase, receipt>>
  BY DEF Next, Script, EnsureUp, TakeTurn, StopOldServe, WaitReady, Warmup, MeasureCell,
     ReplayCell, EndTurn, ServeCrashes, Hang, Kill, vars
<1> QED BY <1>1, <1>2, <1>3, <1>4, <1>5, <1>6 DEF Types

\* A label that ends has replayed all its depths, or its arm has died.
LEMMA StepReplayed == MatrixInv /\ [Next]_vars => Replayed'
<1> SUFFICES ASSUME MatrixInv, [Next]_vars, phase' = "replay" PROVE Replayed' BY DEF Replayed
<1> USE DEF MatrixInv
<1>1. CASE Reduce
  BY <1>1 DEF Reduce, Replayed
<1>2. CASE phase = "replay"
  <2>1. /\ prints' = prints /\ (dead => dead')
    BY <1>2 DEF Next, Script, EnsureUp, TakeTurn, StopOldServe, WaitReady, Warmup, MeasureCell,
       ReplayCell, EndTurn, BankInterim, Reduce, BankFinal, Finish, ServeCrashes,
       Hang, Kill, vars
  <2>2. Labels' = Labels /\ Turns' = Turns /\ (\A arm : DepthsOf(arm)' = DepthsOf(arm))
    BY <1>2, <2>1, TurnsKept DEF Labels, DepthsOf, Divergent
  <2>3. \A arm \in Arm, d \in Depth : serials[<<arm, d>>] # {} => serials'[<<arm, d>>] # {}
    <3>1. CASE ReplayCell
      <4>1. \A reply \in Replies : reply # {} BY MatrixAssumption
      <4> QED BY <3>1, <4>1 DEF ReplayCell, Cells
    <3>2. CASE ~ReplayCell
      <4>1. serials' = serials
        BY <3>2
           DEF Next, Script, EnsureUp, TakeTurn, StopOldServe, WaitReady, Warmup, MeasureCell,
               EndTurn, BankInterim, Reduce, BankFinal, Finish, ServeCrashes,
               Hang, Kill, vars
      <4> QED BY <4>1
    <3> QED BY <3>1, <3>2
  <2>4. Turns = Len(Labels) /\ Turn(idx) = Labels[idx] BY <1>2 DEF Turns, Turn
  <2>5. ASSUME NEW k \in 1..Turns, NEW d \in DepthsOf(Labels[k]), k < idx'
        PROVE  serials'[<<Labels[k], d>>] # {} \/ (Labels[k] = "spec_on" /\ dead')
    <3>1. Labels[k] \in Arm /\ d \in Depth BY <2>4, <2>5, LabelsAreDue DEF DepthsOf
    <3>2. CASE k < idx BY <1>2, <2>1, <2>3, <2>5, <3>1, <3>2 DEF Replayed
    <3>3. CASE ~(k < idx)
      <4>1. idx' = idx + 1 /\ (EndTurn \/ TakeTurn \/ Warmup)
        BY <1>2, <2>5, <3>3
           DEF Next, Script, EnsureUp, StopOldServe, WaitReady, MeasureCell, ReplayCell, EndTurn,
               TakeTurn, Warmup, BankInterim, Reduce, BankFinal, Finish, ServeCrashes,
               Hang, Kill, vars
      <4>2. k = idx BY <2>5, <3>3, <4>1 DEF Types
      <4>3. CASE EndTurn
        BY <1>2, <2>1, <2>3, <2>4, <2>5, <3>1, <4>2, <4>3 DEF EndTurn, Replayed, Cursor
      <4>4. CASE TakeTurn
        BY <2>1, <2>4, <4>1, <4>2, <4>4 DEF TakeTurn, MustSkip, Types
      <4>5. CASE Warmup
        BY <2>1, <2>4, <4>1, <4>2, <4>5 DEF Warmup, Cursor, Types
      <4> QED BY <4>1, <4>3, <4>4, <4>5
    <3> QED BY <3>2, <3>3
  <2>6. ASSUME pc' \in Standing \cup {"cell"}, ~degrading', NEW d \in DepthsOf(goal') \ todo'
        PROVE  serials'[<<goal', d>>] # {}
    <3>1. goal' \in Arm /\ d \in Depth BY StepTypes DEF Types, DepthsOf
    <3>2. CASE TakeTurn
      BY <1>2, <2>6, <3>2 DEF TakeTurn, DepthsDue
    <3>3. CASE ReplayCell
      <4>1. goal' = goal /\ todo' = todo \ {NextDepth} /\ ~degrading /\ pc = "cell"
            /\ \E reply \in Replies : serials' = [serials EXCEPT ![<<goal, NextDepth>>] = reply]
        BY <2>6, <3>3 DEF ReplayCell
      <4>2. CASE d = NextDepth
        <5>1. \A reply \in Replies : reply # {} BY MatrixAssumption
        <5> QED BY <3>1, <4>1, <4>2, <5>1 DEF Cells
      <4>3. CASE d # NextDepth
        BY <1>2, <2>3, <2>6, <3>1, <4>1, <4>3 DEF Replayed
      <4> QED BY <4>2, <4>3
    <3>4. CASE ~TakeTurn /\ ~ReplayCell
      <4>1. goal' = goal /\ todo' = todo /\ ~degrading /\ pc \in Standing \cup {"cell"}
        BY <1>2, <2>6, <3>4
           DEF Next, Script, EnsureUp, StopOldServe, WaitReady, Warmup, MeasureCell, EndTurn,
               BankInterim, Reduce, BankFinal, Finish, ServeCrashes,
               Hang, Kill, vars, Types
      <4> QED BY <1>2, <2>3, <2>6, <3>1, <4>1 DEF Replayed
    <3> QED BY <3>2, <3>3, <3>4
  <2> QED BY <2>2, <2>5, <2>6 DEF Replayed
<1>3. phase = "sweep" => Reduce
  BY DEF Next, Script, EnsureUp, TakeTurn, StopOldServe, WaitReady, Warmup, MeasureCell,
     ReplayCell, EndTurn, BankInterim, BankFinal, Finish, ServeCrashes,
     Hang, Kill, vars
<1> QED BY <1>1, <1>2, <1>3 DEF Types

LEMMA StepInv == MatrixInv /\ [Next]_vars => MatrixInv'
  BY StepTypes, StepCells, StepCursor, StepBelieved, StepPlaced, StepFilled, StepBanked,
     StepReplayed DEF MatrixInv

\* The invariant the theorems below rest on.
THEOREM MatrixInvHolds == Spec => []MatrixInv
  BY InitInv, StepInv, PTL DEF Spec

-----------------------------------------------------------------------------
\* What is promised.

\* Every row names the arm that served it, none was measured cold but the first load of a
\* trusted baseline, and no cell counts twice, for any number of loads and depths.
THEOREM RowsSayTheTruth == Spec => [](RowsNameTheirArm /\ RowsAreWarm /\ CellsCountOnce)
<1>1. MatrixInv => RowsNameTheirArm /\ RowsAreWarm BY DEF MatrixInv, Placed
<1>2. MatrixInv => CellsCountOnce
  <2> SUFFICES ASSUME MatrixInv, NEW r \in rows, NEW q \in rows,
                      r.arm = q.arm, r.load = q.load, r.depth = q.depth
               PROVE  r = q
    BY DEF CellsCountOnce
  <2>1. r.at \in Nat /\ 0 < r.at /\ q.at \in Nat /\ 0 < q.at
    BY MatrixAssumption DEF MatrixInv, Cells, Row
  <2>2. Schedule(r.at) = Schedule(q.at) /\ LoadAt(r.at) = LoadAt(q.at)
    BY DEF MatrixInv, Placed
  <2>3. r.at = q.at BY <2>1, <2>2, ScheduleIsOneToOne
  <2> QED BY <2>3 DEF MatrixInv, Placed
<1> QED BY <1>1, <1>2, MatrixInvHolds, PTL

\* The positions of an arm in the first n loads, and their sum.
Positions(arm, n) == {k \in 1..(2 * n) : Schedule(k) = arm}
Drift(arm, n) == Total([x \in Int |-> x], Positions(arm, n))

\* The positions of an arm are a finite set of numbers.
LEMMA PositionsAre ==
  ASSUME NEW n \in Nat, NEW arm
  PROVE  Positions(arm, n) \in SUBSET Int /\ IsFiniteSet(Positions(arm, n))
<1>1. IsFiniteSet(1..(2 * n)) /\ Positions(arm, n) \in SUBSET (1..(2 * n))
  BY FS_Interval DEF Positions
<1> QED BY <1>1, FS_Subset

\* One load more gives each arm one of its two positions.
LEMMA PositionsGrow ==
  ASSUME NEW n \in Nat, NEW arm \in Arm
  PROVE  LET k == IF (n % 2 = 0) <=> (arm = "spec_off") THEN 2 * n + 1 ELSE 2 * n + 2
         IN  /\ Positions(arm, n + 1) = Positions(arm, n) \cup {k}
             /\ Drift(arm, n + 1) = Drift(arm, n) + k
             /\ Drift(arm, n) \in Int
<1> DEFINE k == IF (n % 2 = 0) <=> (arm = "spec_off") THEN 2 * n + 1 ELSE 2 * n + 2
           w == [x \in Int |-> x]
           A == Positions(arm, n)
<1>1. Schedule(2 * n + 1) = (IF n % 2 = 0 THEN "spec_off" ELSE "spec_on")
  BY Z3 DEF Schedule, LoadAt
<1>2. Schedule(2 * n + 2) = (IF n % 2 = 0 THEN "spec_on" ELSE "spec_off")
  BY Z3 DEF Schedule, LoadAt
<1>3. Positions(arm, n + 1) = A \cup {k}
  <2>1. 1..(2 * (n + 1)) = 1..(2 * n) \cup {2 * n + 1, 2 * n + 2}
    OBVIOUS
  <2>2. \A j \in {2 * n + 1, 2 * n + 2} : Schedule(j) = arm <=> j = k
    BY <1>1, <1>2 DEF Arm
  <2>3. k \in {2 * n + 1, 2 * n + 2}
    OBVIOUS
  <2> HIDE DEF k
  <2> QED BY <2>1, <2>2, <2>3 DEF Positions
<1>4. /\ IsFiniteSet(A \cup {k}) /\ IsFiniteSet(A)
      /\ A \cup {k} \subseteq Int /\ k \notin A /\ k \in Int
  <2>1. IsFiniteSet(A) /\ A \in SUBSET Int
    BY PositionsAre
  <2>2. IsFiniteSet(A \cup {k})
    BY <2>1, FS_AddElement
  <2> QED BY <2>1, <2>2 DEF Positions
<1>5. (A \cup {k}) \ {k} = A
  BY <1>4
<1> HIDE DEF k, A
<1>7. Total([x \in A \cup {k} |-> x], A \cup {k})
        = k + Total([x \in A \cup {k} |-> x], A)
  <2>1. [x \in A \cup {k} |-> x] \in [A \cup {k} -> Int] /\ k \in A \cup {k}
    BY <1>4
  <2>2. [x \in A \cup {k} |-> x][k] = k
    OBVIOUS
  <2> QED BY <1>4, <1>5, <2>1, <2>2, TotalTakeOut
<1>8. /\ Total(w, A \cup {k}) = Total([x \in A \cup {k} |-> x], A \cup {k})
      /\ Total(w, A) = Total([x \in A \cup {k} |-> x], A)
      /\ Total(w, A) \in Int
  <2> DEFINE v == [x \in A \cup {k} |-> x]
             u == [x \in A |-> x]
  <2>1. v \in [A \cup {k} -> Int] /\ u \in [A -> Int]
    BY <1>4
  <2>2. /\ \A x \in A \cup {k} : w[x] = v[x]
        /\ \A x \in A : w[x] = u[x] /\ v[x] = u[x]
    BY <1>4
  <2> HIDE DEF u, v, w
  <2>3. Total(w, A \cup {k}) = Total(v, A \cup {k})
    BY <1>4, <2>1, <2>2, TotalSame
  <2>4. Total(w, A) = Total(u, A) /\ Total(v, A) = Total(u, A) /\ Total(u, A) \in Int
    BY <1>4, <2>1, <2>2, TotalSame, TotalType
  <2> QED BY <2>3, <2>4 DEF v
<1>9. Drift(arm, n + 1) = Drift(arm, n) + k
  <2>1. Drift(arm, n + 1) = Total(w, A \cup {k}) /\ Drift(arm, n) = Total(w, A)
    BY <1>3 DEF Drift, A
  <2> QED BY <1>4, <1>7, <1>8, <2>1
<1>10. Drift(arm, n) \in Int
  BY <1>8 DEF Drift, A
<1> QED BY <1>3, <1>9, <1>10 DEF A, k

\* Over whole loads the schedule A-B, B-A favours no arm by more than one position.
LEMMA DriftOfSchedule ==
  \A n \in Nat : Drift("spec_off", n) - Drift("spec_on", n) \in -1..1
<1> DEFINE T == {n \in Nat : Drift("spec_off", n) - Drift("spec_on", n)
                               = IF n % 2 = 0 THEN 0 ELSE -1}
<1>1. 0 \in T
  <2>1. Positions("spec_off", 0) = {} /\ Positions("spec_on", 0) = {}
    BY DEF Positions
  <2> QED BY <2>1, TotalEmpty DEF Drift
<1>2. ASSUME NEW n \in Nat, n \in T PROVE n + 1 \in T
  <2>1. /\ Drift("spec_off", n + 1) = Drift("spec_off", n)
             + (IF n % 2 = 0 THEN 2 * n + 1 ELSE 2 * n + 2)
        /\ Drift("spec_on", n + 1) = Drift("spec_on", n)
             + (IF n % 2 = 0 THEN 2 * n + 2 ELSE 2 * n + 1)
        /\ Drift("spec_off", n) \in Int /\ Drift("spec_on", n) \in Int
    BY PositionsGrow DEF Arm
  <2>2. Drift("spec_off", n) - Drift("spec_on", n) = IF n % 2 = 0 THEN 0 ELSE -1
    BY <1>2
  <2>3. (n + 1) % 2 = IF n % 2 = 0 THEN 1 ELSE 0
    BY Z3
  <2> QED BY <2>1, <2>2, <2>3
<1>3. Nat \subseteq T
  <2> HIDE DEF T
  <2> QED BY <1>1, <1>2, SetInduction
<1> QED BY <1>3

\* An arm that has as many rows as its matrix has cells has been measured at each of its
\* positions.
LEMMA CompleteArm ==
  ASSUME MatrixInv, CellsCountOnce, NEW arm \in Arm,
         Cardinality({r \in rows : r.arm = arm}) = Loads * Depths
  PROVE  {r.at : r \in {q \in rows : q.arm = arm}} = Positions(arm, Loads)
<1> DEFINE mine == {r \in rows : r.arm = arm}
           cells == (1..Loads) \X Depth
           f == [r \in mine |-> <<r.load, r.depth>>]
<1>0. \A r \in rows : /\ r.load \in 1..Loads /\ r.depth \in Depth /\ r.at \in 1..(2 * Loads)
                      /\ r.arm = Schedule(r.at) /\ r.load = LoadAt(r.at)
  BY DEF MatrixInv, Cells, Row, Placed
<1>1. f \in Injection(mine, cells)
  <2>1. f \in [mine -> cells]
    BY <1>0
  <2>2. \A r, q \in mine : f[r] = f[q] => r = q
    BY DEF CellsCountOnce
  <2> HIDE DEF f
  <2> QED BY <2>1, <2>2, Fun_IsInj
<1>2. IsFiniteSet(cells) /\ Cardinality(cells) = Loads * Depths
  <2>1. IsFiniteSet(1..Loads) /\ Cardinality(1..Loads) = Loads
    BY MatrixAssumption, FS_Interval
  <2>2. IsFiniteSet(Depth) /\ Cardinality(Depth) = Depths
    BY MatrixAssumption, FS_Interval DEF Depth
  <2>3. ASSUME NEW A, NEW B, IsFiniteSet(A), IsFiniteSet(B)
        PROVE  IsFiniteSet(A \X B) /\ Cardinality(A \X B) = Cardinality(A) * Cardinality(B)
    BY ONLY <2>3, FS_Product
  <2>4. IsFiniteSet(cells) /\ Cardinality(cells) = Cardinality(1..Loads) * Cardinality(Depth)
    BY <2>1, <2>2, <2>3
  <2> HIDE DEF cells
  <2> QED BY <2>1, <2>2, <2>4
<1>3. f \in Surjection(mine, cells)
  <2> HIDE DEF f, mine, cells
  <2>1. Cardinality(mine) = Cardinality(cells)
    BY <1>2 DEF mine
  <2> QED BY <1>1, <1>2, <2>1, FS_Injection
<1>4. \A c \in cells : \E r \in mine : f[r] = c
  <2> HIDE DEF f, mine, cells
  <2> QED BY <1>3, Fun_SurjectionProperties
<1>5. ASSUME NEW k \in Positions(arm, Loads) PROVE \E r \in mine : r.at = k
  <2>1. k \in 1..(2 * Loads) /\ Schedule(k) = arm
    BY DEF Positions
  <2>2. LoadAt(k) \in 1..Loads /\ 1 \in Depth
    BY <2>1, ScheduleIsPlan, MatrixAssumption DEF Depth
  <2>3. PICK r \in mine : f[r] = <<LoadAt(k), 1>>
    BY <1>4, <2>2
  <2>4. r.load = LoadAt(k) /\ r \in rows /\ r.arm = arm
    BY <2>3
  <2>5. LoadAt(r.at) = LoadAt(k) /\ Schedule(r.at) = Schedule(k) /\ r.at \in Nat /\ k \in Nat
    BY <1>0, <2>1, <2>4, MatrixAssumption
  <2> QED BY <2>5, ScheduleIsOneToOne
<1>6. \A r \in mine : r.at \in Positions(arm, Loads)
  BY <1>0 DEF Positions
<1> QED BY <1>5, <1>6

\* With all their cells the two arms differ in their positions' sum by one at most.
LEMMA DriftCancelsHolds == MatrixInv /\ CellsCountOnce => DriftCancels
<1> SUFFICES ASSUME MatrixInv, CellsCountOnce,
                    \A a \in Arm : Cardinality({r \in rows : r.arm = a}) = Loads * Depths
             PROVE  SumSet({r.at : r \in {s \in rows : s.arm = "spec_off"}})
                      - SumSet({r.at : r \in {s \in rows : s.arm = "spec_on"}}) \in -1..1
  BY DEF DriftCancels
<1>1. ASSUME NEW arm \in Arm
      PROVE  SumSet({r.at : r \in {s \in rows : s.arm = arm}}) = Drift(arm, Loads)
  <2>1. {r.at : r \in {s \in rows : s.arm = arm}} = Positions(arm, Loads)
    BY CompleteArm
  <2>2. Positions(arm, Loads) \in SUBSET Int /\ IsFiniteSet(Positions(arm, Loads))
    BY MatrixAssumption, PositionsAre
  <2> QED BY <2>1, <2>2, SumSetIsTotal DEF Drift
<1>2. "spec_off" \in Arm /\ "spec_on" \in Arm /\ Loads \in Nat
  BY MatrixAssumption DEF Arm
<1> QED BY <1>1, <1>2, DriftOfSchedule

\* The rows of the two arms may be compared, for any number of loads and depths: each
\* names the warm arm that served it, none counts twice, and time weighs on both alike.
THEOREM RowsCompare == Spec => []RowsAreComparable
<1>1. MatrixInv /\ RowsNameTheirArm /\ RowsAreWarm /\ CellsCountOnce => RowsAreComparable
  BY DriftCancelsHolds DEF RowsAreComparable
<1> QED BY <1>1, MatrixInvHolds, RowsSayTheTruth, PTL

\* A receipt the gate accepts speaks for a complete matrix.
THEOREM AcceptedIsComplete == Spec => []GateMeansComplete
<1>1. MatrixInv => GateMeansComplete
  <2> SUFFICES ASSUME MatrixInv, Gate(receipt), receipt # EarlierReceipt,
                      NEW arm \in Arm, NEW load \in 1..Loads, NEW d \in Depth
               PROVE  \E r \in rows : r.arm = arm /\ r.load = load /\ r.depth = d
    BY DEF GateMeansComplete
  <2>0. receipt.kind \in {"interim", "final"} BY DEF MatrixInv, Banked, Gate
  <2>1. ~receipt.spec_on_failed
    <3>1. "spec_off" \notin receipt.arms BY <2>0 DEF MatrixInv, Banked
    <3> QED BY <3>1 DEF Gate
  <2>2. Whole BY <2>0, <2>1 DEF MatrixInv, Banked
  <2>3. PICK k \in 1..(2 * Loads) : Schedule(k) = arm /\ LoadAt(k) = load BY ScheduleIsOnto
  <2>4. PICK r \in rows : r.at = k /\ r.depth = d BY <2>2 DEF Whole, Measured
  <2> QED BY <2>3, <2>4 DEF MatrixInv, Placed
<1> QED BY <1>1, MatrixInvHolds, PTL

\* From the end of the sweep a run that is cut short leaves a receipt that agrees with
\* the rows, unless it is cut in the last write.
THEOREM SweepOutlivesTheRun == Spec => []SweepIsBanked
<1>1. MatrixInv => SweepIsBanked BY DEF MatrixInv, Banked
<1> QED BY <1>1, MatrixInvHolds, PTL

\* No suspect of the final receipt in which completions that spoke disagree goes
\* unexamined, unless its arm died.
THEOREM DivergencesAreReplayed == Spec => []SuspectsReplayed
<1>1. MatrixInv => SuspectsReplayed
  <2> SUFFICES ASSUME MatrixInv, pc = "done", NEW c \in Suspects,
                      NEW p \in prints[c] \ {Silence}, NEW q \in prints[c] \ {Silence}, p # q
               PROVE  serials[c] # {} \/ (c[1] = "spec_on" /\ dead)
    <3>1. ASSUME pc = "done", MatrixInv PROVE receipt.suspects = Suspects
      BY <3>1 DEF MatrixInv, Banked
    <3> QED BY <3>1 DEF SuspectsReplayed
  <2>0. c \in Divergent
    <3>1. c \in Arm \X Depth BY DEF Suspects
    <3>2. prints[c] \ {Silence} \subseteq Prints BY <3>1 DEF MatrixInv, Cells
    <3> DEFINE S == prints[c] \ {Silence}
    <3>3. IsFiniteSet(S) BY <3>2, FS_Subset, MatrixAssumption
    <3>4. p \in S /\ q \in S OBVIOUS
    <3> HIDE DEF S
    <3>5. Cardinality(S) # 0 BY <3>3, <3>4, FS_EmptySet
    <3>6. Cardinality(S) # 1 BY <3>3, <3>4, FS_Singleton
    <3>7. Cardinality(S) \in Nat BY <3>3, FS_CardinalityType
    <3>8. Cardinality(S) > 1 BY <3>5, <3>6, <3>7
    <3> QED BY <3>1, <3>8 DEF Divergent, S
  <2>1. c[1] \in Arm /\ c[2] \in DepthsOf(c[1]) /\ c = <<c[1], c[2]>>
    BY <2>0 DEF Divergent, DepthsOf
  <2>2. PICK k \in 1..Len(Labels) : Labels[k] = c[1] BY <2>1, LabelsAreDue
  <2>3. phase = "replay" /\ idx > Turns /\ idx \in Nat BY DEF MatrixInv, Cursor, Types
  <2>4. Turns = Len(Labels) BY <2>3 DEF Turns
  <2>5. k < idx BY <2>2, <2>3, <2>4, LabelsAreDue
  <2> QED BY <2>1, <2>2, <2>3, <2>4, <2>5 DEF MatrixInv, Replayed
<1> QED BY <1>1, MatrixInvHolds, PTL

\* An arm that has been given up is not launched again.
THEOREM DeadArmStaysDown == Spec => DeadStaysDead
<1>1. MatrixInv /\ [Next]_vars => [dead /\ serve'.arm = "spec_on" => serve.arm = "spec_on"]_vars
  <2> SUFFICES ASSUME MatrixInv, [Next]_vars, dead, serve'.arm = "spec_on"
               PROVE  serve.arm = "spec_on"
    OBVIOUS
  <2>1. CASE StopOldServe
    BY <2>1 DEF StopOldServe, Booting, Hollow, MatrixInv, Cursor, Types, Serves
  <2>2. CASE EnsureUp BY <2>2 DEF EnsureUp, Serving
  <2>3. CASE ServeCrashes BY <2>3 DEF ServeCrashes, NoServe, Hollow, MatrixInv, Types, Serves
  <2>4. CASE WaitReady \/ Warmup BY <2>4 DEF WaitReady, Warmup, MatrixInv, Types, Serves
  <2>5. CASE UNCHANGED serve BY <2>5
  <2>6. \/ StopOldServe \/ EnsureUp \/ ServeCrashes \/ WaitReady \/ Warmup \/ UNCHANGED serve
    BY DEF Next, Script, TakeTurn, MeasureCell, ReplayCell, EndTurn, BankInterim, Reduce,
           BankFinal, Finish, Hang, Kill, vars
  <2> QED BY <2>1, <2>2, <2>3, <2>4, <2>5, <2>6
<1> QED BY <1>1, MatrixInvHolds, PTL DEF Spec, DeadStaysDead
=============================================================================
