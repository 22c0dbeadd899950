---------------------------- MODULE BenchMatrix ----------------------------
(***************************************************************************)
(* The counterbalanced bench matrix (bench/run-matrix.sh) and the gate on  *)
(* the receipt it banks (_bench in scripts/receipts-verify.py).            *)
(*                                                                         *)
(* Two arms, speculative decoding on and off, take turns on one serve that *)
(* the script stops and relaunches between them. It measures every depth   *)
(* under every load, banks an interim receipt, replays serially each cell  *)
(* whose completions diverged, and banks the final receipt. The spec-on    *)
(* arm may die; the baseline may not. The numbers the cells hold are left  *)
(* out: a cell is what it was measured on and which fingerprints it saw.   *)
(***************************************************************************)
EXTENDS Integers, Sequences, FiniteSets, FiniteSetsExt

CONSTANTS
  Loads,     \* LOADS_PER_ARM
  Depths,    \* how many entries DEPTHS has; the deepest is the last
  Prints,    \* fingerprints of completions that produced tokens
  Silence,   \* the fingerprint of a completion that produced none
  Replies    \* the sets of fingerprints one run of the client may report

ASSUME MatrixAssumption ==
  /\ Loads \in Nat \ {0} /\ Depths \in Nat \ {0}
  /\ Silence \notin Prints /\ IsFiniteSet(Prints)
  /\ Replies \subseteq (SUBSET (Prints \cup {Silence})) \ {{}}

Arm == {"spec_off", "spec_on"}
Depth == 1..Depths

VARIABLES
  force,      \* FN_BENCH_FORCE_RECONFIG
  found,      \* observer: the serve the run found
  serve,      \* the serve on the pair: its arm, whether its API answers, whether it has
              \* its ranks, whether it is warm
  current,    \* CURRENT_ARM, "none" for the empty string
  dead,       \* SPEC_ON_DEAD
  phase,      \* "sweep" (phase A) or "replay" (phase C)
  pc,         \* the next step of the script
  idx,        \* position in the schedule, or in the labels to replay
  goal,       \* the arm serve_arm is standing up
  degrading,  \* it does so for degrade_spec_on
  todo,       \* depths of this load, or of this label, still to run
  rows,       \* one record per measured cell; at, by and warm are observed
  prints,     \* per arm and depth: the fingerprints of its loads
  serials,    \* serial-replay.jsonl, per replayed cell
  receipt     \* results/receipts/bench.json

knobs  == <<force, found>>
pair   == <<serve, current, dead>>
place  == <<phase, pc, idx, goal, degrading, todo>>
data   == <<rows, prints, serials>>
vars   == <<knobs, pair, place, data, receipt>>

-----------------------------------------------------------------------------
\* State.

NoServe == [arm |-> "none", up |-> FALSE, ranks |-> FALSE, warm |-> FALSE]
Serving(arm) == [arm |-> arm, up |-> TRUE, ranks |-> TRUE, warm |-> FALSE]
Booting(arm) == [arm |-> arm, up |-> FALSE, ranks |-> TRUE, warm |-> FALSE]

\* An API server whose ranks are gone lists its model and completes nothing.
Hollow(s) == [s EXCEPT !.ranks = FALSE]
Completes == serve.up /\ serve.ranks

NoReceipt == [kind |-> "absent"]
TornReceipt == [kind |-> "torn"]

\* A receipt of an earlier night, in full: no step of this one takes it away.
EarlierReceipt ==
  [kind |-> "earlier", arms |-> {"spec-off", "spec-on"}, loads |-> 3, counterbalanced |-> TRUE,
   spec_on_failed |-> FALSE, suspects |-> {}, qsa |-> {}]

Stop == {"done", "failed", "killed"}

Init ==
  /\ force \in BOOLEAN
  /\ serve \in {NoServe} \cup {Serving(a) : a \in Arm}
  /\ found = serve.arm
  /\ current = (IF force THEN "none" ELSE "spec_off")
  /\ dead = FALSE
  /\ phase = "sweep" /\ pc = "ensure" /\ idx = 1
  /\ goal = "spec_off" /\ degrading = FALSE /\ todo = {}
  /\ rows = {}
  /\ prints = [c \in Arm \X Depth |-> {}]
  /\ serials = [c \in Arm \X Depth |-> {}]
  /\ receipt \in {NoReceipt, EarlierReceipt}

-----------------------------------------------------------------------------
\* The plan of the night.

\* Position k of the schedule belongs to load (k + 1) \div 2; odd loads lead with
\* the baseline, even loads with the speculative arm.
LoadAt(k) == (k + 1) \div 2

Schedule(k) ==
  IF k % 2 = LoadAt(k) % 2 THEN "spec_off" ELSE "spec_on"

\* The cells whose loads did not agree, as phase B finds them: only completions
\* that produced tokens have a fingerprint to disagree with.
Divergent == {c \in Arm \X Depth : Cardinality(prints[c] \ {Silence}) > 1}

\* MUTANT: the first divergent depth of the label stands for the others.
DepthsOfFirst(arm) ==
  {d \in Depth : /\ <<arm, d>> \in Divergent
                 /\ \A e \in 1..(d - 1) : <<arm, e>> \notin Divergent}

DepthsOf(arm) == {d \in Depth : <<arm, d>> \in Divergent}

\* The labels of divergent.txt in the order of their first line: it is sorted.
Labels ==
  LET due(arm) == IF DepthsOf(arm) = {} THEN <<>> ELSE <<arm>>
  IN  due("spec_off") \o due("spec_on")

\* The loops over the schedule and over the labels, as one: how far the running
\* phase goes, whose turn it is, and the depths that turn has to run.
Turns == IF phase = "sweep" THEN 2 * Loads ELSE Len(Labels)
Turn(k) == IF phase = "sweep" THEN Schedule(k) ELSE Labels[k]
DepthsDue(arm) == IF phase = "sweep" THEN Depth ELSE DepthsOf(arm)

-----------------------------------------------------------------------------
\* Standing the arm up.

Goto(p) == pc' = p
Fatal == Goto("failed") /\ UNCHANGED <<phase, idx, goal, degrading, todo>>
NextTurn == /\ Goto("next") /\ idx' = idx + 1
            /\ UNCHANGED <<phase, goal, degrading, todo>>

\* A pair that answers is used as it is; otherwise fn-cluster-up stands the
\* baseline, or fails.
EnsureUp ==
  /\ pc = "ensure"
  /\ \/ /\ serve.up
        /\ Goto("next")
        /\ UNCHANGED serve
     \/ /\ ~serve.up
        /\ \/ Goto("next") /\ serve' = Serving("spec_off")
           \/ Goto("failed") /\ UNCHANGED serve
  /\ UNCHANGED <<knobs, current, dead, phase, idx, goal, degrading, todo, data, receipt>>

\* MUTANT: only the sweep remembers that the arm has died.
MustSkipInSweep(arm) == arm = "spec_on" /\ dead /\ phase = "sweep"

\* The head of both loops, down to serve_arm's early return.
MustSkip(arm) == arm = "spec_on" /\ dead

TakeTurn ==
  /\ pc = "next" /\ idx <= Turns
  /\ LET arm == Turn(idx) IN
     \/ /\ MustSkip(arm)
        /\ NextTurn
     \/ /\ ~MustSkip(arm)
        /\ goal' = arm /\ todo' = DepthsDue(arm) /\ degrading' = FALSE
        /\ Goto(IF current = arm THEN "cell" ELSE "stop")
        /\ UNCHANGED <<phase, idx>>
  /\ UNCHANGED <<knobs, pair, data, receipt>>

\* MUTANT: no gate: the new serve finds the port taken, and the old one answers for it.
StopOldServeUngated ==
  /\ pc = "stop"
  /\ \/ serve' = Booting(goal)
     \/ serve # NoServe /\ UNCHANGED serve
  /\ current' = goal
  /\ Goto("ready") /\ UNCHANGED <<phase, idx, goal, degrading, todo>>
  /\ UNCHANGED <<knobs, dead, data, receipt>>

\* The script goes on once ray says that no GPU is in use, and ends if ray never does.
\* It asks nothing else: an old API server that outlives its kill keeps the port, the
\* new one cannot bind, and what answers next is the old one without its ranks.
StopOldServe ==
  /\ pc = "stop"
  /\ \/ /\ \/ serve' = Booting(goal)
           \/ serve # NoServe /\ serve' = Hollow(serve)
        /\ current' = goal
        /\ Goto("ready") /\ UNCHANGED <<phase, idx, goal, degrading, todo>>
     \/ Fatal /\ UNCHANGED <<serve, current>>
  /\ UNCHANGED <<knobs, dead, data, receipt>>

\* serve_arm returned 1: fatal for the baseline; the speculative arm is given up
\* and the baseline put back, once.
ServeFailed ==
  IF goal = "spec_off"
  THEN Fatal /\ UNCHANGED <<current, dead>>
  ELSE /\ dead' = TRUE /\ current' = "none"
       /\ goal' = "spec_off" /\ degrading' = TRUE
       /\ Goto("stop") /\ UNCHANGED <<phase, idx, todo>>

\* MUTANT: the poll has no last attempt.
WaitReadyForEver ==
  /\ pc = "ready"
  /\ serve.up \/ serve.ranks
  /\ serve' = [serve EXCEPT !.up = TRUE]
  /\ Goto("warm")
  /\ UNCHANGED <<current, dead, phase, idx, goal, degrading, todo, knobs, data, receipt>>

\* Within its attempts the serve lists the model, or it is too slow or gone.
WaitReady ==
  /\ pc = "ready"
  /\ \/ /\ serve.up \/ serve.ranks
        /\ serve' = [serve EXCEPT !.up = TRUE]
        /\ Goto("warm") /\ UNCHANGED <<current, dead, phase, idx, goal, degrading, todo>>
     \/ ServeFailed /\ UNCHANGED serve
  /\ UNCHANGED <<knobs, data, receipt>>

\* Both warmup requests go through; or the tiny one fails, which serve_arm reports;
\* or the deep one fails, which ends the whole script, whatever the arm.
Warmup ==
  /\ pc = "warm"
  /\ \/ /\ Completes /\ serve' = [serve EXCEPT !.warm = TRUE]
        /\ IF degrading THEN NextTurn
           ELSE Goto("cell") /\ UNCHANGED <<phase, idx, goal, degrading, todo>>
        /\ UNCHANGED <<current, dead>>
     \/ ServeFailed /\ UNCHANGED serve
     \/ Fatal /\ UNCHANGED <<serve, current, dead>>
  /\ UNCHANGED <<knobs, data, receipt>>

-----------------------------------------------------------------------------
\* Measuring.

NextDepth == CHOOSE d \in todo : \A e \in todo : d <= e

\* The client at one cell: some request completed on the serve that answers, and
\* the row carries the label of the arm the script believes in; or none did, and
\* set -e ends the script.
MeasureCell ==
  /\ pc = "cell" /\ phase = "sweep" /\ todo # {}
  /\ \/ /\ Completes
        /\ rows' = rows \cup {[arm |-> goal, load |-> LoadAt(idx), depth |-> NextDepth,
                               at |-> idx, by |-> serve.arm, warm |-> serve.warm]}
        /\ \E reply \in Replies :
             prints' = [prints EXCEPT ![<<goal, NextDepth>>] = @ \cup reply]
        /\ todo' = todo \ {NextDepth}
        /\ UNCHANGED <<phase, pc, idx, goal, degrading>>
     \/ Fatal /\ UNCHANGED <<rows, prints>>
  /\ UNCHANGED <<knobs, pair, serials, receipt>>

\* One serial replay; its fingerprints are kept to be compared.
ReplayCell ==
  /\ pc = "cell" /\ phase = "replay" /\ todo # {}
  /\ \/ /\ Completes
        /\ \E reply \in Replies : serials' = [serials EXCEPT ![<<goal, NextDepth>>] = reply]
        /\ todo' = todo \ {NextDepth}
        /\ UNCHANGED <<phase, pc, idx, goal, degrading>>
     \/ Fatal /\ UNCHANGED serials
  /\ UNCHANGED <<knobs, pair, rows, prints, receipt>>

\* MUTANT: a client that fails ends its turn, not the script.
EndTurnLenient ==
  /\ pc = "cell" /\ (todo = {} \/ ~Completes)
  /\ NextTurn
  /\ UNCHANGED <<knobs, pair, data, receipt>>

EndTurn ==
  /\ pc = "cell" /\ todo = {}
  /\ NextTurn
  /\ UNCHANGED <<knobs, pair, data, receipt>>

-----------------------------------------------------------------------------
\* Receipts.

Label(arm) == IF arm = "spec_on" THEN "spec-on" ELSE "spec-off"

MeasuredArms == {r.arm : r \in rows}
LoadsOf(arm) == {r.load : r \in {s \in rows : s.arm = arm}}

\* loads_per_arm: the least over the arms that were measured at all.
LoadsPerArm == IF rows = {} THEN 0 ELSE Min({Cardinality(LoadsOf(a)) : a \in MeasuredArms})

\* The cells whose loads did not agree, as phase D finds them: silence counts too.
Suspects == {c \in Arm \X Depth : Cardinality(prints[c]) > 1}

\* What the rows say, in the words of the receipt. A suspect bears the QSA signature
\* when its serial replay agrees with itself.
Facts(kind) ==
  [kind |-> kind,
   arms |-> {Label(a) : a \in MeasuredArms},
   loads |-> LoadsPerArm,
   counterbalanced |-> Cardinality(MeasuredArms) = 2,
   spec_on_failed |-> dead,
   suspects |-> IF kind = "final" THEN Suspects ELSE {},
   qsa |-> IF kind = "final"
           THEN {c \in Suspects : Cardinality(serials[c]) = 1} ELSE {}]

\* After the sweep; a receipt for the night even if the rest is killed.
BankInterim ==
  /\ pc = "next" /\ phase = "sweep" /\ idx > Turns
  /\ Goto("interim")
  /\ receipt' = TornReceipt
  /\ UNCHANGED <<knobs, pair, phase, idx, goal, degrading, todo, data>>

\* MUTANT: the interim receipt is left to the end of the replay.
ReduceUnbanked ==
  /\ pc = "interim"
  /\ phase' = "replay" /\ idx' = 1 /\ Goto("next")
  /\ UNCHANGED <<knobs, pair, goal, degrading, todo, data, receipt>>

\* The interim receipt is on disk, and phase B reduces the rows.
Reduce ==
  /\ pc = "interim"
  /\ receipt' = Facts("interim")
  /\ phase' = "replay" /\ idx' = 1 /\ Goto("next")
  /\ UNCHANGED <<knobs, pair, goal, degrading, todo, data>>

BankFinal ==
  /\ pc = "next" /\ phase = "replay" /\ idx > Turns
  /\ Goto("final")
  /\ receipt' = TornReceipt
  /\ UNCHANGED <<knobs, pair, phase, idx, goal, degrading, todo, data>>

\* The receipt is filled. receipt-restore then puts back receipts that differ from
\* the committed ones by their time alone, which the model does not hold.
Finish ==
  /\ pc = "final"
  /\ receipt' = Facts("final")
  /\ Goto("done")
  /\ UNCHANGED <<knobs, pair, phase, idx, goal, degrading, todo, data>>

\* What receipts-verify says of it.
Gate(r) ==
  /\ r \notin {NoReceipt, TornReceipt}
  /\ r.loads >= 3
  /\ IF r.spec_on_failed THEN r.arms = {"spec_off"} ELSE r.counterbalanced

-----------------------------------------------------------------------------
\* The world around the script.

\* The serve goes down by itself, while it boots or later, or only its ranks do.
ServeCrashes ==
  /\ serve # NoServe /\ pc \notin Stop
  /\ serve' \in {NoServe, Hollow(serve)}
  /\ UNCHANGED <<knobs, current, dead, place, data, receipt>>

\* A command without a time limit does not return: the curl of the two polls, the bare
\* ssh and the podman exec of the reap, the podman exec before the last receipt.
Hang ==
  /\ \/ pc \in {"ensure", "stop", "ready"}
     \/ pc = "next" /\ phase = "replay" /\ idx > Turns
  /\ Goto("hung")
  /\ UNCHANGED <<knobs, pair, phase, idx, goal, degrading, todo, data, receipt>>

\* The unit's time runs out.
Kill ==
  /\ pc \notin Stop
  /\ Goto("killed")
  /\ UNCHANGED <<knobs, pair, phase, idx, goal, degrading, todo, data, receipt>>

Script ==
  \/ EnsureUp \/ TakeTurn \/ StopOldServe \/ WaitReady \/ Warmup
  \/ MeasureCell \/ ReplayCell \/ EndTurn
  \/ BankInterim \/ Reduce \/ BankFinal \/ Finish

Next == Script \/ ServeCrashes \/ Hang \/ Kill

Spec == Init /\ [][Next]_vars /\ WF_vars(Script)

-----------------------------------------------------------------------------
\* Properties.

\* Every row names the arm that served it, across every reconfiguration, stranded
\* rank and degradation, unless the run was told to trust a pair it found on the
\* other arm. ("every CSV row names its arm", run-matrix.sh:14)
RowsNameTheirArm ==
  (found = "spec_on" => force) => \A r \in rows : r.by = r.arm

\* Every cell is measured on a serve that has been through both warmup requests
\* since its launch, except on the baseline the run assumed it had found.
RowsAreWarm ==
  \A r \in rows : r.warm \/ (~force /\ r.at = 1)

\* No cell of a load is measured twice, so that none weighs more than another.
CellsCountOnce ==
  \A r, s \in rows : <<r.arm, r.load, r.depth>> = <<s.arm, s.load, s.depth>> => r = s

\* A drift over the night weighs on both arms alike: once both have run every load,
\* the sums of their positions in the schedule differ by at most one.
\* ("so a time-drift confound cannot masquerade as an arm effect")
DriftCancels ==
  LET positions(arm) == SumSet({r.at : r \in {s \in rows : s.arm = arm}})
      complete(arm) == Cardinality({r \in rows : r.arm = arm}) = Loads * Depths
  IN (\A a \in Arm : complete(a)) =>
       positions("spec_off") - positions("spec_on") \in -1..1

\* What the comparison of the arms rests on: the rows say which arm served them, none of
\* them paid for a cold serve, no cell is counted twice, and time weighs on both alike.
RowsAreComparable ==
  RowsNameTheirArm /\ RowsAreWarm /\ CellsCountOnce /\ DriftCancels

\* A receipt of this run the gate accepts speaks for a complete matrix: every
\* depth under every load, in every arm it names. (A run that dies in the sweep leaves
\* an earlier night's receipt in its place, and the gate accepts that as it did then.)
GateMeansComplete ==
  Gate(receipt) /\ receipt # EarlierReceipt =>
    \A arm \in Arm, load \in 1..Loads, d \in Depth :
      Label(arm) \in receipt.arms =>
        \E r \in rows : r.arm = arm /\ r.load = load /\ r.depth = d

\* Once the interim receipt is written, whatever ends the run short of its last write
\* leaves a receipt that can be read and that says what the sweep measured. (A kill
\* inside either write leaves a torn one.)
SweepIsBanked ==
  (phase = "replay" /\ pc \notin {"final", "done"}) =>
    \/ /\ receipt.kind = "interim"
       /\ receipt.arms = {Label(a) : a \in MeasuredArms}
       /\ receipt.loads = LoadsPerArm
    \/ receipt = TornReceipt /\ pc = "killed" /\ idx > Turns

\* Every cell a finished run's receipt calls suspect has been replayed serially, except
\* those of an arm that died, and those in which completions that spoke agree and some
\* were silent: the receipt calls these suspect too, and phase B does not replay them.
SuspectsReplayed ==
  pc = "done" =>
    \A c \in receipt.suspects :
      \/ serials[c] # {}
      \/ c[1] = "spec_on" /\ dead
      \/ \A p, q \in prints[c] \ {Silence} : p = q

\* The same without the exception for silence, as the script's head says it: "if a given
\* (arm, depth) yields divergent completion fingerprints across its loads, the harness
\* replays that arm serially" (run-matrix.sh:18-20).
NoSuspectUnexamined ==
  pc = "done" =>
    \A c \in receipt.suspects : serials[c] # {} \/ (c[1] = "spec_on" /\ dead)

\* An arm that has been given up is not launched again, in either phase.
DeadStaysDead ==
  [][dead /\ serve'.arm = "spec_on" => serve.arm = "spec_on"]_vars

\* The run ends, however often the serve fails to come up, or it waits for a command
\* that has no time limit: then only the unit's own limit ends it.
MatrixEnds == <>(pc \in Stop \cup {"hung"})

\* Waiting for a serve ends, so that the loops can give its arm up: "wait_ready RETURNS
\* non-zero instead of exiting: the phase loops own the recovery decision"
\* (run-matrix.sh:116-117).
WaitReadyReturns == pc = "ready" ~> pc \in Stop \cup {"warm", "stop"}

\* The degraded receipt the documents promise: a run that lost the speculative arm
\* at its boot and measured the baseline in full passes the gate.
\* (docs/MORNING.md:113, "a labelled single-arm result ..., not a lost night")
DegradedReceiptPasses ==
  (pc = "done" /\ dead /\ MeasuredArms = {"spec_off"}) => Gate(receipt)
=============================================================================
