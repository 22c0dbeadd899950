---------------------------- MODULE ReceiptStore ----------------------------
(***************************************************************************)
(* Where receipts live and how they survive: scripts/receipt-restore.py    *)
(* (restore, mirror, --write), the gate's choice among the copies          *)
(* (scripts/receipts-verify.py), and the runners that write receipts and   *)
(* then call the restore (scripts/run-tp2.sh and its like).                *)
(*                                                                         *)
(* A runner works in a lane, a worktree checked out of HEAD and deleted    *)
(* afterwards. Only the durable directory outlives it. A file is absent,   *)
(* torn, or a receipt: its status, its facts, and its ts.                  *)
(***************************************************************************)
EXTENDS Naturals, Sequences

CONSTANTS
  Step,       \* the steps that have a receipt
  Runner, Plan,  \* the runner scripts, and the steps each runs in order
  Direct,     \* steps whose writer calls receipt-restore --write
  Deferring,  \* steps whose failure may be deferral-typed
  Fact, Sound,  \* what a step may measure, and what the gate's bounds allow
  Heads,      \* what may be committed under results/receipts
  MaxLanes, MaxRuns,  \* bounds: worktrees, and runs of a runner
  MaxFaults   \* bound: kills, and OS errors on the durable directory

ASSUME StoreAssumption ==
  /\ Plan \in [Runner -> Seq(Step) \ {<<>>}] /\ "none" \notin Runner
  /\ Direct \subseteq Step /\ Deferring \subseteq Step
  /\ Sound \subseteq Fact
  /\ MaxLanes \in Nat /\ MaxRuns \in Nat /\ MaxFaults \in Nat

VARIABLES
  head,     \* the committed receipts
  repo,     \* results/receipts in the lane
  durable,  \* $FN_STATE_DIR/receipts
  lane,     \* there is a lane
  runner,   \* the runner at work, "none" between runs
  at,       \* the step of its plan it is at
  pc,       \* where in that step, or in the closing restore, it is
  pending,  \* the receipt being written
  todo,     \* files the restore or the mirror has still to look at
  outcome,  \* how the last run ended
  spoilt,   \* observer: files whose durable copy an OS error kept from being written
  clock,    \* the time receipts are stamped with
  lanes, runs, faults

files  == <<repo, durable>>
run    == <<runner, at, pc, pending, todo>>
bounds == <<lanes, runs, faults>>
vars   == <<head, files, lane, run, outcome, spoilt, clock, bounds>>

-----------------------------------------------------------------------------
\* Receipts and files.

File == {"graded", "failed"} \X Step
Absent == [kind |-> "absent"]
Torn == [kind |-> "torn"]
Receipt == [kind : {"receipt"}, status : {"pass", "fail"}, facts : Fact, ts : Nat]
Content == Receipt \cup {Absent, Torn}
NoFiles == [f \in File |-> Absent]

Readable(content) == content.kind = "receipt"

\* strip_ts: equal in all but the stamp.
SameFacts(a, b) ==
  /\ Readable(a) /\ Readable(b)
  /\ a.status = b.status /\ a.facts = b.facts

\* The quarantine is dropped: every receipt goes where the gate looks.
FlatPlaceOf(step, receipt) == <<"graded", step>>

\* D12: where a receipt of a step belongs, under either root.
PlaceOf(step, receipt) ==
  <<IF receipt.status = "fail" THEN "failed" ELSE "graded", step>>

\* What is committed was mirrored, and parsed, before the first of the lanes; a fail
\* receipt was committed where it lay.
ASSUME HeadAssumption ==
  /\ Heads \subseteq [File -> Receipt \cup {Absent}]
  /\ \A h \in Heads : \A f \in File :
       h[f] # Absent => h[f].ts = 0 /\ (f[1] = "graded" => h[f].status = "pass")

\* A run is at work in a lane only, and the lane is empty when there is none.
RunTypes ==
  /\ head \in Heads
  /\ lane \in BOOLEAN
  /\ runner \in Runner \cup {"none"}
  /\ pc \in {"idle", "step", "fill", "durable", "repo", "restore", "mirror"}
  /\ pending \in Receipt \cup {Absent}
  /\ todo \subseteq File
  /\ outcome \in {"none", "done", "failed", "killed"}
  /\ spoilt \subseteq File
  /\ at \in Nat /\ clock \in Nat /\ lanes \in Nat /\ runs \in Nat /\ faults \in Nat
  /\ pc = "idle" <=> runner = "none"
  /\ runner # "none" => lane /\ at \in 1..Len(Plan[runner])
  /\ ~lane => repo = NoFiles

\* Every file holds nothing, a torn write, or a receipt no younger than the clock.
FileTypes ==
  /\ repo \in [File -> Content] /\ durable \in [File -> Content]
  /\ \A f \in File : Readable(repo[f]) => repo[f].ts <= clock
  /\ \A f \in File : Readable(durable[f]) => durable[f].ts <= clock

TypeOK == RunTypes /\ FileTypes

\* The durable directory starts empty, or with what was committed from it.
Init ==
  /\ head \in Heads
  /\ repo = NoFiles /\ durable \in {NoFiles, head}
  /\ lane = FALSE
  /\ runner = "none" /\ at = 1 /\ pc = "idle" /\ pending = Absent /\ todo = {}
  /\ outcome = "none" /\ spoilt = {}
  /\ clock = 0 /\ lanes = 0 /\ runs = 0 /\ faults = 0

-----------------------------------------------------------------------------
\* Lanes and runs.

NewLane ==
  /\ ~lane /\ lanes < MaxLanes
  /\ lane' = TRUE /\ lanes' = lanes + 1
  /\ repo' = head
  /\ outcome' = "none"
  /\ UNCHANGED <<head, durable, run, spoilt, clock, runs, faults>>

\* The driver discards the worktree; nothing in it was committed.
DropLane ==
  /\ lane /\ runner = "none"
  /\ lane' = FALSE
  /\ repo' = NoFiles
  /\ UNCHANGED <<head, durable, run, outcome, spoilt, clock, bounds>>

Start(r) ==
  /\ lane /\ runner = "none" /\ runs < MaxRuns
  /\ runner' = r /\ at' = 1 /\ pc' = "step"
  /\ outcome' = "none" /\ runs' = runs + 1
  /\ spoilt' = {}
  /\ UNCHANGED <<head, files, lane, pending, todo, clock, lanes, faults>>

End(how) ==
  /\ runner' = "none" /\ at' = 1 /\ pc' = "idle" /\ pending' = Absent /\ todo' = {}
  /\ outcome' = how

-----------------------------------------------------------------------------
\* A step of a runner.

TheStep == Plan[runner][at]
TheFile == PlaceOf(TheStep, pending)

\* The step measures. A writer of its own truncates its file; a --write goes to
\* the durable directory first.
Measure ==
  /\ pc = "step"
  /\ clock' = clock + 1
  /\ \E status \in {"pass", "fail"}, facts \in Fact :
       LET receipt == [kind |-> "receipt", status |-> status,
                       facts |-> facts, ts |-> clock + 1]
       IN
       /\ pending' = receipt
       /\ IF TheStep \in Direct
          THEN pc' = "durable" /\ UNCHANGED repo
          ELSE /\ pc' = "fill"
               /\ repo' = [repo EXCEPT ![PlaceOf(TheStep, receipt)] = Torn]
  /\ UNCHANGED <<head, durable, lane, runner, at, todo, outcome, spoilt, bounds>>

\* git diff: the tracked receipts the lane has changed.
Modified == {f \in File : head[f] # Absent /\ repo[f] # head[f]}

\* After its receipt a step that failed ends the run, by set -e, before the closing
\* restore, unless the failure is only a deferral. The last step goes on to it.
AfterStep ==
  \/ /\ pending.status = "fail"
     /\ End("failed")
  \/ /\ pending.status = "pass" \/ TheStep \in Deferring
     /\ pending' = Absent
     /\ IF at < Len(Plan[runner])
        THEN at' = at + 1 /\ pc' = "step" /\ todo' = {}
        ELSE at' = at /\ pc' = "restore" /\ todo' = Modified'
     /\ UNCHANGED <<runner, outcome>>

Fill ==
  /\ pc = "fill"
  /\ repo' = [repo EXCEPT ![TheFile] = pending]
  /\ UNCHANGED <<head, durable, lane, spoilt, clock, bounds>>
  /\ AfterStep

\* Every receipt is written, whatever is there.
PlacedAnew(old, receipt) == receipt

\* _place: an equal receipt is left byte-identical, anything else is overwritten.
Placed(old, receipt) == IF SameFacts(old, receipt) THEN old ELSE receipt

\* The durable copy of f after a write that went well, or one an OS error stopped
\* before it began or half-way.
PlaceDurable(f, receipt) ==
  \/ /\ durable' = [durable EXCEPT ![f] = Placed(@, receipt)]
     /\ spoilt' = spoilt \ {f}
     /\ UNCHANGED faults
  \/ /\ ~SameFacts(durable[f], receipt)
     /\ faults < MaxFaults /\ faults' = faults + 1
     /\ durable' \in {durable, [durable EXCEPT ![f] = Torn]}
     /\ spoilt' = spoilt \cup {f}

\* The durable copy is left to the mirror.
WriteDurableLater ==
  /\ pc = "durable"
  /\ pc' = "repo"
  /\ UNCHANGED <<head, files, spoilt, lane, runner, at, pending, todo, outcome, clock, bounds>>

\* write: the durable copy first, then the one in the lane.
WriteDurable ==
  /\ pc = "durable"
  /\ PlaceDurable(TheFile, pending)
  /\ pc' = "repo"
  /\ UNCHANGED <<head, repo, lane, runner, at, pending, todo, outcome, clock, lanes, runs>>

WriteRepo ==
  /\ pc = "repo"
  /\ repo' = [repo EXCEPT ![TheFile] = Placed(@, pending)]
  /\ UNCHANGED <<head, durable, lane, spoilt, clock, bounds>>
  /\ AfterStep

-----------------------------------------------------------------------------
\* The closing restore and mirror.

\* Only the graded receipts are looked at.
RestoreGradedFile(f) ==
  /\ pc = "restore" /\ f \in todo
  /\ repo' = [repo EXCEPT ![f] = IF f[1] = "graded" /\ SameFacts(head[f], @)
                                 THEN head[f] ELSE @]
  /\ todo' = todo \ {f}
  /\ UNCHANGED <<head, durable, lane, runner, at, pc, pending, outcome, spoilt, clock, bounds>>

\* restore: a tracked receipt equal to HEAD but for its ts is checked out again.
RestoreFile(f) ==
  /\ pc = "restore" /\ f \in todo
  /\ repo' = [repo EXCEPT ![f] = IF SameFacts(head[f], @) THEN head[f] ELSE @]
  /\ todo' = todo \ {f}
  /\ UNCHANGED <<head, durable, lane, runner, at, pc, pending, outcome, spoilt, clock, bounds>>

\* A checkout may fail (check=True), which ends the script before the mirror.
RestoreFails ==
  /\ pc = "restore" /\ \E f \in todo : SameFacts(head[f], repo[f])
  /\ faults < MaxFaults /\ faults' = faults + 1
  /\ End("failed")
  /\ UNCHANGED <<head, files, lane, spoilt, clock, lanes, runs>>

\* What mirror copies: the receipts of the lane that parse, quarantine included.
GradedAlone == {f \in File : f[1] = "graded" /\ Readable(repo[f])}
ToMirror == {f \in File : Readable(repo[f])}

RestoreDone ==
  /\ pc = "restore" /\ todo = {}
  /\ pc' = "mirror" /\ todo' = ToMirror
  /\ UNCHANGED <<head, files, lane, runner, at, pending, outcome, spoilt, clock, bounds>>

MirrorFile(f) ==
  /\ pc = "mirror" /\ f \in todo
  /\ PlaceDurable(f, repo[f])
  /\ todo' = todo \ {f}
  /\ UNCHANGED <<head, repo, lane, runner, at, pc, pending, outcome, clock, lanes, runs>>

MirrorDone ==
  /\ pc = "mirror" /\ todo = {}
  /\ End("done")
  /\ UNCHANGED <<head, files, lane, spoilt, clock, bounds>>

\* A kill, at any place. What was being written is left torn: the durable copy too,
\* when its truncation has been done and its text not yet written.
Kill ==
  /\ runner # "none" /\ faults < MaxFaults /\ faults' = faults + 1
  /\ End("killed")
  /\ \/ UNCHANGED files
     \/ \E f \in todo : /\ pc = "mirror" /\ ~SameFacts(durable[f], repo[f])
                        /\ durable' = [durable EXCEPT ![f] = Torn]
                        /\ UNCHANGED repo
     \/ /\ pc = "durable" /\ ~SameFacts(durable[TheFile], pending)
        /\ durable' = [durable EXCEPT ![TheFile] = Torn]
        /\ UNCHANGED repo
     \/ /\ pc = "repo" /\ ~SameFacts(repo[TheFile], pending)
        /\ repo' = [repo EXCEPT ![TheFile] = Torn]
        /\ UNCHANGED durable
  /\ UNCHANGED <<head, lane, spoilt, clock, lanes, runs>>

Next ==
  \/ NewLane \/ DropLane
  \/ \E r \in Runner : Start(r)
  \/ Measure \/ Fill \/ WriteDurable \/ WriteRepo
  \/ \E f \in File : RestoreFile(f) \/ MirrorFile(f)
  \/ RestoreFails \/ RestoreDone \/ MirrorDone
  \/ Kill

Spec == Init /\ [][Next]_vars

-----------------------------------------------------------------------------
\* The gate.

\* _graded: the copy the gate reads for a step; the lane's wins.
Graded(step) ==
  LET f == <<"graded", step>> IN IF repo[f] # Absent THEN repo[f] ELSE durable[f]

\* main: what the gate counts against a step.
Violates(step) ==
  LET r == Graded(step) IN
  \/ r = Torn
  \/ Readable(r) /\ (r.status = "fail" \/ r.facts \notin Sound)

\* _expected: what --require is satisfied with.
Present(step) == Readable(Graded(step))

-----------------------------------------------------------------------------
\* Properties.

\* Checkpoint purity: when the restore is over, no tracked receipt of the lane
\* differs from the committed one by its ts alone, whichever steps ran, deferred or
\* were killed in earlier runs. (receipt-restore.py:4-12)
Purity ==
  pc = "mirror" => \A f \in File : SameFacts(repo[f], head[f]) => repo[f] = head[f]

\* A run that ends well, whatever came before it in the lane, leaves a durable copy
\* of every receipt the lane can show, the quarantine's included, except where the
\* operating system refused the write. (receipt-restore.py:21-28)
MirrorComplete ==
  outcome = "done" /\ lane =>
    \A f \in File : Readable(repo[f]) => SameFacts(durable[f], repo[f]) \/ f \in spoilt

\* Neither restore, mirror nor --write puts a fresh ts on facts that a durable copy
\* already carries. ("a durable copy equal modulo ts is left byte-identical, never
\* re-stamped")
NeverRestamped ==
  [][\A f \in File : SameFacts(durable'[f], durable[f]) => durable'[f] = durable[f]]_vars

\* One graded failure costs one step: no failed receipt is ever among those the
\* gate reads, so none reddens a later gate or satisfies a --require.
\* (run-tp2.sh:18-22, receipts-verify.py:306-313)
FailureCostsOneStep ==
  \A step \in Step :
    /\ Present(step) => Graded(step).status = "pass"
    /\ Violates(step) => ~Present(step) \/ Graded(step).facts \notin Sound

\* A --write puts nothing in the lane that the durable directory does not have yet,
\* so a crash between the two loses only the disposable copy.
DurableFirst ==
  [][\A step \in Direct, f \in File :
       (pc = "repo" /\ TheStep = step /\ repo'[f] # repo[f] /\ Readable(repo'[f])) =>
         SameFacts(durable[f], repo'[f]) \/ f \in spoilt]_vars

\* The durable copy of a step is never replaced by an older measurement.
\* (receipt-restore.py:15-28: receipts are mirrored to survive their lane)
DurableKeepsNewest ==
  [][\A f \in File :
       (Readable(durable[f]) /\ Readable(durable'[f])) => durable'[f].ts >= durable[f].ts]_vars
=============================================================================
