------------------------- MODULE ReceiptStoreProofs -------------------------
(***************************************************************************)
(* Proofs about the receipt store: its type invariant; that no failed      *)
(* receipt is ever among those the gate reads; that no durable copy is     *)
(* re-stamped; that a restore leaves a pure lane, a mirror a complete copy *)
(* of it, and a --write the durable copy first.                            *)
(***************************************************************************)
EXTENDS ReceiptStore, TLAPS

\* A content that may lie at f when the clock stands at t: a receipt is no younger,
\* and one the gate would grade is one that passed.
Fits(f, content, t) ==
  /\ content \in Content
  /\ Readable(content) => /\ content.ts <= t
                          /\ f[1] = "graded" => content.status = "pass"

Kept(root, t) == root \in [File -> Content] /\ \A f \in File : Fits(f, root[f], t)

\* A receipt is pending while one is being written, no younger than the clock.
PendingOK ==
  pc \in {"fill", "durable", "repo"} => pending \in Receipt /\ pending.ts <= clock

\* The inductive invariant: both roots hold what fits there, and so does what the
\* running step is about to put into them.
Inv == TypeOK /\ PendingOK /\ Kept(repo, clock) /\ Kept(durable, clock)

-----------------------------------------------------------------------------
\* The operators.

\* A receipt can be read, and it is neither of the other contents.
LEMMA ReceiptReadable ==
  ASSUME NEW c \in Receipt
  PROVE  Readable(c) /\ c # Absent /\ c # Torn
BY DEF Receipt, Readable, Absent, Torn

\* Every receipt has a file to go to, and fits there.
LEMMA PlaceFits ==
  ASSUME NEW step \in Step, NEW receipt \in Receipt, NEW t \in Nat, receipt.ts <= t
  PROVE  /\ PlaceOf(step, receipt) \in File
         /\ Fits(PlaceOf(step, receipt), receipt, t)
BY DEF PlaceOf, File, Receipt, Fits, Content

\* A torn file and an absent one fit anywhere.
LEMMA BlankFits ==
  ASSUME NEW f, NEW t
  PROVE  Fits(f, Torn, t) /\ Fits(f, Absent, t)
BY DEF Fits, Content, Readable, Torn, Absent

\* Placing a receipt chooses between the old copy and the new.
LEMMA PlacedFits ==
  ASSUME NEW f, NEW t, NEW old, NEW receipt, Fits(f, old, t), Fits(f, receipt, t)
  PROVE  Fits(f, Placed(old, receipt), t)
BY DEF Placed

\* A root into which something fitting is put is still kept.
LEMMA PutFits ==
  ASSUME NEW root, NEW t, Kept(root, t), NEW f \in File, NEW c, Fits(f, c, t)
  PROVE  Kept([root EXCEPT ![f] = c], t)
<1>1. c \in Content
  BY DEF Fits
<1>2. [root EXCEPT ![f] = c] \in [File -> Content]
  BY <1>1 DEF Kept
<1>3. ASSUME NEW g \in File PROVE Fits(g, [root EXCEPT ![f] = c][g], t)
  BY DEF Kept
<1>4. QED
  BY <1>2, <1>3 DEF Kept

\* What was kept stays kept as time passes.
LEMMA KeptLater ==
  ASSUME NEW root, NEW t \in Nat, Kept(root, t)
  PROVE  Kept(root, t + 1)
<1>1. ASSUME NEW f \in File PROVE Fits(f, root[f], t + 1)
  <2>1. Fits(f, root[f], t)
    BY DEF Kept
  <2>2. CASE Readable(root[f])
    <3>1. root[f] \in Receipt
      BY <2>1, <2>2 DEF Fits, Content, Readable, Absent, Torn
    <3>2. root[f].ts \in Nat
      BY <3>1 DEF Receipt
    <3>3. QED
      BY <2>1, <2>2, <3>2 DEF Fits
  <2>3. CASE ~Readable(root[f])
    BY <2>1, <2>3 DEF Fits
  <2>4. QED
    BY <2>2, <2>3
<1>2. QED
  BY <1>1 DEF Kept

\* Nothing, and what is committed, can be kept at any time.
LEMMA HeadKept ==
  ASSUME NEW h \in Heads \cup {NoFiles}, NEW t \in Nat
  PROVE  Kept(h, t)
<1>1. h \in [File -> Content]
  BY HeadAssumption DEF Content, NoFiles
<1>2. ASSUME NEW f \in File PROVE Fits(f, h[f], t)
  <2>1. CASE h[f] = Absent
    BY <2>1, BlankFits
  <2>2. CASE h[f] # Absent
    <3>1. h \in Heads
      BY <2>2 DEF NoFiles
    <3>2. h[f].ts = 0 /\ (f[1] = "graded" => h[f].status = "pass")
      BY <2>2, <3>1, HeadAssumption
    <3>3. QED
      BY <1>1, <3>2 DEF Fits
  <2>3. QED
    BY <2>1, <2>2
<1>3. QED
  BY <1>1, <1>2 DEF Kept

-----------------------------------------------------------------------------
\* The steps.

\* The type invariant holds at first, and both roots are kept.
LEMMA InitInv == Init => Inv
<1> SUFFICES ASSUME Init PROVE Inv
  OBVIOUS
<1>1. clock = 0 /\ clock \in Nat /\ lane \in BOOLEAN /\ ~lane
  BY DEF Init
<1>2. Kept(repo, clock) /\ Kept(durable, clock)
  BY <1>1, HeadKept DEF Init
<1>3. FileTypes
  BY <1>2 DEF Kept, Fits, FileTypes
<1>4. RunTypes
  BY <1>1 DEF Init, RunTypes
<1>5. PendingOK
  BY DEF Init, PendingOK
<1>6. QED
  BY <1>2, <1>3, <1>4, <1>5 DEF Inv, TypeOK

\* The file part of the type invariant follows from the roots being kept.
LEMMA KeptTypes ==
  ASSUME Kept(repo', clock'), Kept(durable', clock')
  PROVE  FileTypes'
BY DEF Kept, Fits, FileTypes

\* A lane is made of what is committed, and dropped for nothing.
LEMMA LaneStep ==
  ASSUME Inv, NewLane \/ DropLane
  PROVE  Inv'
<1>1. Kept(repo', clock')
  BY HeadKept DEF Inv, TypeOK, RunTypes, NewLane, DropLane
<1>2. Kept(durable', clock')
  BY DEF Inv, NewLane, DropLane
<1>3. CASE NewLane
  <2>1. RunTypes'
    BY <1>3 DEF Inv, TypeOK, RunTypes, NewLane, run
  <2>2. PendingOK'
    BY <1>3 DEF Inv, PendingOK, NewLane, run
  <2>3. QED
    BY <1>1, <1>2, <2>1, <2>2, KeptTypes DEF Inv, TypeOK
<1>4. CASE DropLane
  <2>1. RunTypes'
    BY <1>4 DEF Inv, TypeOK, RunTypes, DropLane, run, bounds
  <2>2. PendingOK'
    BY <1>4 DEF Inv, PendingOK, DropLane, run
  <2>3. QED
    BY <1>1, <1>2, <2>1, <2>2, KeptTypes DEF Inv, TypeOK
<1>5. QED
  BY <1>3, <1>4

\* A plan has a first step.
LEMMA StartStep ==
  ASSUME Inv, NEW r \in Runner, Start(r)
  PROVE  Inv'
<1>1. Kept(repo', clock') /\ Kept(durable', clock')
  BY DEF Inv, Start, files
<1>2. 1 \in 1..Len(Plan[r]) /\ r # "none"
  BY StoreAssumption
<1>3. RunTypes'
  BY <1>2 DEF Inv, TypeOK, RunTypes, Start, files
<1>4. PendingOK'
  BY DEF PendingOK, Start
<1>5. QED
  BY <1>1, <1>3, <1>4, KeptTypes DEF Inv, TypeOK

\* The step a run is at is a step.
LEMMA TheStepIsStep ==
  ASSUME Inv, runner # "none"
  PROVE  TheStep \in Step
<1>1. runner \in Runner /\ at \in 1..Len(Plan[runner])
  BY DEF Inv, TypeOK, RunTypes
<1>2. Plan[runner] \in Seq(Step)
  BY <1>1, StoreAssumption
<1>3. QED
  BY <1>1, <1>2 DEF TheStep

\* A pending receipt fits its file.
LEMMA PendingFits ==
  ASSUME Inv, pc \in {"fill", "durable", "repo"}
  PROVE  TheFile \in File /\ Fits(TheFile, pending, clock) /\ pending \in Receipt
<1>1. runner # "none" /\ clock \in Nat
  BY DEF Inv, TypeOK, RunTypes
<1>2. pending \in Receipt /\ pending.ts <= clock
  BY DEF Inv, PendingOK
<1>3. QED
  BY <1>1, <1>2, TheStepIsStep, PlaceFits DEF TheFile

\* A measurement is stamped with the time it advances the clock to.
LEMMA MeasureStep ==
  ASSUME Inv, Measure
  PROVE  Inv'
<1>1. PICK status \in {"pass", "fail"}, facts \in Fact :
        LET receipt == [kind |-> "receipt", status |-> status,
                        facts |-> facts, ts |-> clock + 1]
        IN  /\ pending' = receipt
            /\ IF TheStep \in Direct
               THEN pc' = "durable" /\ UNCHANGED repo
               ELSE /\ pc' = "fill"
                    /\ repo' = [repo EXCEPT ![PlaceOf(TheStep, receipt)] = Torn]
  BY DEF Measure
<1>2. clock \in Nat /\ clock' = clock + 1 /\ pc = "step" /\ runner # "none"
  BY DEF Inv, TypeOK, RunTypes, Measure
<1>3. pending' \in Receipt /\ pending'.ts = clock'
  BY <1>1, <1>2 DEF Receipt
<1>4. PlaceOf(TheStep, pending') \in File
  BY <1>2, <1>3, TheStepIsStep, PlaceFits
<1>5. Kept(repo', clock')
  <2>1. Kept(repo, clock')
    BY <1>2, KeptLater DEF Inv
  <2>2. CASE repo' = repo
    BY <2>1, <2>2
  <2>3. CASE repo' = [repo EXCEPT ![PlaceOf(TheStep, pending')] = Torn]
    BY <1>4, <2>1, <2>3, PutFits, BlankFits
  <2>4. QED
    BY <1>1, <2>2, <2>3
<1>6. Kept(durable', clock')
  BY <1>2, KeptLater DEF Inv, Measure
<1>7. RunTypes'
  BY <1>1, <1>2, <1>3 DEF Inv, TypeOK, RunTypes, Measure, bounds
<1>8. PendingOK'
  BY <1>2, <1>3 DEF PendingOK
<1>9. QED
  BY <1>5, <1>6, <1>7, <1>8, KeptTypes DEF Inv, TypeOK

\* What a run does after its receipt is in the lane: it is at a later step of its
\* plan, in the closing restore, or over.
LEMMA AfterStepTypes ==
  ASSUME Inv, pc \in {"fill", "repo"}, AfterStep,
         UNCHANGED <<head, lane, clock, bounds>>, spoilt' \subseteq File
  PROVE  RunTypes' /\ PendingOK'
<1>1. runner # "none" /\ runner \in Runner /\ lane
  BY DEF Inv, TypeOK, RunTypes
<1>2. Len(Plan[runner]) \in Nat
  BY <1>1, StoreAssumption
<1>3. Modified' \subseteq File
  BY DEF Modified
<1>4. CASE End("failed")
  BY <1>1, <1>4 DEF Inv, TypeOK, RunTypes, PendingOK, End, bounds
<1>5. CASE /\ pending' = Absent /\ UNCHANGED <<runner, outcome>>
           /\ at < Len(Plan[runner]) /\ at' = at + 1 /\ pc' = "step" /\ todo' = {}
  BY <1>1, <1>2, <1>5 DEF Inv, TypeOK, RunTypes, PendingOK, bounds
<1>6. CASE /\ pending' = Absent /\ UNCHANGED <<runner, outcome>>
           /\ at' = at /\ pc' = "restore" /\ todo' = Modified'
  BY <1>1, <1>3, <1>6 DEF Inv, TypeOK, RunTypes, PendingOK, bounds
<1>7. QED
  BY <1>4, <1>5, <1>6 DEF AfterStep

\* The receipt of the step lands in the lane.
LEMMA FillStep ==
  ASSUME Inv, Fill
  PROVE  Inv'
<1>1. Kept(repo', clock')
  BY PendingFits, PutFits DEF Inv, Fill
<1>2. Kept(durable', clock')
  BY DEF Inv, Fill
<1>3. spoilt' \subseteq File
  BY DEF Inv, TypeOK, RunTypes, Fill
<1>4. RunTypes' /\ PendingOK'
  BY <1>3, AfterStepTypes DEF Fill
<1>5. QED
  BY <1>1, <1>2, <1>4, KeptTypes DEF Inv, TypeOK

LEMMA WriteRepoStep ==
  ASSUME Inv, WriteRepo
  PROVE  Inv'
<1>1. Kept(repo', clock')
  <2>1. TheFile \in File /\ Fits(TheFile, pending, clock)
    BY PendingFits DEF WriteRepo
  <2>2. Fits(TheFile, repo[TheFile], clock)
    BY <2>1 DEF Inv, Kept
  <2>3. Fits(TheFile, Placed(repo[TheFile], pending), clock)
    BY <2>1, <2>2, PlacedFits
  <2>4. QED
    BY <2>1, <2>3, PutFits DEF Inv, WriteRepo
<1>2. Kept(durable', clock')
  BY DEF Inv, WriteRepo
<1>3. spoilt' \subseteq File
  BY DEF Inv, TypeOK, RunTypes, WriteRepo
<1>4. RunTypes' /\ PendingOK'
  BY <1>3, AfterStepTypes DEF WriteRepo
<1>5. QED
  BY <1>1, <1>2, <1>4, KeptTypes DEF Inv, TypeOK

\* A durable write puts there what fits, or tears the file, or leaves it.
LEMMA PlaceDurableFits ==
  ASSUME Inv, NEW f \in File, NEW receipt, Fits(f, receipt, clock),
         PlaceDurable(f, receipt)
  PROVE  Kept(durable', clock) /\ spoilt' \subseteq File /\ faults' \in Nat
<1>1. Kept(durable, clock) /\ Fits(f, durable[f], clock)
  BY DEF Inv, Kept
<1>2. CASE /\ durable' = [durable EXCEPT ![f] = Placed(@, receipt)]
           /\ spoilt' = spoilt \ {f} /\ UNCHANGED faults
  <2>1. Fits(f, Placed(durable[f], receipt), clock)
    BY <1>1, PlacedFits
  <2>2. Kept(durable', clock)
    BY <1>1, <1>2, <2>1, PutFits
  <2>3. QED
    BY <1>2, <2>2 DEF Inv, TypeOK, RunTypes
<1>3. CASE /\ faults' = faults + 1 /\ spoilt' = spoilt \cup {f}
           /\ durable' \in {durable, [durable EXCEPT ![f] = Torn]}
  <2>1. Kept(durable', clock)
    BY <1>1, <1>3, BlankFits, PutFits
  <2>2. QED
    BY <1>3, <2>1 DEF Inv, TypeOK, RunTypes
<1>4. QED
  BY <1>2, <1>3 DEF PlaceDurable

LEMMA WriteDurableStep ==
  ASSUME Inv, WriteDurable
  PROVE  Inv'
<1>1. /\ Kept(durable', clock) /\ spoilt' \subseteq File /\ faults' \in Nat
  BY PendingFits, PlaceDurableFits DEF WriteDurable
<1>2. Kept(repo', clock') /\ Kept(durable', clock')
  BY <1>1 DEF Inv, WriteDurable
<1>3. RunTypes'
  BY <1>1 DEF Inv, TypeOK, RunTypes, WriteDurable
<1>4. PendingOK'
  BY DEF Inv, PendingOK, WriteDurable
<1>5. QED
  BY <1>2, <1>3, <1>4, KeptTypes DEF Inv, TypeOK

LEMMA RestoreFileStep ==
  ASSUME Inv, NEW f \in File, RestoreFile(f)
  PROVE  Inv'
<1>1. clock \in Nat /\ head \in Heads
  BY DEF Inv, TypeOK, RunTypes
<1>2. Fits(f, head[f], clock) /\ Fits(f, repo[f], clock)
  BY <1>1, HeadKept DEF Inv, Kept
<1>3. Kept(repo', clock')
  BY <1>2, PutFits DEF Inv, RestoreFile
<1>4. Kept(durable', clock')
  BY DEF Inv, RestoreFile
<1>5. RunTypes'
  BY DEF Inv, TypeOK, RunTypes, RestoreFile, bounds
<1>6. PendingOK'
  BY DEF Inv, PendingOK, RestoreFile
<1>7. QED
  BY <1>3, <1>4, <1>5, <1>6, KeptTypes DEF Inv, TypeOK

\* The steps of the closing restore and mirror that write nothing.
LEMMA ClosingStep ==
  ASSUME Inv, RestoreFails \/ RestoreDone \/ MirrorDone
  PROVE  Inv'
<1>1. Kept(repo', clock') /\ Kept(durable', clock')
  BY DEF Inv, RestoreFails, RestoreDone, MirrorDone, files
<1>2. ToMirror \subseteq File
  BY DEF ToMirror
<1>3. CASE RestoreFails
  BY <1>1, <1>3, KeptTypes
  DEF Inv, TypeOK, RunTypes, PendingOK, RestoreFails, End, files
<1>4. CASE RestoreDone
  BY <1>1, <1>2, <1>4, KeptTypes
  DEF Inv, TypeOK, RunTypes, PendingOK, RestoreDone, files, bounds
<1>5. CASE MirrorDone
  BY <1>1, <1>5, KeptTypes
  DEF Inv, TypeOK, RunTypes, PendingOK, MirrorDone, End, files, bounds
<1>6. QED
  BY <1>3, <1>4, <1>5

LEMMA MirrorFileStep ==
  ASSUME Inv, NEW f \in File, MirrorFile(f)
  PROVE  Inv'
<1>1. Fits(f, repo[f], clock)
  BY DEF Inv, Kept
<1>2. /\ Kept(durable', clock) /\ spoilt' \subseteq File /\ faults' \in Nat
  BY <1>1, PlaceDurableFits DEF MirrorFile
<1>3. Kept(repo', clock') /\ Kept(durable', clock')
  BY <1>2 DEF Inv, MirrorFile
<1>4. RunTypes'
  BY <1>2 DEF Inv, TypeOK, RunTypes, MirrorFile
<1>5. PendingOK'
  BY DEF Inv, PendingOK, MirrorFile
<1>6. QED
  BY <1>3, <1>4, <1>5, KeptTypes DEF Inv, TypeOK

\* A kill tears at most one file, under one root.
LEMMA KillStep ==
  ASSUME Inv, Kill
  PROVE  Inv'
<1>1. /\ repo' = repo \/ \E f \in File : repo' = [repo EXCEPT ![f] = Torn]
      /\ durable' = durable \/ \E f \in File : durable' = [durable EXCEPT ![f] = Torn]
  <2>1. todo \subseteq File
    BY DEF Inv, TypeOK, RunTypes
  <2>2. pc \in {"durable", "repo"} => TheFile \in File
    BY PendingFits
  <2>3. QED
    BY <2>1, <2>2 DEF Kill, files
<1>2. Kept(repo', clock')
  BY <1>1, BlankFits, PutFits DEF Inv, Kill
<1>3. Kept(durable', clock')
  BY <1>1, BlankFits, PutFits DEF Inv, Kill
<1>4. RunTypes'
  BY DEF Inv, TypeOK, RunTypes, Kill, End
<1>5. PendingOK'
  BY DEF PendingOK, Kill, End
<1>6. QED
  BY <1>2, <1>3, <1>4, <1>5, KeptTypes DEF Inv, TypeOK

-----------------------------------------------------------------------------
\* The theorems.

\* Every step of the system keeps the invariant.
LEMMA NextInv == Inv /\ [Next]_vars => Inv'
<1> SUFFICES ASSUME Inv, [Next]_vars PROVE Inv'
  OBVIOUS
<1>1. CASE UNCHANGED vars
  BY <1>1 DEF Inv, TypeOK, RunTypes, FileTypes, PendingOK, vars, files, run, bounds
<1>2. CASE NewLane \/ DropLane
  BY <1>2, LaneStep
<1>3. CASE \E r \in Runner : Start(r)
  BY <1>3, StartStep
<1>4. CASE Measure \/ Fill \/ WriteDurable \/ WriteRepo
  BY <1>4, MeasureStep, FillStep, WriteDurableStep, WriteRepoStep
<1>5. CASE \E f \in File : RestoreFile(f) \/ MirrorFile(f)
  BY <1>5, RestoreFileStep, MirrorFileStep
<1>6. CASE RestoreFails \/ RestoreDone \/ MirrorDone
  BY <1>6, ClosingStep
<1>7. CASE Kill
  BY <1>7, KillStep
<1>8. QED
  BY <1>1, <1>2, <1>3, <1>4, <1>5, <1>6, <1>7 DEF Next

\* The invariant the theorems below rest on.
THEOREM InvAlways == Spec => []Inv
BY InitInv, NextInv, PTL DEF Spec

\* Type correctness of the receipt store, for any plans, heads and bounds.
THEOREM TypeCorrect == Spec => []TypeOK
<1>1. Inv => TypeOK
  BY DEF Inv
<1>2. QED
  BY <1>1, InvAlways, PTL

\* The quarantine works whatever the runners do and whatever a kill cuts short: no
\* failed receipt is ever among those the gate reads.
THEOREM FailuresStayQuarantined == Spec => []FailureCostsOneStep
<1>1. Inv => FailureCostsOneStep
  <2> SUFFICES ASSUME Inv, NEW step \in Step
               PROVE  /\ Present(step) => Graded(step).status = "pass"
                      /\ Violates(step) => \/ ~Present(step)
                                           \/ Graded(step).facts \notin Sound
    BY DEF FailureCostsOneStep
  <2>1. <<"graded", step>> \in File /\ <<"graded", step>>[1] = "graded"
    BY DEF File
  <2>2. Fits(<<"graded", step>>, Graded(step), clock)
    BY <2>1 DEF Inv, Kept, Graded
  <2>3. Present(step) => Graded(step).status = "pass"
    BY <2>1, <2>2 DEF Fits, Present
  <2>4. Graded(step) = Torn => ~Present(step)
    BY DEF Present, Readable, Torn
  <2>5. "pass" # "fail"
    OBVIOUS
  <2>6. QED
    BY <2>3, <2>4, <2>5 DEF Violates, Present
<1>2. QED
  BY <1>1, InvAlways, PTL

\* What NeverRestamped says of one step.
Unstamped == \A f \in File : SameFacts(durable'[f], durable[f]) => durable'[f] = durable[f]

\* Putting a file's placed receipt, or a torn one, re-stamps nothing.
LEMMA PutUnstamped ==
  ASSUME Inv, NEW f \in File, NEW receipt, NEW c \in {Placed(durable[f], receipt), Torn},
         durable' = [durable EXCEPT ![f] = c]
  PROVE  Unstamped
<1>1. durable \in [File -> Content]
  BY DEF Inv, Kept
<1>2. SameFacts(c, durable[f]) => c = durable[f]
  BY DEF Placed, SameFacts, Readable, Torn
<1>3. QED
  BY <1>1, <1>2 DEF Unstamped

LEMMA StepUnstamped ==
  ASSUME Inv, Next
  PROVE  Unstamped
<1>1. CASE durable' = durable
  BY <1>1 DEF Unstamped
<1>2. ASSUME NEW f \in File, NEW receipt, PlaceDurable(f, receipt)
      PROVE  Unstamped
  BY <1>1, <1>2, PutUnstamped DEF PlaceDurable
<1>3. CASE WriteDurable
  <2>1. TheFile \in File
    BY <1>3, PendingFits DEF WriteDurable
  <2>2. QED
    BY <1>2, <1>3, <2>1 DEF WriteDurable
<1>4. CASE \E f \in File : MirrorFile(f)
  BY <1>2, <1>4 DEF MirrorFile
<1>5. CASE Kill
  <2>1. todo \subseteq File /\ (pc \in {"durable", "repo"} => TheFile \in File)
    BY PendingFits DEF Inv, TypeOK, RunTypes
  <2>2. durable' = durable \/ \E f \in File : durable' = [durable EXCEPT ![f] = Torn]
    BY <1>5, <2>1 DEF Kill, files
  <2>3. QED
    BY <1>1, <2>2, PutUnstamped
<1>6. CASE NewLane \/ DropLane \/ RestoreFails \/ RestoreDone \/ MirrorDone
  BY <1>1, <1>6 DEF NewLane, DropLane, RestoreFails, RestoreDone, MirrorDone, files
<1>7. CASE Measure \/ Fill \/ WriteRepo
  BY <1>1, <1>7 DEF Measure, Fill, WriteRepo
<1>8. CASE \E f \in File : RestoreFile(f)
  BY <1>1, <1>8 DEF RestoreFile
<1>9. CASE \E r \in Runner : Start(r)
  BY <1>1, <1>9 DEF Start, files
<1>10. QED
  BY <1>3, <1>4, <1>5, <1>6, <1>7, <1>8, <1>9 DEF Next

\* No step puts a fresh stamp on facts a durable copy already carries: not a mirror,
\* not a --write, not a kill in the middle of either.
THEOREM DurableNotRestamped == Spec => NeverRestamped
<1>1. Inv /\ [Next]_vars => [Unstamped]_vars
  BY StepUnstamped
<1>2. QED
  BY <1>1, InvAlways, PTL DEF Spec, NeverRestamped, Unstamped

-----------------------------------------------------------------------------
\* The closing restore and the mirror, and the order of a --write.

\* What the walks establish for the files they are through with.
PureAt(f) == SameFacts(repo[f], head[f]) => repo[f] = head[f]
BankedAt(f) == Readable(repo[f]) => SameFacts(durable[f], repo[f]) \/ f \in spoilt

Pure ==
  /\ pc = "restore" => \A f \in File \ todo : PureAt(f)
  /\ pc = "mirror" => \A f \in File : PureAt(f)

Mirrored ==
  /\ pc = "mirror" => \A f \in File \ todo : BankedAt(f)
  /\ outcome = "done" => pc = "idle"
  /\ outcome = "done" /\ lane => \A f \in File : BankedAt(f)

\* A --write is in the durable directory before it goes to the lane.
WrittenFirst == pc = "repo" => SameFacts(durable[TheFile], pending) \/ TheFile \in spoilt

\* After the write of f the durable copy has its facts, or the write is known to have
\* failed; the other files are as they were.
LEMMA PlaceDurableBanks ==
  ASSUME Inv, NEW f \in File, NEW receipt, Readable(receipt), PlaceDurable(f, receipt)
  PROVE  /\ SameFacts(durable'[f], receipt) \/ f \in spoilt'
         /\ \A g \in File \ {f} : durable'[g] = durable[g] /\ (g \in spoilt => g \in spoilt')
<1>1. durable \in [File -> Content]
  BY DEF Inv, Kept
<1>2. SameFacts(Placed(durable[f], receipt), receipt)
  BY DEF Placed, SameFacts
<1>3. QED
  BY <1>1, <1>2 DEF PlaceDurable

\* The restore starts from the modified files, checks out those that are equal but for
\* their stamp, and nothing writes to the lane until the mirror is through.
LEMMA NextPure == Inv /\ Pure /\ [Next]_vars => Pure'
<1> SUFFICES ASSUME Inv, Pure, [Next]_vars PROVE Pure'
  OBVIOUS
<1>1. CASE Fill \/ WriteRepo
  <2>1. pc' \in {"idle", "step"} \/ (pc' = "restore" /\ todo' = Modified')
    BY <1>1 DEF Fill, WriteRepo, AfterStep, End
  <2>2. ASSUME NEW f \in File, f \notin Modified'
        PROVE  PureAt(f)'
    BY <2>2 DEF Modified, PureAt, SameFacts, Readable, Absent
  <2>3. QED
    BY <2>1, <2>2 DEF Pure
<1>2. ASSUME NEW f \in File, RestoreFile(f)
      PROVE  Pure'
  <2>1. repo \in [File -> Content]
    BY DEF Inv, Kept
  <2>2. PureAt(f)'
    BY <1>2, <2>1 DEF RestoreFile, PureAt, SameFacts
  <2>3. ASSUME NEW g \in File \ {f}, PureAt(g)
        PROVE  PureAt(g)'
    BY <1>2, <2>1, <2>3 DEF RestoreFile, PureAt
  <2>4. QED
    BY <1>2, <2>2, <2>3 DEF RestoreFile, Pure
<1>3. CASE RestoreDone
  BY <1>3 DEF RestoreDone, files, Pure, PureAt
<1>4. ASSUME NEW f \in File, MirrorFile(f)
      PROVE  Pure'
  BY <1>4 DEF MirrorFile, Pure, PureAt
<1>5. CASE RestoreFails \/ MirrorDone \/ Kill
  BY <1>5 DEF RestoreFails, MirrorDone, Kill, End, Pure
<1>6. CASE Measure \/ WriteDurable \/ \E r \in Runner : Start(r)
  <2>1. pc' \notin {"restore", "mirror"}
    BY <1>6 DEF Measure, WriteDurable, Start
  <2>2. QED
    BY <2>1 DEF Pure
<1>7. CASE NewLane \/ DropLane
  <2>1. pc' = "idle"
    BY <1>7 DEF NewLane, DropLane, run, Inv, TypeOK, RunTypes
  <2>2. QED
    BY <2>1 DEF Pure
<1>8. CASE UNCHANGED vars
  BY <1>8 DEF vars, files, run, Pure, PureAt
<1>9. QED
  BY <1>1, <1>2, <1>3, <1>4, <1>5, <1>6, <1>7, <1>8 DEF Next

\* Checkpoint purity, for any plans, lanes and failures.
THEOREM RestoreIsPure == Spec => []Purity
<1>1. Init => Pure
  BY DEF Init, Pure
<1>2. Inv /\ Pure => Purity
  BY DEF Pure, PureAt, Purity
<1>3. QED
  BY <1>1, <1>2, NextPure, InvAlways, PTL DEF Spec

\* The mirror starts from the readable files of the lane and banks them one by one;
\* after it, the lane is dropped or worked in again before anything is written.
LEMMA NextMirrored == Inv /\ Mirrored /\ [Next]_vars => Mirrored'
<1> SUFFICES ASSUME Inv, Mirrored, [Next]_vars PROVE Mirrored'
  OBVIOUS
<1>1. ASSUME NEW f \in File, MirrorFile(f)
      PROVE  Mirrored'
  <2>1. f \in todo /\ pc = "mirror" /\ PlaceDurable(f, repo[f]) /\ UNCHANGED <<repo, outcome, pc>>
    BY <1>1 DEF MirrorFile
  <2>2. BankedAt(f)'
    <3>1. CASE Readable(repo[f])
      BY <2>1, <3>1, PlaceDurableBanks DEF BankedAt
    <3>2. CASE ~Readable(repo[f])
      BY <2>1, <3>2 DEF BankedAt
    <3>3. QED
      BY <3>1, <3>2
  <2>3. ASSUME NEW g \in File \ {f}, BankedAt(g)
        PROVE  BankedAt(g)'
    <3>1. durable'[g] = durable[g] /\ (g \in spoilt => g \in spoilt')
      BY <2>1 DEF PlaceDurable, Inv, Kept
    <3>2. QED
      BY <2>1, <2>3, <3>1 DEF BankedAt
  <2>4. todo' = todo \ {f} /\ outcome # "done"
    BY <1>1, <2>1 DEF MirrorFile, Mirrored
  <2>5. QED
    BY <2>1, <2>2, <2>3, <2>4 DEF Mirrored
<1>2. CASE RestoreDone
  <2>1. ASSUME NEW f \in File \ ToMirror
        PROVE  BankedAt(f)'
    BY <1>2 DEF RestoreDone, files, ToMirror, BankedAt
  <2>2. QED
    BY <1>2, <2>1 DEF RestoreDone, Mirrored
<1>3. CASE MirrorDone
  BY <1>3 DEF MirrorDone, End, files, Mirrored, BankedAt
<1>4. CASE Fill \/ WriteRepo
  <2>1. pc' # "mirror" /\ outcome' # "done"
    BY <1>4 DEF Fill, WriteRepo, AfterStep, End, Mirrored
  <2>2. QED
    BY <2>1 DEF Mirrored
<1>5. CASE Measure \/ WriteDurable \/ \E f \in File : RestoreFile(f)
  <2>1. pc' # "mirror" /\ outcome' # "done"
    BY <1>5 DEF Measure, WriteDurable, RestoreFile, Mirrored
  <2>2. QED
    BY <2>1 DEF Mirrored
<1>6. CASE RestoreFails \/ Kill \/ \E r \in Runner : Start(r)
  <2>1. pc' # "mirror" /\ outcome' # "done"
    BY <1>6 DEF RestoreFails, Kill, End, Start
  <2>2. QED
    BY <2>1 DEF Mirrored
<1>7. CASE NewLane
  <2>1. pc' = "idle" /\ outcome' # "done"
    BY <1>7 DEF NewLane, run, Inv, TypeOK, RunTypes, Mirrored
  <2>2. QED
    BY <2>1 DEF Mirrored
<1>8. CASE DropLane
  <2>1. pc' = "idle" /\ ~lane'
    BY <1>8 DEF DropLane, run, Inv, TypeOK, RunTypes
  <2>2. QED
    BY <2>1 DEF Mirrored
<1>9. CASE UNCHANGED vars
  BY <1>9 DEF vars, files, run, Mirrored, BankedAt
<1>10. QED
  BY <1>1, <1>2, <1>3, <1>4, <1>5, <1>6, <1>7, <1>8, <1>9 DEF Next

\* A run that ends well leaves a durable copy of all the lane can show, but for what
\* the operating system refused.
THEOREM MirrorIsComplete == Spec => []MirrorComplete
<1>1. Init => Mirrored
  BY DEF Init, Mirrored
<1>2. Mirrored => MirrorComplete
  BY DEF Mirrored, BankedAt, MirrorComplete
<1>3. QED
  BY <1>1, <1>2, NextMirrored, InvAlways, PTL DEF Spec

\* The only way to the second half of a --write is through the first.
LEMMA NextWrittenFirst == Inv /\ WrittenFirst /\ [Next]_vars => WrittenFirst'
<1> SUFFICES ASSUME Inv, WrittenFirst, [Next]_vars PROVE WrittenFirst'
  OBVIOUS
<1>1. CASE WriteDurable
  <2>1. TheFile \in File /\ Readable(pending) /\ PlaceDurable(TheFile, pending)
    BY <1>1, PendingFits, ReceiptReadable DEF WriteDurable
  <2>2. SameFacts(durable'[TheFile], pending) \/ TheFile \in spoilt'
    BY <2>1, PlaceDurableBanks
  <2>3. UNCHANGED <<pending, runner, at>>
    BY <1>1 DEF WriteDurable
  <2>4. QED
    BY <2>2, <2>3 DEF WrittenFirst, TheFile, TheStep
<1>2. CASE \/ Measure \/ Fill \/ WriteRepo \/ RestoreFails \/ RestoreDone \/ MirrorDone \/ Kill
           \/ \E f \in File : RestoreFile(f) \/ MirrorFile(f)
           \/ \E r \in Runner : Start(r)
  <2>1. pc' # "repo"
    BY <1>2 DEF Measure, Fill, WriteRepo, RestoreFails, RestoreDone, MirrorDone, Kill,
                RestoreFile, MirrorFile, Start, AfterStep, End
  <2>2. QED
    BY <2>1 DEF WrittenFirst
<1>3. CASE NewLane \/ DropLane
  <2>1. pc' # "repo"
    BY <1>3 DEF NewLane, DropLane, run, Inv, TypeOK, RunTypes
  <2>2. QED
    BY <2>1 DEF WrittenFirst
<1>4. CASE UNCHANGED vars
  BY <1>4 DEF vars, files, run, WrittenFirst, TheFile, TheStep
<1>5. QED
  BY <1>1, <1>2, <1>3, <1>4 DEF Next

\* A --write puts nothing in the lane that the durable directory does not have, or is
\* known to have refused.
THEOREM WritesAreDurableFirst == Spec => DurableFirst
<1> DEFINE First == \A step \in Direct, f \in File :
              (pc = "repo" /\ TheStep = step /\ repo'[f] # repo[f] /\ Readable(repo'[f])) =>
                SameFacts(durable[f], repo'[f]) \/ f \in spoilt
<1>1. ASSUME Inv, WrittenFirst, Next, NEW f \in File,
             pc = "repo", repo'[f] # repo[f], Readable(repo'[f])
      PROVE  SameFacts(durable[f], repo'[f]) \/ f \in spoilt
  <2>1. repo \in [File -> Content] /\ TheFile \in File /\ runner # "none"
    BY <1>1, PendingFits DEF Inv, Kept, TypeOK, RunTypes
  <2>2. CASE WriteRepo
    <3>1. repo' = [repo EXCEPT ![TheFile] = Placed(@, pending)]
      BY <2>2 DEF WriteRepo
    <3>2. f = TheFile /\ repo'[f] = pending
      BY <1>1, <2>1, <3>1 DEF Placed
    <3>3. QED
      BY <1>1, <3>2 DEF WrittenFirst
  <2>3. CASE Kill
    <3>1. repo' = repo \/ repo' = [repo EXCEPT ![TheFile] = Torn]
      BY <1>1, <2>3 DEF Kill, files
    <3>2. QED
      BY <1>1, <2>1, <3>1 DEF Readable, Torn
  <2>4. ~(NewLane \/ DropLane \/ \E r \in Runner : Start(r))
    <3>1. lane BY <1>1, <2>1 DEF Inv, TypeOK, RunTypes
    <3>2. QED BY <2>1, <3>1 DEF NewLane, DropLane, Start
  <2>5. ~(Measure \/ Fill \/ RestoreFails \/ RestoreDone \/ MirrorDone)
    BY <1>1 DEF Measure, Fill, RestoreFails, RestoreDone, MirrorDone
  <2>6. ~(WriteDurable \/ \E g \in File : RestoreFile(g) \/ MirrorFile(g))
    BY <1>1 DEF WriteDurable, RestoreFile, MirrorFile
  <2>7. QED
    BY <1>1, <2>2, <2>3, <2>4, <2>5, <2>6 DEF Next
<1>2. Inv /\ WrittenFirst /\ [Next]_vars => [First]_vars
  BY <1>1
<1>3. Init => WrittenFirst
  BY DEF Init, WrittenFirst
<1>4. QED
  BY <1>2, <1>3, NextWrittenFirst, InvAlways, PTL DEF Spec, DurableFirst
=============================================================================
