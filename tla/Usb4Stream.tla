----------------------------- MODULE Usb4Stream -----------------------------
(***************************************************************************)
(* One first-light run of bench/usb4stream-bench.py: the coordinator "C",  *)
(* the peer "P" it launches over ssh, the stream device between them, and  *)
(* the one receipt the run banks.                                          *)
(*                                                                         *)
(* The device is external (a kernel driver); it is modelled from what the  *)
(* bench relies on: the first open on a side enables that side's router    *)
(* paths, a frame written before the far side has opened is silently       *)
(* dropped, a frame written to an open far side waits in a ring of bounded *)
(* size, and a close is seen by the far side as EOF on read and an error   *)
(* on write.                                                               *)
(***************************************************************************)
EXTENDS Naturals, Sequences

CONSTANTS
  Device,            \* device nodes a side may hold, on either host
  Wire,              \* the physical cables between the two hosts
  NoWire,            \* "never opened"
  Cabling,           \* the hardware of the two sides a run may start on
  Ring,              \* frames one direction holds before a writer blocks
  Iters,             \* iterations of each ping-pong and exchange size
  RttFrames,         \* the rtt sizes, in frames
  ExchangeFrames,    \* the exchange sizes, in frames
  ThroughputFrames,  \* frames pushed each way in the throughput phase
  MaxRuns,           \* bound: launches by the harness
  MaxMoves           \* bound: re-enumerations of the hardware

Side  == {"C", "P"}

\* What a node's sysfs says: whether the chain resolves at all, which wire each
\* device node is attached to, and which device node the cable label names.
Hardware == [present : BOOLEAN, attach : [Device -> Wire], label : Device]

Other(s) == IF s = "C" THEN "P" ELSE "C"

ASSUME SizesAssumption ==
  /\ Ring \in Nat \ {0}
  /\ Iters \in Nat \ {0}
  /\ RttFrames \in Seq(Nat \ {0})
  /\ ExchangeFrames \in Seq(1 .. Ring)
  /\ ThroughputFrames \in Nat \ {0}
  /\ MaxRuns \in Nat
  /\ MaxMoves \in Nat
  /\ NoWire \notin Wire
  /\ Cabling \subseteq [Side -> Hardware]

VARIABLES
  hw,         \* per side: what resolution finds there now
  moves,      \* re-enumerations so far
  moved,      \* sides whose hardware moved since the run resolved it
  pc,         \* per side: where the process is
  alarm,      \* per side: the armed SIGALRM
  at, half, done,  \* per side: turn, half of the turn, frames of it done
  seat,       \* per side: the wire the device was opened on, NoWire before
  up,         \* per side: the device is open
  held,       \* per side: the open has returned, so the finally clause knows the fd
  failed,     \* per side: an exception is what ended the run
  local,      \* C's own resolution
  probe,      \* the resolution P's read-only probe reported
  judged,     \* what the serve check concluded
  phase,      \* the phase an abort is typed with
  verdict,    \* the receipt C is about to write
  ssh,        \* the ssh child is alive
  pipe,       \* lines P printed that C has not read
  stash,      \* report lines the open barrier consumed
  heard,      \* kill_peer got to the end of the pipe
  q,          \* per side: frames waiting to be read there, each as its writer numbers it
  lost,       \* a frame met a far side that had not opened yet
  receipt,    \* results/receipts/usb4stream.json
  runs        \* launches so far

world == <<hw, moves, moved>>
procs == <<pc, alarm, at, half, done, failed>>
stream == <<seat, up, held, q, lost>>
plan  == <<local, probe, judged>>
typing == <<phase, verdict>>
control == <<ssh, pipe, stash, heard>>
disk  == <<receipt, runs>>
vars  == <<world, procs, stream, plan, typing, control, disk>>

-----------------------------------------------------------------------------
\* The schedule: the same constants on both sides, so nothing is negotiated.

Turn(how, ph, n) == [how |-> how, phase |-> ph, frames |-> n]

\* Each size Iters times over, size after size.
Rounds(how, ph, sizes) ==
  [k \in 1 .. Len(sizes) * Iters |-> Turn(how, ph, sizes[1 + (k - 1) \div Iters])]

Turns ==
  <<Turn("ask", "handshake", 1)>>
    \o Rounds("ask", "warmup", <<1>>)
    \o Rounds("ask", "rtt", RttFrames)
    \o Rounds("both", "exchange", ExchangeFrames)
    \o <<Turn("push", "throughput", ThroughputFrames),
         Turn("pull", "throughput", ThroughputFrames),
         Turn("ask", "teardown", 1)>>

\* coordinator_schedule: write then read, except that the throughput phase
\* pushes everything and then pulls everything.
CoordinatorHalves(how) ==
  CASE how = "push" -> <<"write">>
    [] how = "pull" -> <<"read">>
    [] OTHER        -> <<"write", "read">>

\* MUTANT: the peer takes the throughput directions the other way round.
PeerHalvesSwapped(how) ==
  CASE how = "push" -> <<"write">>
    [] how = "pull" -> <<"read">>
    [] how = "both" -> <<"write", "read">>
    [] OTHER        -> <<"read", "write">>

\* peer_schedule: the mirror; only the exchange writes before it reads.
PeerHalves(how) ==
  CASE how = "push" -> <<"read">>
    [] how = "pull" -> <<"write">>
    [] how = "both" -> <<"write", "read">>
    [] OTHER        -> <<"read", "write">>

Halves(s, how) == IF s = "C" THEN CoordinatorHalves(how) ELSE PeerHalves(how)

\* Where a side is: the turn, the half of it, the frames of that half done.
InSchedule(s) == pc[s] = "sched" /\ at[s] <= Len(Turns)
Doing(s) == Halves(s, Turns[at[s]].how)[half[s]]

SchedulePhase == {"handshake", "warmup", "rtt", "exchange", "throughput", "teardown"}
CurrentPhase == IF at["C"] <= Len(Turns) THEN Turns[at["C"]].phase ELSE "teardown"

-----------------------------------------------------------------------------
\* State.

Resolution == [dev : Device, wire : Wire]
NoResolution == [dev |-> "none", wire |-> "none"]

Ended == {"idle", "exit", "killed", "uncaught"}

CoordinatorPlace ==
  Ended \cup {"serve", "judge", "resolve", "reach", "probe", "mismatch", "launch",
              "barrier", "open", "opened", "sched", "unwind", "reap", "write", "writing"}
PeerPlace ==
  {"none", "resolve", "open", "opened", "marker", "sched", "unwind", "report", "exit"}

Marker == [line |-> "marker", outcome |-> "none", opens |-> 1]
NoReport == [line |-> "none", outcome |-> "none", opens |-> 0]
Report == [line : {"report"}, outcome : {"ok", "aborted"}, opens : {0, 1}]

NoReceipt == [outcome |-> "none", phase |-> "none", peer |-> NoReport]
Torn      == [outcome |-> "torn", phase |-> "none", peer |-> NoReport]
Receipt == [outcome : {"none", "torn", "skipped", "aborted", "ok"},
            phase : {"none", "startup", "peer-open-barrier", "open", "peer"} \cup SchedulePhase,
            peer : Report \cup {NoReport}]

\* A frame of a turn, and its number in it.
Frame == Nat \X Nat

WorldType == hw \in [Side -> Hardware] /\ moves \in Nat /\ moved \in SUBSET Side
PlaceType ==
  /\ pc \in [Side -> CoordinatorPlace \cup PeerPlace]
  /\ pc["C"] \in CoordinatorPlace
  /\ pc["P"] \in PeerPlace
TimerType == alarm \in [Side -> {"off", "open", "global"}] /\ failed \in [Side -> BOOLEAN]
CursorType ==
  /\ at \in [Side -> Nat \ {0}]
  /\ half \in [Side -> Nat \ {0}]
  /\ done \in [Side -> Nat]
StreamType ==
  /\ seat \in [Side -> Wire \cup {NoWire}]
  /\ up \in [Side -> BOOLEAN]
  /\ held \in [Side -> BOOLEAN]
  /\ q \in [Side -> Seq(Frame)]
  /\ lost \in BOOLEAN
PlanType ==
  /\ local \in Resolution \cup {NoResolution}
  /\ probe \in Resolution \cup {NoResolution}
  /\ judged \in {"none", "idle", "disjoint", "unresolved"}
TypingType ==
  /\ phase \in {"none", "startup", "peer-open-barrier", "open"} \cup SchedulePhase
  /\ verdict \in Receipt
ControlType ==
  /\ ssh \in BOOLEAN
  /\ pipe \in Seq(Report \cup {Marker})
  /\ stash \in Report \cup {NoReport}
  /\ heard \in BOOLEAN
DiskType == receipt \in Receipt /\ runs \in Nat

\* Every line C reads off the pipe is the marker or a report, every place is one
\* a process can be at, and every receipt one that the run can have banked.
TypeOK ==
  /\ WorldType /\ PlaceType /\ TimerType /\ CursorType /\ StreamType
  /\ PlanType /\ TypingType /\ ControlType /\ DiskType

\* A fresh run's own state; what a run leaves behind is the receipt.
Init ==
  /\ hw \in Cabling
  /\ moves = 0
  /\ moved = {}
  /\ pc = [s \in Side |-> IF s = "C" THEN "idle" ELSE "none"]
  /\ alarm = [s \in Side |-> "off"]
  /\ at = [s \in Side |-> 1]
  /\ half = [s \in Side |-> 1]
  /\ done = [s \in Side |-> 0]
  /\ seat = [s \in Side |-> NoWire]
  /\ up = [s \in Side |-> FALSE]
  /\ held = [s \in Side |-> FALSE]
  /\ failed = [s \in Side |-> FALSE]
  /\ local = NoResolution
  /\ probe = NoResolution
  /\ judged = "none"
  /\ phase = "none"
  /\ verdict = NoReceipt
  /\ ssh = FALSE
  /\ pipe = <<>>
  /\ stash = NoReport
  /\ heard = FALSE
  /\ q = [s \in Side |-> <<>>]
  /\ lost = FALSE
  /\ receipt = NoReceipt
  /\ runs = 0

-----------------------------------------------------------------------------
\* Resolution, the single open and the way out of the try block.

Resolve(s) == [dev |-> hw[s].label, wire |-> hw[s].attach[hw[s].label]]

Go(s, place) == pc' = [pc EXCEPT ![s] = place]

Arm(s, which) == alarm' = [alarm EXCEPT ![s] = which]

\* An exception leaves the body of the try: the handler has not run yet.
Raise(s) ==
  /\ Go(s, "unwind")
  /\ failed' = [failed EXCEPT ![s] = TRUE]

\* A close, by os.close or by the kernel when the process ends: what was
\* waiting to be read there is gone.
CloseDevice(s) ==
  /\ up' = [up EXCEPT ![s] = FALSE]
  /\ q' = [q EXCEPT ![s] = <<>>]

\* os.open on one side; it lands on whatever the node is attached to now. The
\* descriptor is not anybody's yet.
OpenDevice(s, dev) ==
  /\ hw[s].present
  /\ seat' = [seat EXCEPT ![s] = hw[s].attach[dev]]
  /\ up' = [up EXCEPT ![s] = TRUE]
  /\ q' = [q EXCEPT ![s] = <<>>]
  /\ Go(s, "opened")

\* open_stream_once raises: os.open fails, or its 30 s alarm goes off. Where the
\* device is open by then, the descriptor is lost with the exception, and nothing
\* closes the device before the process ends.
OpenRaises(s) ==
  /\ pc[s] \in {"open", "opened"}
  /\ Raise(s)
  /\ Arm(s, "off")

\* What the far side of an open device is.
FarEnd(s) ==
  LET t == Other(s) IN
  IF seat[t] = NoWire THEN "unopened"
  ELSE IF seat[t] # seat[s] THEN "elsewhere"
  ELSE IF up[t] THEN "open" ELSE "closed"

-----------------------------------------------------------------------------
\* The coordinator, up to the launch: nothing here touches a device.

\* A new process: nothing survives from an earlier run but the receipt.
FreshRun ==
  /\ pc' = [s \in Side |-> IF s = "C" THEN "serve" ELSE "none"]
  /\ alarm' = [s \in Side |-> "off"]
  /\ at' = [s \in Side |-> 1]
  /\ half' = [s \in Side |-> 1]
  /\ done' = [s \in Side |-> 0]
  /\ failed' = [s \in Side |-> FALSE]
  /\ seat' = [s \in Side |-> NoWire]
  /\ up' = [s \in Side |-> FALSE]
  /\ held' = [s \in Side |-> FALSE]
  /\ q' = [s \in Side |-> <<>>]
  /\ lost' = FALSE
  /\ local' = NoResolution
  /\ probe' = NoResolution
  /\ judged' = "none"
  /\ phase' = "none"
  /\ verdict' = NoReceipt
  /\ ssh' = FALSE
  /\ pipe' = <<>>
  /\ stash' = NoReport
  /\ heard' = FALSE
  /\ moved' = {}

\* Bound: no two peers at once. Nothing in the bench waits for a peer that outlived
\* its coordinator; what the driver makes of a second open of the worker's device is
\* not in the repository, so a launch beside such an orphan is left out.
NoOrphan == pc["P"] \in {"none", "exit"}

\* The harness launches, and launches again.
MayStart == pc["C"] \in Ended /\ NoOrphan /\ runs < MaxRuns

\* MUTANT: no idempotence guard.
CStartUnguarded ==
  /\ MayStart
  /\ runs' = runs + 1
  /\ FreshRun
  /\ UNCHANGED <<hw, moves, receipt>>

\* The idempotence guard comes first.
CStart ==
  /\ MayStart
  /\ runs' = runs + 1
  /\ \/ /\ receipt # NoReceipt
        /\ Go("C", "exit")
        /\ UNCHANGED <<moved, alarm, at, half, done, failed, stream, plan, typing, control>>
     \/ /\ receipt = NoReceipt
        /\ FreshRun
  /\ UNCHANGED <<hw, moves, receipt>>

\* raise Skip(...), caught by run_coordinator: a typed receipt, nothing opened.
Skip ==
  /\ Go("C", "write")
  /\ verdict' = [outcome |-> "skipped", phase |-> "none", peer |-> NoReport]
  /\ UNCHANGED phase

\* serve_is_up, and serve_blocks_run's unconditional answer on cable A.
CServe ==
  /\ pc["C"] = "serve"
  /\ \E serveUp \in BOOLEAN, cable \in {"A", "B"} :
       \/ /\ ~serveUp
          /\ Go("C", "resolve")
          /\ judged' = "idle"
          /\ UNCHANGED typing
       \/ /\ serveUp /\ cable = "A"
          /\ Skip
          /\ UNCHANGED judged
       \/ /\ serveUp /\ cable = "B"
          /\ Go("C", "judge")
          /\ UNCHANGED <<judged, typing>>
  /\ UNCHANGED <<world, alarm, at, half, done, failed, stream, local, probe, control, disk>>

\* serve_blocks_run on cable B: the two routers compared, if the chain
\* resolves; when it does not, the later resolution is trusted to refuse.
CJudge ==
  /\ pc["C"] = "judge"
  /\ \/ /\ hw["C"].present
        /\ \E router \in {"disjoint", "same", "unknown"} :
             \/ /\ router = "disjoint"
                /\ Go("C", "resolve")
                /\ judged' = "disjoint"
                /\ UNCHANGED typing
             \/ /\ router # "disjoint"
                /\ Skip
                /\ UNCHANGED judged
     \/ /\ ~hw["C"].present
        /\ Go("C", "resolve")
        /\ judged' = "unresolved"
        /\ UNCHANGED typing
  /\ UNCHANGED <<world, alarm, at, half, done, failed, stream, local, probe, control, disk>>

\* resolve_stream_device on this node. A failure at the configfs group probes
\* the peer for the record before it skips.
CResolve ==
  /\ pc["C"] = "resolve"
  /\ \/ /\ hw["C"].present
        /\ local' = Resolve("C")
        /\ moved' = moved \ {"C"}
        /\ Go("C", "reach")
        /\ UNCHANGED typing
     \/ /\ ~hw["C"].present
        /\ \/ Skip
           \/ Go("C", "uncaught") /\ UNCHANGED typing
        /\ UNCHANGED <<local, moved>>
  /\ UNCHANGED <<hw, moves, alarm, at, half, done, failed, stream, probe, judged,
                 control, disk>>

\* peer_reachable: a different machine must answer on this interface.
CReach ==
  /\ pc["C"] = "reach"
  /\ \/ hw["P"].present /\ Go("C", "probe") /\ UNCHANGED typing
     \/ Skip
  /\ UNCHANGED <<world, alarm, at, half, done, failed, stream, plan, control, disk>>

\* probe_peer: the worker resolves, read-only. No JSON, or ok false, is a
\* skip; a probe that outlives its 60 s raises TimeoutExpired past the
\* handler of Skip, and the run ends with no receipt.
CProbe ==
  /\ pc["C"] = "probe"
  /\ \/ /\ hw["P"].present
        /\ probe' = Resolve("P")
        /\ moved' = moved \ {"P"}
        /\ Go("C", "mismatch")
        /\ UNCHANGED typing
     \/ /\ \/ Skip
           \/ Go("C", "uncaught") /\ UNCHANGED typing
        /\ UNCHANGED <<probe, moved>>
  /\ UNCHANGED <<hw, moves, alarm, at, half, done, failed, stream, local, judged,
                 control, disk>>

\* MUTANT: the two resolutions are not compared.
CMismatchUnchecked ==
  /\ pc["C"] = "mismatch"
  /\ Go("C", "launch")
  /\ UNCHANGED typing
  /\ UNCHANGED <<world, alarm, at, half, done, failed, stream, plan, control, disk>>

\* cable_disagreement on the two resolutions: the hopids interlock and the
\* netdevs face each other exactly when both resolved the same wire. A hopid
\* that cannot be read refuses the run too.
CMismatch ==
  /\ pc["C"] = "mismatch"
  /\ \/ local.wire = probe.wire /\ Go("C", "launch") /\ UNCHANGED typing
     \/ Skip
  /\ UNCHANGED <<world, alarm, at, half, done, failed, stream, plan, control, disk>>

-----------------------------------------------------------------------------
\* The coordinator, from the launch on.

\* MUTANT: the coordinator opens as soon as it has launched the peer.
CLaunchNoBarrier ==
  /\ pc["C"] = "launch"
  /\ ssh' = TRUE
  /\ pc' = [pc EXCEPT !["C"] = "open", !["P"] = "resolve"]
  /\ Arm("C", "open")
  /\ UNCHANGED <<world, at, half, done, failed, stream, plan, typing, pipe, stash, heard, disk>>

\* launch_peer. The ssh client may fail to connect (its pipe is then at EOF),
\* or Popen / the write of the source may raise.
CLaunch ==
  /\ pc["C"] = "launch"
  /\ \/ /\ ssh' = TRUE
        /\ pc' = [pc EXCEPT !["C"] = "barrier", !["P"] = "resolve"]
        /\ Arm("C", "open")
        /\ UNCHANGED <<failed, phase>>
     \/ /\ Go("C", "barrier")
        /\ Arm("C", "open")
        /\ UNCHANGED <<ssh, failed, phase>>
     \/ /\ Raise("C")
        /\ phase' = "startup"
        /\ UNCHANGED <<ssh, alarm>>
  /\ UNCHANGED <<world, at, half, done, stream, plan, verdict, pipe, stash, heard, disk>>

\* wait_peer_open: the marker opens the barrier, any other line is kept for
\* kill_peer, EOF or the alarm fails the run before anything is opened here.
CBarrier ==
  /\ pc["C"] = "barrier"
  /\ \/ /\ pipe # <<>> /\ Head(pipe) = Marker
        /\ pipe' = Tail(pipe)
        /\ Go("C", "open")
        /\ UNCHANGED <<alarm, failed, phase, stash>>
     \/ /\ pipe # <<>> /\ Head(pipe) # Marker
        /\ pipe' = Tail(pipe)
        /\ stash' = Head(pipe)
        /\ UNCHANGED <<pc, alarm, failed, phase>>
     \/ /\ \/ pipe = <<>> /\ (~ssh \/ pc["P"] = "exit")
           \/ alarm["C"] = "open"
        /\ Raise("C")
        /\ Arm("C", "off")
        /\ phase' = "peer-open-barrier"
        /\ UNCHANGED <<pipe, stash>>
  /\ UNCHANGED <<world, at, half, done, stream, plan, verdict, ssh, heard, disk>>

\* MUTANT: the schedule runs without its alarm.
COpenNoAlarm ==
  /\ \/ /\ pc["C"] = "open"
        /\ OpenDevice("C", local.dev)
        /\ UNCHANGED <<alarm, held>>
     \/ /\ pc["C"] = "opened"
        /\ held' = [held EXCEPT !["C"] = TRUE]
        /\ Go("C", "sched")
        /\ Arm("C", "off")
        /\ UNCHANGED <<seat, up, q>>
  /\ UNCHANGED <<world, at, half, done, failed, lost, plan, typing, control, disk>>

\* MUTANT: the phase moves on before the open is made.
COpenPhaseEarly ==
  /\ \/ /\ pc["C"] = "open"
        /\ OpenDevice("C", local.dev)
        /\ UNCHANGED <<alarm, held, failed, phase>>
     \/ /\ pc["C"] = "opened"
        /\ held' = [held EXCEPT !["C"] = TRUE]
        /\ Go("C", "sched")
        /\ Arm("C", "global")
        /\ UNCHANGED <<seat, up, q, failed, phase>>
     \/ /\ OpenRaises("C")
        /\ phase' = "handshake"
        /\ UNCHANGED <<seat, up, held, q>>
  /\ UNCHANGED <<world, at, half, done, lost, plan, verdict, control, disk>>

\* open_stream_once on the device resolved before the launch: the device opens; the
\* call returns and the global alarm replaces its own; or it raises, on either side
\* of the open.
COpen ==
  /\ \/ /\ pc["C"] = "open"
        /\ OpenDevice("C", local.dev)
        /\ UNCHANGED <<alarm, held, failed, phase>>
     \/ /\ pc["C"] = "opened"
        /\ held' = [held EXCEPT !["C"] = TRUE]
        /\ Go("C", "sched")
        /\ Arm("C", "global")
        /\ UNCHANGED <<seat, up, q, failed, phase>>
     \/ /\ OpenRaises("C")
        /\ phase' = "open"
        /\ UNCHANGED <<seat, up, held, q>>
  /\ UNCHANGED <<world, at, half, done, lost, plan, verdict, control, disk>>

\* MUTANT: the last line is taken for a report, whatever it is.
LastReportAnyLine == IF pipe # <<>> THEN pipe[Len(pipe)] ELSE stash

\* The report lines of the pipe with none after them: at most one.
Newest ==
  { k \in 1 .. Len(pipe) :
      /\ pipe[k].line = "report"
      /\ \A j \in k + 1 .. Len(pipe) : pipe[j].line # "report" }

\* MUTANT: the lines the barrier consumed are forgotten.
LastReportPipeOnly == IF Newest # {} THEN pipe[CHOOSE k \in Newest : TRUE] ELSE NoReport

\* kill_peer's reading: the report printed last, from the pipe or the stash.
LastReport == IF Newest # {} THEN pipe[CHOOSE k \in Newest : TRUE] ELSE stash

\* The outcome, given what kill_peer returned.
Outcome(report) ==
  IF failed["C"] THEN [outcome |-> "aborted", phase |-> phase, peer |-> report]
  ELSE IF report.outcome = "ok" /\ report.opens = 1
       THEN [outcome |-> "ok", phase |-> "none", peer |-> report]
       ELSE [outcome |-> "aborted", phase |-> "peer", peer |-> report]

\* kill_peer. An aborted run has already killed the ssh child; a complete one waits
\* for its end, and kills it after 30 s. A pipe still not at its end 10 s later makes
\* the whole answer {}, the lines the barrier kept for it included.
CReap ==
  /\ pc["C"] = "reap"
  /\ Go("C", "write")
  /\ ssh' = FALSE
  /\ heard' \in BOOLEAN
  /\ verdict' = Outcome(IF heard' THEN LastReport ELSE NoReport)
  /\ UNCHANGED <<world, alarm, at, half, done, failed, stream, plan, phase, pipe, stash, disk>>

\* write_receipt: write_text truncates the file and then fills it; with that the
\* process ends, and the kernel closes what it leaked.
CWrite ==
  /\ \/ pc["C"] = "write" /\ receipt' = Torn /\ Go("C", "writing") /\ UNCHANGED <<up, q>>
     \/ pc["C"] = "writing" /\ receipt' = verdict /\ Go("C", "exit") /\ CloseDevice("C")
  /\ UNCHANGED <<world, alarm, at, half, done, failed, seat, held, lost, plan, typing,
                 control, runs>>

-----------------------------------------------------------------------------
\* The peer.

PIdle == UNCHANGED <<world, plan, typing, disk>>

\* run_peer resolves again and refuses a device other than the one probed.
PResolve ==
  /\ pc["P"] = "resolve"
  /\ \/ /\ hw["P"].present
        /\ Resolve("P").dev = probe.dev
        /\ Go("P", "open")
        /\ Arm("P", "open")
        /\ UNCHANGED failed
     \/ /\ ~hw["P"].present \/ Resolve("P").dev # probe.dev
        /\ Raise("P")
        /\ UNCHANGED alarm
  /\ UNCHANGED <<at, half, done, stream, control>>
  /\ PIdle

\* The same call on the worker, on the device the coordinator's probe named.
POpen ==
  /\ \/ /\ pc["P"] = "open"
        /\ OpenDevice("P", probe.dev)
        /\ UNCHANGED <<alarm, held, failed>>
     \/ /\ pc["P"] = "opened"
        /\ held' = [held EXCEPT !["P"] = TRUE]
        /\ Go("P", "marker")
        /\ Arm("P", "off")
        /\ UNCHANGED <<seat, up, q, failed>>
     \/ /\ OpenRaises("P")
        /\ UNCHANGED <<seat, up, held, q>>
  /\ UNCHANGED <<at, half, done, lost, control>>
  /\ PIdle

\* MUTANT: the peer runs the schedule without its alarm.
PMarkerNoAlarm ==
  /\ pc["P"] = "marker"
  /\ pipe' = IF ssh THEN Append(pipe, Marker) ELSE pipe
  /\ Go("P", "sched")
  /\ UNCHANGED <<alarm, failed, at, half, done, stream, ssh, stash, heard>>
  /\ PIdle

\* The marker goes out after the open. With the ssh client gone the print
\* raises, or is swallowed by a channel that has not noticed yet.
PMarker ==
  /\ pc["P"] = "marker"
  /\ \/ /\ pipe' = IF ssh THEN Append(pipe, Marker) ELSE pipe
        /\ Go("P", "sched")
        /\ Arm("P", "global")
        /\ UNCHANGED failed
     \/ /\ ~ssh
        /\ Raise("P")
        /\ UNCHANGED <<pipe, alarm>>
  /\ UNCHANGED <<at, half, done, stream, ssh, stash, heard>>
  /\ PIdle

\* The report is printed whatever happened, with the opens that returned; the exit
\* follows, and the kernel closes what the process leaked.
PReport ==
  /\ pc["P"] = "report"
  /\ Go("P", "exit")
  /\ pipe' = IF ssh
             THEN Append(pipe, [line |-> "report",
                                outcome |-> IF failed["P"] THEN "aborted" ELSE "ok",
                                opens |-> IF held["P"] THEN 1 ELSE 0])
             ELSE pipe
  /\ CloseDevice("P")
  /\ UNCHANGED <<alarm, at, half, done, failed, seat, held, lost, ssh, stash, heard>>
  /\ PIdle

-----------------------------------------------------------------------------
\* Both sides: the schedule, the alarms and the way out.

\* MUTANT: one read is taken for the whole message.
AdvanceShortRead(s) ==
  LET lastFrame == Doing(s) = "read" \/ done[s] + 1 = Turns[at[s]].frames
      lastHalf == half[s] = Len(Halves(s, Turns[at[s]].how))
  IN /\ done' = [done EXCEPT ![s] = IF lastFrame THEN 0 ELSE @ + 1]
     /\ half' = [half EXCEPT ![s] = IF ~lastFrame THEN @ ELSE IF lastHalf THEN 1 ELSE @ + 1]
     /\ at' = [at EXCEPT ![s] = IF lastFrame /\ lastHalf THEN @ + 1 ELSE @]

\* One frame further: write_all and read_exact move whole messages.
Advance(s) ==
  LET lastFrame == done[s] + 1 = Turns[at[s]].frames
      lastHalf == half[s] = Len(Halves(s, Turns[at[s]].how))
  IN /\ done' = [done EXCEPT ![s] = IF lastFrame THEN 0 ELSE @ + 1]
     /\ half' = [half EXCEPT ![s] = IF ~lastFrame THEN @ ELSE IF lastHalf THEN 1 ELSE @ + 1]
     /\ at' = [at EXCEPT ![s] = IF lastFrame /\ lastHalf THEN @ + 1 ELSE @]

\* An exception inside the schedule; the global alarm is still armed.
RaiseInSchedule(s) ==
  /\ Raise(s)
  /\ phase' = IF s = "C" THEN CurrentPhase ELSE phase
  /\ UNCHANGED <<at, half, done, q, lost>>

\* write_all, one frame.
WriteFrame(s) ==
  LET t == Other(s) IN
  /\ InSchedule(s)
  /\ Doing(s) = "write"
  /\ \/ /\ FarEnd(s) = "open"
        /\ Len(q[t]) < Ring
        /\ q' = [q EXCEPT ![t] = Append(@, <<at[s], done[s]>>)]
        /\ Advance(s)
        /\ UNCHANGED <<pc, failed, phase, lost>>
     \/ /\ FarEnd(s) \in {"unopened", "elsewhere"}
        /\ lost' = (lost \/ FarEnd(s) = "unopened")
        /\ Advance(s)
        /\ UNCHANGED <<pc, failed, phase, q>>
     \/ /\ FarEnd(s) = "closed"
        /\ RaiseInSchedule(s)
  /\ UNCHANGED <<world, alarm, seat, up, held, plan, verdict, control, disk>>

\* read_exact, one frame; EOF only once the ring is drained.
ReadFrame(s) ==
  /\ InSchedule(s)
  /\ Doing(s) = "read"
  /\ \/ /\ q[s] # <<>>
        /\ q' = [q EXCEPT ![s] = Tail(@)]
        /\ Advance(s)
        /\ UNCHANGED <<pc, failed, phase, lost>>
     \/ /\ q[s] = <<>>
        /\ FarEnd(s) = "closed"
        /\ RaiseInSchedule(s)
  /\ UNCHANGED <<world, alarm, seat, up, held, plan, verdict, control, disk>>

\* The schedule returns; the alarm is still armed until the finally clause.
Finish(s) ==
  /\ pc[s] = "sched"
  /\ at[s] > Len(Turns)
  /\ Go(s, "unwind")
  /\ UNCHANGED <<world, alarm, at, half, done, failed, stream, plan, typing, control, disk>>

\* The schedule is about to be entered: set_phase("handshake") may be still to come.
AtTheDoor == at["C"] = 1 /\ half["C"] = 1 /\ done["C"] = 0

\* The global alarm interrupts the schedule; at its door the abort may still be
\* typed with the phase before it.
GlobalAlarm(s) ==
  /\ pc[s] = "sched"
  /\ alarm[s] = "global"
  /\ Arm(s, "off")
  /\ \/ RaiseInSchedule(s)
     \/ /\ s = "C" /\ AtTheDoor
        /\ Raise(s)
        /\ phase' = "open"
        /\ UNCHANGED <<at, half, done, q, lost>>
  /\ UNCHANGED <<world, seat, up, held, plan, verdict, control, disk>>

\* The global alarm goes off after the body of the try has been left and
\* before signal.alarm(0): nothing catches it. The device is closed on the way
\* out, and neither the coordinator's receipt nor the peer's report is written.
LateAlarm(s) ==
  /\ pc[s] = "unwind"
  /\ alarm[s] = "global"
  /\ Arm(s, "off")
  /\ Go(s, IF s = "C" THEN "uncaught" ELSE "exit")
  /\ CloseDevice(s)
  /\ UNCHANGED <<world, at, half, done, failed, seat, held, lost, plan, typing, control, disk>>

\* The handler and the finally clause: alarm off, the device closed if its open ever
\* returned, and on a failed coordinator the ssh child killed, which does not reach
\* the peer.
Settle(s) ==
  /\ pc[s] = "unwind"
  /\ Arm(s, "off")
  /\ Go(s, IF s = "C" THEN "reap" ELSE "report")
  /\ IF held[s] THEN CloseDevice(s) ELSE UNCHANGED <<up, q>>
  /\ ssh' = (ssh /\ ~(s = "C" /\ failed["C"]))
  /\ UNCHANGED <<world, at, half, done, failed, seat, held, lost, plan, typing, pipe,
                 stash, heard, disk>>

-----------------------------------------------------------------------------
\* What happens to a run from outside.

\* Re-enumeration under a run that has yet to open on this side: nodes move, a
\* carrier goes or comes back. Under an open device it is an error of the open
\* device, which the actions above allow at any time.
Move(s) ==
  /\ moves < MaxMoves
  /\ pc["C"] \notin Ended
  /\ seat[s] = NoWire
  /\ moves' = moves + 1
  /\ hw' \in {[hw EXCEPT ![s] = h] : h \in Hardware \ {hw[s]}}
  /\ \A d, e \in Device : hw'[s].attach[d] = hw'[s].attach[e] => d = e
  /\ moved' = moved \cup {s}
  /\ UNCHANGED <<procs, stream, plan, typing, control, disk>>

\* The control wire drops: the pipe is at EOF, the peer runs on.
SshDrops ==
  /\ ssh
  /\ ssh' = FALSE
  /\ UNCHANGED <<world, procs, stream, plan, typing, pipe, stash, heard, disk>>

\* Either process is killed from outside; the kernel closes its device, and a peer
\* killed reports nothing.
Killed(s) ==
  /\ pc[s] \notin Ended \cup {"none"}
  /\ Go(s, IF s = "C" THEN "killed" ELSE "exit")
  /\ Arm(s, "off")
  /\ CloseDevice(s)
  /\ UNCHANGED <<world, at, half, done, failed, seat, held, lost, plan, typing, control,
                 disk>>

Schedule(s) == WriteFrame(s) \/ ReadFrame(s) \/ Finish(s)

Leave(s) == GlobalAlarm(s) \/ LateAlarm(s) \/ Settle(s)

Coordinator ==
  \/ CServe \/ CJudge \/ CResolve \/ CReach \/ CProbe \/ CMismatch
  \/ CLaunch \/ CBarrier \/ COpen \/ CReap \/ CWrite
  \/ Schedule("C") \/ Leave("C")

Peer ==
  \/ PResolve \/ POpen \/ PMarker \/ PReport
  \/ Schedule("P") \/ Leave("P")

Environment == CStart \/ (\E s \in Side : Move(s)) \/ SshDrops \/ (\E s \in Side : Killed(s))

Next == Coordinator \/ Peer \/ Environment

Spec == Init /\ [][Next]_vars

-----------------------------------------------------------------------------
\* Properties.

\* No frame meets a far side that has not opened: the open barrier orders the
\* two opens, so the handshake cannot fall into the launch gap.
NoEarlyLoss == ~lost

Blocked(s) ==
  /\ InSchedule(s)
  /\ IF Doing(s) = "write"
     THEN FarEnd(s) = "open" /\ Len(q[Other(s)]) = Ring
     ELSE FarEnd(s) # "closed" /\ q[s] = <<>>

\* On one wire the two schedules never wait on each other: the mirrored phases
\* alternate, and the symmetric exchange fits the ring.
NoWireDeadlock == seat["C"] = seat["P"] => ~(Blocked("C") /\ Blocked("P"))

\* Nothing on the wire says what a frame is for; the two schedules stay in
\* step, so that every frame is read as the one it was written as.
FramesStayInTurn ==
  \A s \in Side :
    InSchedule(s) /\ Doing(s) = "read" /\ q[s] # <<>> => Head(q[s]) = <<at[s], done[s]>>

\* A device opened on each side, with no hardware moving since it was resolved,
\* is the same cable on both: the mismatch guard did its work.
OpensFaceEachOther == up["C"] /\ up["P"] /\ moved = {} => seat["C"] = seat["P"]

\* What the banked receipt says of the run is so. A skip opened nothing; an abort
\* typed before the coordinator's own open left its device alone, and one typed
\* after it did not; an "ok" ran the whole schedule on both sides, over one wire,
\* losing nothing. An abort typed "open" says nothing of the device: the alarm may
\* go off on either side of os.open.
SkipOpenedNothing == receipt.outcome = "skipped" => \A s \in Side : seat[s] = NoWire
EarlyAbortOpenedNothing ==
  receipt.outcome = "aborted" /\ receipt.phase \in {"startup", "peer-open-barrier"}
    => seat["C"] = NoWire
LateAbortOpened ==
  receipt.outcome = "aborted" /\ receipt.phase \in SchedulePhase \cup {"peer"}
    => seat["C"] # NoWire
OkRanEverything ==
  receipt.outcome = "ok" =>
    /\ seat["C"] = seat["P"] /\ seat["C"] # NoWire
    /\ \A s \in Side : at[s] > Len(Turns) /\ q[s] = <<>>
    /\ ~lost
ReceiptTruthful ==
  SkipOpenedNothing /\ EarlyAbortOpenedNothing /\ LateAbortOpened /\ OkRanEverything

\* What the head of the bench says of a failure after the open: close what is open,
\* then write the receipt. The descriptor an alarm made it lose is not closed.
ClosedBeforeReceipt == pc["C"] \in {"reap", "write", "writing"} => ~up["C"]

\* The peer's own account of an abort at its open arrives where the marker was
\* expected; it reaches the receipt although the barrier has consumed it, unless
\* kill_peer never got to the end of the pipe: then nothing of the peer does.
PeerEvidenceKept ==
  stash # NoReport /\ receipt.outcome \in {"aborted", "ok"}
    => receipt.peer = IF heard THEN stash ELSE NoReport

\* The same as kill_peer's own words have it: the lines the barrier consumed are
\* checked, whatever the pipe does.
EvidenceAlwaysKept ==
  stash # NoReport /\ receipt.outcome \in {"aborted", "ok"} => receipt.peer = stash

\* Each launch that gets past the guard is one shot, over the two processes and the
\* wire: it opens each device at most once, the worker's first, writes the receipt once
\* and claims nothing that was not done; and once anything is banked, even a receipt
\* torn by a kill, no launch touches anything.
Shot == INSTANCE OneShot WITH running <- pc["C"] \notin Ended,
                              opens <- {s \in Side : seat[s] # NoWire},
                              banked <- receipt.outcome
ImplementsOneShot == Shot!Spec

\* Every run of the coordinator ends, whatever the peer, the wire and ssh do.
RunEnds == (pc["C"] \notin Ended) ~> (pc["C"] \in Ended)

\* The worker's device does not stay open: not even under a peer orphaned by
\* the loss of its ssh client.
WorkerReleased == up["P"] ~> ~up["P"]

\* What the head of the bench says of the harness's retries: after an open there is
\* never another. A launch that follows one killed before its receipt opens again.
StormFree ==
  [][runs' # runs /\ (\E s \in Side : seat[s] # NoWire) => pc'["C"] = "exit"]_vars

\* The mismatched open the bench exists to prevent never happens.
NoMismatchedOpen == up["C"] /\ up["P"] => seat["C"] = seat["P"]

\* Both processes run when they can and an armed alarm goes off; nothing makes
\* the harness retry, the hardware move or the control wire drop.
FairSpec == Spec /\ WF_vars(Coordinator) /\ WF_vars(Peer)
=============================================================================
