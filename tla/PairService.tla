---------------------------- MODULE PairService ----------------------------
(***************************************************************************)
(* Standing the pair up and tearing it down: host/fn-cluster-up.sh,        *)
(* host/fn-cluster-down.sh, the arbitration of the model-swap proxy they   *)
(* call (host/fn-swap-arbitrate.sh), and the systemd unit that runs them   *)
(* (host/systemd/flashnext-pair.service).                                  *)
(*                                                                         *)
(* Scripts run one at a time; users, the network and kills do not wait for *)
(* them. systemd, podman, ray and the proxy are external, modelled from    *)
(* what the scripts rely on.                                               *)
(***************************************************************************)
EXTENDS Naturals

CONSTANTS
  Callers,     \* who may stand the pair: the unit, or a runner script directly
  Refusing,    \* nodes where systemctl, or the unit, may refuse a start or a stop
  Husks,       \* nodes an earlier serve may still be found on
  Rosters,     \* how the proxies may stand before the first bring-up
  MaxCalls,    \* bound: bring-calls, and teardowns called by hand
  MaxFaults,   \* bound: kills of a script and failed writes of the record
  MaxFlaps,    \* bound: losses of the wire to the worker, and commands that hang
  MaxTouches   \* bound: starts and stops of the proxy by somebody else

Node == {"coordinator", "worker"}

\* systemctl is-active on the proxy; "starting" is systemd's activating, "inactive"
\* any state in which nothing holds the port or is about to.
ProxyState == {"absent", "active", "starting", "inactive"}

ASSUME BoundsAssumption ==
  /\ Callers \subseteq {"unit", "runner"}
  /\ Refusing \subseteq Node /\ Husks \subseteq Node
  /\ Rosters \subseteq [Node -> ProxyState]
  /\ MaxCalls \in Nat /\ MaxFaults \in Nat /\ MaxFlaps \in Nat /\ MaxTouches \in Nat

VARIABLES
  proxy,    \* per node: the model-swap unit
  box,      \* per node: the pair's container exists
  serve,    \* nodes where a process matching "vllm serve" runs
  answers,  \* the API answers with the served name
  link,     \* the worker is reachable over the wire
  record,   \* per node: swap-arbitration.json
  notes,    \* per node: what the running stop has gathered for the record
  job,      \* the running script: up, its trap, or down
  stage,    \* where it is
  node,     \* the node it is at
  by,       \* who called it
  stuck,    \* its command hangs
  unit,     \* flashnext-pair.service
  taken,    \* observer: nodes whose proxy a stop took down and nobody has restarted
  arrived,  \* observer, per node: the proxy as the last bring-up found it
  forgot,   \* observer: nodes whose stop a kill, a failed write or a later stop lost
  stale,    \* observer: the last bring-up has left no record of its own
  touched,  \* observer: nodes where somebody else started the proxy since its probe
  unheard,  \* observer: nodes whose proxy was told to stop and did not answer
  missed,   \* observer: nodes whose removal failed, was cut or was never come to
  calls, faults, flaps, touches

script   == <<job, stage, node, by>>
machines == <<box, serve, answers>>
swap     == <<proxy, record, notes>>
gates    == <<touched, unheard>>
observer == <<taken, arrived, forgot, stale, gates, missed>>
bounds   == <<calls, faults, flaps, touches>>
vars     == <<script, stuck, machines, swap, link, unit, observer, bounds>>

-----------------------------------------------------------------------------
\* State.

Stage ==
  {"probe", "act", "record", "guards", "reap", "boxes", "ray", "launch", "wait",
   "clean", "remove", "restore", "none"}

Restored == {"never", "torn", "not-needed", "unknown"} \cup ProxyState
Entry == [arrival : {"none", "unreachable"} \cup ProxyState,
          action : {"none", "unreachable", "stopped"}]
NoEntry == [arrival |-> "none", action |-> "none"]
NoRecord == [n \in Node |-> [entry |-> NoEntry, restored |-> "never"]]
TornRecord == [n \in Node |-> [entry |-> NoEntry, restored |-> "torn"]]
NoNotes == [n \in Node |-> [entry |-> NoEntry, after |-> "none"]]

\* Only a running script has a command to hang.
Hanging == stuck \in BOOLEAN /\ (stuck => job # "none")

\* Each field of the record is something the scripts write there, and a script
\* runs exactly when the unit or a runner is waiting for it.
TypeOK ==
  /\ proxy \in [Node -> ProxyState]
  /\ box \in [Node -> BOOLEAN]
  /\ serve \subseteq Node
  /\ answers \in BOOLEAN
  /\ link \in BOOLEAN
  /\ record \in [Node -> [entry : Entry, restored : Restored]]
  /\ notes \in [Node -> [entry : Entry, after : {"none", "unknown"} \cup ProxyState]]
  /\ job \in {"none", "up", "trap", "down"}
  /\ stage \in Stage
  /\ node \in Node
  /\ by \in {"unit", "runner"}
  /\ unit \in {"inactive", "activating", "active", "stopping", "post"}
  /\ taken \subseteq Node
  /\ arrived \in [Node -> ProxyState]
  /\ forgot \subseteq Node
  /\ stale \in BOOLEAN
  /\ touched \subseteq Node
  /\ unheard \subseteq Node
  /\ missed \subseteq Node
  /\ calls \in 0 .. MaxCalls
  /\ faults \in 0 .. MaxFaults
  /\ flaps \in 0 .. MaxFlaps
  /\ touches \in 0 .. MaxTouches
  /\ (job = "none") <=> (stage = "none")
  /\ Hanging
  /\ job # "none" /\ by = "unit" => unit \in {"activating", "stopping", "post"}

\* The pair is down; earlier serves may have left husks.
Init ==
  /\ proxy \in Rosters
  /\ serve \in SUBSET Husks
  /\ box = [n \in Node |-> n \in serve]
  /\ answers = FALSE
  /\ link = TRUE
  /\ record = NoRecord
  /\ notes = NoNotes
  /\ job = "none" /\ stage = "none" /\ node = "coordinator" /\ by = "unit"
  /\ stuck = FALSE
  /\ unit = "inactive"
  /\ taken = {} /\ arrived = proxy /\ forgot = {} /\ stale = TRUE
  /\ touched = {} /\ unheard = {} /\ missed = {}
  /\ calls = 0 /\ faults = 0 /\ flaps = 0 /\ touches = 0

-----------------------------------------------------------------------------
\* Commands on a node, and the walk over the two nodes.

\* A command on the worker goes over ssh: it runs and answers, runs and its
\* answer is lost with the wire, or never gets there. That it never returns is Hang.
Outcome(n) ==
  IF n = "coordinator" THEN {"answered"}
  ELSE IF ~link THEN {"cut"}
  ELSE {"answered"} \cup (IF flaps < MaxFlaps THEN {"cut", "lost"} ELSE {})

Wire(o) ==
  /\ link' = (link /\ o = "answered")
  /\ flaps' = IF link /\ o # "answered" THEN flaps + 1 ELSE flaps

\* Whether the start or stop of a unit is refused.
Refusals(n) == IF n \in Refusing THEN BOOLEAN ELSE {FALSE}

Goto(st, n) == stage' = st /\ node' = n

\* Both twins in turn, the coordinator first.
NextNode(st, next) ==
  IF node = "coordinator" THEN Goto(st, "worker") ELSE Goto(next, "coordinator")

\* exit 1, or set -e: the EXIT trap restores the proxy.
Fail == job' = "trap" /\ Goto("restore", "coordinator")

\* The script returns to its caller. A failed ExecStart goes straight to
\* ExecStopPost; ExecStop is followed by it.
Return(ok) ==
  IF by = "runner" THEN job' = "none" /\ Goto("none", "coordinator") /\ UNCHANGED unit
  ELSE CASE unit = "activating" /\ ok ->
              unit' = "active" /\ job' = "none" /\ Goto("none", "coordinator")
         [] unit = "post" ->
              unit' = "inactive" /\ job' = "none" /\ Goto("none", "coordinator")
         [] OTHER ->
              unit' = "post" /\ job' = "down" /\ Goto("clean", "coordinator")

-----------------------------------------------------------------------------
\* fn-swap-arbitrate.sh stop.

Entered(seen) ==
  [arrival |-> seen,
   action |-> IF seen = "unreachable" THEN "unreachable" ELSE "none"]

\* probe_node: the unit and its state, or "unreachable" for no answer. Only an active
\* unit is stopped: one that is still starting is taken for one that is down.
Probe ==
  /\ job = "up" /\ stage = "probe"
  /\ \E o \in Outcome(node) :
       LET seen == IF o = "answered" THEN proxy[node] ELSE "unreachable" IN
       /\ Wire(o)
       /\ notes' = [notes EXCEPT ![node] = [entry |-> Entered(seen), after |-> "none"]]
       /\ IF seen = "active" THEN Goto("act", node) ELSE NextNode("probe", "record")
  /\ arrived' = [arrived EXCEPT ![node] = proxy[node]]
  /\ touched' = touched \ {node}
  /\ unheard' = unheard \ {node}
  /\ UNCHANGED <<job, by, machines, proxy, record, unit, taken, forgot, stale, missed,
                 calls, faults, touches>>

\* MUTANT: the stop is only noted once it is known to have worked.
ActNotedWhenConfirmed ==
  /\ job = "up" /\ stage = "act"
  /\ \E o \in Outcome(node), denied \in Refusals(node) :
       LET ran == o # "cut" /\ ~denied
           after == IF o # "answered" THEN "unknown" ELSE IF ran THEN "inactive" ELSE proxy[node]
       IN
       /\ Wire(o)
       /\ proxy' = IF ran THEN [proxy EXCEPT ![node] = "inactive"] ELSE proxy
       /\ notes' = [notes EXCEPT ![node].entry.action = IF after = "inactive" THEN "stopped" ELSE "none",
                                 ![node].after = after]
       /\ taken' = IF ran THEN taken \cup {node} ELSE taken
       /\ unheard' = IF after = "unknown" THEN unheard \cup {node} ELSE unheard
  /\ NextNode("probe", "record")
  /\ UNCHANGED <<job, by, machines, record, unit, arrived, forgot, stale, touched, missed,
                 calls, faults, touches>>

\* act_node stop. Neither systemctl nor sudo may be allowed to; the state after
\* a lost answer is "unknown".
Act ==
  /\ job = "up" /\ stage = "act"
  /\ \E o \in Outcome(node), denied \in Refusals(node) :
       LET ran == o # "cut" /\ ~denied
           after == IF o # "answered" THEN "unknown" ELSE IF ran THEN "inactive" ELSE proxy[node]
       IN
       /\ Wire(o)
       /\ proxy' = IF ran THEN [proxy EXCEPT ![node] = "inactive"] ELSE proxy
       /\ notes' = [notes EXCEPT ![node].entry.action = "stopped", ![node].after = after]
       /\ taken' = IF ran THEN taken \cup {node} ELSE taken
       /\ unheard' = IF after = "unknown" THEN unheard \cup {node} ELSE unheard
  /\ NextNode("probe", "record")
  /\ UNCHANGED <<job, by, machines, record, unit, arrived, forgot, stale, touched, missed,
                 calls, faults, touches>>

\* The nodes that make the stop refuse the serve.
Failures ==
  {n \in Node : notes[n].entry.action = "unreachable" \/ notes[n].after = "active"}

\* write_state rewrites the record in place. A write that fails leaves the old
\* record, or a file that no longer parses and reads as an empty one; nobody
\* looks at its exit status.
Write(doc) ==
  \/ record' = doc /\ UNCHANGED faults
  \/ faults < MaxFaults /\ faults' = faults + 1 /\ record' \in {record, TornRecord}

\* The record is merged node by node, so what an earlier restore wrote stays
\* until the next one.
Merged ==
  [n \in Node |->
     [entry |-> notes[n].entry,
      restored |-> IF record[n].restored = "torn" THEN "never" ELSE record[n].restored]]

\* The stop writes its record, then gives its verdict.
Record ==
  /\ job = "up" /\ stage = "record"
  /\ Write(Merged)
  /\ forgot' = IF faults' = faults THEN {n \in taken : arrived[n] # "active"} ELSE Node
  /\ stale' = (faults' # faults)
  /\ notes' = NoNotes
  /\ IF Failures # {} THEN Fail ELSE Goto("guards", "coordinator") /\ UNCHANGED job
  /\ UNCHANGED <<by, machines, proxy, link, unit, taken, arrived, gates, missed,
                 calls, flaps, touches>>

-----------------------------------------------------------------------------
\* fn-cluster-up.sh.

\* systemctl start, or a runner's call; a runner may find the pair already up.
Start(caller) ==
  /\ job = "none"
  /\ caller \in Callers
  /\ calls < MaxCalls
  /\ calls' = calls + 1
  /\ by' = caller
  /\ \/ caller = "unit" /\ unit = "inactive" /\ unit' = "activating"
     \/ caller = "runner" /\ UNCHANGED unit
  /\ job' = "up"
  /\ Goto("probe", "coordinator")
  /\ stale' = TRUE
  /\ touched' = {} /\ unheard' = {} /\ missed' = {}
  /\ UNCHANGED <<stuck, machines, swap, link, taken, arrived, forgot, faults, flaps, touches>>

\* fn-tp2-guards.py over the argv about to be served.
Guards ==
  /\ job = "up" /\ stage = "guards"
  /\ \/ Goto("reap", "coordinator") /\ UNCHANGED job
     \/ Fail
  /\ UNCHANGED <<by, machines, swap, link, unit, observer, bounds>>

\* reap_serve_node: TERM, then KILL; a process may survive both.
Reaped(n) == {serve \ {n}, serve}

\* MUTANT: the residue is not looked at.
ReapUngated ==
  /\ job = "up" /\ stage = "reap"
  /\ \E o \in Outcome(node) :
       /\ Wire(o)
       /\ IF o = "cut" THEN UNCHANGED serve ELSE serve' \in Reaped(node)
       /\ IF o = "answered" THEN NextNode("reap", "boxes") /\ UNCHANGED job ELSE Fail
  /\ answers' = (answers /\ "coordinator" \in serve')
  /\ UNCHANGED <<by, box, swap, unit, observer, calls, faults, touches>>

\* The reap of a node and its gate: a residue, or no answer, is fatal.
Reap ==
  /\ job = "up" /\ stage = "reap"
  /\ \E o \in Outcome(node) :
       /\ Wire(o)
       /\ IF o = "cut" THEN UNCHANGED serve ELSE serve' \in Reaped(node)
       /\ IF o = "answered" /\ node \notin serve'
          THEN NextNode("reap", "boxes") /\ UNCHANGED job
          ELSE Fail
  /\ answers' = (answers /\ "coordinator" \in serve')
  /\ UNCHANGED <<by, box, swap, unit, observer, calls, faults, touches>>

\* The env files, the image and the two containers; the old container goes
\* first. Any of it may fail.
Boxes ==
  /\ job = "up" /\ stage = "boxes"
  /\ \E o \in Outcome(node), ok \in BOOLEAN, left \in {FALSE, box[node]} :
       /\ Wire(o)
       /\ box' = IF o # "cut" THEN [box EXCEPT ![node] = ok \/ left] ELSE box
       /\ IF o = "answered" /\ ok THEN NextNode("boxes", "ray") /\ UNCHANGED job ELSE Fail
  /\ UNCHANGED <<by, serve, answers, swap, unit, observer, calls, faults, touches>>

\* Head, join, and the two-GPU gate: both nodes in the cluster, or no serve.
Ray ==
  /\ job = "up" /\ stage = "ray"
  /\ \E o \in Outcome("worker") :
       /\ Wire(o)
       /\ \/ o = "answered" /\ Goto("launch", "coordinator") /\ UNCHANGED job
          \/ Fail
  /\ UNCHANGED <<by, machines, swap, unit, observer, calls, faults, touches>>

\* podman exec -d: the serve starts detached.
Launch ==
  /\ job = "up" /\ stage = "launch"
  /\ \/ serve' = serve \cup {"coordinator"} /\ Goto("wait", "coordinator") /\ UNCHANGED job
     \/ Fail /\ UNCHANGED serve
  /\ UNCHANGED <<by, box, answers, swap, link, unit, observer, bounds>>

\* MUTANT: the poll has no last attempt.
WaitForever ==
  /\ job = "up" /\ stage = "wait" /\ answers
  /\ Return(TRUE)
  /\ UNCHANGED <<by, machines, swap, link, observer, bounds>>

\* The poll of the models endpoint: the name answers, or the attempts run out.
Wait ==
  /\ job = "up" /\ stage = "wait"
  /\ \/ answers /\ Return(TRUE)
     \/ ~answers /\ Fail /\ UNCHANGED unit
  /\ UNCHANGED <<by, machines, swap, link, observer, bounds>>

-----------------------------------------------------------------------------
\* fn-cluster-down.sh, and the restore it shares with the trap.

\* systemctl stop, which only runs ExecStop in an active unit, or the teardown
\* called by hand.
Stop(caller) ==
  /\ job = "none"
  /\ \/ caller = "unit" /\ unit = "active" /\ unit' = "stopping" /\ UNCHANGED calls
     \/ caller = "runner" /\ calls < MaxCalls /\ calls' = calls + 1 /\ UNCHANGED unit
  /\ by' = caller
  /\ job' = "down"
  /\ Goto("clean", "coordinator")
  /\ UNCHANGED <<stuck, machines, swap, link, observer, faults, flaps, touches>>

\* reap_serve_node and ray stop, best effort.
Clean ==
  /\ job = "down" /\ stage = "clean"
  /\ \E o \in Outcome(node) :
       /\ Wire(o)
       /\ IF o = "cut" THEN UNCHANGED serve ELSE serve' \in Reaped(node)
  /\ NextNode("clean", "remove")
  /\ answers' = (answers /\ "coordinator" \in serve')
  /\ UNCHANGED <<job, by, box, swap, unit, observer, calls, faults, touches>>

\* podman rm -f on a node. A container that is gone took its processes with it: podman
\* removes none that holds a process it cannot kill.
Removal(ran, ok) ==
  /\ missed' = IF ran /\ ok THEN missed \ {node} ELSE missed \cup {node}
  /\ \/ ran /\ ok /\ box' = [box EXCEPT ![node] = FALSE] /\ serve' = serve \ {node}
     \/ ran /\ ~ok /\ UNCHANGED box /\ serve' \in Reaped(node)
     \/ ~ran /\ UNCHANGED <<box, serve>>

\* MUTANT: a container that cannot be removed ends the teardown.
RemoveOrDie ==
  /\ job = "down" /\ stage = "remove"
  /\ \E o \in Outcome(node), ok \in BOOLEAN :
       /\ Wire(o)
       /\ Removal(o # "cut", ok)
       /\ IF o = "answered" /\ ok THEN NextNode("remove", "restore") /\ UNCHANGED <<job, unit>>
          ELSE Return(FALSE)
  /\ answers' = (answers /\ "coordinator" \in serve')
  /\ UNCHANGED <<by, swap, taken, arrived, forgot, stale, gates, calls, faults, touches>>

\* podman rm -f ... || true.
Remove ==
  /\ job = "down" /\ stage = "remove"
  /\ \E o \in Outcome(node), ok \in BOOLEAN :
       /\ Wire(o)
       /\ Removal(o # "cut", ok)
  /\ answers' = (answers /\ "coordinator" \in serve')
  /\ NextNode("remove", "restore")
  /\ UNCHANGED <<job, by, swap, unit, taken, arrived, forgot, stale, gates, calls, faults, touches>>

\* MUTANT: every proxy that is down is brought up.
MustStartAll(n) == proxy[n] # "absent"

\* cmd_restore starts a unit again only where the record says it was stopped.
MustStart(n) == record[n].entry.action = "stopped"

\* MUTANT: a lost answer is noted with the probe's word for it.
StateAfterUnreachable(o, ran) ==
  IF o # "answered" THEN "unreachable" ELSE IF ran THEN "active" ELSE proxy[node]

\* MUTANT: the restore notes what it asked for.
StateAfterAssumed(o, ran) == "active"

\* The state the act reports after a start.
StateAfter(o, ran) ==
  IF o # "answered" THEN "unknown" ELSE IF ran THEN "active" ELSE proxy[node]

\* The last action of a teardown, and the whole of the trap. Without a record
\* there is nothing to do.
Restore ==
  /\ job \in {"trap", "down"} /\ stage = "restore"
  /\ IF MustStart(node)
     THEN \E o \in Outcome(node), denied \in Refusals(node) :
            LET ran == o # "cut" /\ ~denied /\ proxy[node] # "absent" IN
            /\ Wire(o)
            /\ proxy' = IF ran THEN [proxy EXCEPT ![node] = "active"] ELSE proxy
            /\ taken' = IF ran THEN taken \ {node} ELSE taken
            /\ Write([record EXCEPT ![node].restored = StateAfter(o, ran)])
     ELSE /\ IF record = NoRecord THEN UNCHANGED <<record, faults>>
             ELSE Write([record EXCEPT ![node].restored = "not-needed"])
          /\ UNCHANGED <<proxy, taken, link, flaps>>
  /\ forgot' = IF faults' = faults THEN forgot ELSE Node
  /\ IF node = "coordinator"
     THEN Goto("restore", "worker") /\ UNCHANGED <<job, unit>>
     ELSE Return(FALSE)
  /\ UNCHANGED <<by, machines, notes, arrived, stale, gates, missed, calls, touches>>

-----------------------------------------------------------------------------
\* The environment.

\* A serve loads, answers, and may die at any time.
ServeLives ==
  /\ "coordinator" \in serve
  /\ \/ ~answers /\ box["coordinator"] /\ answers' = TRUE /\ UNCHANGED serve
     \/ serve' = serve \ {"coordinator"} /\ answers' = FALSE
  /\ UNCHANGED <<script, stuck, box, swap, link, unit, observer, bounds>>

\* The wire comes back.
LinkReturns ==
  /\ ~link /\ link' = TRUE
  /\ UNCHANGED <<script, stuck, machines, swap, unit, observer, bounds>>

\* A proxy that is starting comes up, or fails to.
Rise(n) ==
  /\ proxy[n] = "starting"
  /\ proxy' \in {[proxy EXCEPT ![n] = s] : s \in {"active", "inactive"}}
  /\ UNCHANGED <<script, stuck, machines, record, notes, link, unit, observer, bounds>>

\* Somebody else starts or stops the proxy.
Touch(n) ==
  /\ touches < MaxTouches
  /\ touches' = touches + 1
  /\ \/ /\ proxy[n] = "inactive"
        /\ proxy' \in {[proxy EXCEPT ![n] = s] : s \in {"starting", "active"}}
        /\ taken' = taken \ {n}
        /\ touched' = IF job = "up" THEN touched \cup {n} ELSE touched
     \/ /\ proxy[n] \in {"active", "starting"}
        /\ proxy' = [proxy EXCEPT ![n] = "inactive"]
        /\ UNCHANGED <<taken, touched>>
  /\ UNCHANGED <<script, stuck, machines, record, notes, link, unit, arrived, forgot, stale,
                 unheard, missed, calls, faults, flaps>>

\* A command of the script does not return: ssh over a wire that has gone silent, curl
\* at a serve that accepts and never answers, podman; none has a limit of its own once
\* it is connected. Whether it had done its work by then is whether it is the command
\* of this step that hangs or the one of the step before.
Hang ==
  /\ job # "none" /\ stage # "guards" /\ ~stuck
  /\ flaps < MaxFlaps
  /\ flaps' = flaps + 1
  /\ stuck' = TRUE
  /\ UNCHANGED <<script, machines, swap, link, unit, observer, calls, faults, touches>>

\* The running script is ended from outside. bash runs the EXIT trap on a TERM, not on a
\* KILL. Inside the stop, what was taken is not on record yet, and a write cut
\* short leaves no readable record at all.
CutShort ==
  /\ stuck' = FALSE
  /\ \/ job = "up" /\ Fail /\ UNCHANGED unit
     \/ Return(FALSE)
  /\ \/ /\ UNCHANGED record
        /\ forgot' = IF job = "up" /\ stage \in {"probe", "act", "record"} THEN Node ELSE forgot
     \/ /\ stage \in {"record", "restore"}
        /\ record' = TornRecord
        /\ forgot' = Node
  /\ missed' = IF job = "down" THEN Node ELSE missed
  /\ notes' = NoNotes
  /\ UNCHANGED <<by, machines, proxy, link, taken, arrived, stale, gates, calls, flaps, touches>>

\* systemctl stop during the start, or a signal by hand.
Kill ==
  /\ job # "none"
  /\ faults < MaxFaults
  /\ faults' = faults + 1
  /\ CutShort

\* TimeoutStartSec, TimeoutStopSec: the unit does not wait for ever. A runner does.
Timeout ==
  /\ stuck /\ by = "unit"
  /\ CutShort
  /\ UNCHANGED faults

\* The next command of the script that runs.
Script ==
  /\ ~stuck
  /\ UNCHANGED stuck
  /\ \/ Probe \/ Act \/ Record
     \/ Guards \/ Reap \/ Boxes \/ Ray \/ Launch \/ Wait
     \/ Clean \/ Remove \/ Restore

Next ==
  \/ Script \/ Hang \/ Kill \/ Timeout
  \/ (\E caller \in Callers : Start(caller) \/ Stop(caller))
  \/ ServeLives \/ LinkReturns \/ (\E n \in Node : Touch(n) \/ Rise(n))

Spec == Init /\ [][Next]_vars

\* A script whose commands return runs on, and systemd keeps the unit's timeouts. Nothing
\* is promised of a command that hangs, nor of the environment.
FairSpec == Spec /\ WF_vars(Script) /\ WF_vars(Timeout)

-----------------------------------------------------------------------------
\* Properties.

\* The gates, at the moment of the launch: no earlier serve is left on either node, where
\* it would hold the port and its share of the pool, and the proxy runs on a node in three
\* cases alone: somebody started it after the probe, the probe found it starting and took
\* that for down, or its stop did not answer and may never have run.
LaunchIsClear ==
  [][stage = "launch" /\ stage' = "wait"
       => /\ serve = {}
          /\ \A n \in Node : proxy[n] = "active"
               => n \in touched \/ n \in unheard \/ arrived[n] = "starting"]_vars

\* fn-swap-arbitrate.sh: "fail closed on the stop". No serve is launched over a proxy that
\* the stop did not stop.
StopFailsClosed ==
  [][stage = "launch" /\ stage' = "wait"
       => \A n \in Node : proxy[n] = "active" => n \in touched]_vars

\* A proxy that was taken down is on record as taken down, so that some later
\* restore can put it back; only a kill inside the stop, a lost write or a
\* second stop can lose it.
TakenOnRecord ==
  ~(job = "up" /\ stage \in {"probe", "act", "record"})
    => \A n \in taken \ forgot : record[n].entry.action = "stopped"

\* A teardown that has run to its end either put every proxy back or says on
\* record that it did not.
RestoreTellsTheTruth ==
  [][job = "down" /\ stage = "restore" /\ node = "worker" /\ stage' # "restore"
     /\ faults' = faults /\ ~stuck
       => \A n \in taken' \ forgot' : record'[n].restored \in {"inactive", "unknown"}]_vars

\* A proxy that was down when the bring-up arrived stays down, if that bring-up got to
\* write its record. A bring-up cut short before that, or whose write failed, leaves the
\* record of an earlier one, and the restore acts on it.
DownStaysDown ==
  [][\A n \in Node :
       proxy[n] = "inactive" /\ proxy'[n] = "active" /\ touches' = touches
         => arrived[n] = "active" \/ stale]_vars

\* The same without the exception, as fn-swap-arbitrate.sh and fn-cluster-down.sh say it.
DownOnArrivalStaysDown ==
  [][\A n \in Node :
       proxy[n] = "inactive" /\ proxy'[n] = "active" /\ touches' = touches
         => arrived[n] = "active"]_vars

\* The unit goes inactive over a clean pair: after a failed bring-up and a stop alike, no
\* container and no serve is left on a node, whatever happened on the other, unless its
\* podman rm failed or did not run, or the teardown itself was cut short.
NoRanksStranded ==
  [][unit = "post" /\ unit' = "inactive"
       => \A n \in Node \ missed' : ~box'[n] /\ n \notin serve']_vars

\* fn-cluster-up.sh: "failure cannot strand ranks", on no node.
NeverStranded ==
  [][unit = "post" /\ unit' = "inactive" => \A n \in Node : ~box'[n] /\ n \notin serve']_vars

\* Whatever the wire, the proxy and the serve do, a script comes to an end, unless a
\* command of it hangs and nobody but the runner that called it is waiting.
ScriptsEnd == (job # "none") ~> (job = "none" \/ (stuck /\ by = "runner"))

\* fn-swap-arbitrate.sh: "teardown must always be able to complete".
TeardownCompletes == (job = "down") ~> (job # "down")

\* fn-cluster-down.sh: a proxy the bring-up stopped is put back on every exit
\* path, so what was taken is never off the record.
NeverForgotten ==
  ~(job = "up" /\ stage \in {"probe", "act", "record"})
    => \A n \in taken : record[n].entry.action = "stopped"
=============================================================================
