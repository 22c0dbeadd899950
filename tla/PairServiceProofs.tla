------------------------- MODULE PairServiceProofs -------------------------
(***************************************************************************)
(* The safety of the pair's scripts, whoever calls them, whatever refuses, *)
(* and however often the wire, a kill or somebody else interferes. What    *)
(* makes the properties inductive is what a walk over the two nodes has    *)
(* established for the nodes it is through with.                           *)
(***************************************************************************)
EXTENDS PairService, TLAPS

\* The stop of the proxies is under way, up to the write of its record.
Stopping == job = "up" /\ stage \in {"probe", "act", "record"}
\* It is through with node n.
Passed(n) == stage = "record" \/ (n = "coordinator" /\ node = "worker")

Phases ==
  /\ job = "up" => stage \in Stage \ {"clean", "remove", "restore", "none"}
  /\ job = "trap" => stage = "restore"
  /\ job = "down" => stage \in {"clean", "remove", "restore"}
  /\ unit = "post" => job = "down" /\ by = "unit"

\* What was taken is down, and nothing is noted of a unit that is not there.
Present ==
  /\ \A n \in taken : proxy[n] = "inactive"
  /\ \A n \in Node : record[n].entry.action = "stopped" \/ notes[n].entry.action = "stopped"
                       => proxy[n] # "absent"
  /\ stage = "act" => /\ proxy[node] # "absent" /\ arrived[node] = "active"
                      /\ proxy[node] = "starting" => node \in touched

\* The proxy of node n may be up, or come up, under the serve.
Excepted(n) == n \in touched \/ n \in unheard \/ arrived[n] = "starting"
Rising(n) == proxy[n] \in {"active", "starting"}

\* What the running stop has gathered.
Gathered ==
  /\ ~Stopping => notes = NoNotes
  /\ \A n \in Node : notes[n].entry.action = "stopped" => arrived[n] = "active"
  /\ Stopping => \A n \in Node : Passed(n) =>
       /\ n \in taken /\ arrived[n] = "active" => notes[n].entry.action = "stopped"
       /\ Rising(n) => Excepted(n) \/ n \in Failures

\* The record between two stops.
Recorded ==
  ~Stopping => \A n \in Node \ forgot :
    /\ n \in taken => record[n].entry.action = "stopped"

\* A record of the last bring-up's own says how that found the proxies.
Own ==
  ~stale => ~Stopping /\ \A n \in Node :
    record[n].entry.action = "stopped" => arrived[n] = "active"

\* What the bring-up has cleared.
Cleared ==
  /\ job = "up" /\ ~Stopping => \A n \in Node : Rising(n) => Excepted(n)
  /\ stage = "reap" /\ node = "worker" => "coordinator" \notin serve
  /\ stage \in {"boxes", "ray", "launch"} => serve = {}

\* What the teardown has swept, and told.
Swept ==
  /\ job = "down" => \A n \in Node \ missed :
       stage = "restore" \/ (stage = "remove" /\ node = "worker" /\ n = "coordinator")
         => ~box[n] /\ n \notin serve
  /\ job = "down" /\ stage = "restore" /\ node = "worker" =>
       \A n \in {"coordinator"} \cap (taken \ forgot) : record[n].restored \in {"inactive", "unknown"}

PairInv == TypeOK /\ Phases /\ Present /\ Gathered /\ Recorded /\ Own /\ Cleared /\ Swept

\* What is written to the record: a document, the old record or an unreadable file.
LEMMA Written ==
  ASSUME TypeOK, NEW doc \in [Node -> [entry : Entry, restored : Restored]], Write(doc)
  PROVE  /\ record' \in [Node -> [entry : Entry, restored : Restored]]
         /\ record' \in {doc, record, TornRecord}
         /\ faults' \in 0 .. MaxFaults
         /\ faults' = faults => record' = doc
<1>1. TornRecord \in [Node -> [entry : Entry, restored : Restored]]
  BY DEF TornRecord, NoEntry, Entry, Restored
<1>2. faults' \in 0 .. MaxFaults BY BoundsAssumption DEF Write, TypeOK
<1> QED BY <1>1, <1>2 DEF Write, TypeOK

LEMMA MergedType ==
  ASSUME TypeOK
  PROVE  Merged \in [Node -> [entry : Entry, restored : Restored]]
BY DEF Merged, TypeOK, Restored

\* What a restore of a node does to the proxies, the record and the observers.
LEMMA RestoreStep ==
  ASSUME PairInv, Restore
  PROVE  /\ proxy' \in [Node -> ProxyState]
         /\ record' \in [Node -> [entry : Entry, restored : Restored]]
         /\ faults' \in 0 .. MaxFaults /\ link' \in BOOLEAN /\ flaps' \in 0 .. MaxFlaps
         /\ taken' \subseteq taken
         /\ \A n \in Node : \/ proxy'[n] = proxy[n]
                            \/ proxy[n] # "absent" /\ proxy'[n] = "active" /\ n \notin taken'
         /\ \A n \in Node : record'[n].entry = record[n].entry \/ record'[n].entry = NoEntry
         /\ \/ forgot' = Node
            \/ forgot' = forgot /\ \A n \in Node : record'[n].entry = record[n].entry
<1> USE BoundsAssumption DEF Node
<1>1. CASE MustStart(node)
  <2>1. PICK o \in Outcome(node), denied \in Refusals(node) :
          LET ran == o # "cut" /\ ~denied /\ proxy[node] # "absent" IN
          /\ Wire(o)
          /\ proxy' = IF ran THEN [proxy EXCEPT ![node] = "active"] ELSE proxy
          /\ taken' = IF ran THEN taken \ {node} ELSE taken
          /\ Write([record EXCEPT ![node].restored = StateAfter(o, ran)])
    BY <1>1 DEF Restore
  <2> DEFINE ran == o # "cut" /\ ~denied /\ proxy[node] # "absent"
             doc == [record EXCEPT ![node].restored = StateAfter(o, ran)]
  <2>2. StateAfter(o, ran) \in Restored
    BY <1>1 DEF StateAfter, MustStart, PairInv, TypeOK, Present, Restored, ProxyState
  <2>3. doc \in [Node -> [entry : Entry, restored : Restored]]
    BY <2>2 DEF PairInv, TypeOK
  <2>4. Write(doc) BY <2>1
  <2>5. \A n \in Node : doc[n].entry = record[n].entry BY DEF PairInv, TypeOK
  <2> HIDE DEF doc
  <2>6. /\ record' \in [Node -> [entry : Entry, restored : Restored]]
        /\ record' \in {doc, record, TornRecord}
        /\ faults' \in 0 .. MaxFaults /\ (faults' = faults => record' = doc)
    BY <2>3, <2>4, Written DEF PairInv
  <2>7. link' \in BOOLEAN /\ flaps' \in 0 .. MaxFlaps
    BY <2>1 DEF Wire, Outcome, PairInv, TypeOK
  <2>8. forgot' = IF faults' = faults THEN forgot ELSE Node BY DEF Restore
  <2>9. \A n \in Node : TornRecord[n].entry = NoEntry BY DEF TornRecord
  <2>10. \A n \in Node : record'[n].entry = record[n].entry \/ record'[n].entry = NoEntry
    BY <2>5, <2>6, <2>9
  <2>11. \/ forgot' = Node
         \/ forgot' = forgot /\ \A n \in Node : record'[n].entry = record[n].entry
    BY <2>5, <2>6, <2>8
  <2>12. /\ proxy' \in [Node -> ProxyState]
         /\ \A n \in Node : \/ proxy'[n] = proxy[n]
                            \/ proxy[n] # "absent" /\ proxy'[n] = "active" /\ n \notin taken'
    <3>1. CASE ran
      <4>1. proxy' = [proxy EXCEPT ![node] = "active"] /\ taken' = taken \ {node} BY <2>1, <3>1
      <4>2. proxy \in [Node -> ProxyState] BY DEF PairInv, TypeOK
      <4>3. proxy[node] # "absent" BY <3>1
      <4> HIDE DEF ran
      <4> QED BY <4>1, <4>2, <4>3 DEF ProxyState
    <3>2. CASE ~ran
      <4>1. proxy' = proxy BY <2>1, <3>2
      <4> QED BY <4>1 DEF PairInv, TypeOK
    <3> QED BY <3>1, <3>2
  <2>13. taken' \subseteq taken BY <2>1
  <2> QED BY <2>6, <2>7, <2>10, <2>11, <2>12, <2>13
<1>2. CASE ~MustStart(node)
  <2> DEFINE doc == [record EXCEPT ![node].restored = "not-needed"]
  <2>1. /\ (record' = record /\ faults' = faults) \/ Write(doc)
        /\ UNCHANGED <<proxy, taken, link, flaps>>
    BY <1>2 DEF Restore
  <2>2. doc \in [Node -> [entry : Entry, restored : Restored]]
    BY DEF PairInv, TypeOK, Restored
  <2>3. \A n \in Node : doc[n].entry = record[n].entry BY DEF PairInv, TypeOK
  <2> HIDE DEF doc
  <2>4. /\ record' \in [Node -> [entry : Entry, restored : Restored]]
        /\ record' \in {doc, record, TornRecord}
        /\ faults' \in 0 .. MaxFaults /\ (faults' = faults => record' \in {doc, record})
    BY <2>1, <2>2, Written DEF PairInv, TypeOK
  <2>5. forgot' = IF faults' = faults THEN forgot ELSE Node BY DEF Restore
  <2>6. \A n \in Node : TornRecord[n].entry = NoEntry BY DEF TornRecord
  <2>7. \A n \in Node : record'[n].entry = record[n].entry \/ record'[n].entry = NoEntry
    BY <2>3, <2>4, <2>6
  <2>8. \/ forgot' = Node
        \/ forgot' = forgot /\ \A n \in Node : record'[n].entry = record[n].entry
    BY <2>3, <2>4, <2>5
  <2>9. /\ proxy' \in [Node -> ProxyState] /\ proxy' = proxy
        /\ link' \in BOOLEAN /\ flaps' \in 0 .. MaxFlaps /\ taken' = taken
    BY <2>1 DEF PairInv, TypeOK
  <2>10. \A n \in Node : proxy'[n] = proxy[n] BY <2>9
  <2> HIDE DEF doc
  <2> QED BY <2>4, <2>7, <2>8, <2>9, <2>10
<1> QED BY <1>1, <1>2

LEMMA NextHanging == PairInv /\ [Next]_vars => Hanging'
<1> SUFFICES ASSUME PairInv, [Next]_vars PROVE Hanging' OBVIOUS
<1>1. CASE Script
  BY <1>1 DEF Script, PairInv, TypeOK, Hanging
<1>2. CASE Hang
  BY <1>2 DEF Hang, Hanging, script
<1>3. CASE Kill \/ Timeout
  BY <1>3 DEF Kill, Timeout, CutShort, Hanging
<1>4. CASE \E caller \in Callers : Start(caller) \/ Stop(caller)
  BY <1>4 DEF Start, Stop, PairInv, TypeOK, Hanging
<1>5. CASE ServeLives \/ LinkReturns \/ (\E n \in Node : Touch(n) \/ Rise(n)) \/ UNCHANGED vars
  <2>1. UNCHANGED <<stuck, job>>
    BY <1>5 DEF ServeLives, LinkReturns, Touch, Rise, vars, script
  <2> QED BY <2>1 DEF PairInv, TypeOK, Hanging
<1> QED BY <1>1, <1>2, <1>3, <1>4, <1>5 DEF Next

LEMMA NextType == PairInv /\ [Next]_vars => TypeOK'
<1> SUFFICES ASSUME PairInv, [Next]_vars PROVE TypeOK' OBVIOUS
<1>0. Hanging' BY NextHanging
<1> USE <1>0, BoundsAssumption DEF Node, ProxyState
<1>1. CASE Probe
  BY <1>1
     DEF PairInv, TypeOK, Stage, Entry, Probe, Wire, Outcome, Entered, Goto, NextNode, machines
<1>2. CASE Act
  BY <1>2 DEF PairInv, TypeOK, Stage, Entry, Act, Wire, Outcome, Goto, NextNode, machines
<1>3. CASE Record
  <2>1. Write(Merged) BY <1>3 DEF Record
  <2>2. record' \in [Node -> [entry : Entry, restored : Restored]] /\ faults' \in 0 .. MaxFaults
    BY <2>1, MergedType, Written DEF PairInv
  <2>3. forgot' \subseteq Node BY <1>3 DEF Record, PairInv, TypeOK
  <2>4. NoNotes \in [Node -> [entry : Entry, after : {"none", "unknown"} \cup ProxyState]]
    BY DEF NoNotes, NoEntry, Entry
  <2> QED BY <1>3, <2>2, <2>3, <2>4
       DEF Record, Fail, Goto, Stage, PairInv, TypeOK, machines, gates
<1>4. CASE Guards
  BY <1>4 DEF PairInv, TypeOK, Stage, Guards, Fail, Goto, machines, swap, observer, gates, bounds
<1>5. CASE Reap
  <2>1. serve' \subseteq Node BY <1>5 DEF Reap, Reaped, PairInv, TypeOK
  <2>2. missed' \subseteq Node BY <1>5 DEF Reap, observer, gates, PairInv, TypeOK
  <2>3. answers' \in BOOLEAN BY <1>5, Zenon DEF Reap, PairInv, TypeOK
  <2>4. link' \in BOOLEAN /\ flaps' \in 0 .. MaxFlaps
    BY <1>5 DEF Reap, Wire, Outcome, PairInv, TypeOK
  <2> QED BY <1>5, <2>1, <2>2, <2>3, <2>4
       DEF Reap, Fail, Goto, NextNode, Stage, PairInv, TypeOK, swap, observer, gates
<1>6. CASE Boxes
  BY <1>6 DEF PairInv, TypeOK, Stage, Boxes, Wire, Outcome, Fail, Goto, NextNode, swap, observer, gates
<1>7. CASE Ray
  BY <1>7 DEF PairInv, TypeOK, Stage, Ray, Wire, Outcome, Fail, Goto, machines, swap, observer, gates
<1>8. CASE Launch
  BY <1>8 DEF PairInv, TypeOK, Stage, Launch, Fail, Goto, swap, observer, gates, bounds
<1>9. CASE Wait
  BY <1>9 DEF PairInv, TypeOK, Stage, Wait, Fail, Return, Goto, machines, swap, observer, gates, bounds
<1>10. CASE Clean
  <2>1. serve' \subseteq Node BY <1>10 DEF Clean, Reaped, PairInv, TypeOK
  <2>2. missed' \subseteq Node BY <1>10 DEF Clean, observer, gates, PairInv, TypeOK
  <2>3. answers' \in BOOLEAN BY <1>10, Zenon DEF Clean, PairInv, TypeOK
  <2>4. link' \in BOOLEAN /\ flaps' \in 0 .. MaxFlaps
    BY <1>10 DEF Clean, Wire, Outcome, PairInv, TypeOK
  <2> QED BY <1>10, <2>1, <2>2, <2>3, <2>4
       DEF Clean, Goto, NextNode, Stage, PairInv, TypeOK, swap, observer, gates
<1>11. CASE Remove
  <2>1. serve' \subseteq Node BY <1>11 DEF Remove, Removal, Reaped, PairInv, TypeOK
  <2>2. missed' \subseteq Node /\ box' \in [Node -> BOOLEAN]
    BY <1>11 DEF Remove, Removal, PairInv, TypeOK
  <2>3. answers' \in BOOLEAN BY <1>11, Zenon DEF Remove, PairInv, TypeOK
  <2>4. link' \in BOOLEAN /\ flaps' \in 0 .. MaxFlaps
    BY <1>11 DEF Remove, Wire, Outcome, PairInv, TypeOK
  <2> QED BY <1>11, <2>1, <2>2, <2>3, <2>4
       DEF Remove, Goto, NextNode, Stage, PairInv, TypeOK, swap, observer, gates
<1>12. CASE Restore
  <2>1. forgot' \subseteq Node /\ taken' \subseteq Node BY <1>12, RestoreStep DEF PairInv, TypeOK
  <2> QED BY <1>12, <2>1, RestoreStep
       DEF Restore, Goto, Return, Stage, PairInv, TypeOK, machines, gates
<1>13. ASSUME NEW caller \in Callers, Start(caller) PROVE TypeOK'
  BY <1>13 DEF PairInv, TypeOK, Stage, Start, Goto, machines, swap
<1>14. ASSUME NEW caller \in Callers, Stop(caller) PROVE TypeOK'
  BY <1>14 DEF PairInv, TypeOK, Stage, Stop, Goto, machines, swap, observer, gates
<1>15. CASE ServeLives
  BY <1>15 DEF PairInv, TypeOK, ServeLives, script, swap, observer, gates, bounds
<1>16. CASE LinkReturns
  BY <1>16 DEF PairInv, TypeOK, LinkReturns, script, machines, swap, observer, gates, bounds
<1>17. ASSUME NEW n \in Node, Touch(n) PROVE TypeOK'
  <2>1. taken' \subseteq Node /\ touched' \subseteq Node
    BY <1>17, Zenon DEF Touch, PairInv, TypeOK
  <2>2. proxy' \in [Node -> ProxyState] /\ touches' \in 0 .. MaxTouches
    BY <1>17 DEF Touch, PairInv, TypeOK
  <2> QED BY <1>17, <2>1, <2>2 DEF Touch, PairInv, TypeOK, script, machines
<1>18. CASE Kill \/ Timeout
  BY <1>18
     DEF PairInv, TypeOK, Stage, Restored, Entry, NoEntry, TornRecord, NoNotes, Kill, Timeout, CutShort, Fail,
         Return, Goto, machines, gates
<1>20. CASE Hang
  BY <1>20 DEF PairInv, TypeOK, bounds, Hang, script, machines, swap, observer, gates
<1>21. ASSUME NEW n \in Node, Rise(n) PROVE TypeOK'
  BY <1>21 DEF PairInv, TypeOK, bounds, Present, Rise, ProxyState, script, machines, observer, gates
<1>19. CASE UNCHANGED vars
  BY <1>19 DEF PairInv, TypeOK, vars, script, machines, swap, observer, gates, bounds
<1> QED BY <1>1, <1>2, <1>3, <1>4, <1>5, <1>6, <1>7, <1>8, <1>9, <1>10, <1>11, <1>12, <1>13,
           <1>14, <1>15, <1>16, <1>17, <1>18, <1>19, <1>20, <1>21 DEF Next, Script

LEMMA NextPhases == PairInv /\ [Next]_vars => Phases'
<1> SUFFICES ASSUME PairInv, [Next]_vars PROVE Phases' OBVIOUS
<1> USE BoundsAssumption DEF Node
<1>1. CASE Probe
  BY <1>1 DEF PairInv, Phases, Stage, Probe, Goto, NextNode
<1>2. CASE Act
  BY <1>2 DEF PairInv, Phases, Stage, Act, Goto, NextNode
<1>3. CASE Record
  BY <1>3 DEF PairInv, Phases, Stage, Record, Fail, Goto
<1>4. CASE Guards
  BY <1>4 DEF PairInv, Phases, Stage, Guards, Fail, Goto
<1>5. CASE Reap
  BY <1>5 DEF PairInv, Phases, Stage, Reap, Fail, Goto, NextNode
<1>6. CASE Boxes
  BY <1>6 DEF PairInv, Phases, Stage, Boxes, Fail, Goto, NextNode
<1>7. CASE Ray
  BY <1>7 DEF PairInv, Phases, Stage, Ray, Fail, Goto
<1>8. CASE Launch
  BY <1>8 DEF PairInv, Phases, Stage, Launch, Fail, Goto
<1>9. CASE Wait
  BY <1>9 DEF PairInv, TypeOK, Phases, Wait, Fail, Return, Goto
<1>10. CASE Clean
  BY <1>10 DEF PairInv, Phases, Clean, Goto, NextNode
<1>11. CASE Remove
  BY <1>11 DEF PairInv, Phases, Remove, Goto, NextNode
<1>12. CASE Restore
  BY <1>12 DEF PairInv, TypeOK, Phases, Restore, Goto, Return
<1>13. ASSUME NEW caller \in Callers, Start(caller) PROVE Phases'
  BY <1>13 DEF PairInv, Phases, Stage, Start, Goto
<1>14. ASSUME NEW caller \in Callers, Stop(caller) PROVE Phases'
  BY <1>14 DEF PairInv, Phases, Stop, Goto
<1>15. CASE ServeLives
  BY <1>15 DEF PairInv, Phases, ServeLives, script
<1>16. CASE LinkReturns
  BY <1>16 DEF PairInv, Phases, LinkReturns, script
<1>17. ASSUME NEW n \in Node, Touch(n) PROVE Phases'
  BY <1>17 DEF PairInv, Phases, Touch, script
<1>18. CASE Kill \/ Timeout
  BY <1>18 DEF PairInv, TypeOK, Phases, Kill, Timeout, CutShort, Fail, Return, Goto
<1>20. CASE Hang
  BY <1>20 DEF PairInv, Phases, Hang, script, machines, swap, observer, gates
<1>21. ASSUME NEW n \in Node, Rise(n) PROVE Phases'
  BY <1>21 DEF PairInv, TypeOK, Phases, Present, Rise, ProxyState, script, machines, observer, gates
<1>19. CASE UNCHANGED vars
  BY <1>19 DEF PairInv, Phases, vars, script
<1> QED BY <1>1, <1>2, <1>3, <1>4, <1>5, <1>6, <1>7, <1>8, <1>9, <1>10, <1>11, <1>12, <1>13,
           <1>14, <1>15, <1>16, <1>17, <1>18, <1>19, <1>20, <1>21 DEF Next, Script

LEMMA NextPresent == PairInv /\ [Next]_vars => Present'
<1> SUFFICES ASSUME PairInv, [Next]_vars PROVE Present' OBVIOUS
<1> USE BoundsAssumption DEF Node
<1>1. CASE Probe
  BY <1>1 DEF PairInv, TypeOK, Present, Probe, Entered, Goto, NextNode
<1>2. CASE Act
  BY <1>2 DEF PairInv, TypeOK, Present, Act, Goto, NextNode
<1>3. CASE Record
  BY <1>3 DEF PairInv, Present, NoEntry, TornRecord, NoNotes, Record, Write, Merged, Fail, Goto
<1>4. CASE Guards
  BY <1>4 DEF PairInv, Present, Guards, Fail, Goto, swap, observer, gates
<1>5. CASE Reap
  BY <1>5 DEF PairInv, Present, Reap, Fail, Goto, NextNode, swap, observer, gates
<1>6. CASE Boxes
  BY <1>6 DEF PairInv, Present, Boxes, Fail, Goto, NextNode, swap, observer, gates
<1>7. CASE Ray
  BY <1>7 DEF PairInv, Present, Ray, Fail, Goto, swap, observer, gates
<1>8. CASE Launch
  BY <1>8 DEF PairInv, Present, Launch, Fail, Goto, swap, observer, gates
<1>9. CASE Wait
  BY <1>9 DEF PairInv, Present, Wait, Fail, Return, Goto, swap, observer, gates
<1>10. CASE Clean
  BY <1>10 DEF PairInv, Present, Clean, Goto, NextNode, swap, observer, gates
<1>11. CASE Remove
  BY <1>11 DEF PairInv, Present, Remove, Goto, NextNode, swap, gates
<1>12. CASE Restore
  <2>1. stage # "act" /\ stage' # "act"
    BY <1>12 DEF Restore, Goto, Return, PairInv
  <2>2. ~Stopping /\ notes' = notes BY <1>12 DEF Restore, Stopping
  <2>3. \A n \in Node : notes[n].entry.action # "stopped"
    BY <2>2 DEF PairInv, Gathered, NoNotes, NoEntry
  <2>4. NoEntry.action # "stopped" BY DEF NoEntry
  <2>5. \A n \in Node : record'[n].entry.action = "stopped" => record[n].entry.action = "stopped"
    BY <1>12, <2>4, RestoreStep
  <2> QED BY <1>12, <2>1, <2>2, <2>3, <2>5, RestoreStep DEF PairInv, Present, TypeOK
<1>13. ASSUME NEW caller \in Callers, Start(caller) PROVE Present'
  BY <1>13 DEF PairInv, Present, Start, Goto, swap
<1>14. ASSUME NEW caller \in Callers, Stop(caller) PROVE Present'
  BY <1>14 DEF PairInv, Present, Stop, Goto, swap, observer, gates
<1>15. CASE ServeLives
  BY <1>15 DEF PairInv, Present, ServeLives, script, swap, observer, gates
<1>16. CASE LinkReturns
  BY <1>16 DEF PairInv, Present, LinkReturns, script, swap, observer, gates
<1>17. ASSUME NEW n \in Node, Touch(n) PROVE Present'
  <2>1. UNCHANGED <<stage, node, arrived, record, notes>> BY <1>17 DEF Touch, script
  <2>2. proxy' \in [Node -> ProxyState]
    BY <1>17 DEF Touch, PairInv, TypeOK, ProxyState
  <2>3. \A m \in Node : proxy'[m] = "absent" => proxy[m] = "absent"
    BY <1>17 DEF Touch, PairInv, TypeOK
  <2>4. taken' \subseteq Node /\ \A m \in taken' : proxy'[m] = "inactive"
    <3>1. CASE taken' = taken \ {n}
      BY <1>17, <3>1 DEF Touch, PairInv, TypeOK, Present
    <3>2. CASE taken' = taken /\ proxy' = [proxy EXCEPT ![n] = "inactive"]
      BY <3>2 DEF PairInv, TypeOK, Present
    <3> QED BY <1>17, <3>1, <3>2, Zenon DEF Touch
  <2>5. stage' = "act" => /\ proxy'[node'] # "absent" /\ arrived'[node'] = "active"
                         /\ (proxy'[node'] = "starting" => node' \in touched')
    <3>1. ASSUME stage = "act" PROVE job = "up" BY <3>1 DEF PairInv, TypeOK, Phases
    <3>2. touched' = (IF job = "up" THEN touched \cup {n} ELSE touched) \/ UNCHANGED touched
      BY <1>17 DEF Touch
    <3> QED BY <1>17, <2>1, <2>3, <3>1, <3>2 DEF Touch, PairInv, TypeOK, Present
  <2> QED BY <2>1, <2>3, <2>4, <2>5 DEF PairInv, TypeOK, Present
<1>18. CASE Kill \/ Timeout
  BY <1>18 DEF PairInv, Present, NoEntry, TornRecord, NoNotes, Kill, Timeout, CutShort, Fail, Return, Goto
<1>20. CASE Hang
  BY <1>20 DEF PairInv, Present, Hang, script, machines, swap, observer, gates
<1>21. ASSUME NEW n \in Node, Rise(n) PROVE Present'
  BY <1>21 DEF PairInv, TypeOK, Present, Present, Rise, ProxyState, script, machines, observer, gates
<1>19. CASE UNCHANGED vars
  BY <1>19 DEF PairInv, Present, vars, script, swap, observer, gates
<1> QED BY <1>1, <1>2, <1>3, <1>4, <1>5, <1>6, <1>7, <1>8, <1>9, <1>10, <1>11, <1>12, <1>13,
           <1>14, <1>15, <1>16, <1>17, <1>18, <1>19, <1>20, <1>21 DEF Next, Script

LEMMA NextGathered == PairInv /\ [Next]_vars => Gathered'
<1> SUFFICES ASSUME PairInv, [Next]_vars PROVE Gathered' OBVIOUS
<1> USE BoundsAssumption DEF Node
<1>1. CASE Probe
  BY <1>1
     DEF PairInv, TypeOK, Present, Gathered, Excepted, Rising, Stopping, Passed, Failures, Probe, Entered, Goto,
         NextNode
<1>2. CASE Act
  BY <1>2 DEF PairInv, TypeOK, Present, Gathered, Excepted, Rising, Stopping, Passed, Failures, Act, Goto, NextNode
<1>3. CASE Record
  BY <1>3 DEF PairInv, Gathered, Excepted, Rising, Passed, NoEntry, NoNotes, Record, Fail, Goto
<1>4. CASE Guards
  BY <1>4 DEF PairInv, Gathered, Excepted, Rising, Stopping, Guards, Fail, Goto, swap, observer, gates
<1>5. CASE Reap
  BY <1>5 DEF PairInv, Gathered, Excepted, Rising, Stopping, Reap, Fail, Goto, NextNode, swap, observer, gates
<1>6. CASE Boxes
  BY <1>6 DEF PairInv, Gathered, Excepted, Rising, Stopping, Boxes, Fail, Goto, NextNode, swap, observer, gates
<1>7. CASE Ray
  BY <1>7 DEF PairInv, Gathered, Excepted, Rising, Stopping, Ray, Fail, Goto, swap, observer, gates
<1>8. CASE Launch
  BY <1>8 DEF PairInv, Gathered, Excepted, Rising, Stopping, Launch, Fail, Goto, swap, observer, gates
<1>9. CASE Wait
  BY <1>9 DEF PairInv, Gathered, Excepted, Rising, Stopping, Wait, Fail, Return, swap, observer, gates
<1>10. CASE Clean
  BY <1>10 DEF PairInv, Gathered, Excepted, Rising, Stopping, Clean, swap, observer, gates
<1>11. CASE Remove
  BY <1>11 DEF PairInv, Gathered, Excepted, Rising, Stopping, Remove, swap
<1>12. CASE Restore
  BY <1>12 DEF PairInv, Gathered, Excepted, Rising, Stopping, Restore, Return
<1>13. ASSUME NEW caller \in Callers, Start(caller) PROVE Gathered'
  BY <1>13 DEF PairInv, Gathered, Excepted, Rising, Stopping, Passed, Start, Goto, swap
<1>14. ASSUME NEW caller \in Callers, Stop(caller) PROVE Gathered'
  BY <1>14 DEF PairInv, Gathered, Excepted, Rising, Stopping, Stop, swap, observer, gates
<1>15. CASE ServeLives
  BY <1>15 DEF PairInv, Gathered, Excepted, Rising, Stopping, Passed, Failures, ServeLives, script, swap, observer, gates
<1>16. CASE LinkReturns
  BY <1>16 DEF PairInv, Gathered, Excepted, Rising, Stopping, Passed, Failures, LinkReturns, script, swap, observer, gates
<1>17. ASSUME NEW n \in Node, Touch(n) PROVE Gathered'
  BY <1>17 DEF PairInv, TypeOK, Gathered, Excepted, Rising, Stopping, Passed, Failures, Touch, script
<1>18. CASE Kill \/ Timeout
  BY <1>18 DEF PairInv, Gathered, Excepted, Rising, Passed, NoEntry, NoNotes, Kill, Timeout, CutShort, Fail, Return, Goto
<1>20. CASE Hang
  BY <1>20 DEF PairInv, Gathered, Excepted, Rising, Stopping, Passed, Failures, Hang, script, machines, swap, observer, gates
<1>21. ASSUME NEW n \in Node, Rise(n) PROVE Gathered'
  BY <1>21 DEF PairInv, TypeOK, Stopping, Passed, Failures, Gathered, Excepted, Rising, Present, Rise, ProxyState, script, machines, observer, gates
<1>19. CASE UNCHANGED vars
  BY <1>19 DEF PairInv, Gathered, Excepted, Rising, Stopping, Passed, Failures, vars, script, swap, observer, gates
<1> QED BY <1>1, <1>2, <1>3, <1>4, <1>5, <1>6, <1>7, <1>8, <1>9, <1>10, <1>11, <1>12, <1>13,
           <1>14, <1>15, <1>16, <1>17, <1>18, <1>19, <1>20, <1>21 DEF Next, Script

LEMMA NextRecorded == PairInv /\ [Next]_vars => Recorded'
<1> SUFFICES ASSUME PairInv, [Next]_vars PROVE Recorded' OBVIOUS
<1> USE BoundsAssumption DEF Node
<1>1. CASE Probe
  BY <1>1 DEF PairInv, Recorded, Stopping, Probe, Goto, NextNode
<1>2. CASE Act
  BY <1>2 DEF PairInv, Recorded, Stopping, Act, Goto, NextNode
<1>3. CASE Record
  BY <1>3 DEF PairInv, TypeOK, Gathered, Recorded, Stopping, Passed, Record, Write, Merged
<1>4. CASE Guards
  BY <1>4 DEF PairInv, Recorded, Stopping, Guards, swap, observer, gates
<1>5. CASE Reap
  BY <1>5 DEF PairInv, Recorded, Stopping, Reap, swap, observer, gates
<1>6. CASE Boxes
  BY <1>6 DEF PairInv, Recorded, Stopping, Boxes, swap, observer, gates
<1>7. CASE Ray
  BY <1>7 DEF PairInv, Recorded, Stopping, Ray, swap, observer, gates
<1>8. CASE Launch
  BY <1>8 DEF PairInv, Recorded, Stopping, Launch, swap, observer, gates
<1>9. CASE Wait
  BY <1>9 DEF PairInv, Recorded, Stopping, Wait, swap, observer, gates
<1>10. CASE Clean
  BY <1>10 DEF PairInv, Recorded, Stopping, Clean, swap, observer, gates
<1>11. CASE Remove
  BY <1>11 DEF PairInv, Recorded, Stopping, Remove, swap
<1>12. CASE Restore
  <2>1. ~Stopping /\ UNCHANGED arrived BY <1>12 DEF Restore, Stopping
  <2> QED BY <1>12, <2>1, RestoreStep DEF PairInv, Recorded
<1>13. ASSUME NEW caller \in Callers, Start(caller) PROVE Recorded'
  BY <1>13 DEF PairInv, Recorded, Stopping, Start, swap
<1>14. ASSUME NEW caller \in Callers, Stop(caller) PROVE Recorded'
  BY <1>14 DEF PairInv, Recorded, Stopping, Stop, swap, observer, gates
<1>15. CASE ServeLives
  BY <1>15 DEF PairInv, Recorded, Stopping, ServeLives, script, swap, observer, gates
<1>16. CASE LinkReturns
  BY <1>16 DEF PairInv, Recorded, Stopping, LinkReturns, script, swap, observer, gates
<1>17. ASSUME NEW n \in Node, Touch(n) PROVE Recorded'
  BY <1>17 DEF PairInv, Recorded, Stopping, Touch, script
<1>18. CASE Kill \/ Timeout
  BY <1>18 DEF PairInv, Recorded, Stopping, Kill, Timeout, CutShort, Fail, Return, Goto
<1>20. CASE Hang
  BY <1>20 DEF PairInv, Recorded, Stopping, Hang, script, machines, swap, observer, gates
<1>21. ASSUME NEW n \in Node, Rise(n) PROVE Recorded'
  BY <1>21 DEF PairInv, TypeOK, Stopping, Recorded, Present, Rise, ProxyState, script, machines, observer, gates
<1>19. CASE UNCHANGED vars
  BY <1>19 DEF PairInv, Recorded, Stopping, vars, script, swap, observer, gates
<1> QED BY <1>1, <1>2, <1>3, <1>4, <1>5, <1>6, <1>7, <1>8, <1>9, <1>10, <1>11, <1>12, <1>13,
           <1>14, <1>15, <1>16, <1>17, <1>18, <1>19, <1>20, <1>21 DEF Next, Script

LEMMA NextOwn == PairInv /\ [Next]_vars => Own'
<1> SUFFICES ASSUME PairInv, [Next]_vars PROVE Own' OBVIOUS
<1> USE BoundsAssumption DEF Node
<1>1. CASE Probe \/ Act
  BY <1>1 DEF PairInv, Own, Stopping, Probe, Act
<1>2. CASE Record
  <2>1. CASE faults' = faults
    <3>1. record' = Merged BY <1>2, <2>1 DEF Record, Write, PairInv, TypeOK
    <3>2. ~Stopping' BY <1>2 DEF Record, Stopping, Fail, Goto
    <3> QED BY <1>2, <3>1, <3>2 DEF Record, PairInv, Gathered, Own, Merged
  <2>2. CASE faults' # faults
    BY <1>2, <2>2 DEF Record, Own
  <2> QED BY <2>1, <2>2
<1>3. CASE Guards \/ Reap \/ Boxes \/ Ray \/ Launch \/ Wait \/ Clean \/ Remove
  <2>1. UNCHANGED <<record, arrived, stale>> /\ ~Stopping /\ ~Stopping'
    BY <1>3 DEF Guards, Reap, Boxes, Ray, Launch, Wait, Clean, Remove, Fail, Goto, NextNode,
                Return, Stopping, swap, observer, gates
  <2> QED BY <2>1 DEF PairInv, Own
<1>4. CASE Restore
  <2>1. ~Stopping /\ ~Stopping' /\ UNCHANGED <<arrived, stale>>
    BY <1>4 DEF Restore, Stopping, Goto, Return
  <2>2. NoEntry.action # "stopped" BY DEF NoEntry
  <2> QED BY <1>4, <2>1, <2>2, RestoreStep DEF PairInv, Own
<1>5. CASE \E caller \in Callers : Start(caller)
  BY <1>5 DEF Start, Own
<1>6. CASE \E caller \in Callers : Stop(caller)
  BY <1>6 DEF Stop, PairInv, Own, Stopping, swap, observer
<1>7. CASE ServeLives \/ LinkReturns \/ Hang \/ (\E n \in Node : Touch(n) \/ Rise(n)) \/ UNCHANGED vars
  <2>1. UNCHANGED <<record, arrived, stale, script>>
    BY <1>7 DEF ServeLives, LinkReturns, Hang, Touch, Rise, vars, swap, observer
  <2> QED BY <2>1 DEF PairInv, Own, Stopping, script
<1>8. CASE Kill \/ Timeout
  <2>1. UNCHANGED <<arrived, stale>> /\ record' \in {record, TornRecord} /\ ~Stopping'
    BY <1>8 DEF Kill, Timeout, CutShort, Fail, Return, Goto, Stopping
  <2>2. \A n \in Node : TornRecord[n].entry.action # "stopped" BY DEF TornRecord, NoEntry
  <2> QED BY <2>1, <2>2 DEF PairInv, Own
<1> QED BY <1>1, <1>2, <1>3, <1>4, <1>5, <1>6, <1>7, <1>8 DEF Next, Script

LEMMA NextCleared == PairInv /\ [Next]_vars => Cleared'
<1> SUFFICES ASSUME PairInv, [Next]_vars PROVE Cleared' OBVIOUS
<1> USE BoundsAssumption DEF Node
<1>1. CASE Probe
  BY <1>1 DEF PairInv, Cleared, Excepted, Rising, Stopping, Probe, Goto, NextNode
<1>2. CASE Act
  BY <1>2 DEF PairInv, Cleared, Excepted, Rising, Stopping, Act, Goto, NextNode
<1>3. CASE Record
  BY <1>3 DEF PairInv, Gathered, Cleared, Excepted, Rising, Passed, Stopping, Record, gates, Fail, Goto
<1>4. CASE Guards
  BY <1>4 DEF PairInv, Cleared, Excepted, Rising, Stopping, Guards, Fail, Goto, swap, observer, gates
<1>5. CASE Reap
  <2>1. serve' \subseteq serve /\ UNCHANGED <<proxy, arrived, touched, unheard>>
    BY <1>5 DEF Reap, Reaped, swap, observer, gates
  <2>2. job' = "up" => \/ stage' = "reap" /\ node' = "worker" /\ "coordinator" \notin serve'
                       \/ stage' = "boxes" /\ serve' = {}
    <3>1. CASE node = "coordinator"
      BY <1>5, <3>1 DEF Reap, Goto, NextNode, Fail
    <3>2. CASE node = "worker"
      <4>1. "coordinator" \notin serve' /\ serve' \subseteq Node
        BY <1>5, <2>1, <3>2 DEF Reap, PairInv, TypeOK, Cleared
      <4>2. job' = "up" => stage' = "boxes" /\ "worker" \notin serve'
        BY <1>5, <3>2 DEF Reap, Goto, NextNode, Fail
      <4> QED BY <4>1, <4>2
    <3> QED BY <3>1, <3>2 DEF PairInv, TypeOK
  <2>3. stage' \in {"reap", "boxes"} => job' = "up"
    BY <1>5 DEF Reap, Goto, NextNode, Fail
  <2>4. stage' \in {"reap", "boxes", "restore"} BY <1>5 DEF Reap, Goto, NextNode, Fail
  <2>5. \A n \in Node : Excepted(n)' = Excepted(n) /\ Rising(n)' = Rising(n)
    BY <2>1 DEF Excepted, Rising
  <2> QED BY <2>5, <1>5, <2>1, <2>2, <2>3, <2>4 DEF Reap, PairInv, Cleared, Excepted, Rising, Stopping
<1>6. CASE Boxes
  BY <1>6 DEF PairInv, Cleared, Excepted, Rising, Stopping, Boxes, swap, observer, gates
<1>7. CASE Ray
  BY <1>7 DEF PairInv, Cleared, Excepted, Rising, Stopping, Ray, machines, swap, observer, gates
<1>8. CASE Launch
  BY <1>8 DEF PairInv, Cleared, Excepted, Rising, Stopping, Launch, Goto, swap, observer, gates
<1>9. CASE Wait
  BY <1>9 DEF PairInv, Cleared, Excepted, Rising, Wait, Fail, Return, Goto
<1>10. CASE Clean
  BY <1>10 DEF PairInv, Cleared, Excepted, Rising, Clean, Goto, NextNode
<1>11. CASE Remove
  BY <1>11 DEF PairInv, Cleared, Excepted, Rising, Remove, Goto, NextNode
<1>12. CASE Restore
  BY <1>12 DEF PairInv, Cleared, Excepted, Rising, Restore, Goto, Return
<1>13. ASSUME NEW caller \in Callers, Start(caller) PROVE Cleared'
  BY <1>13 DEF PairInv, Cleared, Excepted, Rising, Stopping, Start, Goto
<1>14. ASSUME NEW caller \in Callers, Stop(caller) PROVE Cleared'
  BY <1>14 DEF PairInv, Cleared, Excepted, Rising, Stop, Goto
<1>15. CASE ServeLives
  BY <1>15 DEF PairInv, Cleared, Excepted, Rising, Stopping, ServeLives, script, swap, observer, gates
<1>16. CASE LinkReturns
  BY <1>16 DEF PairInv, Cleared, Excepted, Rising, Stopping, LinkReturns, script, machines, swap, observer, gates
<1>17. ASSUME NEW n \in Node, Touch(n) PROVE Cleared'
  BY <1>17 DEF PairInv, TypeOK, Cleared, Excepted, Rising, Stopping, Touch, script, machines
<1>18. CASE Kill \/ Timeout
  BY <1>18 DEF PairInv, Cleared, Excepted, Rising, Kill, Timeout, CutShort, Fail, Return, Goto
<1>20. CASE Hang
  BY <1>20 DEF PairInv, Cleared, Excepted, Rising, Stopping, Hang, script, machines, swap, observer, gates
<1>21. ASSUME NEW n \in Node, Rise(n) PROVE Cleared'
  BY <1>21 DEF PairInv, TypeOK, Stopping, Cleared, Excepted, Rising, Present, Rise, ProxyState, script, machines, observer, gates
<1>19. CASE UNCHANGED vars
  BY <1>19 DEF PairInv, Cleared, Excepted, Rising, Stopping, vars, script, machines, swap, observer, gates
<1> QED BY <1>1, <1>2, <1>3, <1>4, <1>5, <1>6, <1>7, <1>8, <1>9, <1>10, <1>11, <1>12, <1>13,
           <1>14, <1>15, <1>16, <1>17, <1>18, <1>19, <1>20, <1>21 DEF Next, Script

LEMMA NextSwept == PairInv /\ [Next]_vars => Swept'
<1> SUFFICES ASSUME PairInv, [Next]_vars PROVE Swept' OBVIOUS
<1> USE BoundsAssumption DEF Node
<1>1. CASE Probe
  BY <1>1 DEF PairInv, Swept, Probe
<1>2. CASE Act
  BY <1>2 DEF PairInv, Swept, Act
<1>3. CASE Record
  BY <1>3 DEF PairInv, Swept, Record, Fail
<1>4. CASE Guards
  BY <1>4 DEF PairInv, Swept, Guards, Fail
<1>5. CASE Reap
  BY <1>5 DEF PairInv, Swept, Reap, Fail
<1>6. CASE Boxes
  BY <1>6 DEF PairInv, Swept, Boxes, Fail
<1>7. CASE Ray
  BY <1>7 DEF PairInv, Swept, Ray, Fail
<1>8. CASE Launch
  BY <1>8 DEF PairInv, Swept, Launch, Fail
<1>9. CASE Wait
  BY <1>9 DEF PairInv, Swept, Wait, Fail, Return, Goto
<1>10. CASE Clean
  BY <1>10 DEF PairInv, Swept, Clean, Goto, NextNode
<1>11. CASE Remove
  <2>1. PICK ran \in BOOLEAN, ok \in BOOLEAN : Removal(ran, ok) BY <1>11 DEF Remove
  <2>2. node \in Node \ missed' => ~box'[node] /\ node \notin serve'
    BY <2>1 DEF Removal, PairInv, TypeOK
  <2>3. \A n \in Node \ {node} : /\ box'[n] = box[n] /\ (n \in serve' => n \in serve)
                                 /\ (n \in missed' <=> n \in missed)
    BY <2>1 DEF Removal, Reaped, PairInv, TypeOK
  <2>4. stage = "remove" /\ job = "down" /\ node \in Node BY <1>11 DEF Remove, PairInv, TypeOK
  <2>5. CASE node = "coordinator"
    <3>1. stage' = "remove" /\ node' = "worker" BY <1>11, <2>5 DEF Remove, Goto, NextNode
    <3> QED BY <2>2, <2>5, <3>1 DEF Swept
  <2>6. CASE node = "worker"
    <3>1. stage' = "restore" /\ node' = "coordinator" BY <1>11, <2>6 DEF Remove, Goto, NextNode
    <3>2. ASSUME "coordinator" \notin missed'
          PROVE  ~box'["coordinator"] /\ "coordinator" \notin serve'
      <4>1. "coordinator" \in Node \ {node} BY <2>6
      <4>2. "coordinator" \notin missed BY ONLY <2>3, <3>2, <4>1
      <4>3. ~box["coordinator"] /\ "coordinator" \notin serve
        BY <2>4, <2>6, <4>2 DEF PairInv, Swept
      <4> QED BY ONLY <2>3, <4>1, <4>3, Zenon
    <3> QED BY <2>2, <2>6, <3>1, <3>2 DEF Swept
  <2> QED BY <2>4, <2>5, <2>6
<1>12. CASE Restore
  <2>1. UNCHANGED <<box, serve, missed>> /\ stage = "restore"
    BY <1>12 DEF Restore, machines
  <2>2. CASE node = "coordinator"
    <3>1. job' = job /\ stage' = "restore" /\ node' = "worker" BY <1>12, <2>2 DEF Restore, Goto
    <3>2. ASSUME job = "down", "coordinator" \in taken' \ forgot'
          PROVE  record'["coordinator"].restored \in {"inactive", "unknown"}
      <4>1. "coordinator" \in taken \ forgot /\ faults' = faults
        BY <1>12, <3>2, RestoreStep DEF Restore
      <4>2. MustStart("coordinator") /\ proxy["coordinator"] = "inactive"
        BY <3>2, <4>1 DEF PairInv, Recorded, Present, Stopping, MustStart
      <4>3. PICK denied \in BOOLEAN :
              LET ran == ~denied /\ proxy["coordinator"] # "absent" IN
              /\ taken' = IF ran THEN taken \ {node} ELSE taken
              /\ Write([record EXCEPT !["coordinator"].restored = StateAfter("answered", ran)])
        BY <1>12, <2>2, <4>2 DEF Restore, Outcome, Refusals
      <4>4. denied BY <2>2, <3>2, <4>2, <4>3
      <4>5. Write([record EXCEPT !["coordinator"].restored = "inactive"])
        BY <2>2, <4>2, <4>3, <4>4 DEF StateAfter
      <4> QED BY <4>1, <4>5 DEF Write, PairInv, TypeOK
    <3> QED BY <2>1, <3>1, <3>2 DEF PairInv, Swept
  <2>3. CASE node # "coordinator"
    BY <1>12, <2>1, <2>3 DEF Restore, Return, Goto, PairInv, Swept
  <2> QED BY <2>2, <2>3
<1>13. ASSUME NEW caller \in Callers, Start(caller) PROVE Swept'
  BY <1>13 DEF PairInv, Swept, Start
<1>14. ASSUME NEW caller \in Callers, Stop(caller) PROVE Swept'
  BY <1>14 DEF PairInv, Swept, Stop, Goto
<1>15. CASE ServeLives
  BY <1>15 DEF PairInv, Swept, ServeLives, script, swap, observer, gates
<1>16. CASE LinkReturns
  BY <1>16 DEF PairInv, Swept, LinkReturns, script, machines, swap, observer, gates
<1>17. ASSUME NEW n \in Node, Touch(n) PROVE Swept'
  BY <1>17 DEF PairInv, Swept, Touch, script, machines
<1>18. CASE Kill \/ Timeout
  BY <1>18 DEF PairInv, Swept, Kill, Timeout, CutShort, Fail, Return, Goto
<1>20. CASE Hang
  BY <1>20 DEF PairInv, Swept, Hang, script, machines, swap, observer, gates
<1>21. ASSUME NEW n \in Node, Rise(n) PROVE Swept'
  BY <1>21 DEF PairInv, TypeOK, Swept, Present, Rise, ProxyState, script, machines, observer, gates
<1>19. CASE UNCHANGED vars
  BY <1>19 DEF PairInv, Swept, vars, script, machines, swap, observer, gates
<1> QED BY <1>1, <1>2, <1>3, <1>4, <1>5, <1>6, <1>7, <1>8, <1>9, <1>10, <1>11, <1>12, <1>13,
           <1>14, <1>15, <1>16, <1>17, <1>18, <1>19, <1>20, <1>21 DEF Next, Script

LEMMA InitPair == Init => PairInv
<1> SUFFICES ASSUME Init PROVE PairInv OBVIOUS
<1> USE BoundsAssumption DEF Node
<1>1. NoRecord \in [Node -> [entry : Entry, restored : Restored]]
  BY DEF NoRecord, NoEntry, Entry, Restored
<1>2. NoNotes \in [Node -> [entry : Entry, after : {"none", "unknown"} \cup ProxyState]]
  BY DEF NoNotes, NoEntry, Entry
<1>3. TypeOK
  <2>1. proxy \in [Node -> ProxyState] /\ serve \subseteq Node BY DEF Init
  <2>2. box \in [Node -> BOOLEAN]
    <3>1. \A n \in Node : (n \in serve) \in BOOLEAN OBVIOUS
    <3>2. box = [n \in Node |-> n \in serve] BY DEF Init
    <3> HIDE DEF Node
    <3> QED BY <3>1, <3>2, Zenon
  <2>3. taken \subseteq Node /\ forgot \subseteq Node /\ touched \subseteq Node
        /\ unheard \subseteq Node /\ missed \subseteq Node /\ stale \in BOOLEAN /\ Hanging
    BY DEF Init, Hanging
  <2>4. record \in [Node -> [entry : Entry, restored : Restored]]
        /\ notes \in [Node -> [entry : Entry, after : {"none", "unknown"} \cup ProxyState]]
    BY <1>1, <1>2 DEF Init
  <2>5. /\ arrived \in [Node -> ProxyState]
        /\ answers \in BOOLEAN /\ link \in BOOLEAN
    BY <2>1 DEF Init
  <2>6. /\ job \in {"none", "up", "trap", "down"} /\ stage \in Stage /\ node \in Node
        /\ by \in {"unit", "runner"} /\ unit \in {"inactive", "activating", "active", "stopping", "post"}
        /\ (job = "none" <=> stage = "none") /\ job = "none"
    BY DEF Init, Stage
  <2>7. calls \in 0 .. MaxCalls /\ faults \in 0 .. MaxFaults /\ flaps \in 0 .. MaxFlaps
        /\ touches \in 0 .. MaxTouches
    BY DEF Init
  <2> QED BY <2>1, <2>2, <2>3, <2>4, <2>5, <2>6, <2>7, Zenon DEF TypeOK
<1> QED BY <1>3
           DEF Init, PairInv, Phases, Present, Gathered, Recorded, Own, Cleared, Swept, Stopping,
               NoRecord, NoNotes, NoEntry

LEMMA NextPair == PairInv /\ [Next]_vars => PairInv'
BY NextType, NextPhases, NextPresent, NextGathered, NextRecorded, NextOwn, NextCleared, NextSwept
   DEF PairInv

\* The invariant the theorems below rest on.
THEOREM PairInvHolds == Spec => []PairInv
BY InitPair, NextPair, PTL DEF Spec

-----------------------------------------------------------------------------
\* Every variable stays in its type, and a script runs exactly when somebody waits for it.
THEOREM TypeCorrect == Spec => []TypeOK
<1>1. PairInv => TypeOK BY DEF PairInv
<1> QED BY <1>1, PairInvHolds, PTL

\* What a stop took down stays on record as taken, unless a kill inside the stop, a failed
\* write or a second stop lost it (fn-swap-arbitrate.sh, write_state and cmd_restore).
THEOREM TakenStaysOnRecord == Spec => []TakenOnRecord
<1>1. PairInv => TakenOnRecord
  BY DEF PairInv, TypeOK, Recorded, Stopping, TakenOnRecord
<1> QED BY <1>1, PairInvHolds, PTL

\* No launch over a serve of an earlier bring-up, nor over a proxy, but one that somebody
\* else started after the probe, that the probe found starting, or whose stop did not
\* answer (the gates of fn-cluster-up.sh). The last two are what StopFailsClosed denies.
THEOREM LaunchesAreClear == Spec => LaunchIsClear
<1> DEFINE Clear == stage = "launch" /\ stage' = "wait"
             => /\ serve = {}
                /\ \A n \in Node : proxy[n] = "active"
                     => n \in touched \/ n \in unheard \/ arrived[n] = "starting"
<1>1. ASSUME PairInv, stage = "launch"
      PROVE  /\ serve = {}
             /\ \A n \in Node : proxy[n] = "active"
                  => n \in touched \/ n \in unheard \/ arrived[n] = "starting"
  <2>1. job = "up" /\ ~Stopping
    BY <1>1 DEF PairInv, TypeOK, Phases, Stopping
  <2> QED BY <1>1, <2>1 DEF PairInv, Cleared, Rising, Excepted
<1>2. PairInv /\ [Next]_vars => [Clear]_vars
  BY <1>1
<1> QED BY <1>2, PairInvHolds, PTL DEF Spec, LaunchIsClear

\* A proxy that was down when the bring-up arrived is started by no restore, if that
\* bring-up got to write its record (cmd_restore starts only what the record calls
\* stopped). Without the condition it is DownOnArrivalStaysDown, which is false.
THEOREM DownProxiesStayDown == Spec => DownStaysDown
<1> DEFINE Kept == \A n \in Node :
             proxy[n] = "inactive" /\ proxy'[n] = "active" /\ touches' = touches
               => arrived[n] = "active" \/ stale
<1>1. ASSUME PairInv, Next, NEW n \in Node,
             proxy[n] = "inactive", proxy'[n] = "active", touches' = touches
      PROVE  arrived[n] = "active" \/ stale
  <2>1. CASE Restore
    <3>1. n = node /\ MustStart(node)
      BY <1>1, <2>1 DEF Restore, PairInv, TypeOK
    <3> QED BY <1>1, <3>1 DEF PairInv, Own, MustStart
  <2>2. CASE Act BY <1>1, <2>2 DEF Act, PairInv, TypeOK
  <2>3. CASE \E m \in Node : Touch(m) \/ Rise(m)
    <3>1. ~\E m \in Node : Touch(m)
      <4>1. touches \in Nat BY <1>1, BoundsAssumption DEF PairInv, TypeOK
      <4>2. touches + 1 # touches BY <4>1
      <4> QED BY <1>1, <4>2 DEF Touch
    <3>2. PICK m \in Node : Rise(m) BY <2>3, <3>1
    <3> QED BY <1>1, <3>2 DEF Rise, PairInv, TypeOK
  <2>4. CASE Probe \/ Record \/ Guards \/ Reap \/ Boxes \/ Ray \/ Launch \/ Wait \/ Clean \/ Remove
    <3>1. proxy' = proxy
      BY <2>4 DEF Probe, Record, Guards, Reap, Boxes, Ray, Launch, Wait, Clean, Remove, swap
    <3> QED BY <1>1, <3>1
  <2>5. CASE (\E caller \in Callers : Start(caller) \/ Stop(caller)) \/ ServeLives \/ LinkReturns
             \/ Kill \/ Timeout \/ Hang
    <3>1. proxy' = proxy
      BY <2>5 DEF Start, Stop, ServeLives, LinkReturns, Kill, Timeout, CutShort, Hang, swap
    <3> QED BY <1>1, <3>1
  <2> QED BY <1>1, <2>1, <2>2, <2>3, <2>4, <2>5 DEF Next, Script
<1>2. PairInv /\ [Next]_vars => [Kept]_vars BY <1>1
<1> QED BY <1>2, PairInvHolds, PTL DEF Spec, DownStaysDown

\* A restore of a teardown that ends undisturbed leaves on record which proxies it could
\* not put back.
THEOREM RestoresAreTold == Spec => RestoreTellsTheTruth
<1> DEFINE Told ==
      job = "down" /\ stage = "restore" /\ node = "worker" /\ stage' # "restore"
      /\ faults' = faults /\ ~stuck
        => \A n \in taken' \ forgot' : record'[n].restored \in {"inactive", "unknown"}
<1>1. ASSUME PairInv, Next, job = "down", stage = "restore", node = "worker", stage' # "restore",
             faults' = faults, ~stuck, NEW n \in taken' \ forgot'
      PROVE  record'[n].restored \in {"inactive", "unknown"}
  <2>1. Restore
    <3>1. ~(Probe \/ Act \/ Record \/ Guards \/ Reap \/ Boxes \/ Ray \/ Launch \/ Wait \/ Clean \/ Remove)
      BY <1>1 DEF Probe, Act, Record, Guards, Reap, Boxes, Ray, Launch, Wait, Clean, Remove
    <3>2. ~\E caller \in Callers : Start(caller) \/ Stop(caller) BY <1>1 DEF Start, Stop
    <3>3. ~(ServeLives \/ LinkReturns \/ Hang \/ \E m \in Node : Touch(m) \/ Rise(m))
      BY <1>1 DEF ServeLives, LinkReturns, Hang, Touch, Rise, script
    <3>4. ~Kill
      <4>1. faults \in Nat BY <1>1, BoundsAssumption DEF PairInv, TypeOK
      <4>2. faults + 1 # faults BY <4>1
      <4>3. Kill => faults' = faults + 1 BY DEF Kill
      <4>4. faults' = faults BY <1>1
      <4> QED BY <4>2, <4>3, <4>4
    <3>5. ~Timeout BY <1>1 DEF Timeout
    <3> QED BY <1>1, <3>1, <3>2, <3>3, <3>4, <3>5 DEF Next, Script
  <2>2. n \in taken /\ n \notin forgot /\ n \in Node
    BY <1>1, <2>1, RestoreStep DEF Restore, PairInv, TypeOK
  <2>3. MustStart(n) /\ proxy[n] = "inactive"
    BY <1>1, <2>2 DEF PairInv, Recorded, Present, Stopping, MustStart
  <2>4. CASE n = "worker"
    <3>1. PICK o \in Outcome(node), denied \in Refusals(node) :
            LET ran == o # "cut" /\ ~denied /\ proxy[node] # "absent" IN
            /\ taken' = IF ran THEN taken \ {node} ELSE taken
            /\ Write([record EXCEPT ![node].restored = StateAfter(o, ran)])
      BY <1>1, <2>1, <2>3, <2>4 DEF Restore
    <3> DEFINE ran == o # "cut" /\ ~denied /\ proxy[node] # "absent"
    <3>2. ~ran BY <1>1, <2>4, <3>1
    <3>3. record' = [record EXCEPT ![node].restored = StateAfter(o, ran)]
      BY <1>1, <3>1 DEF Write, PairInv, TypeOK
    <3>4. StateAfter(o, ran) \in {"inactive", "unknown"}
      BY <1>1, <2>3, <2>4, <3>2 DEF StateAfter
    <3> HIDE DEF ran
    <3> QED BY <1>1, <2>2, <2>4, <3>3, <3>4 DEF PairInv, TypeOK
  <2>5. CASE n = "coordinator"
    <3>1. record[n].restored \in {"inactive", "unknown"}
      BY <1>1, <2>2, <2>5 DEF PairInv, Swept
    <3>2. PICK doc : record' = record \/ (Write([record EXCEPT !["worker"].restored = doc]))
      BY <1>1, <2>1 DEF Restore
    <3>3. record' = record \/ record' = [record EXCEPT !["worker"].restored = doc]
      BY <1>1, <3>2 DEF Write, PairInv, TypeOK
    <3>4. record \in [Node -> [entry : Entry, restored : Restored]] /\ "coordinator" # "worker"
      BY <1>1 DEF PairInv, TypeOK
    <3>5. "coordinator" \in Node BY DEF Node
    <3> QED BY <2>5, <3>1, <3>3, <3>4, <3>5
  <2> QED BY <2>2, <2>4, <2>5 DEF Node
<1>2. PairInv /\ [Next]_vars => [Told]_vars BY <1>1
<1> QED BY <1>2, PairInvHolds, PTL DEF Spec, RestoreTellsTheTruth

\* The unit goes inactive with no container and no serve on a node where the removal ran
\* and succeeded, whatever became of the other node and of the steps before (ExecStopPost,
\* fn-cluster-down.sh). A teardown that was cut short promises nothing.
THEOREM NothingStranded == Spec => NoRanksStranded
<1> DEFINE Left == unit = "post" /\ unit' = "inactive"
             => \A n \in Node \ missed' : ~box'[n] /\ n \notin serve'
<1>1. ASSUME PairInv, Next, unit = "post", unit' = "inactive", NEW n \in Node \ missed'
      PROVE  ~box'[n] /\ n \notin serve'
  <2>1. job = "down" /\ by = "unit" BY <1>1 DEF PairInv, Phases
  <2>2. ~(Kill \/ Timeout)
    BY <1>1, <2>1 DEF Kill, Timeout, CutShort
  <2>3. Restore
    BY <1>1, <2>1, <2>2
       DEF Next, Script, Probe, Act, Record, Guards, Reap, Boxes, Ray, Launch, Wait, Clean,
           Remove, Start, Stop, ServeLives, LinkReturns, Hang, Touch, Rise, PairInv
  <2>4. stage = "restore" /\ UNCHANGED <<box, serve, missed>> BY <2>3 DEF Restore, machines
  <2> QED BY <1>1, <2>1, <2>4 DEF PairInv, Swept
<1>2. PairInv /\ [Next]_vars => [Left]_vars BY <1>1
<1> QED BY <1>2, PairInvHolds, PTL DEF Spec, NoRanksStranded
=============================================================================
