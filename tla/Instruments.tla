---------------------------- MODULE Instruments ----------------------------
(***************************************************************************)
(* The two recorders that are loaded into an engine worker: the all-reduce *)
(* timer (container/rootfs/fn_allreduce_timer.py) and the expert union     *)
(* (fn_expert_union.py). Both wrap a function of the engine, skip a warmup,*)
(* record a window and write it to a file when the window closes or the    *)
(* process exits; none of their failures may reach the engine.             *)
(*                                                                         *)
(* Durations are left out: what is recorded of a collective is which one   *)
(* it is, since which earlier one its compute gap runs, and its layer. The *)
(* engine, which calls the wrapped functions and lives and dies as it      *)
(* likes, the driver of install, uninstall and reset, and the allocator of *)
(* Python are external.                                                    *)
(***************************************************************************)
EXTENDS Integers, Sequences, FiniteSets

CONSTANTS
  Start, Window,  \* FN_AR_START and FN_AR_CALLS, FN_EU_START and FN_EU_CALLS
  Interval,       \* FN_AR_FULL_ATTENTION_INTERVAL
  Depth,          \* FN_AR_FRAME_DEPTH
  CacheMax,       \* _CACHE_MAX
  Ids,            \* addresses at which Python may put an object
  Objects,        \* what may lie there: records of a declared type, or one whose reading
                  \* raises, and a layer index
  Stacks,         \* call stacks: sequences of addresses, innermost first
  Rank,           \* the rank of this worker
  MaxCalls, MaxTrouble, MaxLives, \* bounds: calls of a process; failures and odd events; processes
  None

ASSUME InstrumentsAssumption ==
  /\ {Start, Window, Rank} \subseteq Nat /\ Interval \in Int
  /\ {Depth, CacheMax, MaxCalls, MaxTrouble, MaxLives} \subseteq Nat \ {0}
  /\ \A stack \in Stacks : stack \in Seq(Ids)
  /\ None \notin Nat /\ \A held \in SUBSET ((1..Window) \X (1..3)) : held # None

VARIABLES
  life,     \* up, exiting (the exit handlers run), gone, killed
  lives,    \* processes so far
  trouble,  \* failures and odd events so far
  heap,     \* the object at each address
  \* the timer
  calls,    \* collectives of this process
  wrapped,  \* all_reduce is wrapped
  n, rows, lastExit, done,
  cache,    \* _site_cache: what each address was classified as
  missed,   \* observed: collectives that raised, or passed while nothing was wrapped
  \* the union
  routes,   \* routing calls since it was installed
  buf,      \* the calls in the buffer, each with how many of its three columns have been
            \* written, or None before it is allocated
  holes,    \* observed: routing calls of the window whose recording failed
  udone,
  \* what they write
  hooks,    \* exit handlers that have yet to run
  pending,  \* the file that is open for writing and what goes there, or Closed
  unwritten,\* observed: the recorders whose last write failed in this process
  files     \* the receipts and the dump

proc   == <<life, lives>>
timer  == <<calls, wrapped, n, rows, lastExit, done, cache, missed>>
union  == <<routes, buf, holes, udone>>
disk   == <<pending, unwritten, files>>
vars   == <<proc, trouble, heap, timer, union, hooks, disk>>

\* A file, and the writer when no file is open.
Absent == [is |-> "absent"]
Torn == [is |-> "torn"]
Closed == [who |-> "nobody", path |-> "none", what |-> Absent]

-----------------------------------------------------------------------------
\* The layer a collective belongs to.

\* An interval that is none is no guess either: a bucket of its own, which ends the walk.
ByIndex(i) ==
  IF Interval <= 0 THEN "unknown"
  ELSE IF (i + 1) % Interval = 0 THEN "qsa" ELSE "gdn"

\* A declared type counts before the index in the object's name. An object whose attribute
\* raises ends the walk, and its collective is of no known layer.
Raises(o) == o.type = "raises"
Classify(o) ==
  IF Raises(o) THEN "unknown"
  ELSE CASE o.type = "linear" -> "gdn"
         [] o.type = "full" -> "qsa"
         [] o.type = None /\ o.layer # None -> ByIndex(o.layer)
         [] OTHER -> None

OrUnknown(kind) == IF kind = None THEN "unknown" ELSE kind

\* MUTANT: a frame that was found to have no layer before ends the walk.
FrameStops(w, id) ==
  IF w.kind # None THEN w
  ELSE IF id \in DOMAIN w.cache THEN [w EXCEPT !.kind = OrUnknown(w.cache[id])]
  ELSE LET kind == Classify(heap[id])
       IN  [kind  |-> kind,
            cache |-> [i \in DOMAIN w.cache \cup {id} |-> IF i = id THEN kind ELSE w.cache[i]]]

\* One frame: the layer found so far and the cache, which is emptied when it is full and
\* does not get an object that raised.
Frame(w, id) ==
  IF w.kind # None THEN w
  ELSE IF id \in DOMAIN w.cache THEN [w EXCEPT !.kind = w.cache[id]]
  ELSE IF Raises(heap[id]) THEN [w EXCEPT !.kind = "unknown"]
  ELSE LET kept == IF Cardinality(DOMAIN w.cache) >= CacheMax THEN {} ELSE DOMAIN w.cache
           kind == Classify(heap[id])
       IN  [kind  |-> kind,
            cache |-> [i \in kept \cup {id} |-> IF i = id THEN kind ELSE w.cache[i]]]

\* The walk up the stack, with the cache as it goes.
Walk(stack) ==
  LET top == IF Len(stack) < Depth THEN Len(stack) ELSE Depth
      walked[k \in 0..top] ==
        IF k = 0 THEN [kind |-> None, cache |-> cache] ELSE Frame(walked[k - 1], stack[k])
  IN  walked[top]

\* The layer the walk is to find: that of the innermost frame that has one, and none if a
\* frame further in cannot be read, for that one might have had it.
Owner(stack) ==
  LET near == {k \in 1..Len(stack) : k <= Depth /\ Classify(heap[stack[k]]) # None}
  IN  IF near = {} THEN None
      ELSE Classify(heap[stack[CHOOSE k \in near : \A j \in near : k <= j]])

-----------------------------------------------------------------------------
\* Writing. A file is truncated before it is filled.

\* get_rank answers while torch.distributed is up; at exit it may be down.
KnownRank == IF life = "up" THEN {Rank} ELSE {Rank, None}
ReceiptPath(rank) == IF rank \in {None, 0} THEN "canonical" ELSE "ranked"
Facts(r, closed, seen, rank) ==
  [is |-> "receipt", rows |-> r, closed |-> closed, seen |-> seen, rank |-> rank]
Dump(b) == [is |-> "dump", rows |-> b]

Fails(who) ==
  /\ trouble < MaxTrouble /\ trouble' = trouble + 1
  /\ unwritten' = unwritten \cup {who}
  /\ UNCHANGED <<pending, files>>

Opened(who, path, what) ==
  /\ pending' = [who |-> who, path |-> path, what |-> what]
  /\ files' = [files EXCEPT ![path] = Torn]
  /\ UNCHANGED <<trouble, unwritten>>

NoWrite == UNCHANGED <<trouble, disk>>

\* flush of the timer, over the state it finds: an equal receipt is left alone.
FlushTimer(r, closed, seen) ==
  \E rank \in KnownRank :
    LET facts == Facts(r, closed, seen, rank)
        path == ReceiptPath(rank)
    IN  IF files[path] = facts THEN NoWrite
        ELSE Opened("timer", path, facts) \/ Fails("timer")

\* _flush of the union: once, and only what was ever allocated.
FlushUnion ==
  IF udone \/ buf = None
  THEN NoWrite /\ UNCHANGED udone
  ELSE udone' = TRUE /\ (Opened("union", "dump", Dump(buf)) \/ Fails("union"))

Fill ==
  /\ life \in {"up", "exiting"} /\ pending # Closed
  /\ pending' = Closed
  /\ \/ /\ files' = [files EXCEPT ![pending.path] = pending.what]
        /\ unwritten' = unwritten \ {pending.who} /\ UNCHANGED trouble
     \/ /\ trouble < MaxTrouble /\ trouble' = trouble + 1
        /\ unwritten' = unwritten \cup {pending.who} /\ UNCHANGED files
  /\ UNCHANGED <<proc, heap, timer, union, hooks>>

-----------------------------------------------------------------------------
Init ==
  /\ life = "up" /\ lives = 1 /\ trouble = 0
  /\ heap \in [Ids -> Objects]
  /\ files = [p \in {"canonical", "ranked", "dump"} |-> Absent]
  /\ calls = 0 /\ wrapped = FALSE /\ n = 0 /\ rows = <<>>
  /\ lastExit = None /\ done = FALSE /\ cache = <<>> /\ missed = {}
  /\ routes = None /\ buf = None /\ holes = {} /\ udone = FALSE
  /\ hooks = {} /\ pending = Closed /\ unwritten = {}

Serving == life = "up" /\ pending = Closed

-----------------------------------------------------------------------------
\* The timer.

\* install wraps once and has the receipt flushed at exit.
Install ==
  /\ Serving /\ ~wrapped
  /\ wrapped' = TRUE
  /\ hooks' = hooks \cup {"timer"}
  /\ UNCHANGED <<proc, trouble, heap, calls, n, rows, lastExit, done, cache, missed, union, disk>>

\* The rows are kept, and so is the cursor.
Uninstall ==
  /\ Serving /\ wrapped /\ trouble < MaxTrouble
  /\ wrapped' = FALSE /\ trouble' = trouble + 1
  /\ UNCHANGED <<proc, heap, calls, n, rows, lastExit, done, cache, missed, union, hooks, disk>>

Reset ==
  /\ Serving /\ n > 0 /\ trouble < MaxTrouble
  /\ n' = 0 /\ rows' = <<>> /\ lastExit' = None /\ done' = FALSE /\ cache' = <<>>
  /\ trouble' = trouble + 1
  /\ UNCHANGED <<proc, heap, calls, wrapped, missed, union, hooks, disk>>

\* A collective nothing is recorded of: not wrapped, or the window is closed.
PassThrough ==
  /\ Serving /\ calls < MaxCalls /\ (~wrapped \/ done)
  /\ calls' = calls + 1
  /\ missed' = IF wrapped THEN missed ELSE missed \cup {calls'}
  /\ UNCHANGED <<proc, trouble, heap, wrapped, n, rows, lastExit, done, cache, union, hooks, disk>>

Timed == Serving /\ calls < MaxCalls /\ wrapped /\ ~done

\* The probe before the call, in the warmup and after.
Probed(stack) ==
  /\ calls' = calls + 1
  /\ n' = n + 1
  /\ cache' = IF n' > Start THEN Walk(stack).cache ELSE cache

\* _record: the row, and the flush that goes with the last one.
Recorded(stack) ==
  /\ rows' = Append(rows, [of |-> calls', since |-> lastExit, kind |-> OrUnknown(Walk(stack).kind),
                           owner |-> OrUnknown(Owner(stack))])
  /\ done' = (Len(rows') >= Window)
  /\ IF done' THEN FlushTimer(rows', TRUE, n') ELSE NoWrite

\* MUTANT: the cursor advances with the row only.
CollectiveReturnsLate(stack) ==
  /\ Timed /\ Probed(stack)
  /\ \/ n' <= Start /\ lastExit' = calls' /\ UNCHANGED <<rows, done>> /\ NoWrite
     \/ n' > Start /\ lastExit' = calls' /\ Recorded(stack)
     \/ n' > Start /\ trouble < MaxTrouble /\ trouble' = trouble + 1 /\ UNCHANGED <<rows, done, disk, lastExit>>
  /\ UNCHANGED <<proc, heap, wrapped, missed, union, hooks>>

\* The cursor advances first, whatever becomes of the row.
CollectiveReturns(stack) ==
  /\ Timed /\ Probed(stack)
  /\ lastExit' = calls'
  /\ \/ n' <= Start /\ UNCHANGED <<rows, done>> /\ NoWrite
     \/ n' > Start /\ Recorded(stack)
     \/ n' > Start /\ trouble < MaxTrouble /\ trouble' = trouble + 1 /\ UNCHANGED <<rows, done, disk>>
  /\ UNCHANGED <<proc, heap, wrapped, missed, union, hooks>>

\* The exception goes through, past the cursor.
CollectiveRaises(stack) ==
  /\ Timed /\ Probed(stack)
  /\ trouble < MaxTrouble /\ trouble' = trouble + 1
  /\ missed' = missed \cup {calls'}
  /\ UNCHANGED <<proc, heap, wrapped, rows, lastExit, done, union, hooks, disk>>

\* An address is given to another object, unless the cache holds on to the old one.
Recycle ==
  /\ Serving /\ trouble < MaxTrouble /\ trouble' = trouble + 1
  /\ \E id \in Ids \ DOMAIN cache, o \in Objects : o # heap[id] /\ heap' = [heap EXCEPT ![id] = o]
  /\ UNCHANGED <<proc, timer, union, hooks, disk>>

-----------------------------------------------------------------------------
\* The expert union.

InstallUnion ==
  /\ Serving /\ routes = None
  /\ routes' = 0
  /\ hooks' = hooks \cup {"union"}
  /\ UNCHANGED <<proc, trouble, heap, timer, buf, holes, udone, disk>>

\* MUTANT: the window is flushed one call early.
RouteEarly ==
  /\ Serving /\ routes # None /\ routes < MaxCalls /\ ~udone
  /\ routes' = routes + 1
  /\ LET i == routes' - Start
         held == IF buf = None THEN {} ELSE buf
     IN  \/ i <= 0 /\ UNCHANGED <<buf, holes, udone>> /\ NoWrite
         \/ i \in 1..(Window - 1) /\ buf' = held \cup {<<i, 3>>} /\ UNCHANGED <<holes, udone>> /\ NoWrite
         \/ i >= Window /\ FlushUnion /\ UNCHANGED <<buf, holes>>
  /\ UNCHANGED <<proc, heap, timer, hooks>>

\* One routing call: skipped, recorded, lost to an exception before or between the three
\* writes of its row, or past the window. (Every call routes some row.)
Route ==
  /\ Serving /\ routes # None /\ routes < MaxCalls /\ ~udone
  /\ routes' = routes + 1
  /\ LET i == routes' - Start
         held == IF buf = None THEN {} ELSE buf
     IN  \/ i <= 0 /\ UNCHANGED <<buf, holes, udone>> /\ NoWrite
         \/ i \in 1..Window /\ buf' = held \cup {<<i, 3>>} /\ UNCHANGED <<holes, udone>> /\ NoWrite
         \/ /\ i \in 1..Window /\ trouble < MaxTrouble /\ trouble' = trouble + 1
            /\ buf' \in {buf, held} \cup {held \cup {<<i, c>>} : c \in {1, 2}}
            /\ holes' = holes \cup {i}
            /\ UNCHANGED <<udone, disk>>
         \/ i > Window /\ FlushUnion /\ UNCHANGED <<buf, holes>>
  /\ UNCHANGED <<proc, heap, timer, hooks>>

-----------------------------------------------------------------------------
\* The process.

Exit ==
  /\ Serving
  /\ life' = "exiting"
  /\ UNCHANGED <<lives, trouble, heap, timer, union, hooks, disk>>

ExitHandler ==
  /\ life = "exiting" /\ pending = Closed
  /\ \/ /\ "union" \in hooks /\ hooks' = hooks \ {"union"}
        /\ FlushUnion /\ UNCHANGED <<routes, buf, holes, life>>
     \/ /\ "timer" \in hooks /\ hooks' = hooks \ {"timer"}
        /\ FlushTimer(rows, done, n) /\ UNCHANGED <<union, life>>
     \/ hooks = {} /\ life' = "gone" /\ NoWrite /\ UNCHANGED <<union, hooks>>
  /\ UNCHANGED <<lives, heap, timer>>

Kill ==
  /\ life \in {"up", "exiting"} /\ trouble < MaxTrouble
  /\ life' = "killed" /\ pending' = Closed /\ trouble' = trouble + 1
  /\ UNCHANGED <<lives, heap, timer, union, hooks, unwritten, files>>

\* The next engine: a new process, whose dump has a name of its own.
Relaunch ==
  /\ life \in {"gone", "killed"} /\ lives < MaxLives
  /\ life' = "up" /\ lives' = lives + 1
  /\ files' = [files EXCEPT !["dump"] = Absent]
  /\ calls' = 0 /\ wrapped' = FALSE /\ n' = 0 /\ rows' = <<>>
  /\ lastExit' = None /\ done' = FALSE /\ cache' = <<>> /\ missed' = {}
  /\ routes' = None /\ buf' = None /\ holes' = {} /\ udone' = FALSE
  /\ hooks' = {} /\ pending' = Closed /\ unwritten' = {}
  /\ UNCHANGED <<trouble, heap>>

Next ==
  \/ Install \/ Uninstall \/ Reset \/ PassThrough \/ Recycle
  \/ \E stack \in Stacks : CollectiveReturns(stack) \/ CollectiveRaises(stack)
  \/ InstallUnion \/ Route
  \/ Fill \/ Exit \/ ExitHandler \/ Kill \/ Relaunch

Spec == Init /\ [][Next]_vars

-----------------------------------------------------------------------------
\* Properties.

\* The layer of a row is the innermost one on the stack when its collective was called,
\* whatever was cached before and whatever object had the address of the layer then; behind
\* a frame that cannot be read no outer layer is guessed at, nor where there is no interval.
LayersAreTrue == \A k \in 1..Len(rows) : rows[k].kind = rows[k].owner

\* The window has room for what it was given, and for one row even if that is none: the row
\* is there before the rows are counted.
Room == IF Window = 0 THEN 1 ELSE Window

\* The compute gap of a row runs from the last collective that returned through the
\* wrapper, whatever became of the rows in between: only collectives that raised or
\* went by unwrapped lie inside it. The rows are in the order of the calls, and the
\* window holds no more than it should.
GapsAreTrue ==
  /\ \A k \in 1..Len(rows) :
       /\ rows[k].since # None => (rows[k].since + 1)..(rows[k].of - 1) \subseteq missed
       /\ k > 1 => rows[k - 1].of < rows[k].of
  /\ Len(rows) <= Room /\ n >= Len(rows)

\* A worker that is shut down in order leaves the receipt of all it has timed: a write that
\* failed at the close of its window is made good at the exit, unless that fails too. And,
\* unless its one write failed, which nothing makes good, it leaves the dump of the window
\* however early the end came: every routing call is there whole but for those whose
\* recording failed, of which there may be a part.
ShutdownLeavesBoth ==
  life = "gone" =>
    /\ n > 0 /\ "timer" \notin unwritten =>
         \E p \in {"canonical", "ranked"}, rank \in {Rank, None} :
           files[p] = Facts(rows, done, n, rank)
    /\ buf # None /\ "union" \notin unwritten =>
         LET seen == {i \in 1..Window : i <= routes - Start}
             b == files["dump"].rows
         IN  /\ files["dump"].is = "dump" /\ (seen \ holes) \X {3} \subseteq b
             /\ \A row \in b : IF row[1] \in holes THEN row[2] < 3 ELSE row[1] \in seen /\ row[2] = 3

\* The dump has whole rows: "Per call it records (n_rows, n_distinct, n_local_experts)"
\* (fn_expert_union.py:33).
DumpRowsAreWhole == files["dump"].is = "dump" => \A row \in files["dump"].rows : row[2] = 3
=============================================================================
