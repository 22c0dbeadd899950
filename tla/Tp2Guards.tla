----------------------------- MODULE Tp2Guards -----------------------------
(***************************************************************************)
(* The gate in front of a TP=2 launch (host/fn-tp2-guards.py), as          *)
(* fn-cluster-up.sh calls it before anything is loaded and as run-tp2.sh   *)
(* folds its report into the receipt of the night.                         *)
(*                                                                         *)
(* A checkpoint is what the guard reads of it: the numbers of its config,  *)
(* the block size, and for each tensor its stack, layer, part, shape, the  *)
(* shape of its scale and its bytes. The twin has a checkpoint of its own. *)
(* Any crash of the guard is an exit other than 0, like a refusal. ssh and *)
(* the file system are external.                                           *)
(***************************************************************************)
EXTENDS Integers, Sequences, FiniteSets, FiniteSetsExt

CONSTANTS
  Pairs,     \* the two checkpoints that may lie on the two nodes
  Tps,       \* values of FN_TP_SIZE
  Argvs,     \* serve command lines: whether experts are sharded, and the tp they ask for
  Bound, Kv, \* the residency bound and the key/value pool
  None

VARIABLES
  mine, twin, tp, argv, \* what this bring-up finds
  place,    \* the guard: read, ask, assert, report, exit; the bring-up over it: raise, wait;
            \* the receipt of the night: fold; over
  peer,     \* the digest of the twin, or None
  failed,   \* the assertions that failed, or None if the guard gave no verdict
  report,   \* tp2-guards.json: the night it is of and its verdict, or None
  launched, \* the engine has been started over this verdict
  folded    \* what the receipt of this night says of the guard, or None

found == <<mine, twin, tp, argv>>
vars  == <<found, place, peer, failed, report, launched, folded>>

-----------------------------------------------------------------------------
\* What read_config and read_headers can return.

Scalars == {"experts", "heads", "kv", "gdnK", "gdnV", "idxHeads", "idxKv", "idxDim",
            "sharedInter", "interval"}
Positive == Nat \ {0}
WellFormed(c) ==
  /\ c.cfg \in [Scalars -> Nat \cup {None}]
  /\ c.block \in (Positive \X Positive) \cup {None}
  /\ IsFiniteSet(c.tensors)
  /\ \A t \in c.tensors :
       t.shape \in Nat \X Nat /\ t.bytes \in Int /\ (t.part = "expert" => t.expert \in Nat)

ASSUME InputAssumption == Tps \subseteq Int /\ \A p \in Pairs : WellFormed(p[1])

-----------------------------------------------------------------------------
\* Facts read off a header.

Experts(c) == {t \in c.tensors : t.part = "expert"}
Stacks(c) == {t.stack : t \in Experts(c)}
IdsOf(c, s) == {t.expert : t \in {u \in Experts(c) : u.stack = s}}

\* A layer is QSA or GDN by the tensors it carries.
Attention(c) == {t \in c.tensors : t.part \in {"self_attn", "linear_attn"}}
Schedule(c) == {<<t.stack, t.layer, t.part>> : t \in Attention(c)}
Derivable(c) ==
  /\ Schedule(c) # {}
  /\ \A k, l \in Schedule(c) : (k[1] = l[1] /\ k[2] = l[2]) => k = l

\* The stack with the most layers, of which the config speaks.
MainStack(c) ==
  CHOOSE s \in {k[1] : k \in Schedule(c)} :
    \A r \in {k[1] : k \in Schedule(c)} :
      Cardinality({k \in Schedule(c) : k[1] = r}) <= Cardinality({k \in Schedule(c) : k[1] = s})

\* The scalars, the tensors but for their bytes, and the schedule.
Digest(c, n) ==
  [tp |-> n, cfg |-> c.cfg, tensors |-> {[t EXCEPT !.bytes = 0] : t \in c.tensors},
   schedule |-> Schedule(c)]

\* What read_config, require and the arithmetic need in order not to raise.
Evaluable(c, n) ==
  /\ n > 0 /\ Derivable(c) /\ c.block # None
  /\ \A k \in DOMAIN c.cfg : c.cfg[k] # None \/ k = "interval"
  /\ c.cfg.kv % n = 0 => c.cfg.kv # 0
  /\ (c.cfg.gdnK % n = 0 /\ c.cfg.gdnV % n = 0) => c.cfg.gdnK # 0
  /\ \A s \in Stacks(c) : Cardinality(IdsOf(c, s)) \div n > 0
  /\ LET layers == {k[2] : k \in {l \in Schedule(c) : l[1] = MainStack(c)}}
     IN  layers = 0..(Cardinality(layers) - 1)

\* shard_plan: whole experts by range, the last rank taking what is beyond.
Owner(c, n, t) ==
  Min({t.expert \div (Cardinality(IdsOf(c, t.stack)) \div n), n - 1})
Owned(c, n, r) == {t \in Experts(c) : Owner(c, n, t) = r}
Replicated(c) == {t \in c.tensors : t.part \notin {"expert", "table"}}
Bytes(ts) == MapThenSumSet(LAMBDA t : t.bytes, ts)

-----------------------------------------------------------------------------
\* The assertions.

A1(c, n) == c.cfg.experts % n = 0

\* The shared expert is in every MoE layer and could not be cut if one tried.
A2(c, n) ==
  LET layers(p) == {<<t.stack, t.layer>> : t \in {u \in c.tensors : u.part = p}}
      x == c.cfg.sharedInter
  IN  /\ layers("expert") # {} /\ layers("expert") \subseteq layers("shared")
      /\ ~(x % n = 0 /\ (x \div n) % c.block[1] = 0)

A3(c, n) == c.cfg.heads % n = 0 /\ c.cfg.heads \div n > 0

\* Whole groups of queries over their key/value heads on each rank.
GroupsWhole(q, k, n) == k % n = 0 /\ q % k = 0 /\ (q \div n) % (k \div n) = 0

A4(c, n) ==
  LET x == c.cfg
      fused == {t.shape[1] : t \in {u \in c.tensors : u.leaf = "index_qk_proj"}}
  IN  /\ GroupsWhole(x.heads, x.kv, n)
      /\ x.idxHeads % n = 0 /\ (x.idxHeads * x.idxDim) % n = 0
      /\ fused = {(x.idxHeads + x.idxKv) * x.idxDim}

A5(c, n) == c.cfg.gdnV % n = 0 /\ GroupsWhole(c.cfg.gdnV, c.cfg.gdnK, n)

Column == {"q_proj", "k_proj", "v_proj", "gate_proj", "up_proj", "in_proj_qkv", "in_proj_a",
           "in_proj_b", "in_proj_z", "index_qk_proj"}
Row == {"o_proj", "out_proj", "down_proj"}
Sliced(c) == {t \in c.tensors : t.part \notin {"expert", "table"} /\ t.leaf \in Column \cup Row}
Axis(t) == IF t.leaf \in Column THEN 1 ELSE 2
CeilDiv(a, b) == (a + b - 1) \div b

\* MUTANT: the cut is even, but need not be at the edge of a block.
A6Even(c, n) ==
  LET gridded == {t \in c.tensors : t.fp8 /\ t.scale # None}
  IN  /\ gridded # {} /\ Sliced(c) # {}
      /\ \A t \in gridded : t.scale = <<CeilDiv(t.shape[1], c.block[1]), CeilDiv(t.shape[2], c.block[2])>>
      /\ \A t \in Sliced(c) : t.shape[Axis(t)] % n = 0

A6(c, n) ==
  LET gridded == {t \in c.tensors : t.fp8 /\ t.scale # None}
      split(d, blk) == d % n = 0 /\ (d \div n) % blk = 0
  IN  /\ gridded # {} /\ Sliced(c) # {}
      /\ \A t \in gridded : t.scale = <<CeilDiv(t.shape[1], c.block[1]), CeilDiv(t.shape[2], c.block[2])>>
      /\ \A t \in Sliced(c) :
           /\ split(t.shape[Axis(t)], IF t.fp8 THEN c.block[Axis(t)] ELSE 1)
           /\ t.scale # None => split(t.scale[Axis(t)], 1)

\* The derived schedule of the main stack is the one declared, if one is, and follows
\* the interval, if there is one.
A7(c) ==
  LET main == {k \in Schedule(c) : k[1] = MainStack(c)}
      full(i) == (i + 1) % c.cfg.interval = 0
  IN  /\ {k[3] : k \in main} = {"self_attn", "linear_attn"}
      /\ c.types # None => {<<k[2], k[3]>> : k \in main} = c.types
      /\ c.cfg.interval # None => \A k \in main : k[3] = "self_attn" <=> full(k[2])

A8(c, n, p) == p # None /\ p = Digest(c, n)

\* MUTANT: the size on the command line is not compared.
S1Sharded(n, v) == v.sharded

S1(n, v) == v.sharded /\ v.tp = n

S2(c, n) ==
  LET count(s, r) == Cardinality({t \in Owned(c, n, r) : t.stack = s})
  IN  /\ Cardinality(Stacks(c)) >= 2
      /\ \A s \in Stacks(c) : \A r \in 0..(n - 1) : count(s, r) = count(s, 0) /\ count(s, r) > 0

\* Distinct digests, nothing owned by all, nothing owned twice. One rank fails this.
S3(c, n) ==
  LET owned == {Owned(c, n, r) : r \in 0..(n - 1)}
  IN  /\ Cardinality(owned) = n
      /\ {t \in Owned(c, n, 0) : \A r \in 1..(n - 1) : t \in Owned(c, n, r)} = {}
      /\ \A r, q \in 0..(n - 1) : r # q => Owned(c, n, r) \cap Owned(c, n, q) = {}

Predicted(c, n) == Bytes(Experts(c)) \div n + Bytes(Replicated(c)) + Kv
S4(c, n) == Predicted(c, n) <= Bound

\* run_assertions names every one that fails.
Failures(c, n, v, p) ==
  LET ok == [A1 |-> A1(c, n), A2 |-> A2(c, n), A3 |-> A3(c, n), A4 |-> A4(c, n), A5 |-> A5(c, n),
             A6 |-> A6(c, n), A7 |-> A7(c), A8 |-> A8(c, n, p),
             S1 |-> S1(n, v), S2 |-> S2(c, n), S3 |-> S3(c, n), S4 |-> S4(c, n)]
  IN  {a \in DOMAIN ok : ~ok[a]}

-----------------------------------------------------------------------------
\* One bring-up.

Reports(when) == {[of |-> when, ok |-> v] : v \in BOOLEAN}
Torn == [of |-> "torn", ok |-> FALSE]

ASSUME NoneAssumption == None # {} /\ None \notin Reports("tonight")

Init ==
  /\ \E p \in Pairs : mine = p[1] /\ twin = p[2]
  /\ tp \in Tps /\ argv \in Argvs
  /\ report \in {None, Torn} \cup Reports("earlier")
  /\ place = "read" /\ peer = None /\ failed = None
  /\ launched = FALSE /\ folded = None

\* Config and headers; what cannot be read raises, before the twin is asked.
Read ==
  /\ place = "read"
  /\ place' \in {"ask", "exit"}
  /\ UNCHANGED <<found, peer, failed, report, launched, folded>>

\* The twin derives the digest from its own copy, if ssh and the copy allow it.
AskPeer ==
  /\ place = "ask"
  /\ peer' \in {None} \cup (IF Derivable(twin) THEN {Digest(twin, tp)} ELSE {})
  /\ place' = "assert"
  /\ UNCHANGED <<found, failed, report, launched, folded>>

\* The assertions, or the exception that one of them ends in.
RunAssertions ==
  /\ place = "assert"
  /\ IF Evaluable(mine, tp)
     THEN failed' = Failures(mine, tp, argv, peer) /\ place' = "report"
     ELSE place' = "exit" /\ UNCHANGED failed
  /\ UNCHANGED <<found, peer, report, launched, folded>>

\* MUTANT: a twin that did not answer does not count against the status.
WriteReportUnpeered ==
  /\ place = "report"
  /\ report' \in {[of |-> "tonight", ok |-> failed \subseteq {"A8"}], report, Torn}
  /\ place' = "exit"
  /\ UNCHANGED <<found, peer, failed, launched, folded>>

\* An OSError, before the file is opened or while it is filled, does not change the
\* verdict.
WriteReport ==
  /\ place = "report"
  /\ report' \in {[of |-> "tonight", ok |-> failed = {}], report, Torn}
  /\ place' = "exit"
  /\ UNCHANGED <<found, peer, failed, launched, folded>>

\* set -e of the bring-up: it goes on only after an exit of 0.
Exit ==
  /\ place = "exit"
  /\ place' = IF failed = {} THEN "raise" ELSE "over"
  /\ UNCHANGED <<found, peer, failed, report, launched, folded>>

\* The engine is started once the reaps, the pinned caches, the image, the containers and
\* the two-GPU gate have gone well; any of them may end the bring-up before that.
Raise ==
  /\ place = "raise"
  /\ \/ launched' = TRUE /\ place' = "wait"
     \/ place' = "over" /\ UNCHANGED launched
  /\ UNCHANGED <<found, peer, failed, report, folded>>

\* The engine answers inside the timeout, or the bring-up fails after all.
AwaitServe ==
  /\ place = "wait"
  /\ place' \in {"fold", "over"}
  /\ UNCHANGED <<found, peer, failed, report, launched, folded>>

\* After a bring-up that ended well the receipt of the night takes over what lies in the
\* state directory.
Fold ==
  /\ place = "fold"
  /\ folded' = report
  /\ place' = "over"
  /\ UNCHANGED <<found, peer, failed, report, launched>>

\* The guard, the bring-up or run-tp2.sh is killed where it stands.
Kill ==
  /\ place # "over"
  /\ place' = "over"
  /\ UNCHANGED <<found, peer, failed, report, launched, folded>>

Next ==
  \/ Read \/ AskPeer \/ RunAssertions \/ WriteReport \/ Exit
  \/ Raise \/ AwaitServe \/ Fold \/ Kill

Spec == Init /\ [][Next]_vars

-----------------------------------------------------------------------------
\* Properties: what the engine will do with the bytes, element by element.

\* The rank of element i of n, cut evenly over the ranks the command line asks for.
RankOf(i, n) == (i * argv.tp) \div n

\* The indexer's fused projection is not cut evenly but by component: its query rows, which
\* come first, are dealt out, and a key head that cannot be is copied to every rank.
Fused(c) == {t \in Sliced(c) : t.leaf = "index_qk_proj"}
QueryRows(c) == c.cfg.idxHeads * c.cfg.idxDim
CutRows(c, t) == IF t \in Fused(c) THEN QueryRows(c) ELSE t.shape[Axis(t)]

\* The cut before rank r is between two elements, and between two blocks of the scale.
CutIsAtEdge(c, t, r) ==
  \E edge \in 0..CutRows(c, t) :
    /\ edge * argv.tp = r * CutRows(c, t)
    /\ t.fp8 => edge % c.block[Axis(t)] = 0

\* Every expert the config names is there, in every stack.
Named(c) == \A s \in Stacks(c) : IdsOf(c, s) = 0..(c.cfg.experts - 1)
\* The experts of a stack are equally large.
Uniform(c) == \A t, u \in Experts(c) : t.stack = u.stack => t.bytes = u.bytes

\* A launch means that the engine's ranks own every expert of both stacks exactly once
\* and in equal shares, that the guard's plan is the engine's, and that every MoE layer
\* has its shared expert. Where the config and the tensors name other experts the guard
\* does not notice, see the README.
EveryExpertHasOneOwner ==
  launched /\ Named(mine) =>
    LET c == mine
        held(r) == {t \in Experts(c) : RankOf(t.expert, c.cfg.experts) = r}
        share(s, r) == Cardinality({t \in held(r) : t.stack = s})
    IN  /\ Cardinality(Stacks(c)) >= 2
        /\ \A r \in 0..(argv.tp - 1) :
             /\ held(r) = Owned(c, tp, r)
             /\ \A s \in Stacks(c) : share(s, r) > 0 /\ share(s, r) = share(s, 0)
        /\ \A t \in Experts(c) : \E u \in c.tensors :
             u.part = "shared" /\ u.stack = t.stack /\ u.layer = t.layer

\* And what each rank holds, the key/value pool included, fits the bound.
RanksFit ==
  launched /\ Named(mine) /\ Uniform(mine) =>
    \A r \in 0..(argv.tp - 1) :
      Bytes({t \in Experts(mine) : RankOf(t.expert, mine.cfg.experts) = r})
        + Bytes(Replicated(mine)) + Kv <= Bound

\* A launch puts every expert on one rank, in equal shares that fit its memory.
ExpertsAreOwnedOnce == EveryExpertHasOneOwner /\ RanksFit

\* A launch means that each query head lies on the rank of its key/value head, in equal
\* numbers, the same for the GDN heads; that the rows of an indexer head lie together and
\* the fused tensor is the query rows and the key rows of the config; that every other
\* tensor is cut at an edge of a block of its scale; and that both nodes have the same
\* tensors and layers.
SlicesAreWhole ==
  launched =>
    LET c == mine
        together(q, k) ==
          /\ \A i \in 0..(q - 1) : RankOf(i, q) = RankOf(i \div (q \div k), k)
          /\ \A r \in 0..(argv.tp - 1) :
               Cardinality({i \in 0..(k - 1) : RankOf(i, k) = r}) * argv.tp = k
    IN  /\ together(c.cfg.heads, c.cfg.kv) /\ together(c.cfg.gdnV, c.cfg.gdnK)
        /\ together(QueryRows(c), c.cfg.idxHeads)
        /\ \A t \in Fused(c) : t.shape[1] = QueryRows(c) + c.cfg.idxKv * c.cfg.idxDim
        /\ \A t \in Sliced(c) \ Fused(c), r \in 1..(argv.tp - 1) : CutIsAtEdge(c, t, r)
        /\ Schedule(c) = Schedule(twin)
        /\ {[t EXCEPT !.bytes = 0] : t \in c.tensors}
             = {[t EXCEPT !.bytes = 0] : t \in twin.tensors}

\* The same of every tensor: "require every sharded boundary to land on a block edge"
\* (fn-tp2-guards.py:424).
EveryCutIsAtABlock ==
  launched => \A t \in Sliced(mine), r \in 1..(argv.tp - 1) : CutIsAtEdge(mine, t, r)

\* What is on record is true wherever the night ended: nothing was launched over a refusal
\* of tonight or without a verdict, a pass of tonight was given with the twin's own digest
\* and every assertion in force, in the state directory and in the receipt alike, and only
\* a night that was launched has a receipt. (A pass without a launch may remain: the
\* bring-up can end after the guard.)
RecordIsTonights ==
  LET pass == [of |-> "tonight", ok |-> TRUE]
      refusal == [of |-> "tonight", ok |-> FALSE]
  IN  /\ launched => report # refusal /\ Failures(mine, tp, argv, peer) = {}
      /\ pass \in {report, folded} => peer = Digest(twin, tp) /\ Failures(mine, tp, argv, peer) = {}
      /\ folded # None => launched /\ folded # refusal

\* The receipt folds no other night's report: "the two pre-launch records the bring-up
\* wrote" (run-tp2.sh:96).
FoldedIsTonights == folded \notin Reports("earlier")
=============================================================================
