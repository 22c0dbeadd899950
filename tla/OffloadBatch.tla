---------------------------- MODULE OffloadBatch ----------------------------
(***************************************************************************)
(* The budgets of the KV offloading connector (container/rootfs/           *)
(* fn_offload_batch.py) and the scheduler that stores by them.             *)
(*                                                                         *)
(* The arithmetic is the code's. The scheduler is a patched vLLM that is   *)
(* not in the repository: one request whose KV groups keep cursors of their*)
(* own over a common token position, and a primary tier of so many blocks  *)
(* that grants a store whole or not at all and drains to disk, as the      *)
(* docstrings of the module say.                                           *)
(***************************************************************************)
EXTENDS Integers, FiniteSets, FiniteSetsExt

CONSTANTS
  Group,     \* the KV groups
  Size,      \* tokens in an offloaded block of each group
  Tier,      \* blocks in the primary tier; 0 if the spec does not expose it
  FracNum, FracDen, \* FN_OFFLOAD_STORE_BATCH_FRAC as a fraction
  Tokens,    \* tokens of the request
  Unbounded  \* Python's None

ASSUME SizeAssumption ==
  /\ Size \in [Group -> Nat \ {0}]
  /\ \E g \in Group : \A h \in Group : Size[h] <= Size[g]
ASSUME TierAssumption ==
  Tier \in Nat /\ FracNum \in Int /\ FracDen \in Nat \ {0} /\ Tokens \in Nat /\ Unbounded \notin Int

VARIABLES
  ready,  \* num_offloadable_tokens
  next,   \* next_stored_block_idx of each group
  held    \* blocks of the tier whose write to disk is in flight

offloadVars == <<ready, next, held>>

-----------------------------------------------------------------------------
\* The budgets.

AtLeast(n, m) == IF n < m THEN m ELSE n
AtMost(n, m) == IF n < m THEN n ELSE m

\* int(num_blocks * min(frac, 1.0)), but one at least.
Share(blocks, num, den) == AtLeast((blocks * AtMost(num, den)) \div den, 1)

\* The coarsest group.
Coarsest == CHOOSE s \in {Size[g] : g \in Group} : \A g \in Group : Size[g] <= s

\* int(blocks / (1/s + 1/t + ...)): over the product of the sizes a token has so many keys.
Common == ProductSet({Size[g] : g \in Group})
KeysPerCommon == MapThenSumSet(LAMBDA g : Common \div Size[g], Group)
ASSUME RateAssumption == Common \in Nat /\ KeysPerCommon \in Nat \ {0}
TokensFor(blocks) == (blocks * Common) \div KeysPerCommon

\* MUTANT: no floor of a coarsest block.
StoreBudgetNoFloor ==
  IF Tier = 0 \/ FracNum <= 0 THEN Unbounded ELSE TokensFor(Share(Tier, FracNum, FracDen))

\* MUTANT: the cap is never in force.
StoreBudgetUnbounded == Unbounded

\* resolve_store_batch_tokens: None is unbounded, and the floor is one coarsest block.
StoreBudget ==
  IF Tier = 0 \/ FracNum <= 0 THEN Unbounded
  ELSE AtLeast(TokensFor(Share(Tier, FracNum, FracDen)), Coarsest)

\* resolve_promote_block_budget, in blocks.
PromoteBudget(blocks, num, den) ==
  IF blocks = 0 \/ num <= 0 THEN Unbounded ELSE Share(blocks, num, den)

-----------------------------------------------------------------------------
\* The scheduler.

\* The token position of the group that is furthest behind.
Laggard == CHOOSE p \in {next[g] * Size[g] : g \in Group} :
             \A g \in Group : p <= next[g] * Size[g]

Target == IF StoreBudget = Unbounded THEN ready ELSE AtMost(ready, Laggard + StoreBudget)

Blocks(g) == Target \div Size[g]
Asked == MapThenSumSet(LAMBDA g : AtLeast(Blocks(g) - next[g], 0), Group)

\* A request starts from the prefix that was found in the cache: each group has the
\* blocks of its own size that lie in it.
OffloadInit ==
  /\ ready \in 0..Tokens
  /\ \E p \in 0..ready : next = [g \in Group |-> p \div Size[g]]
  /\ held = 0

\* Decoding and prefilling make more tokens offloadable.
Grow ==
  /\ ready < Tokens
  /\ ready' \in (ready + 1)..Tokens
  /\ UNCHANGED <<next, held>>

\* _build_store_jobs: the tier takes every key or none; if it does, the cursors are
\* assigned outright, be it forward or back. A refusal changes nothing.
Store ==
  /\ held + Asked <= Tier
  /\ next' = [g \in Group |-> Blocks(g)]
  /\ held' = held + Asked
  /\ UNCHANGED ready

\* A write to the secondary tier lands and its block can be evicted.
Drain ==
  /\ held > 0
  /\ held' = held - 1
  /\ UNCHANGED <<ready, next>>

OffloadNext == Grow \/ Store \/ Drain

\* The store is tried at every step of the engine, and the disk is not stuck.
OffloadFairness == WF_offloadVars(Drain) /\ WF_offloadVars(Store)

OffloadSpec == OffloadInit /\ [][OffloadNext]_offloadVars /\ OffloadFairness

-----------------------------------------------------------------------------
\* Properties.

\* No store moves the cursor of any group back, however coarse the groups and however
\* small the budget: what lies between would never be offered again.
CursorsNeverRewind == [][\A g \in Group : next'[g] >= next[g]]_offloadVars

\* Again and again everything that is offloadable has been stored, of every group and
\* through a tier that is smaller than the sequence: no refusal ratchets the ask upward.
StoresCatchUp == []<>(\A g \in Group : next[g] = ready \div Size[g])
=============================================================================
