# flashnext: a TLA+ verification of the pair, its benches and its receipts

flashnext serves one large model over two twin machines joined by Thunderbolt
cables. The repository holds the engine patches, the images, and the scripts
that stand the pair, measure it overnight without anybody watching, and bank
what was measured as *receipts* that a gate grades in the morning. Its own
logic is in those scripts: two processes that must open one device in a fixed
order, a service that borrows another service's memory and must give it back, a
bench that keeps reconfiguring what it measures, a store of receipts that must
survive the deletion of the directory they were written in. They run over ssh,
podman, systemd and a kernel driver, any of which can fail at any step, and the
tests of the repository exercise their functions one at a time. This directory
models those protocols, model-checks them, and proves part of them.

- [1 Inventory](#1-inventory)
- [2 Modules and how they correspond to the code](#2-modules-and-how-they-correspond-to-the-code)
- [3 What each run checks](#3-what-each-run-checks)
- [4 What is proved](#4-what-is-proved)
- [5 Where code and documents disagree](#5-where-code-and-documents-disagree)
- [6 What is only model-checked, and what is not modelled](#6-what-is-only-model-checked-and-what-is-not-modelled)
- [7 Plan](#7-plan)

Run a model with `tlc -config <X>.cfg <module>`, a proof with `tlapm <module>.tla`.
`PROJECT.json` is the index: components, runs, the source lines of every
definition, one mutant per checked property, findings, hazards and theorems.

## 1 Inventory

Every part the repository names, with its state, what it does, whom it talks to
and what makes it right. **M** is modelled, **p** partly, **-** not.

| part | state | operations and interaction | hard behaviour | what makes it correct |
|---|---|---|---|---|
| **M** USB4 stream first light, `bench/usb4stream-bench.py` | two processes' places, armed alarms, the open devices, the frames in flight, the receipt | the coordinator resolves the hardware, probes and launches the peer over ssh, waits at an *open barrier* for its marker, opens, runs the schedule of turns, collects the peer's report and banks one receipt | two processes and a lossy first frame, re-enumeration between check and open, blocking reads without a timeout of their own, loss of ssh, kill, retry | no frame before the far side is open; one cable; schedules in step and never both blocked; a receipt that is true; each launch one shot; every run ends and the worker's device is released |
| **M** pair service, `host/fn-cluster-up.sh`, `fn-cluster-down.sh`, `systemd/flashnext-pair.service` | containers, ranks and serve on two nodes, the unit's state | bring-up in numbered steps with an EXIT trap, best-effort teardown, ExecStart/Stop/StopPost | kill at any step, wire lost in the middle of a remote command, commands that hang, stranded ranks | a serve is launched over a reaped pair; nothing is left when the unit is inactive but where the removal failed; a script ends if its commands do or the unit waits for it |
| **M** proxy arbitration, `host/fn-swap-arbitrate.sh` | the proxy unit on each node, `swap-arbitration.json` | `stop` probes, stops and records; `restore` reads the record and restarts | answers lost before or after the effect, refused stops, repeated stops, a proxy that is starting, torn and outdated records | the proxy runs under the serve in named cases only; what was taken is on record; what was down stays down if that was recorded; the record says what the restore achieved |
| **M** bench matrix, `bench/run-matrix.sh` | the serve and what the script believes of it (`CURRENT_ARM`), the rows, the receipt | A-B-B-A schedule of two arms over one serve, warmup, sweep, serial replay of divergent cells, interim and final receipt | serve that dies, fails to boot or survives its kill; the speculative arm given up half-way; kill in the reduction | a row names and has warmed its arm; drift cancels; an accepted receipt is complete; divergences are replayed |
| **M** receipt store and gate, `scripts/receipt-restore.py`, `receipts-verify.py` | three copies of each receipt: HEAD, lane, durable; each graded or quarantined | restore of receipts equal but for their `ts`, mirror, `--write`; the gate reads the lane's copy, else the durable one | non-atomic writes, kill and OS errors between files, several runs in a lane | purity; complete mirror; never re-stamped; a failure never reaches the gate |
| **p** night runner and preflight, `scripts/run-tp2.sh`, `host/fn-preflight.sh` | the step it is at | preflight, bring-up, four measuring steps, closing restore | `set -e` exits between the receipt and the restore | a step's failure costs that step |
| **M** streaming bench client, `bench/fn-stream-client.py` | worker threads, results and errors under a lock, two readings of the engine's histograms | a barrier releases the workers, each drains its slice; two metric scrapes bracket them; each stream is reduced to a fingerprint | requests and scrapes that fail, an engine that counts late, slices drained unevenly, a barrier nobody passes | all requests accounted for once; a published split is measured; what equal and unequal fingerprints mean; the call ends |
| **p** transport selection and environment, `host/fn-env.sh`, `fn-image-ship.sh` | shell environment | choice of interface and rung; `reap_serve_node` (in the pair model) | probes that lie by omission | - |
| **p** container instruments, `container/rootfs/fn_*.py` | rows, cursor and classification cache of the all-reduce timer; the buffer of the expert union; the budgets of the offload batch; counters of the sync trace (not modelled) | hooks inside the serving engine that skip a warmup, record a window and write a file when it closes or the process exits; budgets the scheduler stores by | exceptions between call and row and in the middle of a row, objects that raise when looked at, addresses reused by other objects, torn and repeated writes, kill and exit in the middle; blocks of unequal size over a small tier | a row is true of its collective; an orderly exit leaves the files; no cursor moves back; everything offloadable is offloaded |
| **M** TP=2 guards, `host/fn-tp2-guards.py` | the report of the night | twelve assertions over a checkpoint's header, the command line and the twin's digest; exit status obeyed by the bring-up; the report folded into the receipt | divisions that are even but not whole, twins that differ, a guard that dies, a report that cannot be written, a bring-up that ends after the guard | a launch cuts no group of heads and, the fused indexer tensor apart, no block, puts every expert on one rank and fits the bound; what is on record of tonight is true |
| **-** socket and gloo benches | - | one-shot measurements | - | numbers |
| **-** image, engine and module builds | files | downloads, patches, compilers | - | - |
| **-** checkpoint staging, proxy model | files and hashes | copy and verify, build a small checkpoint | interrupted copy | - |
| **-** engine patches, probes, documents, banked results | - | - | - | - |

How the parts interact. `run-tp2.sh` and the unit both call `fn-cluster-up.sh`,
which calls the arbitration, reaps earlier serves and launches the serve.
`run-matrix.sh` takes over the serve that stands and relaunches it per arm,
sharing `reap_serve_node` with the bring-up. The USB4 bench refuses to open a
cable whose hardware a serve may be using. `run-matrix.sh` runs the stream client once per
cell and reads its rows and fingerprints; the instruments live in the engine that the bring-up
launches; the guards stand in front of that launch. All of them bank receipts, and most
end in `receipt-restore.py`. There is no lock between any two of them.

The full list of hazards, each at its line with the property that covers it or
the reason none does, is in `PROJECT.json`.

## 2 Modules and how they correspond to the code

### Usb4Stream

Two sides, `"C"` (`run_coordinator`) and `"P"` (`run_peer`); `pc[s]` is the
place of each process and every place of the code at which something is read,
written, opened or armed is an action of its own. `at`, `half` and `done` are
the cursor of a side in `Turns`, the schedule both sides derive from the same
constants (`_schedule`): handshake, round trips, exchanges, throughput each way,
goodbye. `Advance` moves one frame, so a message longer than the ring really
blocks its writer. The device is external: `OpenRaises`, `CloseDevice`, `Move`
and the ring behind `Advance` are what the bench says it relies on (see the module's head).
`hw` is what sysfs would say *now*; `local` and `probe` are what the code read
earlier, and `Move` may change `hw` in between, which is the whole point.
`alarm` is the armed `SIGALRM`; the disjuncts that raise on it are guarded by it.
Opening takes three places: `"open"`, `"opened"` once `os.open` has returned with the alarm still armed
and the phase still `"open"`, and the handshake. `held` says whether the descriptor has got to the `finally` that closes it; an
alarm at `"opened"` loses it. `pipe` and `stash` are the peer's stdout and the lines the barrier consumed
(`_drain_to_marker`, `kill_peer`), and `heard` whether `kill_peer` got to the end of the pipe: when its second wait
runs out too it returns nothing at all. `receipt` passes through a torn value between
truncation and fill. Environment: loss of ssh, kill of either process (`Killed`),
re-enumeration, a harness that launches again (`MaxRuns`). One bound is a restriction and not a number:
`NoOrphan` leaves out a launch beside a peer that outlived its coordinator. Nothing in the bench waits for that peer; two
openers of one device are a matter of the driver, which is not in the repository.

### PairService

`job`, `stage` and `node` place the one running script; scripts do not overlap
(hazard `run-tp2.sh:47` says what that leaves out). The stages are the numbered
steps of the bring-up (`Guards`, `Reap`, `Boxes`, `Ray`, `Launch`, `Wait`), the
three of the arbitration's stop (`Probe`, `Act`, `Record`), its `Restore`, and
the teardown (`Clean`, `Remove`). `Fail` is `set -e` with the EXIT trap: it enters
the restore with `job = "trap"`. `Wire(o)` is one remote command: it ran and
answered, it ran and the answer was lost, or it did not run. `record` is the
arbitration file per node; `notes` what the running stop has gathered and not
yet written. A proxy may be `"starting"` (systemd's activating), which the probe does not count as running. `Hang` is a
command that does not return, `stuck` says that one does not, and `Timeout` is TimeoutStartSec or TimeoutStopSec of the unit.
`Return` is the exit of a script, which the unit turns into
ExecStopPost. Observers record what the properties need to remember and no action of the code reads them: `taken`
(proxies the stop took down), `arrived` (what the last probe found, whether or not its answer came back), `forgot` (nodes whose
entry of the record was overwritten or lost), `stale` (the record is not of this bring-up), `touched` (started by somebody
after the probe), `unheard` (a stop that did not answer), `missed` (nodes whose `podman rm` failed or never ran).

### BenchMatrix

One script over one serve. `serve` is what stands on the pair, `current` is
what the script believes (`CURRENT_ARM`), and the two are never compared by the
code. `serve` says whether the API server is up, whether its ranks live, and whether it is warm; one that has lost its ranks, or an old one
that outlived the reap and keeps the port, is `Hollow`: it lists its model and completes nothing (`Completes`). `Hang` is one of the commands without a time limit
(`curl` at a serve that accepts and never answers, bare ssh), after which the script is at `"hung"`. The
loops of phases A and C are one pair of actions (`TakeTurn`, `EndTurn`) over
`Turns`, `Turn` and `DepthsDue`, since both skip, stand the arm, degrade and fail in the
same way. `StopOldServe`, `WaitReady` and `Warmup` are `serve_arm`; `ServeFailed` is what
the callers make of its return value. A row keeps, beside what the CSV says, the
arm that answered and whether it was warm: the two observers of `Row`. `Facts` is
the derivation of the receipt from the rows and `Gate` is `_bench`. The numbers in
the cells, the medians, the identity oracle and the telemetry do not steer the
script and are left out; fingerprints do, and are a small set plus `Silence`. An earlier night's `bench.json` may lie in the
receipt's place at the start (`EarlierReceipt`): the script removes its work files, and not that.

### ReceiptStore

`head`, `repo` and `durable` give the content of each file, a file being a place
(graded or failed) and a step. A content is absent, torn or a receipt with status,
facts and `ts`; `SameFacts` is `strip_ts(a) == strip_ts(b)`. A runner is a sequence of
steps (`Plan`); `Measure` and `Fill` are a step's own writer, `WriteDurable` and `WriteRepo`
the `--write` path, `AfterStep` the exit status of a step under `set -e`; `RestoreFile`,
`RestoreDone`, `MirrorFile`, `MirrorDone` the closing script, file by file in any order.
A lane is made from HEAD and dropped. `Graded`, `Violates` and `Present` are the gate.

### StreamClient

One call. `main` is the place of the main thread, `place[w]` and `slice[w]` those of the workers,
and `Release` is `threading.Barrier(workers + 1)`. A histogram is the *set of samples* it has counted, so
`Delta` is the difference of two scrapes with the identity of what was measured, and "a lifetime mean" is a
set that contains `Past`. A scrape records the samples and which histograms it `shows`; an engine has a set of such sets, so the first
scrape may lack one the second has, and then the baseline of that one is zero, as in the code. `Count` moves a finished request into the histograms
some time after its answer: the engine owes the client no order. `Extracted` and `TokensOf` are `_extract_chunk_tokens`, which drops
empty strings, and the loop of `stream_one_request` around it. `Fingerprint` is what `fingerprint_of` gives to sha256: each item as a tag, its
digits or characters, and the end mark, joined with nothing escaped. Characters are numbers, the tags and the mark are numbers too, the mark one that a string
may contain as well, and an id is one symbol. Sha256 itself is taken to be one-to-one on what it is given. The engine is external: a member of
`Engines` has one of four `Shapes` in which it sends a `Chunk`, the ways it may cut a completion, the string of each token, and what its
scrapes may show. `InOrder` is a list comprehension over the indices of the batch. Clocks, prompts, and
the parsing of the exposition format are left out.

### Instruments

One engine worker with the two recorders that share a life cycle. A collective is its number: what is
recorded of it is which it is (`of`), since which earlier one the compute gap runs (`since`) and its layer
(`kind`). `heap` gives the object at each address and `Recycle` reuses an address, which `cache`
(`_site_cache`) must not confuse; an object held by the cache is not freed, as its entry keeps a reference.
`Frame` is what `_site_kind` does at one frame of the stack, and `Walk` is `Frame` from the innermost frame outwards; an object that
raises when it is looked at ends the walk, and the row is kept as unknown. An interval of zero or less records no layer at all.
`CollectiveReturns` is one call through the wrapper, warmup, row, window end and swallowed exception
included; `CollectiveRaises` is one whose own exception goes through. `Route` is a routing call of the
union: its row takes three writes, so a row of the buffer is kept as the number of columns that were written when an exception came, and
its dump is tried once, `_done` being set before. Writing is `Opened`, then `Fill`, with a torn file in between. `ExitHandler` runs the `atexit` hooks in either order and `KnownRank` is what
`_rank` can still find out then.

### OffloadBatch

The arithmetic of `fn_offload_batch.py` (`StoreBudget`, `PromoteBudget`, `TokensFor`) over exact rationals, where the
code has floats, and the scheduler those budgets are for. The scheduler is a patch of an engine that is
not in the repository; it is modelled from what the module's docstrings say of it and marked external:
groups with cursors of their own over one token position, a tier that takes a store whole or not at all,
cursors *assigned* from the target and thus able to move back. Its specification is `OffloadInit`, `OffloadNext`,
`OffloadSpec`, since its theorems share a module with those of the other instruments.

### Tp2Guards

One bring-up from the header to the receipt. A checkpoint is the scalars of its config, the block of its
quantization, and a set of tensors with stack, layer, part, leaf, shape, shape of scale, expert and bytes. `A1` to
`A8` and `S1` to `S4` are the assertions, `Evaluable` what must hold for them not to raise, `Failures` the list
`run_assertions` returns. `AskPeer` is the digest over ssh, `WriteReport` may fail before or in the middle,
`Exit` is what `set -e` makes of the status. What is then still ahead of the launch (reaps, caches, image, containers, the two-GPU
gate) may end the bring-up in `Raise`, the serve may not answer (`AwaitServe`), `Fold` is `fold_state` of `run-tp2.sh`, and `Kill` ends
any of it where it stands. The properties are not in terms of
these assertions: they ask where each head, block and expert lies. `RankOf` cuts evenly what the engine cuts evenly; the indexer's
fused tensor it cuts by component (`QueryRows`, `CutRows`): the query rows are dealt out by heads, and the key rows follow them whole.

### OneShot

One launch as the head of `usb4stream-bench.py` promises it, in three variables: whether a run is going on, which
devices *it* has opened, what is banked. `Begin` starts from nothing opened, `Abandon` is a kill, and nothing begins over something
banked. `Usb4Stream!Shot` instantiates it with `running` as "the coordinator is between
guard and end", `opens` as the sides that hold a wire, `banked` as the outcome in the receipt file; it is the
`PROPERTY` `ImplementsOneShot` of `usb4_pair` and a theorem. It is a promise about each launch. That a second
launch never opens again, which the head of the bench says too, is false after a kill with nothing banked (section 5).

The MC modules only give constants their values.

## 3 What each run checks

| run | states | question and bounds |
|---|---|---|
| `usb4_pair` | 0.68 M | two launches; two cables in four numberings; one re-enumeration; a ring of two frames with an exchange that fills it and a throughput phase that overruns it; every alarm, a kill, a lost ssh |
| `usb4_mismatch` | - | violation, see section 5 |
| `pair_service` | 2.1 M | two calls by unit or runner, two rosters of proxies, a stranded serve on the worker, refusals there, one kill or failed write, one wire loss or command that hangs, one touch by somebody else |
| `pair_reup` | - | violation |
| `bench_matrix` | 0.41 M | the real schedule (three loads an arm) over two depths, from any serve found, either setting of the force knob and an earlier receipt or none; serves that crash or turn hollow, a command that hangs, a kill |
| `bench_degraded` | - | violation |
| `stream_client` | 0.39 M | one probe; three requests for two workers, one for three, and the clamped 0 for 0; engines that differ in chunk shape, in how they cut a completion, in strings that are empty or hold the end mark, and in the histograms a scrape shows |
| `instruments` | 9.2 M | a warmup of one, a window of two, four calls a process, two processes, a cache of one object over two addresses, stacks with a layer, none and an object that raises, one failure or odd event |
| `tp2_guards` | 0.11 M | a sound checkpoint and some ninety variants on one or both nodes, FN_TP_SIZE 0 to 3, three command lines, any earlier report, a kill or a failed bring-up at any place |
| `offload_batch` | 1,546 | groups with blocks of 4, 2 and 3 tokens, a tier of ten blocks, a quarter of it a step, 24 tokens, any cached prefix |
| `receipts` | 1.9 M | two lanes, three runs of two runners (one with a deferring step, one with `--write`), tracked receipts or none, one kill or OS error |
| `receipts_stale` | - | violation |

**usb4_pair.** `NoEarlyLoss`: the open barrier keeps the coordinator's first
frame from falling into the peer's closed device. `NoWireDeadlock`: on one wire the
two sides are never both blocked. `FramesStayInTurn`: frames carry no type, yet every one is
read as the one it was written as, in its turn and in its place there. `OpensFaceEachOther`: without movement since the
resolution the guard admits one cable only. `ReceiptTruthful`: a skip opened
nothing, an abort before the open left the coordinator's device alone, one after it did not, an ok ran it all. An abort typed `open` may
have happened on either side of `os.open`, so it says nothing of the device.
`PeerEvidenceKept`: a report the barrier consumed still reaches the receipt, unless `kill_peer` never got to the end of the pipe; then
nothing of the peer does (section 5). `ImplementsOneShot`: every launch is the one shot of `OneShot`, and a launch over a receipt, torn or
whole, touches nothing. It says nothing across launches. `RunEnds`, `WorkerReleased` as they say. Why the bounds are enough: the
schedule is data-independent, so one iteration of each size meets every pair of
adjacent turns; a ring of two is the smallest in which the largest exchange fits
and a stream does not; one re-enumeration suffices to separate any check from
its use; a second launch is what meets a receipt.

**pair_service.** `LaunchIsClear` speaks of the moment of launch:
no earlier serve on either node, and a proxy runs in three cases only: somebody started it since the probe, the probe found it starting, or
its stop did not answer. The head of the script says that it fails closed, which in the last two cases it does not (section 5). `TakenOnRecord`: what a stop took
down is on record, so a later restore can act. `RestoreTellsTheTruth`: a completed teardown has put it back or says it has not.
`DownStaysDown`: a proxy that was down on arrival stays down if that bring-up got to write its record; before that, the restore acts on the
record of an earlier one. `NoRanksStranded`: when the unit goes inactive, each node whose `podman rm` ran and succeeded, in
a teardown not cut short, has neither container nor serve left, whatever happened on the other. `ScriptsEnd`: a script ends, unless a command
of it hangs and only a runner waits. Each exception is a window in which the code cannot do better (a kill between the stop and its
record) or does not (section 5), and each is named by an observer that is set by the event and not read off the outcome. Two calls are
enough to meet a pair already up and a record already there; the two rosters are both proxies running, and one down with none on
the worker; the stop of the second twin may be refused after that of the first.

**bench_matrix.** `RowsAreComparable` is what the comparison of the arms rests on: what is in a row was
measured on the arm it names (`RowsNameTheirArm`), warmed since launch (`RowsAreWarm`), with the exceptions the force
knob is for; no cell is counted twice; and the sums of the schedule positions of the arms differ by at most one
(`DriftCancels`), which a blocked or an A-B-A-B schedule fails. The script asks only for Ray's GPU count after its reap and ignores what
the reap says, so old serves do survive it here. `GateMeansComplete`: a receipt of this run that is accepted
has every depth of every load of every arm it names; it says nothing of an earlier night's, which a run that dies leaves to be
accepted again. `SweepIsBanked`: from the sweep's end a kill anywhere but inside one of the two writes leaves a readable receipt that
agrees with the rows. `SuspectsReplayed`: every cell a finished run calls suspect was replayed, but for an arm that died, and for cells
whose loads agree where they speak and are silent elsewhere: the receipt lists these as suspects and phase B does not replay
them (section 5). `DeadStaysDead`. `MatrixEnds`: the run ends, or waits for a command without a time limit. Two depths let one arm diverge
at both, at one or at none; two replies let loads agree, differ, and be partly silent.

**stream_client.** `EveryRequestAccounted`: a result or one error for each request and never both, and rows that are the results
in order, which is what lets the matrix count rows. `SplitIsMeasured`: a published queue wait or prefill lies between two
scrapes that succeeded, and over none of the engine's past if the first of them showed the histogram; the source column tells over
which histograms. `FingerprintsTell`: for an engine that sends ids, equal fingerprints are equal completions and the other way about,
however the completion was cut; where strings are hashed, equal fingerprints are equal texts if no string contains the end mark, and
equal completions give equal fingerprints unless the engine sends text alone, whose print depends on the cut. No print at all means
that there was nothing to hash. `ClientEnds`: nobody waits at the barrier for ever. Fewer, as many and more requests than workers are
the three ways to deal slices; two requests that complete are what a fingerprint needs.

**instruments.** `LayersAreTrue`: the layer of every row is that of its collective, although addresses are reused and evicted, and
nothing is guessed behind an object that raises. `GapsAreTrue`: so is its gap, although collectives raise, rows are lost and recorders are
taken out; a window of 0 takes one row, as in the code. `ShutdownLeavesBoth`: an orderly exit leaves both files. The timer's write is
made good at the exit if it failed at the close of the window; the union's is tried once. The dump holds every routing call whole but
those whose recording failed, and of these perhaps a part. A window of two lies after a warmup of one so that both ends lie inside a
process of four calls; a cache of one makes eviction the normal case.

**tp2_guards.** `ExpertsAreOwnedOnce`. `SlicesAreWhole`: heads with their groups, each row of an indexer head on one rank and the fused
tensor the size its components make, every other cut at a block. `RecordIsTonights`: nothing is launched over a refusal of tonight or
without a verdict, a pass of tonight, on disk or in the receipt, was given with the twin's own digest and all assertions, and only a night
that was launched has a receipt; a pass may remain of a night that was not. The variants cover every assertion with a checkpoint that
fails it and one just inside, among them counts that divide by the ranks and still split a group, an indexer whose even cut splits a head,
blocks that do not line up, a gap in the expert ids, an unequal expert, and twins that differ.

**offload_batch.** `CursorsNeverRewind` and `StoresCatchUp`: with groups of different grain the floor of one coarsest block is what separates
a budget that always advances from one that moves a cursor back; sizes 4, 2 and 3 have blocks that do not line up, and a tier of
ten is smaller than the 26 blocks of the request.

**receipts.** `Purity`, `MirrorComplete`, `NeverRestamped`, `FailureCostsOneStep`, `DurableFirst`, as their
comments say. `MirrorComplete` speaks of runs that finish. Two lanes are needed for a receipt to outlive one; a third run
follows a killed or failed one in the same lane.

Every property has a mutant in `PROJECT.json`: a definition of the module altered as a
plausible bug would alter the code (a dropped gate, a swapped order, an error
ignored), under which TLC finds the property violated.

Deadlock is not checked: every one of these systems legitimately stops, when the
script has ended or the bound on launches is used up. What must not stop early
is stated as liveness instead.

**Fairness.** `Usb4Stream` assumes weak fairness of each process: it runs when
it can, and an armed `SIGALRM` is delivered, which the kernel guarantees; a blocked read or
write is not enabled, so nothing assumes it returns. `PairService` and `BenchMatrix` assume weak fairness of the running script *while its
commands return*. Not all of them need to: ssh has at most a limit on connecting, `podman` and the two polling `curl`s have none. `Hang` is
one of those that does not return; after it the script takes no step. `PairService` assumes in addition that systemd keeps the unit's
timeouts (`WF_vars(Timeout)`); a script a runner has called has nobody to end it, and `BenchMatrix` has no such limit of its own. Nothing
is assumed of the environment: no serve need ever answer, no wire return, no harness retry. `StreamClient` assumes weak fairness of the main thread and of the workers
together, since every HTTP call has a time-out, and nothing of `Count`. `OffloadBatch` assumes that the store is tried at every step of the
engine and that the disk is not stuck. The other modules state no liveness.

## 4 What is proved

With TLAPS, for any values of the constants that satisfy the named assumptions: `SizesAssumption` (`Usb4Stream`);
`BoundsAssumption` (`PairService`); `MatrixAssumption` (`BenchMatrix`); `StoreAssumption`, `HeadAssumption`
(`ReceiptStore`); `ClientAssumption`, `EngineAssumption` (`StreamClient`); `InputAssumption`, `NoneAssumption` (`Tp2Guards`);
`InstrumentsAssumption` (`Instruments`); `SizeAssumption`, `TierAssumption`, `RateAssumption`
(`OffloadBatch`). Nothing else is assumed, and TLC evaluates every one of them in the runs of these modules. All but one say
that counts are numbers, sets are finite and of the right kind, and a name is not used for two things. `HeadAssumption`: what is committed
parses, predates the lanes, and was committed from the place it lay in. In particular nothing is assumed of how an engine cuts a
completion, or of what its strings contain; where a property needs that, it says so.

| theorem | says |
|---|---|
| `Usb4StreamProofs!TypeCorrect` | `Spec => []TypeOK` |
| `Usb4StreamProofs!NothingLostEarly` | `Spec => []NoEarlyLoss` |
| `Usb4StreamProofs!FramesInTurn` | `Spec => []FramesStayInTurn` |
| `Usb4StreamProofs!WireNeverDeadlocks` | `Spec => []NoWireDeadlock` |
| `Usb4StreamProofs!ReceiptIsTruthful` | `Spec => []ReceiptTruthful` |
| `Usb4StreamProofs!EvidenceIsKept` | `Spec => []PeerEvidenceKept` |
| `Usb4StreamProofs!OpensFace` | `Spec => []OpensFaceEachOther` |
| `Usb4StreamProofs!BenchIsOneShot` | `Spec => ImplementsOneShot`: every launch of the bench implements `OneShot` |
| `PairServiceProofs!TypeCorrect` | `Spec => []TypeOK` |
| `PairServiceProofs!TakenStaysOnRecord` | `Spec => []TakenOnRecord` |
| `PairServiceProofs!LaunchesAreClear` | `Spec => LaunchIsClear` |
| `PairServiceProofs!DownProxiesStayDown` | `Spec => DownStaysDown` |
| `PairServiceProofs!RestoresAreTold` | `Spec => RestoreTellsTheTruth` |
| `PairServiceProofs!NothingStranded` | `Spec => NoRanksStranded` |
| `BenchMatrixProofs!RowsCompare` | `Spec => []RowsAreComparable` |
| `BenchMatrixProofs!RowsSayTheTruth` | `Spec => [](RowsNameTheirArm /\ RowsAreWarm /\ CellsCountOnce)`, the part of it that `RowsCompare` adds the drift to |
| `BenchMatrixProofs!AcceptedIsComplete` | `Spec => []GateMeansComplete` |
| `BenchMatrixProofs!SweepOutlivesTheRun` | `Spec => []SweepIsBanked` |
| `BenchMatrixProofs!DivergencesAreReplayed` | `Spec => []SuspectsReplayed` |
| `BenchMatrixProofs!DeadArmStaysDown` | `Spec => DeadStaysDead` |
| `ReceiptStoreProofs!TypeCorrect` | `Spec => []TypeOK` |
| `ReceiptStoreProofs!FailuresStayQuarantined` | `Spec => []FailureCostsOneStep` |
| `ReceiptStoreProofs!DurableNotRestamped` | `Spec => NeverRestamped` |
| `ReceiptStoreProofs!RestoreIsPure` | `Spec => []Purity` |
| `ReceiptStoreProofs!MirrorIsComplete` | `Spec => []MirrorComplete` |
| `ReceiptStoreProofs!WritesAreDurableFirst` | `Spec => DurableFirst` |
| `StreamClientProofs!EveryRequestIsAccounted` | `Spec => []EveryRequestAccounted` |
| `StreamClientProofs!SplitMeasures` | `Spec => []SplitIsMeasured` |
| `StreamClientProofs!FingerprintsAreTelling` | `Spec => []FingerprintsTell` |
| `Tp2GuardsProofs!LaunchesAreWhole` | `Spec => []SlicesAreWhole` |
| `Tp2GuardsProofs!ExpertsHaveOneOwner` | `Spec => []ExpertsAreOwnedOnce` |
| `Tp2GuardsProofs!ReceiptIsTonights` | `Spec => []RecordIsTonights` |
| `InstrumentsProofs!LayersHold` | `Spec => []LayersAreTrue` |
| `InstrumentsProofs!GapsHold` | `Spec => []GapsAreTrue` |
| `InstrumentsProofs!BothAreLeft` | `Spec => []ShutdownLeavesBoth` |
| `InstrumentsProofs!NoRewind` | `OffloadSpec => CursorsNeverRewind` |
| `InstrumentsProofs!BudgetsFitTheTier` | the promotion budget is `Unbounded` or between one block and the tier |

The arguments, one inductive invariant each:

*Induction over data.* The library's induction theorems take an operator as a parameter, which the installed provers cannot
instantiate. `DataInduction` states induction as a fact about sets instead: a set that holds 0 and with a number the next one holds
them all (`SetInduction`), and likewise for the subsets of a finite set (`SubsetInduction`), both from the existence of a minimal
element. The set to put in is the set of numbers, or of subsets, of which the claim holds. That reaches the recursive functions inside
the community modules' folds: `Adds` is what `MapThenSumSet` unfolds to, `SumSetIsTotal` ties the two together, and a total can be taken
apart at any element and by classes (`AddsAny`, `TotalByClass`). The proofs of the matrix, the client, the guards and the layers use it.

*Types of the bench.* `TypeOK` is not inductive: an open takes the wire of a node the
process resolved earlier. `TypeInv` adds `Resolved`, that the resolution is there
wherever an open is ahead. Each action has a lemma over the groups of variables
it touches (`PlaceType`, `CursorType`, `StreamType`, `ControlType`, ...).

*Order of the opens.* `NoEarlyLoss` needs to know why the coordinator's writes are safe and the
peer's too. `OrderInv` adds `MarkerIsEvidence`, that a marker in the pipe or behind the
barrier means the peer has opened, and `PeerSpeaksSecond`, that until the coordinator has opened
the peer stands at its first turn, which is a read. The second is where the shape of the schedule
enters, through the one fact that its first turn is a ping the coordinator starts.

*Honest receipts.* `HonestInv` carries what is still untouched from the start of a run to the
verdict and from the verdict to the receipt: before the launch nothing is
open anywhere, before the coordinator's open its seat is empty, and the phase names
change exactly there.

*The wire.* In each direction frames are written and read in one order, the flow; `After` is its successor, past the turns that carry
nothing that way. `Due` is the next frame of a flow a side is to move, read off its cursor. `FlowInv` says that what waits in a ring is a
`Chain`: it begins with what its reader is due, ends before what its writer is due, and each frame follows the one before. `Forward` is the
heart: a step of a side's cursor is a step of `Due` in the flow of the frame it moves and none in the other. It rests on
`TurnsShape`: no throughput turn is followed by one of its own direction. `FramesStayInTurn` is then the head of a chain. For `NoWireDeadlock`,
two readers with nothing to read are each due what the other is due to write, so neither is behind; two writers before full rings
are in one exchange, and the ring that is full holds more of it than it has frames, since `ExchangeFrames` are at most `Ring`.
The invariant also says why there is one wire: nothing is in a ring until both opened, and the coordinator gets past its first turn by reading.

*True receipts.* `RanInv` follows "ok" from the end of the schedule over the report, the pipe, the stash and the verdict to the file;
with the flow invariant an ok is of one wire with nothing left on it. `EvidenceInv`: a report is the last line of the pipe, so one that was
consumed is the only one. `FaceInv`: what was resolved is what is there until the hardware of that side moves, and both opens are of what the guard compared.

*One shot.* The refinement mapping reads `running`, `opens` and `banked` off the bench's state. `OnceInv` adds to the three
invariants above what the mapping needs: the receipt file is absent until the run writes it, an outcome `ok` has both opens behind
it from the verdict to the file, and the peer's seat is empty until its open. Every step of the bench is then one of
`OneShot`'s six actions or leaves the three mapped variables alone, action by action; in particular a start
over a receipt, torn or whole, ends at once.

*The pair.* Both walks, over the proxies in the stop and over the nodes in the reaping and the teardown, go node by node, so
the invariant says what holds for the nodes a walk is through with: `Gathered` (what the notes say of a node already
passed), `Cleared` (what is reaped), `Swept` (what is removed, and what the restore has written of the coordinator while it
is at the worker). `Recorded` carries the notes past the write into the time between two calls, `Present` that what was taken is
down and still a unit that a restore can start, `Phases` which stage belongs to which job. `forgot`, `stale`, `touched`, `unheard` and
`missed` are the nodes, and the bring-ups, that these parts leave out, each set where its event happens. A command that hangs changes
nothing but `stuck`, and a script that is ended from outside does the same wherever it stood, so the parts are stated of the places
between two commands.

*The matrix.* `Believed` relates `CURRENT_ARM` to the serve: whenever the script trusts what it found, the two name the
same arm, and a serve that is up and cold is one that was never warmed because it was found. `Placed` puts each row where
the schedule has it, one to one; that uses `ScheduleIsOneToOne`, the arithmetic of A-B-B-A for any number of loads. `Filled`
says that turns behind the cursor are complete while no arm is dead, which makes a two-armed receipt complete; `Banked` ties the
receipt to the rows, and `Replayed` the serial replay to its cursor over the labels. A suspect of the receipt has
two prints among its loads; either two that speak differ, and then phase B had it on its list, or all that speak agree.

*The drift.* `DriftCancels` compares two sums over the schedule for any number of loads. `Drift(arm, n)` is the sum over the first
n pairs of positions; a pair gives each arm one of its two positions and alternates which comes first (`PositionsGrow`), so the difference
is one after an odd number of loads and zero after an even one, by induction on n (`DriftOfSchedule`); a complete arm has
exactly its positions (`CompleteArm`).

*Receipts.* `Inv` says that both roots hold only what fits at each place (`Fits`: no younger
than the clock, and a pass where the gate looks), and that what is pending fits where it
is going. Every write then is a case of `PutFits`, and time is `KeptLater`. The
quarantine theorem reads off `Fits`; the re-stamping theorem needs only that a durable copy is
changed by `Placed` or torn.

The walks of the restore and the mirror establish something for each file they are through with: `Pure` (restored from the durable root, or
as committed), `Mirrored` (the durable copy is what the run wrote) and `WrittenFirst`; the three theorems read
them off at the end of the walk, and the work is that no later file of the walk undoes them.

*The client.* `BatchInv` says where every request is: those a worker has yet to send are its slice, in order and all its own, and of the
others each has a result or one error. A worker's step moves the head of its slice and touches nobody else's, so the
barrier and the order in which slices drain do not enter; at the join all slices are empty. `SplitInv` has one fact of weight, that a scrape which
succeeded has seen the engine's past (`PastIsCounted`); a difference then never contains it, however late the engine counts, for the histograms
the first scrape showed. `PrintInv` says that each record is that of some cut of a completion. The rest is about sequences: the items
recovered from the chunks are the tokens of the completion, their strings that are not empty, or the pieces it was cut into (`ChunkTokens`), and
mapping commutes with joining (`JoinedMapped`). What is hashed is read back item by item: all begin with the tag, each ends at the first end
mark if none is inside, and so the same input to the hash is the same list of items, by induction on its length.

*The guards.* `GateInv` is small: a launch has passed the assertions (`Judged`), the places come in the order of the
script, with the launch behind those that follow it (`Ordered`), and a report of tonight, folded or not, is of this verdict (`Told`). The work is arithmetic. The assertions test remainders; the properties
ask on which rank each element lies. `DivUnique` gives quotients by their bounds, `CutEvenly` and `CutAtEdge` say where a
cut of equal parts runs, `HeadsStayTogether` that a group of heads lies on one side of it, `RowsStayTogether` the same of the rows of an indexer head, `DivTwice` and `EqualNumbers` that blocks
and ranks agree, and `PlanOfExpert` that the guard's half-open interval is the engine's quotient. The bytes are a sum over the tensors a rank
owns: as many experts of each stack, all of one size, weigh the same on each rank (`TotalByClass`), so each holds its nth part
(`EqualParts`), which is what the guard has predicted (`RanksFitTheBound`).

*The layers.* `LayersInv` says that the cache holds, for every address in it, what the object now there would be classified as
(`TrueOf`). That survives reuse only because an entry keeps its object alive, and eviction because it only forgets. A walk through such
a cache finds what a walk without one would, and both stop at the first object that raises: `Walked` says where it stands after k frames, and `FrameWalks` takes it one frame further.

*The instruments.* `GapsInv` is about the cursor: while the window is open, every collective after it has been missed, so a row that
starts there is true, and rows are only appended. A closed window lets the cursor fall behind, which is why `reset` has to clear it.
`ShutdownInv` has four parts: a file that is open is written with what its recorder has now (`WriterInv`), which holds because nobody
records meanwhile; a recorder with something to leave has a handler, and one whose handler has run or whose window is closed
has its file, is writing it or has failed to (`TimerInv`, `UnionInv`); and the buffer `Holds` what was seen of the window, whole but for
the calls whose recording failed (`BufferInv`).

*The budgets.* `Aligned`: after every step all groups have stored up to one position, each to within a block of its own, so the
laggard is less than a coarsest block behind. A budget of at least a coarsest block therefore aims at or past everything
already stored, and an assigned cursor cannot move back. Without the floor the mutant does.

## 5 Where code and documents disagree

Found while modelling; each with its quotation in `PROJECT.json`. Four are runs of the project:

1. `usb4_mismatch`: the coordinator opens what it resolved minutes before; only the peer re-checks.
2. `pair_reup`: a second bring-up over a standing pair forgets that the first one stopped the proxy.
3. `bench_degraded`: a single-arm receipt says `spec-off`, the gate wants `spec_off`; every degraded night fails.
4. `receipts_stale`: the mirror puts a committed, older receipt over the newer durable one. A note in
   `results/receipts/build.json` says that this has happened.

Fifteen more come with a configuration of their own. It checks one property, the sentence of the repository that is wrong, and has TLC
produce the trace. Most are the form, without its exception, of a property that section 3 does check.

| configuration | property | what happens |
|---|---|---|
| `MCUsb4StreamRetry` | `StormFree` | a coordinator killed after the opens, nothing banked, is launched again and opens again: "exactly one open attempt per side, ever" holds per launch |
| `MCUsb4StreamLeak` | `ClosedBeforeReceipt` | the alarm goes off after `os.open` has returned and before anybody has the descriptor; the receipt is written over an open device |
| `MCUsb4StreamUnheard` | `EvidenceAlwaysKept` | `kill_peer`'s second wait runs out, and the lines already kept are dropped with the rest |
| `MCPairServiceFailOpen` | `StopFailsClosed` | a stop that never got to the worker, or a proxy that is activating, lets the serve start over a proxy that runs |
| `MCPairServiceDown` | `DownOnArrivalStaysDown` | a restore acts on the record of an earlier bring-up and starts a proxy that was down |
| `MCPairServiceStrands` | `NeverStranded` | a `podman rm` that fails in ExecStopPost is swallowed; the unit is inactive over a container |
| `MCPairServiceHangs` | `TeardownCompletes` | a teardown run by hand waits for ever for ssh or podman |
| `MCBenchMatrixSilent` | `NoSuspectUnexamined` | loads that agree where they speak and are silent elsewhere are suspects and not replayed |
| `MCBenchMatrixHangs` | `WaitReadyReturns` | `wait_ready` polls with a `curl` without `--max-time`; a serve that accepts and never answers holds it for ever |
| `MCStreamClientLifetime` | `NoLifetimeMean` | a first scrape that lacks a histogram is a baseline of zero, and the mean is over the engine's lifetime |
| `MCStreamClientCut` | `IdenticalReproduces` | of an engine that sends text alone the same completion has as many fingerprints as it has cuts |
| `MCStreamClientMarked` | `DivergentChanges` | a string with the end mark in it makes two different texts hash alike |
| `MCTp2GuardsFused` | `EveryCutIsAtABlock` | the guard asks of the indexer's scale that its blocks divide evenly, not that the cut at its heads is at one |
| `MCTp2GuardsStale` | `FoldedIsTonights` | a report that cannot be written leaves an earlier night's in its place, to be folded into tonight's receipt |
| `MCInstrumentsHalf` | `DumpRowsAreWhole` | an exception between the three writes of a row leaves zeroes in the dump that look like a call that touched no expert |

The others were read off the code while translating it and have none:

- USB4 bench. A failed resolution in the serve check is taken for "will be refused later", but it may succeed later; a late
  global alarm and an over-long probe end the bench with no receipt.
- Pair. A bring-up that times out restores the proxy while its serve still holds the memory.
- Matrix. A replay of empty completions counts as a clean witness; a speculative arm that dies late leaves a receipt that
  contradicts itself; the first load of an unforced matrix is cold; a deep warmup failure of the speculative arm is fatal.
- Runner. A failing step of `run-tp2.sh` leaves its receipts to die with the lane.
- Stream client. The convergence probes run before the first scrape, but the engine may count them after it, so the
  delta can cover more than the measured requests.
- Guards. The twins' digest leaves out the derived fields; gapped expert ids are cut by position, not by id; expert bytes are
  averaged over the ranks.
- Instruments. The union sets `_done` before it tries its write, so a failure there is final. `_rank` at exit may find neither the process group
  nor `RANK`, and then rank 1 writes the file that is reserved for rank 0. The offload floor
  may exceed what is left of the tier, so a step stages more than the drain latency the docstring speaks of.

## 6 What is only model-checked, and what is not modelled

Only model-checked: liveness, which is out of the prover's reach: `RunEnds`, `WorkerReleased`, `ScriptsEnd`, `MatrixEnds`,
`ClientEnds`, `StoresCatchUp`. Every safety property of the passing runs is also a theorem.

Only proved: `TypeOK` of `ReceiptStore`, on which its other proofs stand; its run checks the five properties instead.

Abstracted: latencies, medians and ratios, the wording of logs and receipts, and the clock except as the
order of receipts. In `Tp2Guards` the rounding of the memory bound and its average over experts count only as whether the experts
are of one size (`Uniform`), and ids that do not run from 0 to n-1 as `Named`; where two stacks tie for the main one the code goes by hash order and the model
takes a fixed one; a size of 1 always fails S3, as in the code; S1 looks for its two flags in the command line. In `OffloadBatch` the
fraction is an exact rational where the code has a float, and the scheduler is taken from the docstrings. In `ReceiptStore` the
failure of a run's own write to the lane is the kill in `Fill`. `FN_STATE_DIR` is taken as set, as `fn-env.sh` exports it. An object
on the stack raises always or never. Two scripts of the pair
service at once are not modelled: nothing in the code keeps them apart, so there is nothing to hold. Nor is a launch of the USB4 bench beside
a peer that outlived an earlier one (section 2).

Not modelled: `fn_synctrace.py`, seven wrappers that count their callers in a table nothing else reads; the per-step bounds of
`receipts-verify.py` other than `_bench`, which compare a number with a constant; builds, staging, the socket and gloo benches and the
documents, which are straight lines over the file system or numbers; engine patches, whose fork is not in the repository;
`--dry-run` and `--role probe` of the USB4 bench, which change nothing.

## 7 Plan

Order and composition. `OneShot` is the abstraction of `Usb4Stream`; otherwise each module stands alone, and the pieces meet in
`ReceiptStore` (all bank receipts), in the serve (`PairService` stands what `BenchMatrix` and the runner use) and in
what one module takes from another as given: the matrix counts the rows `StreamClient` returns, and the bring-up of `PairService`
passes the gate of `Tp2Guards`.

Done: the four protocols, `OneShot` and its refinement, the client, the instruments, the guards, the budgets, and the proofs
of section 4, which cover every safety property a passing run checks.

Left, in this order:
1. lemmas on the way to liveness that are safety: a measure that every step of a walk lowers, where the run now shows the end of it only on
   small instances;
2. `fn_synctrace`, once something reads what it counts.
