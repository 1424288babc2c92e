# onnxsim in TLA+

TLA+ models of the parts of onnxsim whose correctness depends on control: loops
that must stop in the right place, batches that must not lose work, and services
and caches that several threads and processes share. `PROJECT.json` lists the
runs, the mutants each property detects, the source lines behind every
definition, the hazards and the theorems. `src/` below is the repository.

## 1. Inventory

onnxsim simplifies ONNX models by running shape inference, graph optimization
and constant folding to a fixed point. Around that core the repository has an
RPC stack for remote devices, vendor compile caches, a second remote stack in
C++ (`tools/onnx-remote`), and a large body of numerical code (quantization,
pruning, training, export) that is data transformation without control of its own.

| Part | State | Operations | Hard behaviour | What makes it correct |
|---|---|---|---|---|
| Fixed point: `onnxsim.cpp` (SimplifyImpl), `model_prep.h` (FixedPointFn) | the model, nested loop counters, change flags or fingerprints | infer, optimize, fold, rewrite, per loop: compare and stop | what counts as "nothing changed", verdicts of nested loops, limits 0 and 1 | no warning means that a whole last round found nothing to do; a simplified model stays as it is; it ends |
| Constant folding: `constant_folding.cpp` | node list, initializers, constant names, batches, bisection ranges | classify, run a batch, split a failing one, rebuild, sweep | a batch fails for one node, a value moves between Constant and initializer, rounds feed each other | the result is a valid model; batching folds exactly what one-by-one folding would; computed values never become weights |
| RPC tracker and registration: `rpc/tracker.py`, `rpc/server.py` | registry per key, cursor, one handler thread per connection, one loop per server | register, request, disconnect, retry | half-closed connections, overlap of an old and a new registration, restarts on both sides | no ghosts, no lost server, fair hand-out, re-registration |
| XDNA artifact cache: `rpc/xdna_cache.py` | directories under keys, manifests, a thread lock and a flock per key | load, build, publish by rename, evict, remove | eviction without the key lock, crashes, removal file by file | one build per key, no needless rebuild, no partial entry |
| Remote compiler: `tools/onnx-remote/remote_compiler.cpp` | three files per key, key mutexes, compile slots, lock directories | look up, lock, compile, publish, trim | services share the directory, stale locks, crashes between renames | no mixed pair, no double compile, every request answered |
| RPC server sessions and client: `rpc/server.py`, `client.py`, `executor.py` | handles per connection, shared work directory, worker processes, the XDNA lock | hello, upload, load, run, run_once, unload, close | sessions sharing files, failing workers, calls given up, a killed server | an answer is the call's own, a handle keeps its model, an error ends neither the session nor any model but its own, no worker process is left behind, every call ends |
| Data-parallel training: `distributed.py` | parameters, one pipe and process per shard | broadcast, collect, average, tell, join | deaths of workers, full pipes, exceptions on the way out | every update averages one gradient per worker from the same parameters; the call ends and cleans up |
| Change bisection: `versioning.py` | a plan of change units, bounds of a search | match, group into units, build a prefix, run it, halve | prefixes that are no graphs, non-monotone verdicts, boundaries | the culprit's prefix failed and the one before it passed, if it was run; a prefix lacks nothing but what the candidate lacks; few evaluations |
| gRPC gateway, workers, transport: `tools/onnx-remote/grpc_gateway.cpp`, `remote_*worker.cpp` | artifacts loaded in the worker, the gateway's hint of them | load, run, restart | the hint survives what it describes | planned |
| ROS 2 bridge: `tools/onnx-remote/ros2_bridge.cpp` | lease of a discovered runner | announce, discover, expire, forward | late announcements, blocking probes | planned (the repository keeps a lease model of its own) |
| Model preparation, partial shape evaluation, optimizer passes, function rewriter | none between calls | graph rewrites | | arbitrary functions in `SimplifyPipeline` |
| Memory planning: `memory_planning.cpp` | groups of aliased tensors, offsets in an arena | alias in place, compute lifetimes, place by best fit | joins in the middle of chains, boundaries of lifetimes, readers inside control-flow bodies | nothing is overwritten that is still read |
| Profiler, tensor pool, version manifest | spans; entries; recorded steps | | | not modelled |
| Quantization, pruning, training, exporters, bindings, schemas, scripts | | | | not modelled: numerical code, marshalling, generated data |

How they interact. `SimplifyImpl` calls the folder as one of its transforms; the
folder calls an executor, which may be a remote RPC session. Clients find RPC
servers through the tracker; servers keep a connection to it open. An RPC server
compiles for XDNA devices through the XDNA cache. Sessions load models into worker processes of their own and share one work directory. onnx-remote clients ask the
compiler service for artifacts and hand them to workers, directly or through the
gateway or the ROS 2 bridge. Caches are shared between processes through the
file system only.

## 2. Modules and their correspondence to the code

**`SimplifyPipeline`** (`onnxsim.cpp`, `model_prep.h`). A model is an opaque
value and each transform an arbitrary function on models chosen in `Init`; the
loops are modelled in full. `stage` is the place in `SimplifyImpl`, `left[l]` the
`_max_iters` of loop `l`, `fp[l]` the fingerprint it compares with, `c1` and
`anyChanged` the flags the resident-graph loops use. `InnerRound`,
`InferShapes`, `Optimize`, `OptAndShapeDone` are `OptAndShapeOnGraph`;
`MidF1`, `MidDone`, `OuterRound`, `Rewrite` the fingerprint loops of the rewriter
branch; `Finish` the verdict and the warning. Two rewrites change the graph without reporting it and are part of the steps they
belong to: `EliminateZeroRnnInitialState` goes before the passes in `Optimize` (`PassesInput`), as a change that makes work for
them (`onnxsim.cpp:263`), and the initializer sweep ends a fold. Nothing is assumed of what they change. `cut[l]` is a
history variable: the last run of nested loop `l` ended for want of iterations.

**`ConstantFolding`** (`constant_folding.cpp`). One round is `_FoldConstant` or
`_FoldConstantOnGraph` (`native`): `pc = "scan"` walks `GetConstantNodes`,
`"fold"` takes batches under the byte and node budgets and bisects with `stack`
as `FoldGroup` recurses, `"rest"` is after the rebuild and the sweep. Values are
abstracted to whether a node runs: the executor may be unable to run some nodes,
may refuse a batch above `Capacity`, and may fail for no lasting reason.

**`Tracker`** (`rpc/tracker.py`, `register_with_tracker`). `handler[c]` is the
handler thread of connection `c`, `loop[s]` the registration loop of server `s`.
Each end notices a closed connection only at its next read. Faults are crashes of
servers, broken connections and restarts of the tracker.

**`XdnaCache`** (`rpc/xdna_cache.py`). Every file-system call another process can
see is a step: `LoadEntry`, `Touch`, `ThreadLock`, `Flock`, `EntryExists`,
`Build`, `Publish`, and for removals `Rename`, `RmtreeOpen`, `RmtreeUnlink`,
`RmtreeRmdir`. A directory has a number of its own, so that removing through an
old handle differs from removing by name.

**`RemoteCompiler`** (`remote_compiler.cpp`). `Request` to `ReadMarker` are
`load_cached`, called up to three times (`look`); `KeyMutex`, `AcquireSlot`,
`CreateLock`, `LockTaken`, `Stat`, `Steal`, `LockTimeout` the three nested locks;
`Compile`, `Publish` the compile and its three renames; `Trim`, `Evict`
`enforce_cache_limit`; `Return` the destructors. A file's content is the number of
the compile it came from, a marker the numbers of the pair it was digested from.
`stolen` is a history variable: the keys whose lock was removed under a living owner.

**`RpcSession`** (`rpc/server.py`, `client.py`). `pc[s]` is the handler thread of
connection `s` and `job[s]` the request it is dispatching; `client[s]` its client.
Everything another thread or process can see in between is a step: `OpenFile`
truncates, `WriteUnit` writes a stretch at the descriptor's own offset, `MakeProxy`
starts a worker process and `Started` reads its first message, `Send` and `Received`
are `_TinygradProxy._call`, `EndCloses` the `finally` clause of the session. A call
carries its number in the model only; the wire has none, which is what `AnswersMatch`
is about. A failed
tinygrad run closes the worker of its own model and leaves the handle (`server.py:348`); `SessionSurvivesErrors` says of every
step which workers and handles it may end. `AnswersMatch` is about connections on which no call was given up, since after one nothing pairs
an answer with its call (`desynced`); `WholeUnlessClash` about files that nobody is writing and whose last upload was alone and came to
its end (`clash`). Faults: a crash and restart of the server, hang-ups, a call abandoned by
`KeyboardInterrupt`, dying workers, failing writes. `plan` is rigid: what each client
of a scenario is going to do. `time` is `run`, and the three XDNA operations are one.
`last`, `clash`, `desynced` and `killed` are history variables.

**`DataParallel`** and **`SyncTraining`** (`distributed.py`). The parent is one loop
(`pc`, `next`), every pipe a FIFO in each direction. Parameters are the number of
updates behind them, a gradient its worker and that number. `fits` says which messages fit
in a pipe's buffer, so that a send completes at once or only when it was read;
`inherits` that workers are forked and hold a copy of the parent's ends. Every statement that can
raise has an action of its own (`SpawnFails`, `PrepareFails`, `SampleFails`, `SendBreaks`, `RecvEnds`,
`ApplyFails`, `TellBreaks`), and the `finally` clause is
where it leads, except before the `try` (`entered`): a process that cannot be started, or a parameter that is missing (`PrepareFails`), ends the call with
every worker that was started left waiting. `AbandonedOnlyBehindDead` says that this and a dead worker are the only ways for one to go untold.
`SyncTraining` is the abstract specification: a sequence of averages and an outcome.
`DataParallel` implements it under the mapping that keeps `averaged` and reads the
status off `pc` and `raising`.

**`BisectPlan`** and **`Bisect`** (`versioning.py`). `BisectPlan` is pure: matching,
fusion blocks, items and their unions, units, and the graph with the first `k` units
applied with the errors of `_topo_order`. `Bisect` is the search over it; `check_equivalent` is an oracle: it may raise
(`CheckRaises`, `ProbeRaises`), and what it says of a prefix is arbitrary, except that the search begins with a candidate that failed. The base as
prefix 0 has a verdict too, and nothing runs it. With a `backend` the candidate and the prefixes run there node by node (`run_partial`), which
skips nodes whose inputs were not produced: such a run accepts a candidate that lacks tensors (`Lacking`) or has a cycle, and only `WellFormed` is assumed of it.
Without one, `run_model` must have them all (`Runnable`). Graphs have each tensor made once, as ONNX demands; a node's reads are the inputs it lists, and
what its control-flow bodies capture is seen neither by `_plan` and `_topo_order` nor by the model. The candidate's header is not modelled: every prefix has the
base's, in the code too.

**`MemoryPlanning`** (`memory_planning.cpp`). `UnaryPass` and `BinaryPass` go over the nodes and join
groups (`root` is what `UnionFind::Find` returns), `Place` puts the largest interval left into
the best gap, `Finish` hands out the offsets. Where the code computes the first and last index of a
group, the model keeps the sets of indices, and `Disjoint` compares all of them. The order among intervals of one
size is the names' in the code and open here; equal ranges among the blocking ones count once, which only
shows in where a tensor of no bytes is put. Nodes are numbered from 1. `captures`, what the bodies of a node
read from the graph around them, is in the model's graphs and in none of the planner's actions, as in the code. A run of the planned graph is
not simulated: `IntactUntil` says which writes would fall between a production and a read.

`MC*` modules only give constants their values. `*Proofs` modules hold the proofs.

## 3. Runs

| Run | What it shows | States |
|---|---|---|
| `simplify` | both branches, every function on two models for every reported transform, limits 0 to 2, each transform off in turn: no warning means a whole last round with nothing to do, a fixed point stays, it terminates | 2.8M |
| `folding` | both folders on four nodes in four wirings, up to two special nodes, up to one node that cannot run, a flaky executor | 429k |
| `folding_resident_batches` | finding: the resident folder loses a value between two batches of one round | |
| `tracker_registry` | three servers, two faults, restarts on both sides | 331k |
| `tracker_overlap` | finding: an overlapping registration leaves a connected server unlisted | |
| `xdna` | two processes, two keys, room for one, a crash, failing compiles: mutual exclusion, no needless rebuild, nothing partial without a crash, every call completes, while evictions run | 232k |
| `compiler` | two threads of one service and one of another, two keys, room for one, a crash, an error, stale locks | 137k |
| `rpc_session` | five scenarios of one or two clients with a crash and restart of the server, a given-up call, hang-ups, dying workers and failing writes | 363k |
| `data_parallel` | three workers, two steps, every failure and death, pipes of both sizes, forked and spawned: the refinement of `SyncTraining`, the clean-up and that it ends | 34k |
| `bisect` | two fusion blocks against recombinations of changed, added and dropped nodes and initializers, both ways, with and without a backend, candidates only a backend takes, every verdict | 346k |
| `memory_plan` | every graph of three nodes over one input with two sizes and two choices of outputs; larger ones with gaps, bodies, scores, zero and unknown sizes | 58k |
| `memory_plan_captures` | finding: an operand captured by a later If is overwritten in place | |

A finding run checks one property taken from a comment or a document of the
repository and ends with TLC's counterexample; `PROJECT.json` quotes the line.

### Bounds, and why they suffice

- `simplify`: two models are enough for every pattern of "changes / does not
  change" per transform, oscillation included; three iterations of a loop differ
  from two only in repeating a round; 0 and 1 are the boundary cases.
- `folding`: four nodes give a batch that must be split twice, a chain, a
  diamond, a runtime operand and a node that reads ahead of its producer; the
  byte budget (3) cuts a batch in the middle and the session capacity (2) lies below it, so
  that batches fail for their size too.
- `tracker_registry`: each server has one connection more than there can be faults, so
  that no loop stops for want of connections; three servers make the round-robin visible.
- `xdna`: a stale removal needs two removers and a publisher; two workers
  with four requests and one crash contain it. Room for one of two keys makes every miss evict.
- `compiler`: two threads of one process show the mutex and the slot, one of another
  process the lock directory. Key 1 is in the cache at the start, so three requests
  suffice to evict it, to compile it anew and to read it meanwhile, which is the shortest
  way to a mixed pair. `MaxAttempts` is 600 in the code; 2 lets a request see a
  lock, remove or outwait it and give up.
- `rpc_session`: the scenarios in `MCRpcSession` each have the calls their hazard takes:
  load, unload, load, run for handles (four calls of one client); load, run, run for a
  worker that fails and is used again; every operation followed by every other; two
  uploads of one file and a load of it, with a content of one unit and one of two so that
  offsets differ; two sessions at the XDNA lock, one of which is cut off.
- `data_parallel`: three workers have one before and one after the dead one in the
  `finally` loop; two steps let a gradient of the first be mistaken for one of the second.
- `bisect`: four base nodes in two blocks and candidates of up to five nodes give plans of up to four units,
  prefixes with a cycle, nodes with two outputs, initializers that
  take the place of nodes, and candidates (`Broken`) that lack a tensor or the output, or go in a circle.
- `memory_plan`: three nodes contain every way a tensor can be read by a later node, once or twice, in place or not; the
  graph of six nodes has both sizes of gaps and a join in the middle of two chains. `PlanReadsIntact` covers the rest.

### Fairness

Weak fairness of each thread's own steps, no more. The simplifier and the folder are
sequential code that runs until it returns. Tracker handlers and registration loops are
threads, and a closed socket is eventually read as closed. Handler threads, worker processes and the parent of a training run are scheduled by the
operating system; a model's run ends and the XDNA lock is given back. Workers of both caches are
threads whose locks are released by the operating system (flock), by destructors, or
outwaited (lock directory); the compiler command is assumed to end. Nobody is obliged to
send requests, to crash, to give up a call, to restart a crashed server, or to let ten minutes pass.
`CHECK_DEADLOCK FALSE` stands where the system may rest: all requests
answered, all faults used, simplification done.

## 4. What is proved

Every theorem holds for all values of the constants under the named `ASSUME`s of its
module, which TLC also evaluates on the instances.

- **`SimplifyPipelineProofs`**: `TypeCorrect` and `NoWarningSettled`
  (`NoWarningMeansSettled`). A simplification that ends without the warning has been through a whole round in which shape inference, the passes,
  evaluation and folding found nothing to do; the passes in it saw what `EliminateZeroRnnInitialState` made of the model. That is
  not a fixed point of everything: the two unreported rewrites may have changed the model in that very round, and what they did is offered
  to the transforms after them and not to those before (`PairSettled`, `RoundSettled` say to which). The inductive invariant is `GraphInv`: at each
  point of a round that has reported no change so far, it says which transforms are already known to
  leave the model alone. The property itself only speaks of the end and is not inductive.
  The theorem needs no finiteness, so it covers real models. `SimplifiedStays` rests on `StaysInv`: the model is still the
  input, no flag is up, and the loop that gives the verdict has an iteration left to find that out.
  `RewriterNoWarningSettled` (`RewriterNoWarningMeansSettled`) rests on `RewriterInv`, which says what an equal fingerprint is worth: the model it was taken of came
  out of folding (or of the rewriter) and nothing that ran since has changed it. That much holds when nested loops were cut off too; that `OptAndShape` was done with the model
  as well holds when the last nested loops were not.
  The module then turns to the transform `FoldConstant`: it extends `ConstantFolding` too, which is why the pipeline's
  specification is called `SimplifySpec` and its parts accordingly. `FoldingProvenance`
  and `FoldingSparesWeights`: `SourceInv` follows a value back to the Constant it came from through nodes already
  folded, `WeightInv` to the weight, and `RangesInv` keeps the ranges of the retry loop inside the batches taken.
  `FoldingWellFormed` (`WellFormed`, the types included) rests on `FoldInv`, of six parts besides the types. `Sane`, of the graph and of the one the round
  began with: names are defined once, every read has its source in front of it (on the ModelProto path possibly in a
  Constant behind it, until the rebuild), and fresh names in use were given out. `PartitionInv`: what the scan found constant reads
  constants met before it. `WorkInv`: how the graph differs from the round's first one, in terms of what was folded. `Contiguous`, in
  `PhaseInv`: the ranges on the stack join up, so there is a `Frontier` in `const_nodes` behind which nothing is folded
  yet, and a range on top is never folded twice. `AnchorInv`: the node Constants are moved in front of is
  not behind any node still to be scanned, so moving never puts a Constant later. The property speaks of the graph between rounds; the splice,
  the rebuild and the sweep each turn a `Sane` graph into one (`SaneSpliced`, `SaneRebuilt`, `SaneSwept`, over lemmas about
  `Only`, `Reverse` and concatenation).
  `FoldingOneByOne` (`FoldsAsOneByOne`) and `FoldingComplete` (`ConvergedIsComplete`) add `OneByOneInv`: what is folded could be
  folded one by one, and up to the `Frontier` what could be, is. `HaveIs` replaces the recursive scan by a fixed-point equation (a node is there
  iff it can be computed from what is there and comes before it); `RunsAreSound` takes the first node of a batch, inlined
  ones included, that one-by-one folding would not have; `RunsAreComplete` shows that a single node that could be folded does run,
  so a failed batch costs only nodes that fail alone. On the resident path the second half holds while nothing was folded, which is what
  convergence needs; the finding `folding_resident_batches` is why it holds no further.
  Assumed are `NamesAreApart` (the nodes of a model, its inputs, its weights and the names folding makes up are different, and no
  output is called by a made-up name, as `getNextUniqueName` avoids names in use), that the wirings, kinds and budgets are what their names say, and
  that one node alone fits into a session (`BudgetsFit`).
- **`TrackerProofs`**: `TrackerTypes`, `TrackerNoGhosts`, `TrackerHeldListed`, from
  `RegistryOK` (lists have no duplicates, each entry is under its key and has a handler),
  `OneHandler` and `LoopHasSock`. `TrackerRoundRobin` from `Rotation`: the picks of the current round, read
  backwards from the cursor, are the list read backwards from the cursor. `RoundRobin` speaks of the
  picks alone and is not inductive: a cursor left by a longer list has to be brought into range first.
- **`XdnaCacheProofs`**: `CacheTypes`, `CacheOneBuilder`, `CacheCompilesOnce`, from
  `LockInv` (who holds a key's flock is inside its locked block) and `SerialInv`
  (directory numbers are fresh: an unpublished one is not linked). `CacheNothingPartial`
  adds `TargetInv`: a directory has one name at most, and one that a removal has open is nobody's to
  publish, so what is emptied there goes away under the name it was found by.
- **`RemoteCompilerProofs`**: `CompilerAlone`, `CompilerReuses`, `CompilerNeverMixes`, from
  `CompilerInv`. `MutexInv`: from its second look on a request holds its key's mutex.
  `OwnInv`: from its third look on it owns its lock directory, and the directory that is
  there is its own unless one was stolen. `ReuseInv`: what an owner has read is still
  there or was evicted, and it compiles only what is invalid; needed because a marker is compared
  with files read two steps earlier. `MarkerInv`: every marker digests a pair of one compile;
  it alone carries `NeverMixed`, which therefore survives stolen locks. `CompilerTypes` holds more
  than types: `SlotInv`, free slots and holders add up to `--jobs` in each process; `DueInv`, compiles done and requests
  that may still compile do not exceed the requests made; `FilesInv`, what a file of each name may hold.
- **`DataParallelProofs`**: `TrainingTypes`, `TrainingReturnsClean`, `TrainingAbandons`, and
  `TrainingIsSynchronous`, the refinement. `Rounds` says for each worker and each place of the parent
  where the one message of the round is (on the way down, in the worker, on the way up, in
  `grads`) and that it carries the current version; the leaf `ApplyAverages` follows: when
  the parent averages, every gradient is there and of version `t`. `Progress` ties the loop
  index to who was started, told and joined, `Endings` to who was left behind by an exception, inside the `try` or before it.
- **`BisectProofs`**: every property of `Bisect`. `BisectTypes`, `BisectBoundary`, `BisectFirst` from the invariant of binary
  search, with what was run: `lo` passed and was run or
  is the base, which nothing is known of, `hi` failed and was run or is the candidate. That a plan of finite graphs is
  finite (`FinitePlan`) is what the bounds rest on. `BisectFew` from `Halving`: what is still undecided between `lo` and `hi`,
  times two to the number of evaluations, stays below the number of units.
  `BisectEnds`, `BisectPrefixes`, `BisectUnits` are about what `_plan` computes. A group of items is the least set that
  holds one of them and is closed under the unions (`Linked`), so groups are equal or apart; ranks tell items apart, so
  that sorting puts each group at one place; a prefix is therefore the unit of a closed set of items
  (`PrefixVerdict` rests on this). Whoever makes a tensor in one graph is linked with whoever makes it in the other,
  so a prefix has one maker for it, and what a node of the pool reads is there.
  `ChangesType` assumes a base that runs and a well-formed candidate. A prefix reads only what the base has, which stays or
  is replaced, or what the candidate reads; so what it lacks the candidate lacks, and without a backend that is nothing.
- **`RpcSessionProofs`**: `SessionTypes`, `SessionAnswersMatch`, `SessionRightModel`, `SessionWholeFiles`, for any number
  of sessions, names and crashes. The invariant has one part for each thing a handler relies on. `JobOK`: what the request under way
  is about. `HelloOK`: until the handshake is over nothing else is on the connection. `CallOK`: a client that gave
  up no call has at most one request or answer under way, with its own number. `ModelOK`: the table
  entry, the worker and the answer of a handle hold the model the client was told of; needed because
  a run goes through three of them. `FileOK`: an unspoilt file has one writer, and holds what it wrote up to its offset.
  `SessionSurvives` is an action property, from the invariant and one lemma for each kind of step (`RequestKeeps` to `ClosingKeeps`). It and `SessionWorkersOwned` come from `OwnInv`, joined to it in `SessionOwnership`. `LostOK`: how a connection that no crash cut comes
  to its end. `CountOK`: no more handles are given out than calls made, so a load never runs out of
  them. `CallerOK`: a request holds a worker only while it starts or calls it, and a run calls the one in the table;
  needed because a worker that dies in a run leaves through both.
  `NoneIsAbsence`: `None` is no request, job or model.
- **`MemoryPlanningProofs`**: `PlanTypes`, `PlanReadsIntact`, `PlanArena`, for every well-formed graph (each tensor made
  once, before it is read). `Chained`: the tensors of a group succeed each other, each needed no longer than up to the node that
  writes the next one over it, and only nodes already visited have joined anything; this is why a join of the
  operand's group to the output's is again a chain, in the second pass too. `Apart`: placed intervals that are live at once have
  no byte in common. `ReadsIntact` speaks of the finished plan only and needs both.

The library's induction principles take a predicate, which the provers cannot instantiate. Where a proof needs induction
it takes the least counterexample instead (`LeastNumber`, from the well-foundedness of the numbers); the recursive functions
of the models are shown to exist this way too (`Iteration` for the powers of two of `FewEvaluations`, `StepwiseExists` for `Only`
and `HaveOneByOne`).

### Only model-checked

Liveness, out of the prover's reach: `SimplifyTerminates`, `Terminates`, `Reregisters`, `Completes`, `Answered`, `CallsEnd`, `WorkersEnd`,
`Finishes`. Every invariant, every action property and the refinement that a passing run checks is proved. The other way round, the type
invariants of `SimplifyPipeline`, `Tracker`, `XdnaCache`, `DataParallel`, `RpcSession`, `Bisect` and `MemoryPlanning`, and
`FirstIfMonotone`, which follows from `FoundBoundary`, are proved and take no place in a run.

## 5. Findings

Three disagreements between the code and its comments or documents, each a run of its own:
overlapping registrations (`tracker.py:58`), a producer erased right after it was registered
(`constant_folding.cpp:1607`), and reader counts that leave out what control-flow bodies capture
(`memory_planning.cpp:166`).

Seen while modelling, without a run of their own:

- Two processes that evict one entry: the loser's rename fails, and if the key is published again before its fallback
  `rmtree` opens the path, the new entry is deleted in place, file by file (`xdna_cache.py:272`). A crash in the middle
  leaves part of it under its real key, although `docs/rpc.md:371` says that a crash never does; hence the
  condition in `PartialOnlyAfterCrash`, which TLC refutes without it (three keys). `load_entry` rejects what is left.
- Two services that see one stale lock directory: the first removes it and makes its own, the second then removes that
  one under its living owner (`remote_compiler.cpp:107`, whose comment speaks of not stealing a lock). Both compile
  the key; `CompilesAlone` allows this case (`stolen`), and `NeverMixed` holds all the same.
- With a rewriter the verdicts of the nested loops are discarded (`onnxsim.cpp:292`, `:645`): a nested
  loop that ran out of iterations is reported as convergence, although the comment at `onnxsim.cpp:637`
  speaks of a fixed point of the whole. `RewriterNoWarningMeansSettled` says what is left then: the model is one that both
  folding and the rewriter put out; of shape inference and the passes it says nothing after a cut loop.
- `EliminateZeroRnnInitialState` and the initializer sweep report no change (`onnxsim.cpp:263`): a last round may change the model and end
  without a warning, so `NoWarningMeansSettled` does not say that every transform leaves the result alone.
- `get_or_build` checks that required files are not empty, `load_entry` that no file is
  (`xdna_cache.py:239`): an entry with an empty optional file is published and compiled again by every
  request. The `xdna` run leaves such entries out (`Produces`); `CompilesOnlyWhenNeeded` is proved with them.
- `docs/distributed-data-parallel-plan.md` says that a worker dying mid-run hangs the parent
  waiting on its pipe. The parent closes its copy of the worker's end (`distributed.py:339`),
  so `recv` raises `EOFError`; `Finishes` shows that no death alone makes it wait. What can hang is
  the join of a forked worker after another exception (`StuckJoin`).
- A missing initial parameter raises between the start of the workers and the `try` (`distributed.py:344`), so no worker is told or joined.
- `docs/versioning.md:270` names a prefix that reads a tensor nothing produces as a reason for a bisection to
  stop. By the unions of `_plan` that happens only where the candidate itself reads or returns the tensor without having it, which
  takes a backend (`OnlyCyclesInvalid`); with ONNX Runtime only a cycle is left.
- The comment at `versioning.py:1030` says that the base passes. With a backend the base is never run on it (`docs/versioning.md:255`): if the backend
  gets an unchanged node wrong, every prefix fails and the first unit is blamed.
- `memory_planning.h:22` says that `arena_bytes` is never below `PeakMemoryFootprint`. That footprint counts the weights and
  an operand and its output apart, so in-place aliasing and resident weights both make the arena smaller.
- The registration loop catches `OSError` only (`server.py:708`): an ill-formed reply would end it. A
  tracker of this repository sends none, and `Tracker` has none.
- A session holds no lock around a call (`client.py:173`); two threads that share one can read each other's
  answers. `RpcSession` gives every client one thread, as the documents do.

## 6. Not modelled, and why

- What transforms compute: every optimizer pass, shape rule and kernel is a function or an
  outcome in the models. Numerical code is out of a model checker's reach.
- File formats and framing: a message or a file is one value, read or written whole where the code
  renames it into place.
- In `RemoteCompiler`, a compile longer than the ten minutes' grace (`SlowCompiles = TRUE`) is
  possible in the model but no run enables it: the code promises nothing there. Failures of
  `create_directory` other than "exists" end a request like a timeout and are not told apart.
- In `Tracker`, replies that are not in the protocol.
- The parts listed as `not_modelled` in `PROJECT.json`, with a reason each.
- In `RpcSession`, the TPU-MLIR runner (in process, like onnxruntime) and tensor encoding; a header that is
  not JSON; clients that share a session between threads.
- In `MemoryPlanning`, `naive_bytes` and the list of unplanned names (sums and lists of the same sets); the recursion into
  bodies, whose plans have arenas of their own and enter as a size; overflow of 64-bit byte counts.
- In `DataParallel`, the death of the parent, and the numbers. In `Bisect`, what an evaluation runs.
- In `XdnaCache`, `.tmp-*` and `.trash-*` directories of a crashed process: nothing reads or collects them.
- The manifest of `versioning.py` (`append_step` reads, extends and rewrites one file without a lock, for one
  user at a time), federated averaging (a pure function of its arguments).
- More than nine tenths of the repository's lines are numerical or generated: pruning, quantization, training graphs,
  exporters, schemas, device scripts. They transform arrays and graphs in one call, without state, concurrency or
  failure handling; a model would repeat the formula.

## 7. Plan

Done: the fixed point, folding, the tracker, both compile caches, RPC sessions, data-parallel training with its
abstract specification, the bisection, the memory planner. In this order next:

1. `ArtifactStore`: an abstract specification of a shared compile cache, implemented by `RemoteCompiler` with
   the three files mapped to the pair their marker digests.
2. The gRPC gateway with a worker that restarts (`already_present`, `grpc_gateway.cpp:267`), the ROS 2 bridge's
   lease and capability hint, the profiler's spans.
