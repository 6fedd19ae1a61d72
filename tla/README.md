# TLA+ models of the gpatch_v4 rollout pipeline

This directory models, model-checks and proves properties of the control logic
of G-Core (`src/gpatch_v4`), a library for reinforcement learning of language
models on Ray, Megatron, FSDP2, vLLM and SGLang.  Most of the repository is
numerics (models, kernels, losses, parallel layouts) or thin adapters to other
systems.  The part whose correctness depends on order, concurrency and crashes
is the *asynchronous GRPO pipeline*: a trainer that trains step *n* while the
samplers already generate steps *n+1 ... n+s*, with **tail batching**
(over-dispatch prompts, stop when enough have finished, give the rest back), its
checkpoints, and the **failure recovery** around every trainer.

Files and line numbers below are under `src/gpatch_v4/` unless they start with `tasks/`; `PROJECT.json` maps
each definition to the lines it stands for.

## 1. Inventory

| Component | State it keeps | Operations | Hard behaviour | What makes it correct |
|---|---|---|---|---|
| **Trainer window loop** `trainer/grpo_single_ctrl_trainer.py` | `train_step`, `fired_step`, `steps_since_update`, the fire target | fire up to a target in epoch chunks, collect, train, save, drain, update weights, final save, resume | two files per checkpoint, saved before the drain; windows that straddle an epoch; carry-over of prefetched batches | every run ends; last step saved; weights move only when the sampler is idle; staleness bound |
| **RolloutController** `rollout_generator/async_rollout/rollout_controller.py` | `_pending`, `_inflight_tasks`, `_ready_queue`, `_pause_task`, window counters, ordered buffer, the rollout-attr cache | `begin_step`, `fire_generation_requests`, one dispatch task per microbatch, accept / abort / fail, `_broadcast_pause`, `collect_rollout_step`, `wait_all_inflight`, `save_data_source` | asyncio tasks interleaved at every await; late aborts; exceptions travelling through a queue | window counted exactly; aborts hit only excess work; cache exact; prompts neither lost nor trained twice |
| **Data sources** `orches/data_source.py`, `utils/resumable_distributed_sampler.py`, `tasks/math_rl_v4/resumable_rollout_data_source.py` | iterator, epoch counters, total consumed, buffer | `get_batch`, `add_partial_samples`, `save`, `load` | four places remember the epoch; resume mid-epoch and at its end | one endless stream, each prompt once and in order |
| **Agent loop actors and engine abort** `agent_loop_actor.py`, `two_turn_reflect_agent_loop_actor.py`, `generation_backend/vllm_engine.py` | pause flag, turn | begin, pause, generate turn by turn, abort | flag set between turns; requests submitted after the abort | seen through the controller's properties |
| **Trainer recovery** `trainer/trainer_mixin.py`, `orches/train_group.py`, `actor/mixin.py` | launch count, two racing tasks, retry flags of the actors | launch, race, join, cancel, shut down, relaunch | a crash and a hang seen by different tasks; blocking barriers; blind spots of the liveness check | returns only complete runs; attempts counted right; always decides |
| **Node replacers** `orches/node_replacer.py`, `orches/gemini_self_heal.py` | `_bad_pods` | evict, provision, wait for the cluster | state of one failure read in the next | no relaunch on a bad node; raises only for cause |
| **Ordered collection, sliding prefetch** (same controller, no tail batching) | `_ordered_ready`, the ready queue | buffer, complete, pop | several steps in flight, arrivals in any order | each step its own prompts in order; groups whole; age bounded; no assertion trips |
| **Colocated placements** `async_rollout/mixin.py`, `agent_loop_actor.py`, controller lines 220-345 and 560-725, `training_backend/mixin.py` (offload), `generation_backend/*_engine.py` (wake, sleep) | tags of each engine, what of the policy is on the GPU, the dispatching task, the phase of every agent | offload, push, wake, generate, score, sleep, deliver, onload | barriers of all agents around shared state; exceptions inside a phase; a task that closes its step after it has delivered the batch | GPUs never claimed twice; nobody generates on a sleeping engine; a failure ends the trainer |
| **Streamed external rewards** `agent_loop_actor.py` | reward futures of one agent_loop call | fire as a generation lands, collect by index, cancel and drain | answers in any order; failure while futures run | every microbatch with its own reward; no future outlives its call |
| **Batch balancing and packing** `core/dp_balancing.py`, `core/seqlen_balancing.py`, `training_backend/megatron_backend/mixin.py` | the plan, rows of a rank, its micro-batches | gather lengths, partition, exchange, pack, agree on a number, forward, send back | ranks that plan alone and meet in collectives; rows sent without names | same number of micro-batches everywhere, each within the budget; every sample back in its place with its own result |
| **Dynamic context parallelism** `utils/dynamic_cp_utils.py`, `extended_model/llm.py`, `training_backend/megatron_backend/mcore_engine.py` and `mixin.py` | the schedule, packed micro-batches of a rank, which rank computed which sample | gather lengths, schedule, reroute all-to-all, pack, forward in groups of changing size, reverse all-to-all, reduce | ranks that derive both sides of an all-to-all alone; groups that change per micro-batch; padded offsets, unpadded lengths | split sizes agree and groups meet; results go to their owners; tokens counted once |
| Partial rollout `rollout/` | data, partial and done buffers, coordinator records | generate, report, abort, balance | abort races reports; integer balancing plan | not modelled: dead code in this tree (section 6) |
| Everything else | | | | see `components` in `PROJECT.json`, each with its reason |

How they interact: the trainer calls the controller through Ray (`begin_step`,
`fire_generation_requests`, `collect_rollout_step`, `save_data_source`,
`wait_all_inflight`) and awaits each call; the controller's tasks call agents,
agents call engines; results return through the ready queue, exceptions through
the queue *and* the task; the pause goes controller → agents → engines while the
tasks run on.  A checkpoint is a tracker file written by the training backend
plus one `controller_data_source.pt` written by the controller.  The recovery
driver surrounds the whole trainer: after a failure it shuts Ray down and runs
`launch` again, which ends in the trainer's resume path.

## 2. Modules

`TailBatching` and `SlidingPrefetch` are the two modes of one pipeline; both
extend `TrainerWindow`, the trainer's window arithmetic.

### TailBatching — the composed pipeline
The trainer loop, the controller, the tail-batching data source, agents and
engine, and the disk, in one module because every await of one is a point where
the others run.  A microbatch of prompts is its position in the stream of the
dataloader; a dispatch is the code's key `(ppo_step, microbatch_idx)`.

| Model | Code |
|---|---|
| `pc`, `BeginStep`, `FireGenerationRequests`, `CollectItem`, `FinishCollect`, `Train`, `SaveModel`, `SaveData`, `WaitAllInflight`, `UpdateWeights` | the trainer's coroutine between two awaits, with the controller's handler it calls |
| `inflight_tasks[k].phase` | one `dispatch_single_item_to_agent` task: created → sent → engine → done, or aborted, or failed |
| `StartTask`, `EngineSubmit`, `NextTurn`, `Complete`, `HandleAbort`, `Fail` | its awaits: the early return when the target is met, the request reaching the engine, the turn loop with its pause check, acceptance and the puts, the two `except` branches |
| `pause_task`, `broadcast`, `PauseGeneration`, `AbortAll` | `_broadcast_pause`: every agent's flag in any order, then one abort of what is on the engine |
| `pending` | `_pending` with both consumed flags |
| `attr_cache` | the rollout-attr cache, by dispatch instead of by fresh uuid: a key is released by `begin_step` or by the collection before the same step index can be fired again |
| `model_ckpt`, `ds_ckpt`, `Restart` | the tracker, the data-source files, a crash at any await and the relaunch |

`FireGenerationRequests` is one action because the call never awaits; a single
`begin_step` opens the window for all epoch chunks, as in the code.
`DOMAIN inflight_tasks = {}` in `BeginStep` is the code's assertion; were it ever
false, the model's trainer would stop there and `EventuallyStops` would fail.
The gen-RM engine's abort is part of `AbortAll`.  Weight update is atomic.

### SlidingPrefetch — the pipeline without tail batching
The same trainer loop over the controller's plain mode: each microbatch is fired
once and must be trained; results are collected as they finish, or buffered by
step and collected in order (`ordered_ready`).  Below it is either
`RolloutDataSource`, which keeps nothing over a relaunch, or
`ResumableRolloutDataSource`, whose constructor checks the position it resumes
from (`Rejected`) against the one the dataset factory computed (`FactoryCursor`).
A prompt is a microbatch of the dataloader, named by its epoch and its place in
it; `trained_in` is the history of what each step trained, in order.  An agent is
a single await here: without a pause, nothing can happen inside it.

| Model | Code |
|---|---|
| `inflight_tasks`, `StartTask`, `Complete`, `Fail` | the dispatch task: the target check (always open in this mode, since nothing counts up), the agent's return with its puts, its exception |
| `CollectFirstFinished`, `CollectOrdered`, `FinishCollect` | one queue item each, then what is done once the step is complete; the three assertions of ordered collection lead to `failed` |
| `current_epoch`, `start_index`, `train_iter`, `total_dl_consumed` | the data source and its sampler |
| `Committed`, `SaveData`, `RestartReader` | the saved cursor is that of the checkpointed step, not the one the prefetch has reached |

The class comment of `ResumableRolloutDataSource` says that it does not support
asynchronous training and may lose prompts.  The model says when: with ordered
collection `OrderedTraining` holds over relaunches, so nothing is lost; in
first-finished order a relaunch rewinds to a step's position although later
prompts may have been trained in place of earlier ones, so the property is not
stated for it.

### PromptLedger — the abstract specification
What a pipeline with `rollout_reuse_unused_prompts` promises: it reads prompts,
each step trains a full batch of prompts read and never trained, a checkpoint
remembers what is read and trained, a restart resumes from the last one.
`TailBatching!KeepsLedger` is the refinement: the ledger's `trained` is the union
of the history variable `trained_in`, and a file's `trained` is what was read
minus what it owes.  The ledger's own invariant, that what is
stored on disk and what is in memory add up and each prompt is trained in at most
one step, is proved of the ledger (`PromptLedgerProofs`) and so holds of what
implements it.

### TailDataSource — the stream in detail
The same data source with the epoch counter, the sampler's epoch and offset, the
iterator and the wrap-around at the end of an epoch, driven by a pipeline of
staleness 0.  `served` is a history of what the dataloader returned; `boundary`
records that a relaunch loaded a cursor exactly at the end of an epoch, the case
of the finding below.

### TrainerRetry — the recovery driver
`launch_then_run_with_recovery`, the training loop's rank-order await, the
liveness poll of actor 0, and the three node-replacer settings.  An actor is a
rank walking through barriers; a fault kills it, makes its coroutine raise, or
hangs it; a barrier with a faulty peer may time out.

### AgentLoop — placements in which engines and policy share the GPUs
The single-controller trainer again, with synchronous steps, over the two
placements in which memory moves between the policy and the engines.  A *run* is
one `agent_loop` call: an agent with its partition of the step (`colocate`), or a
single microbatch (`partial_colocated`).

| Model | Code |
|---|---|
| `policy`, `Offload`, `OffloadModel`, `Train`, `FinalOnload` | each rank's `OffloadManager` around the weight push, the onload of `train_step`, `prepare_for_final_save` |
| `engine[e].tags`, `.held`, `WakeUp`, `Sleep` | the flags each engine keeps per tag and the memory it really holds; vLLM and SGLang differ in what a sleep with one tag asleep releases |
| `task`, `OpenStep`, `CloseStep`, `Deliver`, `DispatchDone`, ... | the controller's one dispatching task per step |
| `pc`, `phase`, `EnterPhase`, `OpenBarrier`, ..., `ClosedBarrier` | the agent between `sampler_phase` and `gen_rm_all_phase`; a barrier is one step of all agents |
| `Issue`, `FinishCall`, `Consume`, `GatherPhase`, `CollectRewards`, `Raise` | requests, their answers in any order, the streamed rewards fired on landing, the cancel-and-drain of the `except` branch |

`MaxFailures` remote calls fail, at any of the points where the code awaits one.
A `gather` raises at its first failure and does not cancel the siblings: a request
of a failed run may still be on an engine that is then put to sleep, so
`UsesAwakeEngines` speaks of runs that have not failed.  Agents left in a barrier
by a failed peer stay there; the controller's own gather fails fast and the job is
torn down, which is how `EndsRight` ends.  The ready queue is a set here, because
each slot of a step is filled once; its order is the subject of `SlidingPrefetch`.

### LogProbs — how ranks share out a batch
`policy.balance_dp_seqlen` and `dist_config.dynamic_context_parallel` exclude each
other (`BasePolicyConfig.__post_init__`).  `LogProbs` composes the two protocols,
`BatchPlan` and `DynamicCp`, as the actor does that chooses one of them; the
variables of the other way stay put.

### Balancing, BatchPlan — samples between data-parallel ranks
`Balancing` holds the pure algorithms: Karmarkar-Karp with the tie-breaks of its
two `__lt__`, the assertions of its result, and the lower bound of the search for
the number of micro-batches.  A sorted list is given by how many items come
before each (`Listing` of `Ordering`, which `DynamicCp` uses too), the loop over the heap by a recursive function of the
number of turns (`Merged`): both can be reasoned about without induction over
sequences.  `BatchPlan` is the protocol of all ranks around
them, for the log-probability pass: everyone plans from the same gathered
lengths, rows travel peer to peer without names, each rank packs its own rows,
the numbers of micro-batches are aligned by an all-reduce, the forward pass takes
them in lock step, and the rows go back.  A rank whose assertion fails stops, and
every collective of the others then waits for it.  `CollectivesMatch` says which
assertion that can be (`OnlyAlignmentFails`), that a rank in an exchange waits only
for what is sent or about to be (`MailIsDue`), and that no rank leaves the
micro-batch loop while another has a micro-batch left (`LockStep`).
`PackingFails` is `BatchPlan` on the one batch of a finding.

### DynamicCp — groups that change with every micro-batch
The ranks of the data-parallel by context-parallel grid.  `task` is what the batch
is for: log-probabilities (one reroute, then a pass and a way back for the
reference model and for the policy), training, or training with the
`smart_padding` scheduler, which selects samples locally.

| Model | Code |
|---|---|
| `Schedule` | `dyn_cp_schedule_default` up to the scheduler's answer. Megatron's scheduler is external: any assignment of samples to aligned blocks of ranks, of a size that is a power of two and divides the grid (`GroupSizes`: the groups Megatron creates), in which each rank has one non-empty block per micro-batch |
| `SrcRank`, `ToSend`, `ToReceive`, `RerouteLegal`, `Unpacked` | `reroute_samples_to_dcp_ranks_by_keys_fused`: every rank computes what it sends and, separately, what it expects; tokens are cut out of the received buffer by the receiver's list |
| `Pack`, `CpSizeAt`, `LastListed`, `Reroute` | packing with padded and unpadded lengths, the group's size from the schedule, `gid_to_compute_rank` |
| `SelectLocally` | `dyn_cp_schedule_smart_padding` |
| `ComputeLogprobs`, `TrainMicroBatch` | one micro-batch of one group, enabled when all its members are there with the same group and number of tokens; the shards gathered and cut per sample; the shard's own tokens counted |
| `ToReturn`, `ToGetBack`, `ReverseLegal`, `ReturnLogprobs` | `reverse_reroute_logprobs` and `_reverse_and_collect` |

Groups run at their own pace, as on the GPUs; nothing orders two groups.  A token
is named by its sample and its position, so a slice that is off by
one or from the wrong sample shows.  Abstracted: one key instead of several in a
reroute, the contiguous partition for the zigzag one (another bijection between
positions and shards), tensor and pipeline parallelism of one.  Every unpadded
token counts for the loss.  The count is the one of SFT and of the mean-style
losses; `_rl_return_sum_loss_for_megatron` raises the count of each micro-batch to
at least one (`clamp(min=1)`), so with the sum-style losses a shard without
response tokens adds one to the denominator, which the property would not allow.

### Proof modules
`TailBatchingProofs` and, on top of it, `TailBatchingPromptProofs`;
`SlidingPrefetchProofs`, `TailDataSourceProofs`, `TrainerRetryProofs`,
`AgentLoopProofs`, `PromptLedgerProofs` and `LogProbsProofs`; each EXTENDS the
module it is about, the last one `LogProbs` and so `BatchPlan` and `DynamicCp`.

## 3. Runs

| Run | What it shows | Bounds, and why they suffice |
|---|---|---|
| `tail_batching` | `TypeOK`, `AttrCacheExact`, `WindowExact`, `FailsForCause`, `OutstandingBounded`, `FinalStepSaved`, `StalenessBounded`, `IdleAtUpdate`, `AbortsOnlyExcess`, `KeepsLedger`, `EventuallyStops` | 3 steps, 2 per epoch, staleness 1: a first window of two steps inside an epoch and later ones of one step across its end; 2 dispatches for 1 needed microbatch, so each window has excess to abort; 2 agents and 2 turns, so the pause lands between agents and between turns; save interval 2, so one save is in the loop and the last after it; one failure and one crash anywhere; with staleness 1 a batch is already carried over a weight update, and more steps ahead are the theorem's |
| `sliding_prefetch` | `TypeOK`, `OrderedTraining`, `GroupsWhole`, `EachPromptOnce`, `StalenessBounded`, `FailsForCause`, `NothingLeft`, `EventuallyStops` | 4 steps, 2 per epoch, staleness 1: two steps in flight, a fire in the middle of an epoch and one that opens the next; 2 microbatches a step and 2 rollout batches a microbatch, so that items of two groups and of two steps mix in the queue; a save after each step, so that a relaunch resumes at an epoch's middle and at its end; both orders, both sources, one failure, one crash |
| `tail_data_source` | `TypeOK`, `StreamExact`, `NothingLost` | epochs of 4 microbatches, 2 needed and 3 over-fired, so that reads cross an epoch in the middle of a request at changing offsets; 7 steps, 2 relaunches from any saved step |
| `trainer_retry` | `TypeOK`, `ReturnsOnlyComplete`, `ExhaustedForCause`, `NoBadNodeReused`, `EventuallyDecided` | 2 actors (the observed rank 0 and another), 2 steps, 2 restarts, 3 faults: enough to exhaust all attempts; every replacer setting |
| `agent_loop` | `TypeOK`, `MemoryExclusive`, `UsesAwakeEngines`, `NoRewardOutlives`, `BatchComplete`, `EndsRight` | every combination of placement, backend, gen-RM, external reward, streaming and early swap the validation allows; 2 ranks and 2 agents, so that one can be ahead of the other at each barrier; 3 microbatches over 2 agents, so that partitions are uneven and rotate from step to step; 2 gen-RMs, one of which may wake without the other; 2 steps without a save in the loop, so that the final save with its sleep happens; one failure at any remote call |
| `log_probs` | `TypeOK`, `EvenWork`, `RestoredInPlace`, `CollectivesMatch`; `RanksMeet`, `OwnersGetTheirs`, `EachTokenOnce` | *Balanced*: 3 ranks of 3 samples, each length 1 or 5: all 512 length vectors; padding to 2, context parallelism 1 or 2 and a budget of 10, so that a group fits before the padding for context parallelism and not after it, and ranks need 1, 2 or 3 micro-batches. *Dynamic*: a grid of 2 by 2, so groups of 1, 2 and 4 ranks, and dp groups that differ per context-parallel slice; 4 samples split 1 and 3 or 3 and 1, since equal counts would hide an offset, of length 3 or 9, padded to 8 or 16; every schedule of 1 or 2 micro-batches; 2 passes over the same packed data; `smart_padding` with 2 or 6 samples for each dp index and budgets of 8 and 12, so that both group sizes, one and several micro-batches, and an uneven split of samples among them occur |
| `torn_checkpoint`, `epoch_replay`, `stale_bad_pods`, `resume_rejected`, `lost_begin_failure`, `packing_fails` | violations, section 4 | smallest instance that shows each |

Every property has a mutant in `PROJECT.json`: the change of the code, for
instance a counter that is not reset or a drain that is skipped, that makes TLC
report it violated.

**Bounds named in the modules**: `MaxFailures`, `MaxRestarts` (TailBatching and
SlidingPrefetch),
`MaxStep`, `MaxRestarts` (TailDataSource), `MaxFaults` (TrainerRetry),
`MaxFailures` (AgentLoop).  The number of steps is a
parameter of the program itself.

**Fairness.**  `TailBatching` and `SlidingPrefetch` assume weak fairness of the disjunction of all
steps that make progress (trainer, tasks, pause), nothing per task: an asyncio
event loop runs some ready callback, Ray calls and engine requests return.
Failures and crashes are never forced.  `TrainerRetry` assumes weak fairness of
the actors taken together, of each of the two tasks, and of the driver: the tasks
poll or await, and one cannot starve the other.  `EventuallyDecided` is stated
modulo `BlindSpot`, a hang of actor 0 before its first progress report or after
`train_step_finished`, which the code's check cannot see.
`AgentLoop` assumes only that some enabled step is taken (`WF_vars(Next)`): no step
undoes another, so each behaviour ends, and `EndsRight` says where.  `LogProbs`
needs no fairness: that no rank waits for ever in a collective are the invariants
`CollectivesMatch`, up to the assertion of a finding below, and `RanksMeet`, the second of which says that as long as a
micro-batch is left some group can take its step.

## 4. Findings

- **Torn checkpoint** (`torn_checkpoint`): `save_checkpoint` then
  `save_data_source` are two steps (lines 279-280 and 315-316 of the trainer).
  After a crash in between, the tracker names a step without data-source file and
  each relaunch stops at the assertion in `load`.
- **Epoch replay** (`epoch_replay`): a cursor saved at the very end of an epoch
  restores `_current_epoch` one behind the sampler; the next epoch is served
  twice.
- **Stale bad pods** (`stale_bad_pods`): the Gemini replacer keeps `_bad_pods`
  from an earlier failure when the platform reports none now, then waits for a
  replacement nobody started and raises.

- **Resume rejected** (`resume_rejected`): the trainer drops the microbatches that
  do not fill a step at the end of an epoch, the dataset factory counts them when
  it computes where to resume.  When a step does not divide the dataloader's
  length, `ResumableRolloutDataSource` refuses the checkpoint it wrote itself
  after the first epoch.  The check is in the constructor, so this concerns the
  synchronous colocated mode as well.  `FailsForCause` of `SlidingPrefetch` is
  stated for whole steps only, because of this.
- **Lost begin failure** (`lost_begin_failure`): the docstrings of the controller
  say that an exception of a dispatching task reaches the ready queue and so the
  trainer.  In the partial placement the task first enters a context that wakes
  the engines; when that raises, nothing is queued, and the trainer waits in
  `collect_rollout_step` for ever.  `EndsRight` excepts exactly this case
  (`BeginFailed`).
- **Packing fails after the alignment** (`packing_fails`): a rank that needs fewer
  micro-batches than another packs again with the larger number and asserts that
  it fits (`core/seqlen_balancing.py:294`).  Karmarkar-Karp is a heuristic, and its
  heaviest part may grow with the number of parts: 17 samples that fit a budget of
  45 in 7 parts have a part of 46 in 8.  The assertion stops a rank that held a
  partition within the budget, while the other ranks go into the loop, whose
  docstring promises lock step.  The numbers are small because the lengths of the
  run are in units of the padding: times 128, lengths, padding and budget give the
  same.  The theorem `NobodyIsLeftWaiting` says that no other assertion of the plan
  can fail; `CollectivesMatch` excepts exactly this one (`FailedAligning`).

## 5. Proofs

All with TLAPS, for every value of the constants allowed by the modules' named
assumptions.

| Theorem | Statement | Argument |
|---|---|---|
| `TailBatchingProofs!TypeCorrect` | `Spec => []TypeOK` | `TypeInv == TypeOK /\ StepsLeft`: the type invariant alone is not inductive, since `train_step + 1` stays in range only where the program counter says that a step is left, and the fire actions only while `fired_step < fire_target`. One lemma per action; `ChunkBounds`, `DivisionBounds` and `ProductMonotone` give the window arithmetic. |
| `TailBatchingProofs!AbortsAreNotFailures` | `Spec => []FailsForCause` | `PauseInv` relates the pause task, the broadcast and the phases (an aborted task implies a pause task is held), `FailInv` the failed tasks and error items to injected failures. |
| `TailBatchingProofs!PausesHitExcess` | `Spec => AbortsOnlyExcess` | from `PauseInv`: a broadcast under way implies the target of the window is met. |
| `TailBatchingProofs!WeightsMoveWhenIdle` | `Spec => IdleAtUpdate` | `UpdateIdle`: at `update` no task is tracked. |
| `TailBatchingProofs!WindowsAreExact` | `Spec => []WindowExact` | `WindowInv` adds to the above where the window stands at each program counter (`LoopInv`), what a step may have collected (`BatchInv`), which dispatches exist (`KeyInv`, `TaskInv`) and what the window has counted (`CountInv`). The counting is done on `Line == batch \o ready_queue`, which collecting an item does not change: `BalanceInv` says that its length and what the window still accepts (`StillDue`) add up to what is still to be trained, as long as the line holds no error item. No induction over the queue is needed, since each step appends a block of known length or removes one. |
| `TailBatchingProofs!CollectorIsServed` | `Spec => []NeverStarved` | `ErrorInv`: a failed dispatch leaves its error item in the line or the trainer has stopped on it; with `BalanceInv`, an empty queue in `collect` means that the target is not met, so a task is under way. It is the safety half of `EventuallyStops` and of no run. |
| `TailBatchingProofs!AttrsAreExact` | `Spec => []AttrCacheExact` | `GroupInv`: two items of one dispatch ahead of the first error stand in one aligned block of `RbMultiplier` (`SameGroup`), so that a full batch holds all items of a dispatch or none (`CollectedWhole`) and what is removed from the cache is no longer in the queue. |
| `TailBatchingProofs!StalenessHolds` | `Spec => []StalenessBounded` | `WeightInv` dates tasks and items; `FreshInv` bounds the position of an item in the line by the steps its weights have left (`InTime`), so an item carried over is trained before it is too old. |
| `TailBatchingProofs!LastStepIsSaved` | `Spec => []FinalStepSaved` | `SaveInv`: past the last step the two checkpoints hold it, or the final saves are still ahead. |
| `TailBatchingPromptProofs!PromptsAreKept` | `Reuse /\ Spec => KeepsLedger` | The refinement, step by step: a fire call is the ledger's `Read` or a stutter, `Train` its `TrainStep`, `SaveData` its `Save`, a relaunch its `Restart` or a stutter, every other step a stutter. What the mapping needs is `PromptInv`: a prompt that is read and not trained is in the buffer, once, or has one holder, a dispatch that waits for its rollout or one with rollout batches in `Line` (`HeldInv`, `SplitInv`); a data-source file of step n restores what its step owed (`DiskInv`). Holders move only in four steps, and the proofs of these need where rollout batches of an earlier window stand (`CarryInv`, `LeadInv`), that a group of the line is of one microbatch (`BlockInv`) and what `train_consumed` stands for when `save_data_source` reads it (`ConsumedInv`). |
| `TailBatchingPromptProofs!ReadAheadIsBounded` | `Reuse /\ Spec => []OutstandingBounded` | on top of `PromptInv`, `LoadInv`: while a window fires, what is held is at most what the steps fired and not trained dispatch, and the dataloader is read only when the buffer holds less than a step; the bound is kept with every data-source file (`DiskInv`), so a relaunch restores it. |
| `TailBatchingPromptProofs!BooksBalance` | `Reuse /\ Spec => []Ledger!Balanced` | `LedgerStaysBalanced`, instantiated with the refinement mapping, and `PromptsAreKept`. |
| `PromptLedgerProofs!LedgerStaysBalanced` | `LedgerAssumption /\ Spec => []Balanced` | `LedgerInv == TypeOK /\ Balanced` is inductive; cardinalities of finite unions of disjoint sets. |
| `SlidingPrefetchProofs!PrefetchTypeCorrect` | `Spec => []TypeOK` | `TypeInv == TypeOK /\ LoopInv /\ SnapshotsOK`: the loop never fires past its target nor the target past what the step allows, and a data-source file holds what its step decides. `ChunkBounds` and `ServedBounds` keep a call to fire inside its epoch. |
| `SlidingPrefetchProofs!PromptsInOrder` | whole steps fill an epoch `=>` `(Spec => []OrderedTraining)` | `OrderInv`: tasks, queued items and buffered items hold the prompt their dispatch stands for; a batch to train and every trained step are those of their own step; the iterator stands at the next step to fire unless that step opens an epoch (`ReaderOK`). That one needs quotient and remainder to be unique (`EuclidUnique`), for the calls of one epoch and for the resume (`AlignedPosition`). |
| `SlidingPrefetchProofs!CompleteCheckpointsResume` | whole steps fill an epoch `=>` `(Spec => ResumeAccepted)` | the same alignment; without the hypothesis `resume_rejected` shows it false. |
| `SlidingPrefetchProofs!StopsForCause` | `Spec => []FailsForCause` | `BaseInv`: where the window stands at each program counter (`StepInv`, `BatchInv`), which dispatches are worked on (`TaskInv`) and that an item belongs to a dispatch no longer worked on (`QueuedInv`). Ordered collection needs `StepwiseInv` as well: nothing under way belongs to a trained step (`Due`), and no dispatch has more items, buffered and queued together, than its group (`Room`), so the assertions of the buffer never trip; `ReaderInv` keeps a read inside its epoch. |
| `SlidingPrefetchProofs!PrefetchIsFresh`, `GroupsTrainTogether` | `Spec => []StalenessBounded`, `[]GroupsWhole` | Ordered: `StepwiseInv`. In arrival order, `ArrivalInv` on `Line`: while no error item is in it, its length and the dispatches still worked on (`Cardinality(Outstanding)` groups) make up the steps fired and not trained (`Balanced`); the items of a dispatch fill one aligned block (`Grouped`); an item's place is within the steps that its weights have left (`Aged`). An error item leaves a failed task behind, on which the trainer stops before it trains (`Guarded`). |
| `SlidingPrefetchProofs!NothingIsLeft` | `Spec => []NothingLeft` | the same counts at the end of the run, and `AttrInv`: what is in the attr cache is still worked on, queued, buffered or in the batch being collected. |
| `SlidingPrefetchProofs!PromptsTrainOnce` | `Spec => []EachPromptOnce` | `OnceInv`: what a step trained came from dispatches that are live no longer (`TrainedGone`), whole groups of them, so two steps share none; two dispatches of one launch hold different prompts (`OrderInv`, which the arrival order keeps too). |
| `TailDataSourceProofs!DataSourceTypeCorrect`, `StreamIsExact`, `NothingIsLost` | `Spec => []TypeOK`, `[]StreamExact`, `[]NothingLost` | `CountInv` adds the books of one step (what is buffered, read and needed) and what the snapshots say of each other, so that the total read by a step bounds what any later step can owe; `StreamInv` relates iterator, epoch counter and sampler offset to the total read, and keeps that relation for every snapshot a relaunch may load. |
| `TrainerRetryProofs!RecoveryTypeCorrect`, `GivesUpForCause` | `Spec => []TypeOK`, `[]ExhaustedForCause` | `AttemptInv`: an attempt is left while an attempt runs (`AttemptLeft`), each launch before this one has cost a fault of its own and this one's faulty actors add to them (`FaultsPaid`), and neither task reports what did not happen (`TasksHonest`). |
| `TrainerRetryProofs!ReturnsCompleteRuns`, `RelaunchesOnGoodNodes` | `Spec => []ReturnsOnlyComplete`, `[]NoBadNodeReused` | `ReturnInv` (the training task returns only past every actor's last step) and `EvictInv` (a bad node is known to the replacer from the join to the relaunch). |
| `AgentLoopProofs!AgentLoopTypeCorrect`, `RewardsEndWithTheirRun` | `Spec => []TypeOK`, `[]NoRewardOutlives` | `TypeInv == TypeOK /\ StepLeft`. |
| `AgentLoopProofs!MemoryIsExclusive`, `RequestsFindEnginesAwake` | `Spec => []MemoryExclusive`, `[]UsesAwakeEngines` | `MemoryInv`: what an engine holds follows from its flags (`FlagsHonest`); the agents are in one phase or in two neighbouring ones with a barrier between them (`PhasesTogether`, `Barriers`); who may touch engines follows from where the trainer is (`Turns`, `Colocating`, `Stepping`); what a run awaits belongs to its phase (`AwaitedInPhase`). |
| `AgentLoopProofs!BatchesAreComplete` | `Spec => []BatchComplete` | `BatchInv` on top of `MemoryInv`: the requests of a run that has not failed are exactly those that its place and phase say it has asked for (`OnlyAsked`, `AllAsked`), each about its own rollout; what is not answered is awaited (`Awaited`), so a gather joins one answer of every scorer to every rollout batch (`JoinedRight`), and the batches hold what the phases behind the run put there (`Contents`). A failed run never returns (`FailedRuns`), so `NumMb` queued batches are the whole step (`TargetSize`); once a step is collected nothing of it is open (`Settled`), so the next one starts from nothing. |
| `LogProbsProofs!OrderIsRestored` | `Spec => []RestoredInPlace` | `RoundInv`: one conjunct per stage of the round, from the plan to the way home (which rows a parcel holds, what has arrived, what the results belong to). Sender and receiver derive the order of a parcel from the same plan: `PositionsIn` lists a rank's samples in a bin in increasing order, so the place of a sample in a parcel is how many of the sender's samples come before it in the bin (`PlaceInBuffer`), in both directions. |
| `LogProbsProofs!WorkIsEven` | `Spec => []EvenWork` | `RoundInv` and the correctness of Karmarkar-Karp, for any weights: a merge pairs the largest bin of one state with the smallest of the other and changes only where items stand, so through every turn each item is in one bin of one state (`HeapInv`); sorting permutes (`DescendingPermutes`); with `equal_size` all bins grow alike. Without it no part is empty where there are at least as many items as parts: either each bin has an item or no bin has two. So `Checked` holds of what `karmarkar_karp` returns (`PartsMade`, `PartsChecked`), and the parts are disjoint. |
| `LogProbsProofs!NobodyIsLeftWaiting` | `Spec => []CollectivesMatch` | `PlanHolds`, `RoundInv` with what is known of failures: `GatherSeqlens` fails no rank, because the assertions of the equal partition hold; a rank's own search ends, since with as many parts as samples each part is one sample (`FinestFits`), which fits by `convert_mbs_for_pack_seq`'s own check, and the lower bound of the search is at most that many (`SamplesFit`); so a failed rank failed on the larger number that the all-reduce gave, and had found a smaller one. |
| `LogProbsProofs!EitherWayIsSafe` | `EitherSpec => [](EvenWork /\ RestoredInPlace /\ CollectivesMatch)` | The three of `LogProbs`, whose run checks them: `OneWay`, either `PlanHolds` or the round has not begun. |
| `LogProbsProofs!ComesHome` | `CpSpec => []OwnersGetTheirs` | `CpInv`: the batch is fresh, planned, under way, or returned (`CpStages`). What a receiver cuts out of its buffer is what the sender meant because both list the same samples in increasing order: the sender of a sample is the rank of the sample's dp index in the receiver's slice (`SourceIs`, `ListsAgree`). A packed micro-batch is the samples' padded tokens one after the other (`FlattenSeq`, `Cumulative`), the shards of a group put together are that packed list again, and a cut of it at the padded offset with the unpadded length is the sample. While a pass is under way a rank holds exactly the log-probabilities of the samples of the micro-batches it is past (`Seen`, `Known`), and `ComputeRank`, the last rank that lists a sample, has it; so what comes back is complete and stands where its owner looks for it. |
| `LogProbsProofs!GroupsMeet` | `CpSpec => [](task # "smart_padding" => RanksMeet)` | the same invariant. The members of one group of one micro-batch are in step (`InStep`): all of them have done it or none. So a rank with the fewest micro-batches behind it belongs to a group whose members all stand there, which can go on. Both ends of an exchange compute the same list, hence the same sizes. |
| `LogProbsProofs!AllGroupsMeet` | `Cp` a power of two `=>` `(CpSpec => []RanksMeet)` | `SmartInv`: with `smart_padding` the members of a block stand at the same micro-batch. A block of `LocalCpSize` ranks lies within one dp index because powers of two divide one another, so `GroupIdx` is the same for all its members, and so are the samples they select; every dp index has as many samples, so every rank makes the same number of micro-batches. |
| `LogProbsProofs!EitherWayComesHome`, `EitherWayMeets` | the three for `EitherSpec` | A balanced run leaves the variables of `DynamicCp` at their start (`TheOther`). |
| `LogProbsProofs!CountedOnce`, `EitherWayCounts` | `CpSpec => [](GroupsFit => EachTokenOnce)`, and for `EitherSpec` | `OnceInv`: what has been counted is the size of the set of tokens taken (`TokenInv`). Each rank counts the unpadded tokens of its own shard of its own group's pack when it does that micro-batch, and the shards share out the batch (`Shared`): a sample is in one micro-batch of one group, which holds its tokens once (`Spells`), a pack is as long as its group times a shard, so each of its positions is in one member's shard, and the groups of a micro-batch have no rank in common. So the tokens that two ranks take are disjoint, and at the end nothing is left to take. |
| `LogProbsProofs!RoundTypeCorrect`, `DynamicTypeCorrect`, `EitherWayTypeCorrect` | `Spec => []PlanTypeOK`, `CpSpec => [](GroupsFit => CpTypeOK)`, `EitherSpec => [](GroupsFit => TypeOK)` | Kept beside `RoundInv` and `OnceInv`, which say how long a list of rows, a pack or a number of micro-batches can be. The one for `EitherSpec` is for non-empty sets of lengths and sizes: the variables of the way that is not taken keep an initial value, which is one of these. |

Karmarkar-Karp's loop, the sum of a part (`Weight`, a fold) and the listing of a set
are functions over data of any size.  What is said about all turns or all sizes is
proved by taking the least number for which it fails (`Least`), and a recursive
function is shown to exist before it is used (`HeapsExist`, `SumsExist`), because
the induction theorems of the library take an operator as a parameter.

Assumptions: those named in the modules (`TrainerWindowAssumption`,
`TailBatchingAssumption`, `SlidingPrefetchAssumption`, `TailDataSourceAssumption`,
`TrainerRetryAssumption`, `AgentLoopAssumption`, `BatchPlanAssumption`,
`DynamicCpAssumption`: positive sizes, over-dispatch above
the number needed, bounds that are numbers, a token budget that one sample fits), which are checks the configuration
code makes at start-up or facts about how sizes are derived, and which TLC
evaluates in the runs.  The ledger's
`LedgerAssumption` is a hypothesis of its theorem instead, since the ledger is
only run through its refinement; so is `EpochLen % NumMb = 0`, which the code does
not check, and so is `Reuse` (`rollout_reuse_unused_prompts`) for the three theorems about
prompts: without it the discarded prompts are dropped by design and the dataloader
runs ahead of the training without bound, as the ledger does not allow.  That the
context-parallel size is a power of two (`CpIsPower`) is a hypothesis of
`AllGroupsMeet` and, for `smart_padding` only (`GroupsFit`), of the theorems about the count of
tokens and about `CpTypeOK`: `_compute_smart_padding_dyn_cp_params` only asserts that the
group it chooses is not larger than that size, and a group that does not divide
it would straddle two dp indices.  The default scheduler needs no such hypothesis.

**Only model-checked**: liveness (`EventuallyStops`, `EventuallyDecided`,
`EndsRight`) and everything with fairness or ENABLED, which the installed provers
do not handle.  Every invariant that a run expects to hold is stated by a theorem.  No
module here declares a RECURSIVE operator.

## 6. Not modelled

The reason is with each component in `PROJECT.json`.  In short: numerics (losses,
advantages, kernels, models, parallel layouts), tensor transfer (weight update,
feature store), adapters to external engines, start-up configuration, datasets,
and lock-step trainers without interleaving.

The **partial rollout** package (`rollout/`: manager, coordinator, request group)
is dead code at this commit: nothing in the repository imports it, and it imports
`gpatch.core`, which is not part of the repository.  How its callers interleave its
operations, on which every property of it depends, cannot be read from any source,
so it is not modelled.

Details left out of modelled parts: metrics and logging, debug switches
(`skip_rollout_load_from_disk`, `disable_save_checkpoint`), environments and
two-turn scoring, wall-clock times, the HTTP protocol of the node platform, the
rebalance of training batches, dynamic batch sizes, the response padding of the
losses under dynamic context parallelism, the early return of the exchange for a rank without samples (the
partition gives every rank the same number).  The single-controller trainer
overrides the recovery driver and never retries, so `TrainerRetry` and
`TailBatching` meet only at the resume path, which `Restart` models.

## 7. Plan

What would come next, in this order:

1. The rebalance of training batches (`core/dp_balancing.py`, second use) and
   dynamic batch sizes on top of `BatchPlan`.
2. Weight update as more than one step: buckets, and an engine that generates
   between two of them.
3. The feature store of the multi-controller trainer, and load-aware routing of
   the sampler clients.
