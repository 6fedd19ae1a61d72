---------------------------- MODULE TailBatching ----------------------------
(***************************************************************************)
(* The asynchronous GRPO pipeline of gpatch_v4 with tail batching on:      *)
(*   - the trainer's window loop  (trainer/grpo_single_ctrl_trainer.py),   *)
(*   - the RolloutController      (rollout_generator/async_rollout/),      *)
(*   - the TailBatchingDataSource (orches/data_source.py),                 *)
(*   - the agent loops and the sampler engine, as far as the controller    *)
(*     sees them, and the two files a checkpoint consists of.              *)
(*                                                                         *)
(* One rollout microbatch of prompts is one natural number: its position   *)
(* in the stream the dataloader hands out.  A dispatch is named, as in the *)
(* code, by the pair <<ppo_step, microbatch_idx>>.                         *)
(***************************************************************************)
EXTENDS TrainerWindow, Sequences, FiniteSets, SequencesExt

CONSTANTS
    NumMb,           \* rollout_gbs // rollout_mbs: microbatches one step trains
    OverFireMb,      \* ceil(NumMb * rollout_over_dispatch_ratio)
    RbMultiplier,    \* rollout batches one microbatch yields
    Reuse,           \* rollout_reuse_unused_prompts
    NumAgents,       \* size of the AgentLoopActor pool
    Turns,           \* generations per microbatch (2: TwoTurnReflect actor)
    MaxFailures,     \* bound: agent exceptions injected in a behaviour
    MaxRestarts      \* bound: crashes (and relaunches) in a behaviour

ASSUME TailBatchingAssumption ==
    /\ NumMb \in Nat \ {0} /\ OverFireMb \in Nat /\ OverFireMb > NumMb
    /\ RbMultiplier \in Nat \ {0} /\ Reuse \in BOOLEAN
    /\ NumAgents \in Nat \ {0} /\ Turns \in Nat \ {0}
    /\ MaxFailures \in Nat /\ MaxRestarts \in Nat

VARIABLES
    pc,                   \* where the trainer's coroutine is
    train_step, fired_step, fire_target, steps_since_update,
    sampler_weights,      \* train_step at the last update_weights
    trained_in,           \* history: prompts each completed step trained on
    total_dl_consumed, buffer,              \* TailBatchingDataSource
    pending,              \* _pending: dispatch -> PendingMicrobatch
    inflight_tasks,       \* _inflight_tasks: dispatch -> task
    ready_queue,          \* _ready_queue
    batch,                \* items collect_rollout_step has taken so far
    step_target_rb, step_collected_rb,
    pause_task,           \* whether _pause_task holds a task
    broadcast,            \* how far that task's _broadcast_pause is
    attr_cache,           \* dispatches whose sampling attrs are cached
    next_fire_actor_idx,
    paused_agents,        \* agents whose _pause_event is set
    model_ckpt,           \* step in latest_checkpointed_iteration.txt, 0: none
    ds_ckpt,              \* step -> controller_data_source.pt
    failures, restarts

trainerVars    == <<pc, train_step, fired_step, fire_target, steps_since_update>>
learnerVars    == <<sampler_weights, trained_in>>
dataSourceVars == <<total_dl_consumed, buffer>>
pauseVars      == <<pause_task, broadcast, paused_agents>>
windowVars     == <<step_target_rb, step_collected_rb, pauseVars>>
diskVars       == <<model_ckpt, ds_ckpt>>
boundVars      == <<failures, restarts>>
vars == <<trainerVars, learnerVars, dataSourceVars, windowVars, diskVars, boundVars,
          pending, inflight_tasks, ready_queue, batch, attr_cache, next_fire_actor_idx>>

----------------------------------------------------------------------------
\* Shapes of the data.

Dispatch == (0 .. TotalSteps - 1) \X (0 .. OverFireMb - 1)
Agents   == 0 .. NumAgents - 1

PendingMicrobatch == [raw : Nat, rollout_consumed : BOOLEAN, train_consumed : BOOLEAN]
Task == [phase : {"created", "sent", "engine", "aborted", "done", "failed"},
         agent : Agents, turn : 1 .. Turns, weights : Nat]
QueuedRolloutBatch == [key : Dispatch, raw : Nat, weights : Nat, error : BOOLEAN]
Snapshot == [total_dl_consumed : Nat, buffer : Seq(Nat)]

EmptyDict == [k \in {} |-> 0]
Before(j, k) == j[1] < k[1] \/ (j[1] = k[1] /\ j[2] < k[2])

Earlier(S, k) == {j \in S : Before(j, k)}

\* The iteration order of a dict filled in fire order.
DictOrder(S) ==
    [i \in 1 .. Cardinality(S) |-> CHOOSE k \in S : Cardinality(Earlier(S, k)) = i - 1]
RawsOf(keys) == [i \in DOMAIN keys |-> pending[keys[i]].raw]

----------------------------------------------------------------------------
Init ==
    /\ pc = "begin_step"
    /\ train_step = 0 /\ fired_step = 0 /\ fire_target = FireTarget(0)
    /\ steps_since_update = 0 /\ sampler_weights = 0
    /\ trained_in = [s \in 0 .. TotalSteps - 1 |-> {}]
    /\ total_dl_consumed = 0 /\ buffer = <<>>
    /\ pending = EmptyDict /\ inflight_tasks = EmptyDict
    /\ ready_queue = <<>> /\ batch = <<>>
    /\ step_target_rb = 0 /\ step_collected_rb = 0
    /\ pause_task = FALSE /\ broadcast = "idle" /\ paused_agents = {}
    /\ attr_cache = {} /\ next_fire_actor_idx = 0
    /\ model_ckpt = 0 /\ ds_ckpt = EmptyDict
    /\ failures = 0 /\ restarts = 0

----------------------------------------------------------------------------
\* RolloutController.begin_step: settle the previous pause, hand dropped
\* prompts back, open a window over the steps the trainer is about to fire.

PauseIgnored == TRUE
PauseSettled == pause_task => broadcast = "idle"
Discarded == {k \in DOMAIN pending : ~ pending[k].rollout_consumed}

\* _release_discarded_attrs, and the per-window counter.
KeepDiscardedAttrs == attr_cache' = attr_cache
ReleaseDiscardedAttrs == attr_cache' = attr_cache \ Discarded
KeepCollected == step_collected_rb' = step_collected_rb
ResetCollected == step_collected_rb' = 0

\* The microbatches the steps about to be fired will train, in rollout batches.
WindowTarget == (fire_target - fired_step) * NumMb * RbMultiplier

BeginStep ==
    /\ pc = "begin_step"
    /\ DOMAIN inflight_tasks = {}      \* asserted; a trainer stuck here never stops
    /\ PauseSettled
    /\ buffer' = IF Reuse THEN buffer \o RawsOf(DictOrder(Discarded)) ELSE buffer
    /\ ReleaseDiscardedAttrs
    /\ pending' = EmptyDict
    /\ step_target_rb' = WindowTarget
    /\ ResetCollected
    /\ pause_task' = FALSE
    /\ paused_agents' = {}
    /\ pc' = "fire"
    /\ UNCHANGED <<broadcast, train_step, fired_step, fire_target, steps_since_update, learnerVars,
                   total_dl_consumed, inflight_tasks, ready_queue, batch,
                   next_fire_actor_idx, diskVars, boundVars>>

----------------------------------------------------------------------------
\* One fire_generation_requests call: the steps up to the next epoch boundary.
\* It never awaits, so it is one step.  Every step of the chunk pops NumMb
\* prompts while the buffer lasts and over-fires from the dataloader after that.

ChunkEndOfEpoch == (fired_step \div StepsPerEpoch + 1) * StepsPerEpoch
ChunkEnd == Lesser(fire_target, (fired_step \div StepsPerEpoch + 1) * StepsPerEpoch)
NeverBuffered == 0
BufferedSteps == Lesser(ChunkEnd - fired_step, Len(buffer) \div NumMb)
FreshSteps == (ChunkEnd - fired_step) - BufferedSteps

FromBuffer(k) == k[1] - fired_step < BufferedSteps
Fired == {k \in Dispatch :
            /\ k[1] \in fired_step .. ChunkEnd - 1
            /\ FromBuffer(k) => k[2] < NumMb}

\* Microbatches this call dispatches before k, and how many in all.
DispatchedBefore(k) ==
    LET j == k[1] - fired_step
    IN IF FromBuffer(k) THEN j * NumMb + k[2]
       ELSE BufferedSteps * NumMb + (j - BufferedSteps) * OverFireMb + k[2]
TotalFired == BufferedSteps * NumMb + FreshSteps * OverFireMb

PromptOf(k) ==
    IF FromBuffer(k)
    THEN buffer[DispatchedBefore(k) + 1]
    ELSE total_dl_consumed + DispatchedBefore(k) - BufferedSteps * NumMb

FireGenerationRequests ==
    /\ pc = "fire"
    /\ pending' = [k \in DOMAIN pending \cup Fired |->
                     IF k \in Fired
                     THEN [raw |-> PromptOf(k), rollout_consumed |-> FALSE,
                           train_consumed |-> FALSE]
                     ELSE pending[k]]
    /\ inflight_tasks' =
          [k \in DOMAIN inflight_tasks \cup Fired |->
             IF k \in Fired
             THEN [phase |-> "created", turn |-> 1, weights |-> 0,
                   agent |-> (next_fire_actor_idx + DispatchedBefore(k)) % NumAgents]
             ELSE inflight_tasks[k]]
    /\ attr_cache' = attr_cache \cup Fired
    /\ buffer' = SubSeq(buffer, BufferedSteps * NumMb + 1, Len(buffer))
    /\ total_dl_consumed' = total_dl_consumed + FreshSteps * OverFireMb
    /\ next_fire_actor_idx' = (next_fire_actor_idx + TotalFired) % NumAgents
    /\ fired_step' = ChunkEnd
    /\ pc' = IF ChunkEnd = fire_target THEN "collect" ELSE "fire"
    /\ UNCHANGED <<train_step, fire_target, steps_since_update, learnerVars, ready_queue,
                   batch, windowVars, diskVars, boundVars>>

----------------------------------------------------------------------------
\* dispatch_single_item_to_agent and the agent behind it.

SetPhase(k, p) == inflight_tasks' = [inflight_tasks EXCEPT ![k].phase = p]

Item(k, isError) ==
    [key |-> k, raw |-> pending[k].raw, weights |-> inflight_tasks[k].weights,
     error |-> isError]

TargetExceeded == step_collected_rb > step_target_rb
TargetMet == step_collected_rb >= step_target_rb

taskFrame == <<trainerVars, learnerVars, dataSourceVars, batch, attr_cache,
               next_fire_actor_idx, diskVars, restarts>>

\* The task's first run: a target met meanwhile makes it return at once.
StartTask(k) ==
    /\ inflight_tasks[k].phase = "created"
    /\ SetPhase(k, IF TargetMet THEN "done" ELSE "sent")
    /\ UNCHANGED <<taskFrame, windowVars, pending, ready_queue, failures>>

\* The agent's generation request reaches the sampler engine.
EngineSubmit(k) ==
    /\ inflight_tasks[k].phase = "sent"
    /\ inflight_tasks' = [inflight_tasks EXCEPT ![k].phase = "engine",
                                                ![k].weights = sampler_weights]
    /\ UNCHANGED <<taskFrame, windowVars, pending, ready_queue, failures>>

\* A turn that is not the last comes back; the agent looks at its pause flag
\* before it asks for the next one.
NextTurn(k) ==
    LET t == inflight_tasks[k]
    IN /\ t.phase = "engine" /\ t.turn < Turns
       /\ inflight_tasks' =
             [inflight_tasks EXCEPT
                ![k] = IF t.agent \in paused_agents
                       THEN [t EXCEPT !.phase = "aborted"]
                       ELSE [t EXCEPT !.phase = "sent", !.turn = t.turn + 1]]
       /\ UNCHANGED <<taskFrame, windowVars, pending, ready_queue, failures>>

\* _try_accept_completed_microbatch and the puts that follow it.  The queue is
\* unbounded, so nothing runs between the decision and the last put.
Enqueued(k) == [i \in 1 .. RbMultiplier |-> Item(k, FALSE)]
OneStepFull(n) == n >= NumMb * RbMultiplier
WindowFull(n) == n >= step_target_rb

Complete(k) ==
    /\ inflight_tasks[k].phase = "engine" /\ inflight_tasks[k].turn = Turns
    /\ SetPhase(k, "done")
    /\ IF TargetMet
       THEN UNCHANGED <<pending, ready_queue, step_collected_rb, pause_task, broadcast>>
       ELSE /\ pending' = [pending EXCEPT ![k].rollout_consumed = TRUE]
            /\ ready_queue' = ready_queue \o Enqueued(k)
            /\ step_collected_rb' = step_collected_rb + RbMultiplier
            /\ IF WindowFull(step_collected_rb')
               THEN pause_task' = TRUE /\ broadcast' = "agents"
               ELSE UNCHANGED <<pause_task, broadcast>>
    /\ UNCHANGED <<taskFrame, step_target_rb, paused_agents, failures>>

\* GenerationAborted reaches the task.  Without a pause it is a real failure.
HandleAbort(k) ==
    /\ inflight_tasks[k].phase = "aborted"
    /\ IF ~ pause_task
       THEN /\ SetPhase(k, "failed")
            /\ ready_queue' = Append(ready_queue, Item(k, TRUE))
       ELSE /\ SetPhase(k, "done")
            /\ UNCHANGED ready_queue
    /\ UNCHANGED <<taskFrame, windowVars, pending, failures>>

\* Any other exception of the agent: it is queued for the collector and raised.
Fail(k) ==
    /\ failures < MaxFailures
    /\ inflight_tasks[k].phase \in {"sent", "engine"}
    /\ SetPhase(k, "failed")
    /\ ready_queue' = Append(ready_queue, Item(k, TRUE))
    /\ failures' = failures + 1
    /\ UNCHANGED <<taskFrame, windowVars, pending>>

TaskStep == \E k \in DOMAIN inflight_tasks :
                StartTask(k) \/ EngineSubmit(k) \/ NextTurn(k) \/ Complete(k) \/ HandleAbort(k)
AgentFailure == \E k \in DOMAIN inflight_tasks : Fail(k)

----------------------------------------------------------------------------
\* _broadcast_pause: every agent first, then the engine.

pauseFrame == <<trainerVars, learnerVars, dataSourceVars, diskVars, boundVars, pending,
                ready_queue, batch, attr_cache, next_fire_actor_idx,
                step_target_rb, step_collected_rb, pause_task>>

PauseGeneration(a) ==
    /\ broadcast = "agents" /\ a \notin paused_agents
    /\ paused_agents' = paused_agents \cup {a}
    /\ UNCHANGED <<pauseFrame, broadcast, inflight_tasks>>

\* abort_all reaches only the requests that are on the engine by now.
AbortAll ==
    /\ broadcast = "agents" /\ paused_agents = Agents
    /\ broadcast' = "idle"
    /\ inflight_tasks' = [k \in DOMAIN inflight_tasks |->
                            IF inflight_tasks[k].phase = "engine"
                            THEN [inflight_tasks[k] EXCEPT !.phase = "aborted"]
                            ELSE inflight_tasks[k]]
    /\ UNCHANGED <<pauseFrame, paused_agents>>

PauseStep == (\E a \in Agents : PauseGeneration(a)) \/ AbortAll

----------------------------------------------------------------------------
\* collect_rollout_step in first-finished order, one queue item at a time: the
\* agents keep running between two gets.

NumCollect == NumMb * RbMultiplier

CollectItem ==
    /\ pc = "collect" /\ Len(batch) < NumCollect /\ ready_queue # <<>>
    /\ LET item == Head(ready_queue)
       IN IF item.error
          THEN /\ pc' = "failed"
               /\ UNCHANGED <<pending, batch>>
          ELSE /\ pending' = [k \in DOMAIN pending |->
                                IF k = item.key
                                THEN [pending[k] EXCEPT !.train_consumed = TRUE]
                                ELSE pending[k]]
               /\ batch' = Append(batch, item)
               /\ UNCHANGED pc
    /\ ready_queue' = Tail(ready_queue)
    /\ UNCHANGED <<train_step, fired_step, fire_target, steps_since_update, learnerVars,
                   dataSourceVars, windowVars, diskVars, boundVars, inflight_tasks,
                   attr_cache, next_fire_actor_idx>>

\* finalize_rollout_batches: the attrs of the collected ids leave the cache.
CollectedKeys == {batch[i].key : i \in DOMAIN batch}

FinishCollect ==
    /\ pc = "collect" /\ Len(batch) = NumCollect
    /\ attr_cache' = attr_cache \ CollectedKeys
    /\ pc' = "train"
    /\ UNCHANGED <<train_step, fired_step, fire_target, steps_since_update, learnerVars,
                   dataSourceVars, windowVars, diskVars, boundVars, pending,
                   inflight_tasks, ready_queue, batch, next_fire_actor_idx>>

----------------------------------------------------------------------------
\* The rest of the loop body: train, save, drain, update, fire.

Train ==
    /\ pc = "train"
    /\ trained_in' = [trained_in EXCEPT ![train_step] = {batch[i].raw : i \in DOMAIN batch}]
    /\ batch' = <<>>
    /\ train_step' = train_step + 1
    /\ steps_since_update' = steps_since_update + 1
    /\ pc' = AfterTrain(train_step + 1, steps_since_update + 1)
    /\ UNCHANGED <<fired_step, fire_target, sampler_weights, dataSourceVars, windowVars,
                   diskVars, boundVars, pending, inflight_tasks, ready_queue,
                   attr_cache, next_fire_actor_idx>>

\* save_checkpoint: the tracker file now names this step.
SaveModel ==
    /\ pc \in {"save_model", "final_model"}
    /\ model_ckpt' = train_step
    /\ pc' = IF pc = "save_model" THEN "save_data" ELSE "final_data"
    /\ UNCHANGED <<train_step, fired_step, fire_target, steps_since_update, learnerVars,
                   dataSourceVars, windowVars, ds_ckpt, boundVars, pending,
                   inflight_tasks, ready_queue, batch, attr_cache, next_fire_actor_idx>>

\* save_data_source: the buffer and the prompts no step has consumed yet,
\* written to a temporary file and renamed into place.
NotRolledOut == {k \in DOMAIN pending : ~ pending[k].rollout_consumed}
Unconsumed == {k \in DOMAIN pending : ~ pending[k].train_consumed}

\* Save first, then wait for the sampler to drain.
AfterSaveNoDrain == IF pc = "save_data" THEN "update" ELSE "done"
AfterSave == IF pc = "save_data" THEN "drain" ELSE "done"

SaveData ==
    /\ pc \in {"save_data", "final_data"}
    /\ ds_ckpt' = [s \in DOMAIN ds_ckpt \cup {train_step} |->
                     IF s = train_step
                     THEN [total_dl_consumed |-> total_dl_consumed,
                           buffer |-> IF Reuse THEN buffer \o RawsOf(DictOrder(Unconsumed))
                                      ELSE <<>>]
                     ELSE ds_ckpt[s]]
    /\ pc' = AfterSave
    /\ UNCHANGED <<train_step, fired_step, fire_target, steps_since_update, learnerVars,
                   dataSourceVars, windowVars, model_ckpt, boundVars, pending,
                   inflight_tasks, ready_queue, batch, attr_cache, next_fire_actor_idx>>

\* wait_all_inflight: gather every task, forget them all, raise the first error.
InflightIdle ==
    \A k \in DOMAIN inflight_tasks : inflight_tasks[k].phase \in {"done", "failed"}

WaitAllInflight ==
    /\ pc = "drain"
    /\ InflightIdle
    /\ inflight_tasks' = EmptyDict
    /\ pc' = IF \E k \in DOMAIN inflight_tasks : inflight_tasks[k].phase = "failed"
             THEN "failed" ELSE "update"
    /\ UNCHANGED <<train_step, fired_step, fire_target, steps_since_update, learnerVars,
                   dataSourceVars, windowVars, diskVars, boundVars, pending, ready_queue,
                   batch, attr_cache, next_fire_actor_idx>>

WeightsOfWindowStart == train_step - steps_since_update
Pushed == train_step

UpdateWeights ==
    /\ pc = "update"
    /\ sampler_weights' = Pushed
    /\ steps_since_update' = 0
    /\ fire_target' = IF train_step < TotalSteps THEN FireTarget(train_step)
                      ELSE fire_target
    /\ pc' = IF train_step < TotalSteps /\ fired_step < FireTarget(train_step)
             THEN "begin_step" ELSE LoopTop(train_step)
    /\ UNCHANGED <<train_step, fired_step, trained_in, dataSourceVars, windowVars,
                   diskVars, boundVars, pending, inflight_tasks, ready_queue, batch,
                   attr_cache, next_fire_actor_idx>>

TrainerStep == \/ BeginStep \/ FireGenerationRequests \/ CollectItem \/ FinishCollect
               \/ Train \/ SaveModel \/ SaveData \/ WaitAllInflight \/ UpdateWeights

----------------------------------------------------------------------------
\* A crash and the relaunch that follows it: every process dies, the tracker
\* says where to resume, and load_data_source must find that step's file.

Missing(step) == step > 0 /\ step \notin DOMAIN ds_ckpt
Loaded(step) == IF step = 0 THEN [total_dl_consumed |-> 0, buffer |-> <<>>]
                ELSE ds_ckpt[step]

Restart ==
    /\ restarts < MaxRestarts /\ pc # "done"
    /\ restarts' = restarts + 1
    /\ pending' = EmptyDict /\ inflight_tasks' = EmptyDict
    /\ ready_queue' = <<>> /\ batch' = <<>> /\ attr_cache' = {}
    /\ next_fire_actor_idx' = 0
    /\ step_target_rb' = 0 /\ step_collected_rb' = 0
    /\ pause_task' = FALSE /\ broadcast' = "idle" /\ paused_agents' = {}
    /\ UNCHANGED <<diskVars, failures>>
    /\ IF Missing(model_ckpt)
       THEN /\ pc' = "failed"
            /\ UNCHANGED <<train_step, fired_step, fire_target, steps_since_update,
                           learnerVars, dataSourceVars>>
       ELSE /\ pc' = AfterBoot(model_ckpt)
            /\ train_step' = model_ckpt /\ fired_step' = model_ckpt
            /\ fire_target' = FireTarget(model_ckpt)
            /\ steps_since_update' = 0 /\ sampler_weights' = model_ckpt
            /\ trained_in' = [s \in 0 .. TotalSteps - 1 |->
                                IF s < model_ckpt THEN trained_in[s] ELSE {}]
            /\ total_dl_consumed' = Loaded(model_ckpt).total_dl_consumed
            /\ buffer' = Loaded(model_ckpt).buffer

Terminated == pc \in {"done", "failed"} /\ UNCHANGED vars

----------------------------------------------------------------------------
Next == TrainerStep \/ TaskStep \/ PauseStep \/ AgentFailure \/ Restart \/ Terminated

\* The event loops, the agents and the engine keep making progress; agents are
\* not required to fail nor processes to crash.
Progress == TrainerStep \/ TaskStep \/ PauseStep
Spec == Init /\ [][Next]_vars /\ WF_vars(Progress)

----------------------------------------------------------------------------
\* Properties.

\* The variables hold what the code's attributes can hold, part by part.
TrainerTypeOK ==
    /\ pc \in TrainerPcs
    /\ train_step \in 0 .. TotalSteps /\ fired_step \in 0 .. TotalSteps
    /\ fire_target \in 0 .. TotalSteps /\ sampler_weights \in 0 .. TotalSteps
    /\ steps_since_update \in Nat
    /\ trained_in \in [0 .. TotalSteps - 1 -> SUBSET Nat]
DataSourceTypeOK == total_dl_consumed \in Nat /\ buffer \in Seq(Nat)
DispatchTypeOK ==
    /\ DOMAIN pending \in SUBSET Dispatch
    /\ pending \in [DOMAIN pending -> PendingMicrobatch]
    /\ DOMAIN inflight_tasks \in SUBSET DOMAIN pending
    /\ inflight_tasks \in [DOMAIN inflight_tasks -> Task]
    /\ attr_cache \in SUBSET Dispatch
    /\ next_fire_actor_idx \in Agents
QueueTypeOK == ready_queue \in Seq(QueuedRolloutBatch) /\ batch \in Seq(QueuedRolloutBatch)
WindowTypeOK ==
    /\ step_target_rb \in Nat /\ step_collected_rb \in Nat
    /\ pause_task \in BOOLEAN /\ broadcast \in {"idle", "agents"}
    /\ paused_agents \in SUBSET Agents
DiskTypeOK ==
    /\ model_ckpt \in 0 .. TotalSteps
    /\ DOMAIN ds_ckpt \in SUBSET (0 .. TotalSteps)
    /\ ds_ckpt \in [DOMAIN ds_ckpt -> Snapshot]
    /\ failures \in 0 .. MaxFailures /\ restarts \in 0 .. MaxRestarts

TypeOK ==
    /\ TrainerTypeOK /\ DataSourceTypeOK /\ DispatchTypeOK
    /\ QueueTypeOK /\ WindowTypeOK /\ DiskTypeOK

Trained == UNION {trained_in[s] : s \in DOMAIN trained_in}
QueuedKeys == {ready_queue[i].key : i \in {j \in DOMAIN ready_queue : ~ ready_queue[j].error}}

\* The sampling-attr cache holds exactly the dispatches that are still owed an
\* answer: not yet collected, and not yet discarded by begin_step.  An entry
\* more is a leak for the whole run, an entry less trips the assertions of
\* _release_discarded_attrs and add_back_rollout_attr_after_sampling.
AttrCacheExact ==
    attr_cache = Discarded \cup QueuedKeys
                     \cup (IF pc = "train" THEN {} ELSE CollectedKeys)

\* A sample is trained at most rollout_max_staleness optimizer steps after the
\* weights that generated it, carried-over batches included.
StalenessBounded ==
    /\ \A i \in DOMAIN batch : train_step - batch[i].weights <= MaxStale
    /\ \A i \in DOMAIN batch : batch[i].weights <= train_step

\* Weights are pushed to the sampler only while no generation is under way and
\* no request is on its way to the engine: no sample mixes two policies.
IdleAtUpdate == [][sampler_weights' # sampler_weights =>
                    \A k \in DOMAIN inflight_tasks' :
                        inflight_tasks'[k].phase \in {"done", "failed"}]_vars

\* When the window closes, what is left in the ready queue is exactly the
\* prefetched steps: the pause never costs a counted microbatch and never
\* lets an excess one through.
WindowExact ==
    pc \in {"update", "begin_step"} =>
        Len(ready_queue) = (fired_step - train_step) * NumCollect

\* A pause aborts only work the window refuses anyway: a task turns aborted
\* only after the target of its own window was met.
AbortsOnlyExcess ==
    [][\A k \in DOMAIN inflight_tasks \cap DOMAIN inflight_tasks' :
          inflight_tasks'[k].phase = "aborted" => TargetMet]_vars

\* The trainer stops early only on an injected agent failure or a torn
\* checkpoint; in particular an abort never looks like a failure.
FailsForCause == pc = "failed" => failures > 0 \/ Missing(model_ckpt)

\* The prompts read and not yet trained stay bounded whatever the number of
\* windows and restarts: the buffer is drained before the dataloader is read.
OutstandingBounded ==
    total_dl_consumed - NumMb * train_step <= NumMb - 1 + (MaxStale + 1) * OverFireMb

\* A run that ends has both files of its last step on disk, whatever
\* save_interval and the window size are.
FinalStepSaved == pc = "done" => model_ckpt = TotalSteps /\ TotalSteps \in DOMAIN ds_ckpt

\* A relaunch finds the data-source file of the step the tracker names, as
\* load() asserts.
RestartFindsSnapshot == [][restarts' # restarts => ~ Missing(model_ckpt)]_vars

\* Every run ends: collect never waits for microbatches that will not come,
\* a drain never waits for a task nobody runs.
EventuallyStops == <>[](pc \in {"done", "failed"})

\* With reuse on, the pipeline keeps the prompt ledger.
SavedEntry(s) ==
    [read |-> ds_ckpt[s].total_dl_consumed,
     trained |-> (0 .. ds_ckpt[s].total_dl_consumed - 1) \ ToSet(ds_ckpt[s].buffer)]

Ledger == INSTANCE PromptLedger
    WITH StepSize <- NumMb, MaxStep <- TotalSteps, MaxRead <- (MaxStale + 1) * OverFireMb,
         read <- total_dl_consumed, trained <- Trained, step <- train_step,
         saved <- [s \in DOMAIN ds_ckpt |-> SavedEntry(s)]

\* No prompt is lost or trained twice, across aborts, reuse, checkpoints,
\* crashes and restarts.  By PromptLedgerProofs the ledger then balances: n steps
\* trained n * NumMb distinct prompts, in memory and in every checkpoint.
KeepsLedger == Ledger!Spec
=============================================================================
