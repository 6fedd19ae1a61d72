--------------------------- MODULE SlidingPrefetch ---------------------------
(***************************************************************************)
(* The asynchronous GRPO pipeline of gpatch_v4 without tail batching, in   *)
(* the disaggregated placement: the trainer's window loop, the             *)
(* RolloutController with first-finished or with ordered collection, and   *)
(* the data source below it, which is either RolloutDataSource (keeps      *)
(* nothing over a relaunch) or tasks/math_rl_v4's                          *)
(* ResumableRolloutDataSource (resumes at the step of the checkpoint).     *)
(*                                                                         *)
(* A prompt is one microbatch of the dataloader: its epoch and its place   *)
(* there.  Nothing is over-fired and nothing is paused: every microbatch   *)
(* that is fired must be trained.                                          *)
(***************************************************************************)
EXTENDS TrainerWindow, Sequences, FiniteSets

CONSTANTS
    NumMb,         \* rollout_gbs // rollout_mbs: microbatches of a step
    RbMultiplier,  \* rollout batches one microbatch yields
    EpochLen,      \* dataloader_length, in microbatches
    Orders,        \* the rollout_ordered_collection settings explored
    Sources,       \* the data sources explored: "plain", "resumable"
    MaxFailures,   \* bound: agent exceptions injected in a behaviour
    MaxRestarts    \* bound: crashes (and relaunches) in a behaviour

\* ppo_step_per_epoch is the whole steps in dataloader_length; what is left
\* over at the end of an epoch is never read.
ASSUME SlidingPrefetchAssumption ==
    /\ NumMb \in Nat \ {0} /\ RbMultiplier \in Nat \ {0}
    /\ EpochLen \in Nat /\ StepsPerEpoch = EpochLen \div NumMb
    /\ Orders \in SUBSET BOOLEAN /\ Sources \in SUBSET {"plain", "resumable"}
    /\ MaxFailures \in Nat /\ MaxRestarts \in Nat

VARIABLES
    ordered, source,       \* settings of this run
    pc, train_step, fired_step, fire_target, steps_since_update,
    sampler_weights,       \* train_step at the last update_weights
    trained_in,            \* history: step -> the prompts of its batch, in order
    current_epoch,         \* _current_epoch
    start_index,           \* of the ResumableDistributedSampler
    train_iter,            \* _train_iter: its epoch and its next place
    total_dl_consumed,     \* of the resumable source
    step_target_rb,
    inflight_tasks,        \* dispatch -> task
    ready_queue,
    ordered_ready,         \* _ordered_ready: dispatch -> its items so far
    batch,                 \* items the current collection has taken
    attr_cache,            \* dispatches whose sampling attrs are cached
    model_ckpt, ds_ckpt,   \* the tracker file, and the steps' data-source files
    failures, restarts

settings   == <<ordered, source>>
loopVars   == <<pc, train_step, fired_step, fire_target, steps_since_update>>
learnerVars == <<sampler_weights, trained_in>>
readerVars == <<current_epoch, start_index, train_iter, total_dl_consumed>>
rolloutVars == <<inflight_tasks, ready_queue, ordered_ready, batch, attr_cache>>
diskVars   == <<model_ckpt, ds_ckpt>>
vars == <<settings, loopVars, learnerVars, readerVars, step_target_rb, rolloutVars,
          diskVars, failures, restarts>>

----------------------------------------------------------------------------
\* Shapes of the data.

Dispatch == (0 .. TotalSteps - 1) \X (0 .. NumMb - 1)
Prompt == [epoch : Nat, at : 0 .. EpochLen]
At(e, i) == [epoch |-> e, at |-> i]
Task == [phase : {"created", "running", "done", "failed"}, raw : Prompt, weights : Nat]
QueuedRolloutBatch == [key : Dispatch, raw : Prompt, weights : Nat, error : BOOLEAN]
Snapshot == [total_dl_consumed : Nat, current_epoch : Nat]

EmptyDict == [k \in {} |-> 0]
NoIter == At(0, 0)

Init ==
    /\ ordered \in Orders /\ source \in Sources
    /\ pc = "begin_step" /\ train_step = 0 /\ fired_step = 0
    /\ fire_target = FireTarget(0) /\ steps_since_update = 0
    /\ sampler_weights = 0 /\ trained_in = [s \in 0 .. TotalSteps - 1 |-> <<>>]
    /\ current_epoch = -1 /\ start_index = 0 /\ train_iter = NoIter
    /\ total_dl_consumed = 0 /\ step_target_rb = 0
    /\ inflight_tasks = EmptyDict /\ ready_queue = <<>> /\ ordered_ready = EmptyDict
    /\ batch = <<>> /\ attr_cache = {}
    /\ model_ckpt = 0 /\ ds_ckpt = EmptyDict
    /\ failures = 0 /\ restarts = 0

----------------------------------------------------------------------------
\* Firing.

\* begin_step without tail batching only sets the target the tasks look at.
OneStepShort == (fire_target - fired_step - 1) * NumMb * RbMultiplier
WindowTarget == (fire_target - fired_step) * NumMb * RbMultiplier

BeginStep ==
    /\ pc = "begin_step"
    /\ step_target_rb' = WindowTarget
    /\ pc' = "fire"
    /\ UNCHANGED <<settings, train_step, fired_step, fire_target, steps_since_update,
                   learnerVars, readerVars, rolloutVars, diskVars, failures, restarts>>

ChunkEndOfEpoch == (fired_step \div StepsPerEpoch + 1) * StepsPerEpoch
ChunkEnd == Lesser(fire_target, (fired_step \div StepsPerEpoch + 1) * StepsPerEpoch)
Fired == {k \in Dispatch : k[1] \in fired_step .. ChunkEnd - 1}
Reads == (ChunkEnd - fired_step) * NumMb

\* maybe_set_epoch: a new epoch gets a new iterator, which starts where the
\* sampler says; the resumable source first drops the offset of the resume.
FireEpoch == fired_step \div StepsPerEpoch
AlwaysNewEpoch == TRUE
NewEpoch == current_epoch # FireEpoch
EpochOffset == IF source = "resumable" THEN 0 ELSE start_index
OpenedAt == IF NewEpoch THEN At(FireEpoch, EpochOffset) ELSE train_iter

\* get_batch reads NumMb microbatches for each step of the chunk.
PromptOf(k) == At(OpenedAt.epoch, OpenedAt.at + (k[1] - fired_step) * NumMb + k[2])

\* An iterator that runs dry raises StopIteration out of the call.
Served == Lesser(Reads, EpochLen - OpenedAt.at)

FireGenerationRequests ==
    /\ pc = "fire"
    /\ current_epoch' = FireEpoch
    /\ start_index' = IF NewEpoch THEN EpochOffset ELSE start_index
    /\ train_iter' = At(OpenedAt.epoch, OpenedAt.at + Served)
    /\ total_dl_consumed' = IF source = "resumable" THEN total_dl_consumed + Served
                            ELSE total_dl_consumed
    /\ IF Served < Reads
       THEN /\ pc' = "failed"
            /\ UNCHANGED <<fired_step, inflight_tasks, attr_cache>>
       ELSE /\ inflight_tasks' =
                  [k \in DOMAIN inflight_tasks \cup Fired |->
                     IF k \in Fired
                     THEN [phase |-> "created", raw |-> PromptOf(k), weights |-> 0]
                     ELSE inflight_tasks[k]]
            /\ attr_cache' = attr_cache \cup Fired
            /\ fired_step' = ChunkEnd
            /\ pc' = IF ChunkEnd = fire_target THEN "collect" ELSE "fire"
    /\ UNCHANGED <<settings, train_step, fire_target, steps_since_update, learnerVars,
                   step_target_rb, ready_queue, ordered_ready, batch, diskVars,
                   failures, restarts>>

----------------------------------------------------------------------------
\* dispatch_single_item_to_agent.  _step_collected_rb stays 0 in this mode.

taskFrame == <<settings, loopVars, learnerVars, readerVars, step_target_rb,
               ordered_ready, batch, attr_cache, diskVars, restarts>>

TargetMet == 0 >= step_target_rb

StartTask(k) ==
    /\ inflight_tasks[k].phase = "created"
    /\ inflight_tasks' =
          [inflight_tasks EXCEPT ![k].phase = IF TargetMet THEN "done" ELSE "running",
                                 ![k].weights = sampler_weights]
    /\ UNCHANGED <<taskFrame, ready_queue, failures>>

Item(k, isError) ==
    [key |-> k, raw |-> inflight_tasks[k].raw, weights |-> inflight_tasks[k].weights,
     error |-> isError]

\* The ready queue is first in, first out and unbounded: a put does not yield.
Put(items) == ready_queue \o items

Complete(k) ==
    /\ inflight_tasks[k].phase = "running"
    /\ inflight_tasks' = [inflight_tasks EXCEPT ![k].phase = "done"]
    /\ ready_queue' = Put([i \in 1 .. RbMultiplier |-> Item(k, FALSE)])
    /\ UNCHANGED <<taskFrame, failures>>

Fail(k) ==
    /\ failures < MaxFailures
    /\ inflight_tasks[k].phase = "running"
    /\ inflight_tasks' = [inflight_tasks EXCEPT ![k].phase = "failed"]
    /\ ready_queue' = Put(<<Item(k, TRUE)>>)
    /\ failures' = failures + 1
    /\ UNCHANGED taskFrame

TaskStep == \E k \in DOMAIN inflight_tasks : StartTask(k) \/ Complete(k)
AgentFailure == \E k \in DOMAIN inflight_tasks : Fail(k)

----------------------------------------------------------------------------
\* collect_rollout_step, one queue item at a time.

collectFrame == <<settings, train_step, fired_step, fire_target, steps_since_update,
                  learnerVars, readerVars, step_target_rb, inflight_tasks, diskVars,
                  failures, restarts>>

NumCollectShort == NumMb * RbMultiplier - 1
NumCollect == NumMb * RbMultiplier

CollectFirstFinished ==
    /\ pc = "collect" /\ ~ ordered /\ Len(batch) < NumCollect /\ ready_queue # <<>>
    /\ ready_queue' = Tail(ready_queue)
    /\ IF Head(ready_queue).error
       THEN pc' = "failed" /\ UNCHANGED batch
       ELSE batch' = Append(batch, Head(ready_queue)) /\ UNCHANGED pc
    /\ UNCHANGED <<collectFrame, ordered_ready, attr_cache>>

\* Ordered collection buffers what belongs to later steps; an item or a buffered
\* step that belongs to an earlier one trips an assertion.
SlotOfCurrentStep(item) == <<train_step, item.key[2]>>
Slot(item) == item.key
ItemsAt(k) == IF k \in DOMAIN ordered_ready THEN ordered_ready[k] ELSE <<>>
StepKeys(step) == {step} \X (0 .. NumMb - 1)
OrderedStepComplete(step) == \A k \in StepKeys(step) : Len(ItemsAt(k)) = RbMultiplier
Stale == \E k \in DOMAIN ordered_ready : k[1] < train_step

CollectOrdered ==
    /\ pc = "collect" /\ ordered /\ ready_queue # <<>>
    /\ ~ OrderedStepComplete(train_step)
    /\ ready_queue' = Tail(ready_queue)
    /\ LET item == Head(ready_queue)
       IN IF Stale \/ item.error \/ item.key[1] < train_step
             \/ Len(ItemsAt(Slot(item))) >= RbMultiplier
          THEN pc' = "failed" /\ UNCHANGED ordered_ready
          ELSE /\ ordered_ready' =
                     [k \in DOMAIN ordered_ready \cup {Slot(item)} |->
                        IF k = Slot(item) THEN Append(ItemsAt(k), item)
                        ELSE ordered_ready[k]]
               /\ UNCHANGED pc
    /\ UNCHANGED <<collectFrame, batch, attr_cache>>

CollectItem == CollectFirstFinished \/ CollectOrdered

\* What the step trains, once all of it is there: in order, the RbMultiplier
\* items of one dispatch after those of the dispatch before it.
Collected ==
    IF ordered
    THEN [i \in 1 .. NumCollect |->
            ordered_ready[<<train_step, (i - 1) \div RbMultiplier>>]
                         [((i - 1) % RbMultiplier) + 1]]
    ELSE batch
CollectionComplete ==
    IF ordered THEN OrderedStepComplete(train_step) ELSE Len(batch) = NumCollect

\* finalize_rollout_batches: the attrs of the collected ids leave the cache.
AttrsKept(keys) == attr_cache
AttrsLeft(keys) == attr_cache \ keys

FinishCollect ==
    /\ pc = "collect" /\ CollectionComplete
    /\ batch' = Collected
    /\ ordered_ready' = [k \in DOMAIN ordered_ready \ StepKeys(train_step) |->
                           ordered_ready[k]]
    /\ attr_cache' = AttrsLeft({Collected[i].key : i \in DOMAIN Collected})
    /\ pc' = "train"
    /\ UNCHANGED <<collectFrame, ready_queue>>

----------------------------------------------------------------------------
\* The rest of the loop body, as in TailBatching but for what is saved.

Train ==
    /\ pc = "train"
    /\ trained_in' = [trained_in EXCEPT ![train_step] =
                        [i \in DOMAIN batch |-> batch[i].raw]]
    /\ batch' = <<>>
    /\ train_step' = train_step + 1
    /\ steps_since_update' = steps_since_update + 1
    /\ pc' = AfterTrain(train_step + 1, steps_since_update + 1)
    /\ UNCHANGED <<settings, fired_step, fire_target, sampler_weights, readerVars,
                   step_target_rb, inflight_tasks, ready_queue, ordered_ready, attr_cache,
                   diskVars, failures, restarts>>

saveFrame == <<settings, train_step, fired_step, fire_target, steps_since_update,
               learnerVars, readerVars, step_target_rb, rolloutVars, failures, restarts>>

SaveModel ==
    /\ pc \in {"save_model", "final_model"}
    /\ model_ckpt' = train_step
    /\ pc' = IF pc = "save_model" THEN "save_data" ELSE "final_data"
    /\ UNCHANGED <<saveFrame, ds_ckpt>>

\* The resumable source commits the cursor of the checkpoint, not the runtime
\* cursor, which the prefetch has moved on; the plain one saves nothing.
RuntimeCursor(step) == total_dl_consumed
Committed(step) == step * NumMb

SaveData ==
    /\ pc \in {"save_data", "final_data"}
    /\ IF source = "resumable" /\ total_dl_consumed < Committed(train_step)
       THEN pc' = "failed" /\ UNCHANGED ds_ckpt
       ELSE /\ ds_ckpt' = IF source = "plain" THEN ds_ckpt
                          ELSE [s \in DOMAIN ds_ckpt \cup {train_step} |->
                                  IF s = train_step
                                  THEN [total_dl_consumed |-> Committed(train_step),
                                        current_epoch |-> train_step \div StepsPerEpoch]
                                  ELSE ds_ckpt[s]]
            /\ pc' = IF pc = "save_data" THEN "drain" ELSE "done"
    /\ UNCHANGED <<saveFrame, model_ckpt>>

InflightIdle ==
    \A k \in DOMAIN inflight_tasks : inflight_tasks[k].phase \in {"done", "failed"}

WaitAllInflight ==
    /\ pc = "drain" /\ InflightIdle
    /\ inflight_tasks' = EmptyDict
    /\ pc' = IF \E k \in DOMAIN inflight_tasks : inflight_tasks[k].phase = "failed"
             THEN "failed" ELSE "update"
    /\ UNCHANGED <<settings, train_step, fired_step, fire_target, steps_since_update,
                   learnerVars, readerVars, step_target_rb, ready_queue, ordered_ready,
                   batch, attr_cache, diskVars, failures, restarts>>

\* The sampler gets the weights of the last optimizer step of the window.
WeightsOfWindowStart == train_step - steps_since_update
Pushed == train_step

UpdateWeights ==
    /\ pc = "update"
    /\ sampler_weights' = Pushed
    /\ steps_since_update' = 0
    /\ fire_target' = IF train_step < TotalSteps THEN FireTarget(train_step)
                      ELSE fire_target
    /\ pc' = IF train_step < TotalSteps /\ fired_step < FireTarget(train_step)
             THEN "begin_step" ELSE LoopTop(train_step)
    /\ UNCHANGED <<settings, train_step, fired_step, trained_in, readerVars, step_target_rb,
                   rolloutVars, diskVars, failures, restarts>>

TrainerStep == \/ BeginStep \/ FireGenerationRequests \/ CollectItem \/ FinishCollect
               \/ Train \/ SaveModel \/ SaveData \/ WaitAllInflight \/ UpdateWeights

----------------------------------------------------------------------------
\* A crash and the relaunch: the resumable source is built for the step of the
\* tracker file, and checks what its dataset factory returns against it.

\* set_start_index(step * NumMb) in the dataset factory.
FactoryCursor(step) == At((step * NumMb) \div EpochLen, (step * NumMb) % EpochLen)

Resumes(step) == source = "resumable" /\ step > 0
Rejected(step) ==
    \/ step \notin DOMAIN ds_ckpt
    \/ ds_ckpt[step].total_dl_consumed # step * NumMb
    \/ ds_ckpt[step].current_epoch # step \div StepsPerEpoch
    \/ FactoryCursor(step).at # (step % StepsPerEpoch) * NumMb

RestartReader(step) ==
    IF Resumes(step)
    THEN /\ current_epoch' = ds_ckpt[step].current_epoch
         /\ start_index' = FactoryCursor(step).at
         /\ train_iter' = FactoryCursor(step)
         /\ total_dl_consumed' = ds_ckpt[step].total_dl_consumed
    ELSE /\ current_epoch' = -1 /\ start_index' = 0
         /\ train_iter' = NoIter /\ total_dl_consumed' = 0

Restart ==
    /\ restarts < MaxRestarts /\ pc # "done"
    /\ restarts' = restarts + 1
    /\ inflight_tasks' = EmptyDict /\ ready_queue' = <<>> /\ ordered_ready' = EmptyDict
    /\ batch' = <<>> /\ attr_cache' = {} /\ step_target_rb' = 0
    /\ IF Resumes(model_ckpt) /\ Rejected(model_ckpt)
       THEN /\ pc' = "failed"
            /\ UNCHANGED <<train_step, fired_step, fire_target, steps_since_update,
                           learnerVars, readerVars>>
       ELSE /\ pc' = AfterBoot(model_ckpt)
            /\ train_step' = model_ckpt /\ fired_step' = model_ckpt
            /\ fire_target' = FireTarget(model_ckpt)
            /\ steps_since_update' = 0 /\ sampler_weights' = model_ckpt
            /\ trained_in' = [s \in 0 .. TotalSteps - 1 |->
                                IF s < model_ckpt THEN trained_in[s] ELSE <<>>]
            /\ RestartReader(model_ckpt)
    /\ UNCHANGED <<settings, diskVars, failures>>

Terminated == pc \in {"done", "failed"} /\ UNCHANGED vars

Next == TrainerStep \/ TaskStep \/ AgentFailure \/ Restart \/ Terminated

\* The event loop and the agents keep making progress; nothing has to fail.
Spec == Init /\ [][Next]_vars /\ WF_vars(TrainerStep \/ TaskStep)

----------------------------------------------------------------------------
\* Properties.

\* The variables hold what the code's attributes can hold, part by part.
LoopTypeOK ==
    /\ ordered \in Orders /\ source \in Sources
    /\ pc \in TrainerPcs
    /\ train_step \in 0 .. TotalSteps /\ fired_step \in 0 .. TotalSteps
    /\ fire_target \in 0 .. TotalSteps /\ sampler_weights \in 0 .. TotalSteps
    /\ steps_since_update \in Nat
    /\ trained_in \in [0 .. TotalSteps - 1 -> Seq(Prompt)]
ReaderTypeOK ==
    /\ current_epoch \in Nat \cup {-1} /\ start_index \in 0 .. EpochLen
    /\ train_iter \in Prompt /\ total_dl_consumed \in Nat
RolloutTypeOK ==
    /\ step_target_rb \in Nat
    /\ DOMAIN inflight_tasks \in SUBSET Dispatch
    /\ inflight_tasks \in [DOMAIN inflight_tasks -> Task]
    /\ ready_queue \in Seq(QueuedRolloutBatch) /\ batch \in Seq(QueuedRolloutBatch)
    /\ DOMAIN ordered_ready \in SUBSET Dispatch
    /\ ordered_ready \in [DOMAIN ordered_ready -> Seq(QueuedRolloutBatch)]
    /\ attr_cache \in SUBSET Dispatch
DiskTypeOK ==
    /\ model_ckpt \in 0 .. TotalSteps
    /\ DOMAIN ds_ckpt \in SUBSET (0 .. TotalSteps)
    /\ ds_ckpt \in [DOMAIN ds_ckpt -> Snapshot]
    /\ failures \in 0 .. MaxFailures /\ restarts \in 0 .. MaxRestarts
TypeOK == LoopTypeOK /\ ReaderTypeOK /\ RolloutTypeOK /\ DiskTypeOK

\* The i-th microbatch a step is meant to train.
Expected(step, i) == At(step \div StepsPerEpoch, (step % StepsPerEpoch) * NumMb + i)

\* With ordered collection every step trains its own prompts in their original
\* order, whatever order the agents finished in, and also after relaunches when
\* the source is the resumable one.
OrderedTraining ==
    ordered /\ (source = "resumable" \/ restarts = 0) =>
        \A s \in 0 .. train_step - 1 :
            trained_in[s] = [i \in 1 .. NumCollect |->
                               Expected(s, (i - 1) \div RbMultiplier)]

\* The rollout batches of one microbatch are trained together, by one step:
\* GRPO normalizes rewards over them.
GroupsWhole ==
    pc = "train" =>
        \A i \in DOMAIN batch :
            Cardinality({j \in DOMAIN batch : batch[j].key = batch[i].key}) = RbMultiplier

\* In arrival order steps may train each other's prompts, but as long as no
\* relaunch threw the prefetch away, no prompt is trained by two steps.
TrainedBy(p) == {s \in 0 .. train_step - 1 : \E i \in DOMAIN trained_in[s] : trained_in[s][i] = p}
EachPromptOnce ==
    restarts = 0 =>
        \A s \in 0 .. train_step - 1 :
            \A i \in DOMAIN trained_in[s] : TrainedBy(trained_in[s][i]) = {s}

\* A sample is trained at most rollout_max_staleness optimizer steps after the
\* weights that generated it, however collection reorders steps.
StalenessBounded ==
    \A i \in DOMAIN batch : train_step - batch[i].weights \in 0 .. MaxStale

\* Where whole steps fill an epoch, the trainer stops early only on an agent's
\* exception or on a torn checkpoint: no assertion of ordered collection or of
\* the resume trips, and no read runs past the end of an epoch.
FailsForCause ==
    pc = "failed" /\ EpochLen % NumMb = 0 =>
        failures > 0 \/ (Resumes(model_ckpt) /\ model_ckpt \notin DOMAIN ds_ckpt)

\* A relaunch whose checkpoint is complete is accepted: the position that the
\* dataset factory derives from the step is the one the source expects.
ResumeAccepted ==
    [][restarts' # restarts /\ model_ckpt \in DOMAIN ds_ckpt => pc' # "failed"]_vars

\* A run that ends has trained everything it fired: no item, buffered step or
\* cached attr is left behind.
NothingLeft ==
    pc = "done" => ready_queue = <<>> /\ DOMAIN ordered_ready = {} /\ attr_cache = {}

\* Every run ends.
EventuallyStops == <>[](pc \in {"done", "failed"})
=============================================================================
