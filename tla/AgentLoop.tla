------------------------------ MODULE AgentLoop ------------------------------
(***************************************************************************)
(* The placements of gpatch_v4 in which the policy shares its GPUs with    *)
(* the inference engines, under the single-controller GRPO trainer:        *)
(*                                                                         *)
(*   "colocate"           every AgentLoopActor gets one partition of the   *)
(*                        step and all of them walk through the same       *)
(*                        phases (sampler, then gen-RMs); agent 0 wakes    *)
(*                        and sleeps the engines between barriers;         *)
(*   "partial_colocated"  every microbatch is a call of its own, and the   *)
(*                        dispatching task wakes the engines before the    *)
(*                        first and sleeps them after the last.            *)
(*                                                                         *)
(* A run is one agent_loop call: an agent in "colocate", a microbatch in   *)
(* "partial_colocated".  The module follows who holds GPU memory, which    *)
(* requests are running on which engine, and how a failure travels.        *)
(***************************************************************************)
EXTENDS Integers, FiniteSets, FiniteSetsExt

CONSTANTS
    TotalSteps,    \* total_ppo_step
    SaveInterval,  \* training.save_interval
    NumMb,         \* rollout_gbs // rollout_mbs: microbatches of a step
    NumAgents,     \* num_agent_loop_workers
    Ranks,         \* ranks of the policy's training group
    Rms,           \* the generative reward models
    Configs,       \* the settings explored, a subset of Config
    MaxFailures    \* bound: remote calls that fail in a behaviour

Placements == {"colocate", "partial_colocated"}

\* What validate_partial_colocated_config and _resolve_stream_external_reward
\* leave of the switches.
Config ==
    {c \in [placement : Placements, backend : {"vllm", "sglang"}, gen_rm : BOOLEAN,
            external : BOOLEAN, stream : BOOLEAN, early_swap : BOOLEAN] :
        /\ c.placement = "partial_colocated" => c.backend = "sglang" /\ c.gen_rm
        /\ c.stream => c.external /\ ~c.gen_rm}

ASSUME AgentLoopAssumption ==
    /\ TotalSteps \in Nat \ {0} /\ SaveInterval \in Nat \ {0}
    /\ NumMb \in Nat \ {0} /\ NumAgents \in Nat \ {0}
    /\ IsFiniteSet(Ranks) /\ IsFiniteSet(Rms) /\ "sampler" \notin Rms /\ "reward" \notin Rms
    /\ Configs \subseteq Config /\ MaxFailures \in Nat

VARIABLES
    config,        \* the settings of this behaviour
    tpc, step,     \* the trainer: where it is, train_step
    policy,        \* rank -> what of {"model", "optimizer"} is on its GPU
    engine,        \* engine -> its wake_up_tag flags, and the memory it holds
    task,          \* the dispatching task in _inflight_tasks
    queue,         \* _ready_queue: the rollout batches in it
    error_queued,  \* and whether an exception is
    batch,         \* what collect_rollout_step returned
    pc, phase,     \* run -> where it is, and in which phase
    failed,        \* run -> an exception is on its way out
    rbs,           \* run -> slot -> rollout batch
    calls,         \* requests that are running, engines' and rewards'
    landed,        \* requests that have been answered
    broken,        \* requests that have failed
    failures

trainerVars == <<tpc, step, policy>>
runVars     == <<pc, phase, failed, rbs>>
callVars    == <<calls, landed, broken>>
taskVars    == <<task, queue, error_queued>>
vars == <<config, trainerVars, engine, taskVars, batch, runVars, callVars, failures>>

----------------------------------------------------------------------------
\* Shapes of the data.

Colocated == config.placement = "colocate"
Runs == IF Colocated THEN 0 .. NumAgents - 1 ELSE 0 .. NumMb - 1
Mbs  == 0 .. NumMb - 1
Engines == {"sampler"} \cup Rms
Scorers == Rms \cup {"reward"}
Tags  == {"weights", "kv_cache"}
Parts == {"model", "optimizer"}

NoSample == NumMb     \* a slot nothing has landed in
RolloutBatch == [sample : 0 .. NumMb, scores : SUBSET (Scorers \X (0 .. NumMb))]
EmptySlots == [m \in Mbs |-> [sample |-> NoSample, scores |-> {}]]
Request == [run : Nat, on : Engines \cup {"reward"}, slot : Mbs, sample : 0 .. NumMb]
Queued == [slot : Mbs, rb : RolloutBatch]

\* partition_batches: round robin from where the last step stopped; in the
\* partial placement a run has one microbatch.
Slots(r) == IF Colocated THEN {m \in Mbs : (step * NumMb + m) % NumAgents = r} ELSE {r}

Leader == 0
OfPhase(p) == IF p = "sampler" THEN {"sampler"} ELSE Rms
Running(r, on)  == {c \in calls : c.run = r /\ c.on \in on}
Answered(r, on) == {c \in landed : c.run = r /\ c.on \in on}
AnyBroken(r, on) == \E c \in broken : c.run = r /\ c.on \in on

Init ==
    /\ config \in Configs
    /\ tpc = "offload" /\ step = 0
    /\ policy = [k \in Ranks |-> Parts]
    /\ engine = [e \in Engines |-> [tags |-> {}, held |-> {}]]
    /\ task = "none" /\ queue = {} /\ error_queued = FALSE /\ batch = {}
    /\ pc = [r \in Runs |-> "idle"] /\ phase = [r \in Runs |-> "sampler"]
    /\ failed = [r \in Runs |-> FALSE] /\ rbs = [r \in Runs |-> EmptySlots]
    /\ calls = {} /\ landed = {} /\ broken = {} /\ failures = 0

----------------------------------------------------------------------------
\* The engines.  Each keeps a flag per tag and asks the backend only for
\* what the flags say is missing.

WakeUp(e, tags) == [tags |-> e.tags \cup tags, held |-> e.held \cup (tags \ e.tags)]

\* vLLM takes itself to be asleep as soon as one tag is, and then releases
\* nothing more.
VllmRelease(held) == IF held = Tags THEN {} ELSE held

\* VllmEngine.sleep therefore wakes the sleeping tags first.
VllmAllAwake(e) == WakeUp(e, Tags)
Sleep(e) ==
    CASE e.tags = {} -> e
      [] e.tags # {} /\ config.backend = "vllm" ->
           [tags |-> {}, held |-> VllmRelease(VllmAllAwake(e).held)]
      [] OTHER -> [tags |-> {}, held |-> e.held \ e.tags]

EnginesAwake(es)  == [e \in Engines |-> IF e \in es THEN WakeUp(engine[e], Tags) ELSE engine[e]]
EnginesAsleep(es) == [e \in Engines |-> IF e \in es THEN Sleep(engine[e]) ELSE engine[e]]

\* A remote call that fails uses up one of the failures of the behaviour.
Fault == failures < MaxFailures /\ failures' = failures + 1

----------------------------------------------------------------------------
\* The trainer.

\* update_weights(offload=True): every rank enters OffloadManager ...
Offload(k) ==
    /\ tpc = "offload" /\ "optimizer" \in policy[k]
    /\ policy' = [policy EXCEPT ![k] = IF config.early_swap THEN {} ELSE @ \ {"optimizer"}]
    /\ UNCHANGED <<config, tpc, step, engine, taskVars, batch, runVars, callVars, failures>>

\* ... and only then the sampler's weights are woken and the push runs.
AllOffloaded == \A k \in Ranks : "optimizer" \notin policy[k]
PushWeights ==
    /\ tpc = "offload" /\ AllOffloaded
    /\ engine' = [engine EXCEPT !["sampler"] = WakeUp(@, {"weights"})]
    /\ tpc' = "pushed"
    /\ UNCHANGED <<config, step, policy, taskVars, batch, runVars, callVars, failures>>

\* Leaving OffloadManager offloads the model, rank by rank.
OffloadModel(k) ==
    /\ tpc = "pushed" /\ "model" \in policy[k]
    /\ policy' = [policy EXCEPT ![k] = @ \ {"model"}]
    /\ UNCHANGED <<config, tpc, step, engine, taskVars, batch, runVars, callVars, failures>>

UpdateWeightsDone ==
    /\ tpc = "pushed" /\ \A k \in Ranks : policy[k] = {}
    /\ tpc' = CASE step < TotalSteps -> "fire"
                [] step = TotalSteps /\ step % SaveInterval # 0 -> "final_sleep"
                [] OTHER -> "done"
    /\ UNCHANGED <<config, step, policy, engine, taskVars, batch, runVars, callVars, failures>>

\* fire_generation_requests asserts that nothing is left of the last step.
Fire ==
    /\ tpc = "fire"
    /\ IF task = "none" /\ queue = {}
       THEN /\ task' = IF Colocated THEN "running" ELSE "opening"
            /\ pc' = [r \in Runs |-> IF ~Colocated THEN "idle"
                                     ELSE IF r = Leader THEN "enter" ELSE "open"]
            /\ phase' = [r \in Runs |-> "sampler"] /\ rbs' = [r \in Runs |-> EmptySlots]
            /\ landed' = {} /\ tpc' = "collect"
       ELSE tpc' = "failed" /\ UNCHANGED <<task, pc, phase, rbs, landed>>
    /\ UNCHANGED <<config, step, policy, engine, queue, error_queued, batch, failed, calls,
                   broken, failures>>

\* collect_rollout_step takes NumMb rollout batches; in the partial placement
\* the trainer then waits for the task that puts the engines to sleep.
StraightToTrain == "train"
AfterCollect == IF Colocated THEN "train" ELSE "drain"
Collect ==
    /\ tpc = "collect" /\ Cardinality(queue) = NumMb
    /\ batch' = queue /\ queue' = {}
    /\ tpc' = AfterCollect
    /\ UNCHANGED <<config, step, policy, engine, task, error_queued, runVars, callVars, failures>>

CollectFails ==
    /\ tpc = "collect" /\ error_queued
    /\ error_queued' = FALSE /\ tpc' = "failed"
    /\ UNCHANGED <<config, step, policy, engine, task, queue, batch, runVars, callVars, failures>>

\* wait_all_inflight, before the training step and before the update: an
\* exception of the task is raised once it has ended.
WaitAllInflight ==
    /\ tpc \in {"drain", "wait"} /\ task \in {"none", "done", "failed"}
    /\ task' = "none"
    /\ tpc' = CASE task = "failed" -> "failed"
                [] task # "failed" /\ tpc = "drain" -> "train"
                [] OTHER -> "offload"
    /\ UNCHANGED <<config, step, policy, engine, queue, error_queued, batch, runVars, callVars,
                   failures>>

\* train_step onloads the model and the optimizer of every rank.
Train ==
    /\ tpc = "train"
    /\ policy' = [k \in Ranks |-> Parts] /\ tpc' = "training"
    /\ UNCHANGED <<config, step, engine, taskVars, batch, runVars, callVars, failures>>

TrainDone ==
    /\ tpc = "training"
    /\ step' = step + 1 /\ tpc' = "wait" /\ batch' = {}
    /\ UNCHANGED <<config, policy, engine, taskVars, runVars, callVars, failures>>

\* prepare_for_final_save: one rank sleeps the sampler, all wait for it, each
\* onloads; the checkpoint follows.
FinalSleep ==
    /\ tpc = "final_sleep"
    /\ engine' = EnginesAsleep({"sampler"}) /\ tpc' = "final_onload"
    /\ UNCHANGED <<config, step, policy, taskVars, batch, runVars, callVars, failures>>

FinalOnload(k) ==
    /\ tpc = "final_onload" /\ policy[k] = {}
    /\ policy' = [policy EXCEPT ![k] = Parts]
    /\ UNCHANGED <<config, tpc, step, engine, taskVars, batch, runVars, callVars, failures>>

FinalSave ==
    /\ tpc = "final_onload" /\ \A k \in Ranks : policy[k] = Parts
    /\ tpc' = "done"
    /\ UNCHANGED <<config, step, policy, engine, taskVars, batch, runVars, callVars, failures>>

----------------------------------------------------------------------------
\* The dispatching task of the controller.

\* partial_colocated_rollout: begin_partial_colocated_rollout on agent 0.
OpenStep ==
    /\ task = "opening"
    /\ engine' = EnginesAwake(Engines) /\ task' = "running"
    /\ pc' = [r \in Runs |-> "body"]
    /\ UNCHANGED <<config, trainerVars, queue, error_queued, batch, phase, failed, rbs, callVars,
                   failures>>

\* When it raises, some engines may have woken, nothing is dispatched and the
\* context has nothing to close.
OpenStepFails ==
    /\ task = "opening" /\ Fault
    /\ \E es \in SUBSET Engines : engine' = EnginesAwake(es)
    /\ task' = "failed"
    /\ UNCHANGED <<config, trainerVars, queue, error_queued, batch, runVars, callVars>>

\* dispatch_single_item_to_agent: a run's rollout batch is queued, or its
\* exception is.
Deliver(r) ==
    /\ ~Colocated /\ pc[r] = "returned"
    /\ pc' = [pc EXCEPT ![r] = "reported"]
    /\ queue' = queue \cup {[slot |-> m, rb |-> rbs[r][m]] : m \in Slots(r)}
    /\ UNCHANGED <<config, trainerVars, engine, task, error_queued, batch, phase, failed, rbs,
                   callVars, failures>>

Report(r) ==
    /\ ~Colocated /\ pc[r] = "raised"
    /\ pc' = [pc EXCEPT ![r] = "reported"] /\ error_queued' = TRUE
    /\ UNCHANGED <<config, trainerVars, engine, task, queue, batch, phase, failed, rbs, callVars,
                   failures>>

\* dispatch_partial_colocated_step waits for every item, failed or not, and
\* leaves the context: flush, then sleep sampler and gen-RMs.
Outcome == IF \E r \in Runs : failed[r] THEN "failed" ELSE "done"
CloseStep ==
    /\ ~Colocated /\ task = "running" /\ \A r \in Runs : pc[r] = "reported"
    /\ engine' = EnginesAsleep(Engines) /\ task' = Outcome
    /\ UNCHANGED <<config, trainerVars, queue, error_queued, batch, runVars, callVars, failures>>

CloseStepFails ==
    /\ ~Colocated /\ task = "running" /\ \A r \in Runs : pc[r] = "reported"
    /\ Fault
    /\ \E es \in SUBSET Engines : engine' = EnginesAsleep(es)
    /\ task' = "failed"
    /\ UNCHANGED <<config, trainerVars, queue, error_queued, batch, runVars, callVars>>

\* dispatch_batches_to_agents queues the results of all agents once the last
\* has returned.
DispatchDone ==
    /\ Colocated /\ task = "running" /\ \A r \in Runs : pc[r] = "returned"
    /\ queue' = UNION {{[slot |-> m, rb |-> rbs[r][m]] : m \in Slots(r)} : r \in Runs}
    /\ task' = "done"
    /\ UNCHANGED <<config, trainerVars, engine, error_queued, batch, runVars, callVars, failures>>

\* Its gather stops at the first agent that raises: others may be blocked in
\* a barrier that agent will not reach.
AllAgentsBack == (\A r \in Runs : pc[r] \in {"returned", "raised"}) /\ \E r \in Runs : failed[r]
DispatchStops == \E r \in Runs : pc[r] = "raised"
DispatchFails ==
    /\ Colocated /\ task = "running" /\ DispatchStops
    /\ error_queued' = TRUE /\ task' = "failed"
    /\ UNCHANGED <<config, trainerVars, engine, queue, batch, runVars, callVars, failures>>

----------------------------------------------------------------------------
\* The runs.  sampler_phase and gen_rm_all_phase exist in "colocate" only;
\* a barrier is one step of all agents.  The two barriers around the memory
\* log are one.

Goto(r, p) == pc' = [pc EXCEPT ![r] = p]
RunStep == UNCHANGED <<config, trainerVars, taskVars, batch>>

\* The leader wakes the engines of the phase; the others wait for it.
EnterPhase(r) ==
    /\ pc[r] = "enter" /\ Goto(r, "open")
    /\ engine' = EnginesAwake(OfPhase(phase[r]))
    /\ RunStep /\ UNCHANGED <<phase, failed, rbs, callVars, failures>>

EnterPhaseFails(r) ==
    /\ pc[r] = "enter" /\ Fault /\ Goto(r, "raising")
    /\ failed' = [failed EXCEPT ![r] = TRUE]
    /\ \E es \in SUBSET OfPhase(phase[r]) : engine' = EnginesAwake(es)
    /\ RunStep /\ UNCHANGED <<phase, rbs, callVars>>

OpenTogether == \A r \in Runs : pc[r] = "open"
OpenBarrier ==
    /\ Colocated /\ OpenTogether
    /\ pc' = [r \in Runs |-> IF pc[r] = "open" THEN "body" ELSE pc[r]]
    /\ RunStep /\ UNCHANGED <<engine, phase, failed, rbs, callVars, failures>>

\* generate_batches fires all requests of the run; _score_one_gen_rm sends
\* every rollout batch to every gen-RM.
Sends(r) ==
    IF phase[r] = "sampler"
    THEN {[run |-> r, on |-> "sampler", slot |-> m, sample |-> m] : m \in Slots(r)}
    ELSE {[run |-> r, on |-> e, slot |-> m, sample |-> rbs[r][m].sample] :
             e \in Rms, m \in Slots(r)}

Issue(r) ==
    /\ pc[r] = "body" /\ Goto(r, "gather")
    /\ calls' = calls \cup Sends(r)
    /\ RunStep /\ UNCHANGED <<engine, phase, failed, rbs, landed, broken, failures>>

\* _await_generate_streaming: a rollout batch is stored under the index its
\* task carries, and its reward is fired, the moment it lands.
FirstEmptySlot(c) ==
    Min({m \in Slots(c.run) : rbs[c.run][m].sample = NoSample})
SlotOf(c) == c.slot
FireNextReward(c) == [run |-> c.run, on |-> "reward", slot |-> SlotOf(c) + 1, sample |-> c.sample]
FireReward(c) == [run |-> c.run, on |-> "reward", slot |-> SlotOf(c), sample |-> c.sample]
Consume(r) ==
    /\ config.stream /\ pc[r] = "gather" /\ phase[r] = "sampler"
    /\ \E c \in Answered(r, {"sampler"}) :
         /\ \A m \in Slots(r) : rbs[r][m].sample # c.sample
         /\ rbs' = [rbs EXCEPT ![r][SlotOf(c)] = [sample |-> c.sample, scores |-> {}]]
         /\ calls' = calls \cup {FireReward(c)}
    /\ RunStep /\ UNCHANGED <<engine, pc, phase, failed, landed, broken, failures>>

\* The answers join the rollout batches by position.
Joined(r, on) ==
    [m \in Mbs |->
       LET got == {c \in Answered(r, on) : c.slot = m}
       IN CASE on = {"sampler"} /\ got # {} ->
                 [sample |-> (CHOOSE c \in got : TRUE).sample, scores |-> {}]
            [] OTHER ->
                 [rbs[r][m] EXCEPT !.scores = @ \cup {<<c.on, c.sample>> : c \in got}]]

\* After a phase: the close of it in "colocate", else what comes next.
EndOfPipeline == IF config.external THEN IF config.stream THEN "collect" ELSE "rewards"
                 ELSE "returned"
EndOfBody(r) == CASE Colocated -> "close"
                  [] ~Colocated /\ phase[r] = "sampler" -> "body"
                  [] OTHER -> EndOfPipeline

GatherPhase(r) ==
    /\ pc[r] = "gather" /\ Running(r, OfPhase(phase[r])) = {}
    /\ ~AnyBroken(r, OfPhase(phase[r]))
    /\ IF config.stream
       THEN /\ \A m \in Slots(r) : rbs[r][m].sample # NoSample
            /\ UNCHANGED rbs
       ELSE rbs' = [rbs EXCEPT ![r] = Joined(r, OfPhase(phase[r]))]
    /\ Goto(r, EndOfBody(r))
    /\ phase' = IF Colocated THEN phase ELSE [phase EXCEPT ![r] = "rm"]
    /\ RunStep /\ UNCHANGED <<engine, failed, callVars, failures>>

\* A gather raises at the first failure and leaves its siblings running.
GatherPhaseFails(r) ==
    /\ pc[r] = "gather" /\ AnyBroken(r, OfPhase(phase[r]))
    /\ failed' = [failed EXCEPT ![r] = TRUE]
    /\ Goto(r, IF Colocated THEN "close" ELSE "raising")
    /\ RunStep /\ UNCHANGED <<engine, phase, rbs, callVars, failures>>

\* The finally of a phase: barrier, the leader sleeps the engines, barrier.
CloseAlone == \E r \in Runs : pc[r] = "close"
CloseTogether == \A r \in Runs : pc[r] = "close"
CloseBarrier ==
    /\ Colocated /\ CloseTogether
    /\ pc' = [r \in Runs |-> CASE pc[r] # "close" -> pc[r]
                               [] pc[r] = "close" /\ r = Leader -> "shut"
                               [] OTHER -> "closed"]
    /\ RunStep /\ UNCHANGED <<engine, phase, failed, rbs, callVars, failures>>

LeavePhase(r) ==
    /\ pc[r] = "shut" /\ Goto(r, "closed")
    /\ engine' = EnginesAsleep(OfPhase(phase[r]))
    /\ RunStep /\ UNCHANGED <<phase, failed, rbs, callVars, failures>>

LeavePhaseFails(r) ==
    /\ pc[r] = "shut" /\ Fault /\ Goto(r, "raising")
    /\ failed' = [failed EXCEPT ![r] = TRUE]
    /\ \E es \in SUBSET OfPhase(phase[r]) : engine' = EnginesAsleep(es)
    /\ RunStep /\ UNCHANGED <<phase, rbs, callVars>>

\* A run whose body raised leaves here; the others go on to the gen-RMs, where
\* they wait for it.
NextPhase(r) == config.gen_rm /\ phase[r] = "sampler"
ClosedBarrier ==
    /\ Colocated /\ \A r \in Runs : pc[r] = "closed"
    /\ pc' = [r \in Runs |-> CASE failed[r] -> "raising"
                               [] ~failed[r] /\ NextPhase(r) ->
                                    IF r = Leader THEN "enter" ELSE "open"
                               [] OTHER -> EndOfPipeline]
    /\ phase' = [r \in Runs |-> IF NextPhase(r) THEN "rm" ELSE phase[r]]
    /\ RunStep /\ UNCHANGED <<engine, failed, rbs, callVars, failures>>

\* score_external_reward_batches.
IssueRewards(r) ==
    /\ pc[r] = "rewards" /\ Goto(r, "collect")
    /\ calls' = calls \cup
                {[run |-> r, on |-> "reward", slot |-> m, sample |-> rbs[r][m].sample] :
                    m \in Slots(r)}
    /\ RunStep /\ UNCHANGED <<engine, phase, failed, rbs, landed, broken, failures>>

\* Both ways of collecting the rewards: by micro-batch index.
CollectRewards(r) ==
    /\ pc[r] = "collect" /\ Running(r, {"reward"}) = {} /\ ~AnyBroken(r, {"reward"})
    /\ rbs' = [rbs EXCEPT ![r] = Joined(r, {"reward"})]
    /\ Goto(r, "returned")
    /\ RunStep /\ UNCHANGED <<engine, phase, failed, callVars, failures>>

CollectRewardsFails(r) ==
    /\ pc[r] = "collect" /\ AnyBroken(r, {"reward"})
    /\ failed' = [failed EXCEPT ![r] = TRUE] /\ Goto(r, "raising")
    /\ RunStep /\ UNCHANGED <<engine, phase, rbs, callVars, failures>>

\* _batch_loop's except: the rewards fired while streaming are cancelled and
\* drained before the exception goes on.
NothingCancelled(r) == {}
Cancelled(r) == IF config.stream THEN Running(r, {"reward"}) ELSE {}
Raise(r) ==
    /\ pc[r] = "raising" /\ Goto(r, "raised")
    /\ calls' = calls \ Cancelled(r)
    /\ RunStep /\ UNCHANGED <<engine, phase, failed, rbs, landed, broken, failures>>

----------------------------------------------------------------------------
\* The engines and the reward service answer, or an awaited call fails.

FinishCall(c) ==
    /\ c \in calls /\ c.on \in Engines => engine[c.on].held = Tags
    /\ calls' = calls \ {c} /\ landed' = landed \cup {c}
    /\ RunStep /\ UNCHANGED <<engine, runVars, broken, failures>>

FailCall(c) ==
    /\ c \in calls /\ ~failed[c.run] /\ Fault
    /\ calls' = calls \ {c} /\ broken' = broken \cup {c}
    /\ RunStep /\ UNCHANGED <<engine, runVars, landed>>

TrainerNext ==
    \/ \E k \in Ranks : Offload(k) \/ OffloadModel(k) \/ FinalOnload(k)
    \/ PushWeights \/ UpdateWeightsDone \/ Fire \/ Collect \/ CollectFails
    \/ WaitAllInflight \/ Train \/ TrainDone \/ FinalSleep \/ FinalSave

DispatchNext ==
    \/ OpenStep \/ OpenStepFails \/ CloseStep \/ CloseStepFails
    \/ DispatchDone \/ DispatchFails
    \/ \E r \in Runs : Deliver(r) \/ Report(r)

RunNext ==
    \/ OpenBarrier \/ CloseBarrier \/ ClosedBarrier
    \/ \E r \in Runs :
         \/ EnterPhase(r) \/ EnterPhaseFails(r) \/ Issue(r) \/ Consume(r)
         \/ GatherPhase(r) \/ GatherPhaseFails(r) \/ LeavePhase(r) \/ LeavePhaseFails(r)
         \/ IssueRewards(r) \/ CollectRewards(r) \/ CollectRewardsFails(r) \/ Raise(r)

CallNext == \E c \in calls : FinishCall(c) \/ FailCall(c)

Next == TrainerNext \/ DispatchNext \/ RunNext \/ CallNext

\* Every part keeps going: no counter ever falls, so a behaviour that always
\* takes an enabled step reaches the end of the driver.
Spec == Init /\ [][Next]_vars /\ WF_vars(Next)

----------------------------------------------------------------------------
\* Properties.

EngineState == [tags : SUBSET Tags, held : SUBSET Tags]
RunPc == {"idle", "enter", "open", "body", "gather", "close", "shut", "closed", "rewards",
          "collect", "returned", "raising", "raised", "reported"}
TrainerPc == {"offload", "pushed", "fire", "collect", "drain", "train", "training", "wait",
              "final_sleep", "final_onload", "done", "failed"}

\* The shapes of the state: every request, rollout batch and engine of the
\* agents, the controller and the trainer.
TypeOK ==
    /\ config \in Config /\ tpc \in TrainerPc /\ step \in 0 .. TotalSteps
    /\ policy \in [Ranks -> SUBSET Parts] /\ engine \in [Engines -> EngineState]
    /\ task \in {"none", "opening", "running", "done", "failed"}
    /\ queue \in SUBSET Queued /\ error_queued \in BOOLEAN /\ batch \in SUBSET Queued
    /\ pc \in [Runs -> RunPc] /\ phase \in [Runs -> {"sampler", "rm"}]
    /\ failed \in [Runs -> BOOLEAN] /\ rbs \in [Runs -> [Mbs -> RolloutBatch]]
    /\ calls \in SUBSET Request /\ landed \in SUBSET Request /\ broken \in SUBSET Request
    /\ failures \in 0 .. MaxFailures

\* The GPUs are shared: while any rank has its optimizer there no engine holds
\* memory, and while any engine holds its KV cache no rank has anything there.
\* It takes OffloadManager's barrier, the final sleep before the final onload,
\* and the trainer's wait for the task that sleeps the engines.
MemoryExclusive ==
    /\ (\E k \in Ranks : "optimizer" \in policy[k]) => \A e \in Engines : engine[e].held = {}
    /\ (\E e \in Engines : "kv_cache" \in engine[e].held) => \A k \in Ranks : policy[k] = {}

\* A request that a run still awaits is on an engine that is fully awake: no
\* agent starts before the leader woke the engine, and the leader sleeps it
\* only when every agent is through.
UsesAwakeEngines ==
    \A c \in calls : c.on \in Engines /\ ~failed[c.run] => engine[c.on].held = Tags

\* No reward fired during generation outlives its agent_loop call, however
\* that ended: a retried step would send it a second time.
NoRewardOutlives ==
    \A r \in Runs : config.stream /\ pc[r] \in {"returned", "raised"}
                    => Running(r, {"reward"}) = {}

\* What is trained is the whole step: every microbatch once, generated from
\* its own prompt and scored on its own rollout by every scorer configured,
\* whatever order the answers came in.
Wanted == (IF config.gen_rm THEN Rms ELSE {}) \cup (IF config.external THEN {"reward"} ELSE {})
BatchComplete ==
    tpc = "training" =>
        batch = {[slot |-> m, rb |-> [sample |-> m, scores |-> Wanted \X {m}]] : m \in Mbs}

\* How a behaviour ends.  If no remote call fails every step is trained; if
\* one fails the trainer ends in that failure, also when agents are left behind
\* in a barrier.  The exception is a failed begin_partial_colocated_rollout,
\* whose exception stays in the task while the trainer waits to collect.
BeginFailed == ~Colocated /\ task = "failed" /\ \A r \in Runs : pc[r] = "idle"
EndsRight == <>[](tpc = CASE failures = 0 -> "done"
                           [] failures > 0 /\ BeginFailed -> "collect"
                           [] OTHER -> "failed")

\* A dispatching task that failed makes the trainer fail.  The docstrings of
\* dispatch_single_item_to_agent and collect_rollout_step say so; the task of
\* the partial placement can fail outside of both.
FailureReachesTrainer == (task = "failed") ~> (tpc = "failed")
=============================================================================
