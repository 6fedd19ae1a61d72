--------------------------- MODULE AgentLoopProofs ---------------------------
(***************************************************************************)
(* Proofs about AgentLoop: in both shared placements, for any number of    *)
(* agents, ranks, gen-RMs and microbatches and any failed remote calls,    *)
(* the policy and the engines never hold the same GPU memory, no request   *)
(* that is still awaited is on an engine that sleeps, no streamed reward   *)
(* outlives its run, and what is trained is the whole step, each rollout   *)
(* with the scores that are its own.                                       *)
(***************************************************************************)
EXTENDS AgentLoop, FiniteSetTheorems, TLAPS

----------------------------------------------------------------------------
\* The invariant.

Asleep(e) == engine[e].held = {}
Awake(e)  == engine[e].held = Tags

\* The flags of an engine tell the truth about the memory it holds.
FlagsHonest == \A e \in Engines : engine[e].tags = engine[e].held

\* The requests a run awaits: those of the phase whose answers it gathers.
AwaitedInPhase ==
    \A c \in calls :
        /\ c.run \in Runs
        /\ c.on \in Engines /\ ~failed[c.run] =>
              pc[c.run] = "gather" /\ c.on \in OfPhase(phase[c.run])

\* In "colocate" all agents are between the two barriers of a phase or none is,
\* and what the leader has reached says which engines are awake.
Inside == {"body", "gather", "close"}
PhasesTogether == Colocated => \A r, q \in Runs : phase[r] = phase[q]
Barriers ==
    /\ \A r, q \in Runs : pc[r] \in Inside => pc[q] \in Inside
    /\ \A r \in Runs : pc[r] \in {"enter", "shut"} => r = Leader
PhaseAwake ==
    pc[Leader] \in Inside \cup {"open", "shut"} =>
        \A e \in OfPhase(phase[Leader]) : Awake(e)
OthersAsleep ==
    /\ pc[Leader] \in Inside \cup {"open", "shut", "enter"} =>
         \A e \in Engines \ OfPhase(phase[Leader]) : Asleep(e)
    /\ pc[Leader] = "enter" /\ phase[Leader] = "rm" => \A e \in Rms : Asleep(e)
    /\ pc[Leader] \in {"closed", "rewards", "collect", "returned"} =>
         \A e \in Engines : Asleep(e)

\* In "partial_colocated" the engines are awake from the open to the close of
\* the step.
StepAwake ==
    /\ task = "running" => \A e \in Engines : Awake(e)
    /\ \A r \in Runs : pc[r] \in {"body", "gather"} => task = "running"
    /\ \A r \in Runs : pc[r] \notin {"enter", "shut", "open", "close", "closed"}

\* The agents are at rest.
AtRest == {"idle", "returned", "reported"}
Quiet == task \in {"none", "done"} /\ \A r \in Runs : pc[r] \in AtRest

AllAsleep == \A e \in Engines : Asleep(e)
OnlyWeights == engine["sampler"].held = {"weights"} /\ \A e \in Rms : Asleep(e)
NothingLoaded == \A k \in Ranks : policy[k] = {}

\* Whose turn it is to hold the memory, by where the trainer stands.
Turns ==
    /\ tpc \in {"offload", "train", "training", "wait", "final_onload"} => Quiet /\ AllAsleep
    /\ tpc = "pushed" => Quiet /\ OnlyWeights /\ AllOffloaded
    /\ tpc \in {"fire", "final_sleep"} => Quiet /\ OnlyWeights /\ NothingLoaded
    /\ tpc = "done" => Quiet /\ (AllAsleep \/ (OnlyWeights /\ NothingLoaded))
    /\ tpc \in {"offload", "pushed", "fire", "final_sleep", "final_onload", "done"} => task = "none"
    /\ tpc \in {"collect", "drain", "failed"} => NothingLoaded
    /\ tpc = "drain" => ~Colocated
Colocating == Colocated /\ tpc \in {"collect", "failed"} =>
    /\ Barriers /\ PhaseAwake
    /\ task # "opening"
    /\ tpc = "collect" =>
         /\ OthersAsleep
         /\ task \in {"running", "done", "failed"}
         /\ queue # {} => task = "done"
         /\ task = "done" => \A r \in Runs : pc[r] = "returned"
Stepping == ~Colocated /\ tpc \in {"collect", "drain", "failed"} =>
    /\ StepAwake
    /\ tpc \in {"collect", "drain"} =>
         /\ task # "none"
         /\ task = "done" => Quiet /\ AllAsleep

\* A step is begun only while one is left.
StepLeft == tpc \in {"fire", "collect", "drain", "train", "training"} => step < TotalSteps

TypeInv == TypeOK /\ StepLeft

MemoryInv == /\ TypeOK /\ FlagsHonest /\ AwaitedInPhase /\ PhasesTogether
             /\ Turns /\ Colocating /\ Stepping

----------------------------------------------------------------------------
\* Type correctness.

LEMMA ConstantsOK ==
    /\ TotalSteps \in Nat \ {0} /\ NumMb \in Nat \ {0} /\ NumAgents \in Nat \ {0}
    /\ "sampler" \notin Rms /\ "reward" \notin Rms
    /\ Configs \subseteq Config /\ MaxFailures \in Nat
BY AgentLoopAssumption DEF AgentLoopAssumption

\* Waking and sleeping leave flags and memory in step.
LEMMA WakeUpType ==
    ASSUME NEW e \in EngineState, NEW tags \in SUBSET Tags
    PROVE  WakeUp(e, tags) \in EngineState
BY DEF WakeUp, EngineState

LEMMA SleepType ==
    ASSUME NEW e \in EngineState
    PROVE  Sleep(e) \in EngineState
BY DEF Sleep, WakeUp, VllmAllAwake, VllmRelease, EngineState

LEMMA EnginesType ==
    ASSUME TypeOK, NEW es \in SUBSET Engines
    PROVE  /\ EnginesAwake(es) \in [Engines -> EngineState]
           /\ EnginesAsleep(es) \in [Engines -> EngineState]
<1>1. \A e \in Engines : engine[e] \in EngineState
  BY DEF TypeOK
<1>2. \A e \in Engines : WakeUp(engine[e], Tags) \in EngineState
  BY <1>1, WakeUpType
<1>3. \A e \in Engines : Sleep(engine[e]) \in EngineState
  BY <1>1, SleepType
<1>. QED  BY <1>1, <1>2, <1>3 DEF EnginesAwake, EnginesAsleep

LEMMA InitType == Init => TypeOK
<1>. SUFFICES ASSUME Init PROVE TypeOK
  OBVIOUS
<1>1. config \in Config
  BY ConstantsOK DEF Init
<1>2. step \in 0 .. TotalSteps /\ failures \in 0 .. MaxFailures
  BY ConstantsOK DEF Init
<1>3. EmptySlots \in [Mbs -> RolloutBatch]
  BY ConstantsOK DEF EmptySlots, RolloutBatch, NoSample, Mbs
<1>4. engine \in [Engines -> EngineState] /\ policy \in [Ranks -> SUBSET Parts]
  BY DEF Init, EngineState
<1>5. /\ pc \in [Runs -> RunPc] /\ phase \in [Runs -> {"sampler", "rm"}]
      /\ failed \in [Runs -> BOOLEAN]
  BY DEF Init, RunPc
<1>6. rbs \in [Runs -> [Mbs -> RolloutBatch]]
  BY <1>3 DEF Init
<1>. QED  BY <1>1, <1>2, <1>4, <1>5, <1>6 DEF Init, TypeOK, TrainerPc

\* The trainer's steps.
LEMMA TrainerType ==
    ASSUME TypeInv, TrainerNext
    PROVE  TypeOK'
<1>. USE DEF TypeInv, TypeOK, taskVars, runVars, callVars, trainerVars
<1>1. ASSUME NEW k \in Ranks, Offload(k) \/ OffloadModel(k) \/ FinalOnload(k) PROVE TypeOK'
  <2>1. policy' \in [Ranks -> SUBSET Parts]
    BY <1>1 DEF Offload, OffloadModel, FinalOnload
  <2>. QED  BY <1>1, <2>1 DEF Offload, OffloadModel, FinalOnload, Runs, Colocated
<1>2. ASSUME PushWeights PROVE TypeOK'
  <2>1. WakeUp(engine["sampler"], {"weights"}) \in EngineState
    BY WakeUpType DEF Engines, Tags
  <2>2. engine' \in [Engines -> EngineState]
    BY <1>2, <2>1 DEF PushWeights
  <2>. QED  BY <1>2, <2>2 DEF PushWeights, Runs, Colocated, TrainerPc
<1>3. ASSUME UpdateWeightsDone PROVE TypeOK'
  <2>1. tpc' \in TrainerPc
    BY <1>3 DEF UpdateWeightsDone, TrainerPc
  <2>. QED  BY <1>3, <2>1 DEF UpdateWeightsDone, Runs, Colocated
<1>4. ASSUME Fire PROVE TypeOK'
  <2>1. CASE task = "none" /\ queue = {}
    <3>1. EmptySlots \in [Mbs -> RolloutBatch]
      BY ConstantsOK DEF EmptySlots, RolloutBatch, NoSample, Mbs
    <3>2. /\ pc' \in [Runs -> RunPc] /\ phase' \in [Runs -> {"sampler", "rm"}]
          /\ rbs' \in [Runs -> [Mbs -> RolloutBatch]]
      BY <1>4, <2>1, <3>1 DEF Fire, RunPc
    <3>3. task' \in {"opening", "running"} /\ landed' = {} /\ tpc' = "collect"
      BY <1>4, <2>1 DEF Fire
    <3>. QED  BY <1>4, <3>2, <3>3 DEF Fire, Runs, Colocated, TrainerPc
  <2>2. CASE ~(task = "none" /\ queue = {})
    BY <1>4, <2>2 DEF Fire, Runs, Colocated, TrainerPc
  <2>. QED  BY <2>1, <2>2
<1>5. ASSUME Collect \/ CollectFails \/ WaitAllInflight PROVE TypeOK'
  BY <1>5 DEF Collect, CollectFails, WaitAllInflight, AfterCollect, Runs, Colocated, TrainerPc
<1>6. ASSUME Train \/ TrainDone \/ FinalSave PROVE TypeOK'
  <2>1. CASE Train \/ FinalSave
    BY <2>1 DEF Train, FinalSave, Runs, Colocated, TrainerPc
  <2>2. CASE TrainDone
    <3>1. step' \in 0 .. TotalSteps
      BY <2>2, ConstantsOK DEF TrainDone, StepLeft
    <3>. QED  BY <2>2, <3>1 DEF TrainDone, Runs, Colocated, TrainerPc
  <2>. QED  BY <1>6, <2>1, <2>2
<1>7. ASSUME FinalSleep PROVE TypeOK'
  <2>1. engine' \in [Engines -> EngineState]
    BY <1>7, EnginesType DEF FinalSleep, Engines
  <2>. QED  BY <1>7, <2>1 DEF FinalSleep, Runs, Colocated, TrainerPc
<1>. QED  BY <1>1, <1>2, <1>3, <1>4, <1>5, <1>6, <1>7 DEF TrainerNext

\* The dispatching task's steps.
LEMMA DispatchType ==
    ASSUME TypeInv, DispatchNext
    PROVE  TypeOK'
<1>. USE DEF TypeInv, TypeOK, taskVars, runVars, callVars, trainerVars
<1>0. ASSUME Fault PROVE failures' \in 0 .. MaxFailures
  BY <1>0, ConstantsOK DEF Fault
<1>1. ASSUME OpenStep PROVE TypeOK'
  <2>1. engine' \in [Engines -> EngineState]
    BY <1>1, EnginesType DEF OpenStep
  <2>. QED  BY <1>1, <2>1 DEF OpenStep, Runs, Colocated, RunPc
<1>2. ASSUME OpenStepFails PROVE TypeOK'
  <2>1. engine' \in [Engines -> EngineState]
    BY <1>2, EnginesType DEF OpenStepFails
  <2>. QED  BY <1>0, <1>2, <2>1 DEF OpenStepFails, Runs, Colocated
<1>3. ASSUME CloseStep PROVE TypeOK'
  <2>1. engine' \in [Engines -> EngineState]
    BY <1>3, EnginesType DEF CloseStep
  <2>. QED  BY <1>3, <2>1 DEF CloseStep, Outcome, Runs, Colocated
<1>4. ASSUME CloseStepFails PROVE TypeOK'
  <2>1. engine' \in [Engines -> EngineState]
    BY <1>4, EnginesType DEF CloseStepFails
  <2>. QED  BY <1>0, <1>4, <2>1 DEF CloseStepFails, Runs, Colocated
<1>5. \A r \in Runs, m \in Mbs : [slot |-> m, rb |-> rbs[r][m]] \in Queued
  BY DEF Queued
<1>6. \A r \in Runs : Slots(r) \subseteq Mbs
  BY DEF Slots, Runs, Mbs, Colocated
<1>7. ASSUME DispatchDone PROVE TypeOK'
  <2>1. queue' \in SUBSET Queued
    BY <1>5, <1>6, <1>7 DEF DispatchDone
  <2>. QED  BY <1>7, <2>1 DEF DispatchDone, Runs, Colocated
<1>8. ASSUME DispatchFails PROVE TypeOK'
  BY <1>8 DEF DispatchFails, Runs, Colocated
<1>9. ASSUME NEW r \in Runs, Deliver(r) PROVE TypeOK'
  <2>1. queue' \in SUBSET Queued
    BY <1>5, <1>6, <1>9 DEF Deliver
  <2>. QED  BY <1>9, <2>1 DEF Deliver, Runs, Colocated, RunPc
<1>10. ASSUME NEW r \in Runs, Report(r) PROVE TypeOK'
  BY <1>10 DEF Report, Runs, Colocated, RunPc
<1>. QED  BY <1>1, <1>2, <1>3, <1>4, <1>7, <1>8, <1>9, <1>10 DEF DispatchNext

\* The answers of a phase, joined to the rollout batches by position.
LEMMA JoinedType ==
    ASSUME TypeOK, NEW r \in Runs, NEW on \in {{"sampler"}, Rms, {"reward"}}
    PROVE  Joined(r, on) \in [Mbs -> RolloutBatch]
<1>. SUFFICES ASSUME NEW m \in Mbs PROVE Joined(r, on)[m] \in RolloutBatch
  BY DEF Joined
<1>. DEFINE got == {c \in Answered(r, on) : c.slot = m}
<1>1. got \subseteq {c \in Request : c.on \in on}
  BY DEF Answered, TypeOK
<1>2. CASE on = {"sampler"} /\ got # {}
  <2>1. PICK c \in got : c = CHOOSE d \in got : TRUE
    BY <1>2
  <2>2. Joined(r, on)[m] = [sample |-> c.sample, scores |-> {}]
    BY <1>2, <2>1 DEF Joined
  <2>3. c.sample \in 0 .. NumMb
    BY <1>1, <2>1 DEF Request
  <2>. QED  BY <2>2, <2>3 DEF RolloutBatch
<1>3. CASE ~(on = {"sampler"} /\ got # {})
  <2>. DEFINE new == {<<c.on, c.sample>> : c \in got}
  <2>1. Joined(r, on)[m] = [rbs[r][m] EXCEPT !.scores = @ \cup new]
    BY <1>3 DEF Joined
  <2>2. new \subseteq Scorers \X (0 .. NumMb)
    <3>1. CASE on = {"sampler"}
      BY <1>3, <3>1
    <3>2. CASE on # {"sampler"}
      BY <1>1, <3>2 DEF Scorers, Request
    <3>. QED  BY <3>1, <3>2
  <2>3. rbs[r][m] \in RolloutBatch
    BY DEF TypeOK
  <2>. HIDE DEF new
  <2>. QED  BY <2>1, <2>2, <2>3 DEF RolloutBatch
<1>. QED  BY <1>2, <1>3

\* The steps of the runs: every request is one of an engine in use.
LEMMA RunType ==
    ASSUME TypeInv, RunNext
    PROVE  TypeOK'
<1>. USE DEF TypeInv, TypeOK, taskVars, runVars, callVars, trainerVars, RunStep, Goto
<1>0. ASSUME Fault PROVE failures' \in 0 .. MaxFailures
  BY <1>0, ConstantsOK DEF Fault
<1>1. \A r \in Runs : Slots(r) \subseteq Mbs /\ r \in Nat
  BY ConstantsOK DEF Slots, Runs, Mbs, Colocated
<1>2. \A r \in Runs : OfPhase(phase[r]) \in {{"sampler"}, Rms}
  BY DEF OfPhase
<1>3. \A r \in Runs : EndOfPipeline \in RunPc /\ EndOfBody(r) \in RunPc
  BY DEF EndOfPipeline, EndOfBody, RunPc
<1>4. OpenBarrier \/ CloseBarrier => TypeOK'
  BY DEF OpenBarrier, CloseBarrier, Runs, Colocated, RunPc
<1>5. ASSUME ClosedBarrier PROVE TypeOK'
  <2>1. pc' \in [Runs -> RunPc] /\ phase' \in [Runs -> {"sampler", "rm"}]
    BY <1>3, <1>5 DEF ClosedBarrier, RunPc
  <2>. QED  BY <1>5, <2>1 DEF ClosedBarrier, Runs, Colocated
<1>. SUFFICES ASSUME NEW r \in Runs,
                     \/ EnterPhase(r) \/ EnterPhaseFails(r) \/ Issue(r) \/ Consume(r)
                     \/ GatherPhase(r) \/ GatherPhaseFails(r) \/ LeavePhase(r)
                     \/ LeavePhaseFails(r) \/ IssueRewards(r) \/ CollectRewards(r)
                     \/ CollectRewardsFails(r) \/ Raise(r)
              PROVE  TypeOK'
  BY <1>4, <1>5 DEF RunNext
<1>6. CASE EnterPhase(r) \/ EnterPhaseFails(r) \/ LeavePhase(r) \/ LeavePhaseFails(r)
  <2>1. \A es \in SUBSET OfPhase(phase[r]) : es \in SUBSET Engines
    BY <1>2 DEF Engines
  <2>2. engine' \in [Engines -> EngineState]
    BY <1>6, <2>1, EnginesType DEF EnterPhase, EnterPhaseFails, LeavePhase, LeavePhaseFails
  <2>3. failures' \in 0 .. MaxFailures
    BY <1>0, <1>6 DEF EnterPhase, EnterPhaseFails, LeavePhase, LeavePhaseFails
  <2>4. pc' \in [Runs -> RunPc] /\ failed' \in [Runs -> BOOLEAN]
    BY <1>6 DEF EnterPhase, EnterPhaseFails, LeavePhase, LeavePhaseFails, RunPc
  <2>. QED  BY <1>6, <2>2, <2>3, <2>4
            DEF EnterPhase, EnterPhaseFails, LeavePhase, LeavePhaseFails, Runs, Colocated
<1>7. CASE Issue(r)
  <2>1. Sends(r) \subseteq Request
    <3>1. CASE phase[r] = "sampler"
      <4>1. \A m \in Mbs : m \in 0 .. NumMb
        BY ConstantsOK DEF Mbs
      <4>2. Sends(r) = {[run |-> r, on |-> "sampler", slot |-> m, sample |-> m] : m \in Slots(r)}
        BY <3>1 DEF Sends
      <4>. QED  BY <1>1, <4>1, <4>2 DEF Request, Engines
    <3>2. CASE phase[r] # "sampler"
      <4>1. \A m \in Mbs : rbs[r][m].sample \in 0 .. NumMb
        BY DEF RolloutBatch
      <4>. QED  BY <1>1, <3>2, <4>1 DEF Sends, Request, Engines
    <3>. QED  BY <3>1, <3>2
  <2>. QED  BY <1>7, <2>1 DEF Issue, Runs, Colocated, RunPc
<1>8. CASE Consume(r)
  <2>1. PICK c \in Answered(r, {"sampler"}) :
          /\ rbs' = [rbs EXCEPT ![r][SlotOf(c)] = [sample |-> c.sample, scores |-> {}]]
          /\ calls' = calls \cup {FireReward(c)}
    BY <1>8 DEF Consume
  <2>2. c \in Request /\ c.run = r
    BY <2>1 DEF Answered
  <2>3. FireReward(c) \in Request
    BY <2>2 DEF FireReward, SlotOf, Request
  <2>4. rbs' \in [Runs -> [Mbs -> RolloutBatch]]
    <3>1. [sample |-> c.sample, scores |-> {}] \in RolloutBatch
      BY <2>2 DEF Request, RolloutBatch
    <3>. QED  BY <2>1, <3>1
  <2>. QED  BY <1>8, <2>1, <2>3, <2>4 DEF Consume, Runs, Colocated
<1>9. CASE GatherPhase(r)
  <2>1. rbs' \in [Runs -> [Mbs -> RolloutBatch]]
    <3>1. Joined(r, OfPhase(phase[r])) \in [Mbs -> RolloutBatch]
      BY <1>2, JoinedType
    <3>. QED  BY <1>9, <3>1 DEF GatherPhase
  <2>2. pc' \in [Runs -> RunPc] /\ phase' \in [Runs -> {"sampler", "rm"}]
    BY <1>3, <1>9 DEF GatherPhase
  <2>. QED  BY <1>9, <2>1, <2>2 DEF GatherPhase, Runs, Colocated
<1>10. CASE GatherPhaseFails(r) \/ CollectRewardsFails(r)
  <2>1. CASE GatherPhaseFails(r)
    BY <2>1 DEF GatherPhaseFails, Runs, Colocated, RunPc
  <2>2. CASE CollectRewardsFails(r)
    BY <2>2 DEF CollectRewardsFails, Runs, Colocated, RunPc
  <2>. QED  BY <1>10, <2>1, <2>2
<1>11. CASE IssueRewards(r)
  <2>1. \A m \in Mbs : rbs[r][m].sample \in 0 .. NumMb
    BY DEF RolloutBatch
  <2>2. calls' \in SUBSET Request
    BY <1>1, <1>11, <2>1 DEF IssueRewards, Request
  <2>. QED  BY <1>11, <2>2 DEF IssueRewards, Runs, Colocated, RunPc
<1>12. CASE CollectRewards(r)
  <2>1. rbs' \in [Runs -> [Mbs -> RolloutBatch]]
    BY <1>12, JoinedType DEF CollectRewards
  <2>. QED  BY <1>12, <2>1 DEF CollectRewards, Runs, Colocated, RunPc
<1>13. CASE Raise(r)
  BY <1>13 DEF Raise, Runs, Colocated, RunPc
<1>. QED  BY <1>6, <1>7, <1>8, <1>9, <1>10, <1>11, <1>12, <1>13

LEMMA NextType == TypeInv /\ [Next]_vars => TypeInv'
<1>. SUFFICES ASSUME TypeInv, [Next]_vars PROVE TypeInv'
  OBVIOUS
<1>. USE DEF taskVars, runVars, callVars, trainerVars
<1>1. TypeOK'
  <2>1. CASE CallNext
    <3>1. PICK c \in calls : FinishCall(c) \/ FailCall(c)
      BY <2>1 DEF CallNext
    <3>2. failures' \in 0 .. MaxFailures
      BY <3>1, ConstantsOK DEF FinishCall, FailCall, Fault, TypeInv, TypeOK
    <3>. QED  BY <3>1, <3>2
              DEF FinishCall, FailCall, RunStep, TypeInv, TypeOK, Runs, Colocated
  <2>2. CASE UNCHANGED vars
    BY <2>2 DEF vars, TypeInv, TypeOK, Runs, Colocated
  <2>. QED  BY <2>1, <2>2, TrainerType, DispatchType, RunType DEF Next
<1>2. StepLeft'
  <2>1. CASE TrainerNext
    BY <2>1 DEF TypeInv, TypeOK, StepLeft, TrainerNext, Offload, OffloadModel, FinalOnload,
                PushWeights, UpdateWeightsDone, Fire, Collect, CollectFails, WaitAllInflight,
                Train, TrainDone, FinalSleep, FinalSave, AfterCollect
  <2>2. CASE UNCHANGED <<tpc, step>>
    BY <2>2 DEF TypeInv, StepLeft
  <2>3. ASSUME ~ TrainerNext PROVE UNCHANGED <<tpc, step>>
    BY <2>3 DEF Next, vars, DispatchNext, RunNext, CallNext, OpenStep, OpenStepFails, CloseStep,
                CloseStepFails, DispatchDone, DispatchFails, Deliver, Report, OpenBarrier,
                CloseBarrier, ClosedBarrier, EnterPhase, EnterPhaseFails, Issue, Consume,
                GatherPhase, GatherPhaseFails, LeavePhase, LeavePhaseFails, IssueRewards,
                CollectRewards, CollectRewardsFails, Raise, FinishCall, FailCall, RunStep
  <2>. QED  BY <2>1, <2>2, <2>3
<1>. QED  BY <1>1, <1>2 DEF TypeInv

\* TypeOK: the shapes of the trainer's, the controller's, the agents' and the
\* engines' state hold in every state, for every number of agents, ranks,
\* gen-RMs and microbatches.
THEOREM AgentLoopTypeCorrect == Spec => []TypeOK
<1>1. Init => TypeInv
  BY InitType, ConstantsOK DEF TypeInv, StepLeft, Init
<1>. QED  BY <1>1, NextType, PTL DEF Spec, TypeInv

----------------------------------------------------------------------------
\* Streamed rewards.

LEMMA StreamNeedsExternal == TypeOK /\ config.stream => EndOfPipeline = "collect"
BY Zenon DEF TypeOK, Config, EndOfPipeline

\* A request with a run of its own is no other run's business.
LEMMA StreamedRewards ==
    ASSUME TypeOK, NoRewardOutlives, Next
    PROVE  NoRewardOutlives'
<1>. SUFFICES ASSUME config'.stream, NEW r \in Runs', pc'[r] \in {"returned", "raised"}
              PROVE  Running(r, {"reward"})' = {}
  BY DEF NoRewardOutlives
<1>. DEFINE Clean == pc[r] \in {"returned", "raised"} => Running(r, {"reward"}) = {}
<1>1. config' = config /\ Runs' = Runs
  BY DEF Runs, Colocated, Next, TrainerNext, DispatchNext, RunNext, CallNext, Offload,
         OffloadModel, FinalOnload, PushWeights, UpdateWeightsDone, Fire, Collect, CollectFails,
         WaitAllInflight, Train, TrainDone, FinalSleep, FinalSave, OpenStep, OpenStepFails,
         CloseStep, CloseStepFails, DispatchDone, DispatchFails, Deliver, Report, OpenBarrier,
         CloseBarrier, ClosedBarrier, EnterPhase, EnterPhaseFails, Issue, Consume, GatherPhase,
         GatherPhaseFails, LeavePhase, LeavePhaseFails, IssueRewards, CollectRewards,
         CollectRewardsFails, Raise, FinishCall, FailCall, RunStep
<1>2. config.stream /\ r \in Runs /\ pc \in [Runs -> RunPc] /\ Clean
  BY <1>1 DEF NoRewardOutlives, TypeOK
<1>3. ASSUME pc'[r] = pc[r], Running(r, {"reward"})' \subseteq Running(r, {"reward"})
      PROVE  Running(r, {"reward"})' = {}
  BY <1>2, <1>3
<1>4. CASE TrainerNext
  <2>1. calls' = calls
    BY <1>4 DEF TrainerNext, Offload, OffloadModel, FinalOnload, PushWeights, UpdateWeightsDone,
                Fire, Collect, CollectFails, WaitAllInflight, Train, TrainDone, FinalSleep,
                FinalSave, callVars
  <2>2. pc'[r] = pc[r] \/ pc'[r] \in {"idle", "enter", "open"}
    BY <1>2, <1>4 DEF TrainerNext, Offload, OffloadModel, FinalOnload, PushWeights,
                UpdateWeightsDone, Fire, Collect, CollectFails, WaitAllInflight, Train,
                TrainDone, FinalSleep, FinalSave, runVars
  <2>. QED  BY <1>3, <2>1, <2>2 DEF Running
<1>5. CASE DispatchNext
  <2>1. calls' = calls
    BY <1>5 DEF DispatchNext, OpenStep, OpenStepFails, CloseStep, CloseStepFails, DispatchDone,
                DispatchFails, Deliver, Report, callVars
  <2>2. pc'[r] = pc[r] \/ pc'[r] \in {"body", "reported"}
    BY <1>2, <1>5 DEF DispatchNext, OpenStep, OpenStepFails, CloseStep, CloseStepFails,
                DispatchDone, DispatchFails, Deliver, Report, runVars
  <2>. QED  BY <1>3, <2>1, <2>2 DEF Running
<1>6. CASE CallNext
  <2>1. calls' \subseteq calls /\ pc' = pc
    BY <1>6 DEF CallNext, FinishCall, FailCall, runVars
  <2>. QED  BY <1>3, <2>1 DEF Running
<1>7. CASE OpenBarrier \/ CloseBarrier \/ ClosedBarrier
  <2>1. calls' = calls
    BY <1>7 DEF OpenBarrier, CloseBarrier, ClosedBarrier, callVars
  <2>2. EndOfPipeline = "collect"
    BY <1>2, StreamNeedsExternal
  <2>3. pc'[r] = pc[r] \/ pc'[r] \notin {"returned", "raised"}
    BY <1>2, <1>7, <2>2 DEF OpenBarrier, CloseBarrier, ClosedBarrier
  <2>. QED  BY <1>3, <2>1, <2>3 DEF Running
<1>8. ASSUME NEW q \in Runs,
             \/ EnterPhase(q) \/ EnterPhaseFails(q) \/ GatherPhase(q) \/ GatherPhaseFails(q)
             \/ LeavePhase(q) \/ LeavePhaseFails(q) \/ CollectRewardsFails(q)
      PROVE  Running(r, {"reward"})' = {}
  <2>1. calls' = calls
    BY <1>8 DEF EnterPhase, EnterPhaseFails, GatherPhase, GatherPhaseFails, LeavePhase,
                LeavePhaseFails, CollectRewardsFails, callVars
  <2>2. EndOfBody(q) \notin {"returned", "raised"}
    BY <1>2, StreamNeedsExternal DEF EndOfBody
  <2>3. pc'[r] = pc[r] \/ pc'[r] \notin {"returned", "raised"}
    BY <1>2, <1>8, <2>2 DEF EnterPhase, EnterPhaseFails, GatherPhase, GatherPhaseFails,
                LeavePhase, LeavePhaseFails, CollectRewardsFails, Goto
  <2>. QED  BY <1>3, <2>1, <2>3 DEF Running
<1>9. ASSUME NEW q \in Runs, Issue(q) \/ Consume(q) \/ IssueRewards(q)
      PROVE  Running(r, {"reward"})' = {}
  <2>1. r # q
    BY <1>2, <1>9 DEF Issue, Consume, IssueRewards, Goto
  <2>2. pc'[r] = pc[r]
    BY <1>2, <1>9, <2>1 DEF Issue, Consume, IssueRewards, Goto
  <2>3. \A c \in calls' : c \in calls \/ c.run = q
    BY <1>9 DEF Issue, Consume, IssueRewards, Sends, FireReward, Answered
  <2>. QED  BY <1>3, <2>1, <2>2, <2>3 DEF Running
<1>10. ASSUME NEW q \in Runs, CollectRewards(q) PROVE Running(r, {"reward"})' = {}
  <2>1. CASE r = q
    BY <1>10, <2>1 DEF CollectRewards, Running, callVars
  <2>2. CASE r # q
    BY <1>2, <1>3, <1>10, <2>2 DEF CollectRewards, Running, callVars, Goto
  <2>. QED  BY <2>1, <2>2
<1>11. ASSUME NEW q \in Runs, Raise(q) PROVE Running(r, {"reward"})' = {}
  <2>1. calls' = calls \ Running(q, {"reward"})
    BY <1>2, <1>11 DEF Raise, Cancelled
  <2>2. CASE r = q
    BY <2>1, <2>2 DEF Running
  <2>3. CASE r # q
    BY <1>2, <1>3, <1>11, <2>1, <2>3 DEF Raise, Running, Goto
  <2>. QED  BY <2>2, <2>3
<1>. QED
  BY <1>4, <1>5, <1>6, <1>7, <1>8, <1>9, <1>10, <1>11 DEF Next, RunNext

\* NoRewardOutlives: an agent_loop call that streams external rewards leaves
\* none of them behind, whether it returns or raises, and whatever failed.
THEOREM RewardsEndWithTheirRun == Spec => []NoRewardOutlives
<1>1. Init => NoRewardOutlives
  BY DEF Init, NoRewardOutlives
<1>2. TypeOK /\ NoRewardOutlives /\ [Next]_vars => NoRewardOutlives'
  <2>1. ASSUME NoRewardOutlives, UNCHANGED vars PROVE NoRewardOutlives'
    BY <2>1 DEF vars, runVars, callVars, NoRewardOutlives, Running, Runs, Colocated
  <2>. QED  BY <2>1, StreamedRewards
<1>. QED  BY <1>1, <1>2, AgentLoopTypeCorrect, PTL DEF Spec

----------------------------------------------------------------------------
\* Memory.

LEMMA LeaderRuns == TypeOK => Leader \in Runs
BY ConstantsOK DEF Leader, Runs

\* With honest flags an engine that is woken holds what it was asked for, and
\* one that is put to sleep holds nothing.
LEMMA WakeUpHonest ==
    ASSUME NEW e \in EngineState, e.tags = e.held, NEW tags \in SUBSET Tags
    PROVE  /\ WakeUp(e, tags).tags = WakeUp(e, tags).held
           /\ WakeUp(e, tags).held = e.held \cup tags
BY DEF WakeUp, EngineState

LEMMA SleepHonest ==
    ASSUME NEW e \in EngineState, e.tags = e.held
    PROVE  Sleep(e).tags = {} /\ Sleep(e).held = {}
<1>1. CASE e.tags = {}
  BY <1>1 DEF Sleep
<1>2. CASE e.tags # {} /\ config.backend = "vllm"
  <2>1. VllmAllAwake(e).held = Tags
    BY WakeUpHonest DEF VllmAllAwake, EngineState
  <2>2. Sleep(e) = [tags |-> {}, held |-> VllmRelease(VllmAllAwake(e).held)]
    BY <1>2 DEF Sleep
  <2>. QED  BY <2>1, <2>2 DEF VllmRelease
<1>3. CASE e.tags # {} /\ config.backend # "vllm"
  BY <1>3 DEF Sleep
<1>. QED  BY <1>1, <1>2, <1>3

LEMMA EnginesHonest ==
    ASSUME TypeOK, FlagsHonest, NEW es \in SUBSET Engines, NEW e \in Engines
    PROVE  /\ EnginesAwake(es)[e].tags = EnginesAwake(es)[e].held
           /\ EnginesAsleep(es)[e].tags = EnginesAsleep(es)[e].held
           /\ e \in es => EnginesAwake(es)[e].held = Tags /\ EnginesAsleep(es)[e].held = {}
           /\ e \notin es => EnginesAwake(es)[e] = engine[e] /\ EnginesAsleep(es)[e] = engine[e]
<1>1. engine[e] \in EngineState /\ engine[e].tags = engine[e].held
  BY DEF TypeOK, FlagsHonest
<1>2. /\ WakeUp(engine[e], Tags).tags = WakeUp(engine[e], Tags).held
      /\ WakeUp(engine[e], Tags).held = Tags
  <2>1. Tags \in SUBSET Tags
    OBVIOUS
  <2>2. /\ WakeUp(engine[e], Tags).tags = WakeUp(engine[e], Tags).held
        /\ WakeUp(engine[e], Tags).held = engine[e].held \cup Tags
    BY <1>1, <2>1, WakeUpHonest
  <2>3. engine[e].held \subseteq Tags
    BY <1>1 DEF EngineState
  <2>. QED  BY <2>2, <2>3
<1>3. Sleep(engine[e]).tags = {} /\ Sleep(engine[e]).held = {}
  BY <1>1, SleepHonest
<1>. QED  BY <1>1, <1>2, <1>3 DEF EnginesAwake, EnginesAsleep

\* A step that changes no run that gathers, or only one that fails, and adds no
\* request, leaves every awaited request in its phase.
LEMMA AwaitedKept ==
    ASSUME AwaitedInPhase, calls' \subseteq calls, Runs' = Runs,
           \A r \in Runs : failed[r] => failed'[r],
           \A r \in Runs : \/ pc'[r] = pc[r] /\ phase'[r] = phase[r]
                          \/ pc[r] # "gather"
                          \/ failed'[r]
    PROVE  AwaitedInPhase'
<1>. SUFFICES ASSUME NEW c \in calls'
              PROVE  /\ c.run \in Runs'
                     /\ c.on \in Engines /\ ~failed'[c.run] =>
                           pc'[c.run] = "gather" /\ c.on \in OfPhase(phase'[c.run])
  BY DEF AwaitedInPhase, OfPhase, Engines
<1>1. c.run \in Runs
  BY DEF AwaitedInPhase
<1>2. ASSUME c.on \in Engines, ~failed'[c.run]
      PROVE  pc'[c.run] = "gather" /\ c.on \in OfPhase(phase'[c.run])
  <2>1. ~failed[c.run]
    BY <1>1, <1>2
  <2>2. pc[c.run] = "gather" /\ c.on \in OfPhase(phase[c.run])
    BY <1>2, <2>1 DEF AwaitedInPhase
  <2>. QED  BY <1>1, <1>2, <2>2
<1>. QED  BY <1>1, <1>2

\* Where the engines or the runs stay as they are, so does what is said of them.
LEMMA SameEngines ==
    ASSUME UNCHANGED engine
    PROVE  /\ AllAsleep' = AllAsleep /\ OnlyWeights' = OnlyWeights
           /\ FlagsHonest' = FlagsHonest /\ \A e \in Engines : Awake(e)' = Awake(e)
BY DEF AllAsleep, OnlyWeights, FlagsHonest, Asleep, Awake

LEMMA SameRuns ==
    ASSUME UNCHANGED <<config, pc, phase>>
    PROVE  /\ Runs' = Runs /\ Colocated' = Colocated
           /\ Barriers' = Barriers /\ PhasesTogether' = PhasesTogether
BY DEF Runs, Colocated, Barriers, PhasesTogether

LEMMA SameEnginesAndRuns ==
    ASSUME UNCHANGED <<config, pc, phase, engine>>
    PROVE  PhaseAwake' = PhaseAwake /\ OthersAsleep' = OthersAsleep
BY DEF PhaseAwake, OthersAsleep, Awake, Asleep

----------------------------------------------------------------------------
\* The trainer's steps.

LEMMA TrainerMemory ==
    ASSUME MemoryInv, TrainerNext, TypeOK'
    PROVE  MemoryInv'
<1>. USE DEF taskVars, runVars, callVars, trainerVars
\* The steps that leave engines and runs alone.
<1>1. ASSUME UNCHANGED <<config, engine, pc, phase, failed, calls>>,
             Turns', Colocating', Stepping'
      PROVE  MemoryInv'
  <2>1. FlagsHonest' /\ PhasesTogether' /\ Runs' = Runs
    BY <1>1, SameEngines, SameRuns DEF MemoryInv
  <2>2. AwaitedInPhase'
    BY <1>1, <2>1, AwaitedKept DEF MemoryInv
  <2>. QED  BY <1>1, <2>1, <2>2 DEF MemoryInv
<1>2. ASSUME UNCHANGED <<config, engine, pc, phase, failed, calls>>
      PROVE  /\ Runs' = Runs /\ Colocated' = Colocated /\ Barriers' = Barriers
             /\ PhaseAwake' = PhaseAwake /\ OthersAsleep' = OthersAsleep
             /\ AllAsleep' = AllAsleep /\ OnlyWeights' = OnlyWeights
  BY <1>2, SameEngines, SameRuns, SameEnginesAndRuns
<1>3. ASSUME NEW k \in Ranks, Offload(k) \/ OffloadModel(k) \/ FinalOnload(k) PROVE MemoryInv'
  <2>1. UNCHANGED <<config, engine, pc, phase, failed, calls, tpc, task, queue>>
    BY <1>3 DEF Offload, OffloadModel, FinalOnload
  <2>2. tpc \in {"offload", "pushed", "final_onload"}
    BY <1>3 DEF Offload, OffloadModel, FinalOnload
  <2>3. Quiet' = Quiet
    BY <1>2, <2>1 DEF Quiet
  <2>4. tpc = "pushed" => AllOffloaded'
    BY <1>3 DEF Offload, OffloadModel, FinalOnload, AllOffloaded, MemoryInv, TypeOK, Turns
  <2>. QED  BY <1>1, <1>2, <2>1, <2>2, <2>3, <2>4 DEF MemoryInv, Turns, Colocating, Stepping
<1>4. ASSUME UpdateWeightsDone \/ Train \/ TrainDone \/ FinalSave PROVE MemoryInv'
  <2>1. UNCHANGED <<config, engine, pc, phase, failed, calls, task, queue>>
    BY <1>4 DEF UpdateWeightsDone, Train, TrainDone, FinalSave
  <2>3. Quiet' = Quiet
    BY <1>2, <2>1 DEF Quiet
  <2>4. CASE UpdateWeightsDone
    <3>1. tpc = "pushed" /\ tpc' \in {"fire", "final_sleep", "done"} /\ NothingLoaded'
      BY <2>4 DEF UpdateWeightsDone, NothingLoaded
    <3>. QED  BY <1>1, <1>2, <2>1, <2>3, <3>1 DEF MemoryInv, Turns, Colocating, Stepping
  <2>5. CASE Train \/ TrainDone \/ FinalSave
    <3>1. \/ tpc \in {"train", "training"} /\ tpc' \in {"training", "wait"}
          \/ tpc = "final_onload" /\ tpc' = "done"
      BY <2>5 DEF Train, TrainDone, FinalSave
    <3>. QED  BY <1>1, <1>2, <2>1, <2>3, <3>1 DEF MemoryInv, Turns, Colocating, Stepping
  <2>. QED  BY <1>4, <2>4, <2>5
<1>5. ASSUME Collect PROVE MemoryInv'
  <2>1. UNCHANGED <<config, engine, pc, phase, failed, calls, task, policy>>
    BY <1>5 DEF Collect
  <2>2. tpc = "collect" /\ tpc' = AfterCollect /\ queue # {}
    BY <1>5, ConstantsOK, FS_EmptySet DEF Collect
  <2>3. Quiet' = Quiet /\ NothingLoaded' = NothingLoaded
    BY <1>2, <2>1 DEF Quiet, NothingLoaded
  <2>4. CASE Colocated
    <3>1. task = "done" /\ \A r \in Runs : pc[r] = "returned"
      BY <2>2, <2>4 DEF MemoryInv, Colocating
    <3>2. AllAsleep
      BY <2>2, <2>4, <3>1, LeaderRuns DEF MemoryInv, Colocating, OthersAsleep, AllAsleep
    <3>3. Quiet
      BY <3>1 DEF Quiet, AtRest
    <3>. QED  BY <1>1, <1>2, <2>1, <2>2, <2>3, <2>4, <3>2, <3>3
              DEF AfterCollect, Turns, Colocating, Stepping
  <2>5. CASE ~Colocated
    <3>1. StepAwake' = StepAwake
      BY <1>2, <2>1, SameEngines DEF StepAwake
    <3>. QED  BY <1>1, <1>2, <2>1, <2>2, <2>3, <2>5, <3>1
              DEF AfterCollect, MemoryInv, Turns, Colocating, Stepping
  <2>. QED  BY <2>4, <2>5
<1>6. ASSUME CollectFails PROVE MemoryInv'
  <2>1. UNCHANGED <<config, engine, pc, phase, failed, calls, task, policy, queue>>
    BY <1>6 DEF CollectFails
  <2>2. tpc = "collect" /\ tpc' = "failed"
    BY <1>6 DEF CollectFails
  <2>3. StepAwake' = StepAwake /\ NothingLoaded' = NothingLoaded
    BY <1>2, <2>1, SameEngines DEF StepAwake, NothingLoaded
  <2>. QED  BY <1>1, <1>2, <2>1, <2>2, <2>3 DEF MemoryInv, Turns, Colocating, Stepping
<1>7. ASSUME WaitAllInflight PROVE MemoryInv'
  <2>1. UNCHANGED <<config, engine, pc, phase, failed, calls, policy, queue>>
    BY <1>7 DEF WaitAllInflight
  <2>2. task' = "none" /\ tpc \in {"drain", "wait"} /\ task \in {"none", "done", "failed"}
    BY <1>7 DEF WaitAllInflight
  <2>3. NothingLoaded' = NothingLoaded /\ (Quiet => Quiet')
    BY <1>2, <2>1, <2>2 DEF Quiet, NothingLoaded
  <2>4. CASE tpc = "wait"
    <3>1. tpc' = "offload"
      BY <1>7, <2>4 DEF WaitAllInflight, MemoryInv, Turns, Quiet
    <3>. QED  BY <1>1, <1>2, <2>1, <2>2, <2>3, <2>4, <3>1
              DEF MemoryInv, Turns, Colocating, Stepping
  <2>5. CASE tpc = "drain"
    <3>1. ~Colocated /\ StepAwake /\ NothingLoaded /\ task # "none"
      BY <2>5 DEF MemoryInv, Turns, Stepping
    <3>2. CASE task = "done"
      <4>1. tpc' = "train" /\ Quiet /\ AllAsleep
        BY <1>7, <2>5, <3>1, <3>2 DEF WaitAllInflight, MemoryInv, Stepping
      <4>. QED  BY <1>1, <1>2, <2>1, <2>2, <2>3, <3>1, <4>1
                DEF MemoryInv, Turns, Colocating, Stepping
    <3>3. CASE task = "failed"
      <4>1. tpc' = "failed"
        BY <1>7, <3>3 DEF WaitAllInflight
      <4>2. StepAwake'
        BY <1>2, <2>1, <2>2, <3>1, <3>3 DEF StepAwake
      <4>. QED  BY <1>1, <1>2, <2>1, <2>2, <2>3, <3>1, <4>1, <4>2
                DEF MemoryInv, Turns, Colocating, Stepping
    <3>. QED  BY <2>2, <3>1, <3>2, <3>3
  <2>. QED  BY <2>2, <2>4, <2>5
<1>8. ASSUME PushWeights \/ FinalSleep PROVE MemoryInv'
  <2>1. UNCHANGED <<config, pc, phase, failed, calls, policy, task, queue>>
    BY <1>8 DEF PushWeights, FinalSleep
  <2>2. /\ Runs' = Runs /\ Colocated' = Colocated /\ PhasesTogether' = PhasesTogether
        /\ Quiet' = Quiet /\ AllOffloaded' = AllOffloaded
    BY <2>1, SameRuns DEF Quiet, AllOffloaded
  <2>3. AwaitedInPhase'
    BY <2>1, <2>2, AwaitedKept DEF MemoryInv
  <2>4. Quiet /\ task = "none" /\ PhasesTogether
    BY <1>8 DEF PushWeights, FinalSleep, MemoryInv, Turns
  <2>5. CASE PushWeights
    <3>1. AllAsleep /\ tpc' = "pushed" /\ AllOffloaded
      BY <2>5 DEF PushWeights, MemoryInv, Turns
    <3>2. /\ engine["sampler"] \in EngineState /\ engine["sampler"].held = {}
          /\ engine["sampler"].tags = {}
      BY <3>1 DEF MemoryInv, FlagsHonest, AllAsleep, Asleep, TypeOK, Engines
    <3>3. /\ WakeUp(engine["sampler"], {"weights"}).held = {"weights"}
          /\ WakeUp(engine["sampler"], {"weights"}).tags = {"weights"}
      <4>1. {"weights"} \in SUBSET Tags
        BY DEF Tags
      <4>2. engine["sampler"].tags = engine["sampler"].held
        BY <3>2
      <4>3. /\ WakeUp(engine["sampler"], {"weights"}).tags
                  = WakeUp(engine["sampler"], {"weights"}).held
            /\ WakeUp(engine["sampler"], {"weights"}).held
                  = engine["sampler"].held \cup {"weights"}
        BY <3>2, <4>1, <4>2, WakeUpHonest
      <4>. QED  BY <3>2, <4>3
    <3>4. engine' = [engine EXCEPT !["sampler"] = WakeUp(@, {"weights"})]
      BY <2>5 DEF PushWeights
    <3>5. OnlyWeights'
      BY <3>1, <3>3, <3>4, ConstantsOK DEF OnlyWeights, AllAsleep, Asleep, MemoryInv, TypeOK,
                                           Engines
    <3>6. FlagsHonest'
      BY <3>3, <3>4 DEF FlagsHonest, MemoryInv, TypeOK
    <3>. QED  BY <2>1, <2>2, <2>3, <2>4, <3>1, <3>5, <3>6
              DEF MemoryInv, Turns, Colocating, Stepping
  <2>6. CASE FinalSleep
    <3>1. OnlyWeights /\ tpc' = "final_onload" /\ engine' = EnginesAsleep({"sampler"})
      BY <2>6 DEF FinalSleep, MemoryInv, Turns
    <3>2. {"sampler"} \in SUBSET Engines
      BY DEF Engines
    <3>3. AllAsleep' /\ FlagsHonest'
      BY <3>1, <3>2, EnginesHonest
         DEF OnlyWeights, AllAsleep, FlagsHonest, Asleep, Engines, MemoryInv
    <3>. QED  BY <2>1, <2>2, <2>3, <2>4, <3>1, <3>3 DEF MemoryInv, Turns, Colocating, Stepping
  <2>. QED  BY <1>8, <2>5, <2>6
<1>9. ASSUME Fire PROVE MemoryInv'
  <2>1. /\ tpc = "fire" /\ Quiet /\ OnlyWeights /\ NothingLoaded /\ task = "none"
        /\ PhasesTogether
    BY <1>9 DEF Fire, MemoryInv, Turns
  <2>2. UNCHANGED <<config, engine, policy, failed, calls, queue>>
    BY <1>9 DEF Fire
  <2>3. Runs' = Runs /\ Colocated' = Colocated /\ NothingLoaded' /\ FlagsHonest'
    BY <2>1, <2>2, SameEngines DEF Runs, Colocated, NothingLoaded, MemoryInv
  <2>4. AwaitedInPhase'
    BY <2>1, <2>2, <2>3, AwaitedKept DEF MemoryInv, Quiet, AtRest
  <2>5. CASE queue # {}
    <3>1. tpc' = "failed" /\ UNCHANGED <<task, pc, phase>>
      BY <1>9, <2>5 DEF Fire
    <3>2. Barriers' /\ PhaseAwake' /\ StepAwake' /\ PhasesTogether'
      BY <2>1, <2>2, <2>3, <3>1, LeaderRuns
         DEF Barriers, PhaseAwake, StepAwake, PhasesTogether, Quiet, AtRest, Inside, MemoryInv
    <3>. QED  BY <2>1, <2>3, <2>4, <3>1, <3>2 DEF MemoryInv, Turns, Colocating, Stepping
  <2>6. CASE queue = {} /\ Colocated
    <3>1. /\ tpc' = "collect" /\ task' = "running" /\ queue' = {}
          /\ pc' = [r \in Runs |-> IF r = Leader THEN "enter" ELSE "open"]
          /\ phase' = [r \in Runs |-> "sampler"]
      BY <1>9, <2>1, <2>2, <2>6 DEF Fire
    <3>2. Leader \in Runs /\ pc'[Leader] = "enter" /\ phase'[Leader] = "sampler"
      BY <3>1, LeaderRuns DEF MemoryInv
    <3>3. Barriers' /\ PhaseAwake' /\ PhasesTogether'
      BY <2>3, <3>1, <3>2 DEF Barriers, PhaseAwake, PhasesTogether, Inside
    <3>4. OthersAsleep'
      BY <2>1, <2>2, <3>2 DEF OthersAsleep, OnlyWeights, Asleep, OfPhase, Engines, Inside
    <3>. QED  BY <2>3, <2>4, <2>6, <3>1, <3>3, <3>4 DEF MemoryInv, Turns, Colocating, Stepping
  <2>7. CASE queue = {} /\ ~Colocated
    <3>1. /\ tpc' = "collect" /\ task' = "opening"
          /\ pc' = [r \in Runs |-> "idle"]
      BY <1>9, <2>1, <2>2, <2>7 DEF Fire
    <3>2. StepAwake' /\ PhasesTogether'
      BY <2>3, <2>7, <3>1 DEF StepAwake, PhasesTogether
    <3>. QED  BY <2>3, <2>4, <2>7, <3>1, <3>2 DEF MemoryInv, Turns, Colocating, Stepping
  <2>. QED  BY <2>5, <2>6, <2>7
<1>. QED
  BY <1>3, <1>4, <1>5, <1>6, <1>7, <1>8, <1>9 DEF TrainerNext

----------------------------------------------------------------------------
\* The dispatching task's steps.

LEMMA DispatchMemory ==
    ASSUME MemoryInv, DispatchNext, TypeOK'
    PROVE  MemoryInv'
<1>. USE DEF taskVars, runVars, callVars, trainerVars
<1>1. UNCHANGED <<config, tpc, policy, phase, failed, calls>>
  BY DEF DispatchNext, OpenStep, OpenStepFails, CloseStep, CloseStepFails, DispatchDone,
         DispatchFails, Deliver, Report
<1>2. /\ Runs' = Runs /\ Colocated' = Colocated /\ NothingLoaded' = NothingLoaded
      /\ AllOffloaded' = AllOffloaded /\ PhasesTogether'
  BY <1>1 DEF Runs, Colocated, NothingLoaded, AllOffloaded, PhasesTogether, MemoryInv
<1>3. ASSUME task \in {"opening", "running"}
      PROVE  /\ tpc \in {"collect", "drain", "failed"} /\ NothingLoaded
             /\ task = "opening" => ~Colocated
             /\ ~Colocated => StepAwake
  BY <1>3 DEF MemoryInv, TypeOK, TrainerPc, Turns, Quiet, Colocating, Stepping
\* The partial placement: a step that ends with the engines and the task as
\* they should be.
<1>4. ASSUME task \in {"opening", "running"}, ~Colocated, FlagsHonest', AwaitedInPhase',
             StepAwake', task' # "none", task' = "done" => Quiet' /\ AllAsleep'
      PROVE  MemoryInv'
  BY <1>1, <1>2, <1>3, <1>4 DEF MemoryInv, Turns, Colocating, Stepping
<1>5. ASSUME OpenStep PROVE MemoryInv'
  <2>1. ~Colocated /\ StepAwake
    BY <1>3, <1>5 DEF OpenStep
  <2>2. /\ engine' = EnginesAwake(Engines) /\ task' = "running" /\ task = "opening"
        /\ pc' = [r \in Runs |-> "body"]
    BY <1>5 DEF OpenStep
  <2>3. FlagsHonest' /\ StepAwake'
    BY <1>2, <2>2, EnginesHonest DEF FlagsHonest, StepAwake, Awake, MemoryInv
  <2>4. AwaitedInPhase'
    BY <1>1, <1>2, <2>1, <2>2, AwaitedKept DEF StepAwake, MemoryInv
  <2>. QED  BY <1>4, <2>1, <2>2, <2>3, <2>4
<1>6. ASSUME OpenStepFails \/ CloseStep \/ CloseStepFails PROVE MemoryInv'
  <2>1. ~Colocated /\ StepAwake /\ task \in {"opening", "running"}
    BY <1>3, <1>6 DEF OpenStepFails, CloseStep, CloseStepFails
  <2>2. UNCHANGED pc /\ task' \in {"done", "failed"}
    BY <1>6 DEF OpenStepFails, CloseStep, CloseStepFails, Outcome
  <2>3. \A r \in Runs : pc[r] \notin {"body", "gather"}
    BY <1>6, <2>1 DEF OpenStepFails, CloseStep, CloseStepFails, StepAwake
  <2>4. AwaitedInPhase'
    BY <1>1, <1>2, <2>2, AwaitedKept DEF MemoryInv
  <2>5. StepAwake'
    BY <1>2, <2>1, <2>2, <2>3 DEF StepAwake
  <2>6. FlagsHonest'
    BY <1>6, EnginesHonest DEF OpenStepFails, CloseStep, CloseStepFails, FlagsHonest, MemoryInv
  <2>7. ASSUME task' = "done" PROVE Quiet' /\ AllAsleep'
    <3>1. CloseStep
      BY <1>6, <2>7 DEF OpenStepFails, CloseStepFails
    <3>2. engine' = EnginesAsleep(Engines) /\ \A r \in Runs : pc[r] = "reported"
      BY <3>1 DEF CloseStep
    <3>3. AllAsleep'
      BY <3>2, EnginesHonest DEF AllAsleep, Asleep, MemoryInv
    <3>. QED  BY <1>2, <2>2, <2>7, <3>2, <3>3 DEF Quiet, AtRest
  <2>. QED  BY <1>4, <2>1, <2>2, <2>4, <2>5, <2>6, <2>7
<1>7. ASSUME DispatchDone \/ DispatchFails PROVE MemoryInv'
  <2>1. /\ Colocated /\ task = "running" /\ task' \in {"done", "failed"}
        /\ UNCHANGED <<pc, engine>>
    BY <1>7 DEF DispatchDone, DispatchFails
  <2>2. /\ Barriers' = Barriers /\ PhaseAwake' = PhaseAwake /\ OthersAsleep' = OthersAsleep
        /\ FlagsHonest' = FlagsHonest
    BY <1>1, <2>1, SameRuns, SameEngines, SameEnginesAndRuns
  <2>3. AwaitedInPhase'
    BY <1>1, <1>2, <2>1, AwaitedKept DEF MemoryInv
  <2>4. task' = "done" => \A r \in Runs : pc'[r] = "returned"
    BY <1>7, <2>1 DEF DispatchDone, DispatchFails
  <2>5. queue' # {} => task' = "done" \/ queue # {}
    BY <1>7 DEF DispatchDone, DispatchFails
  <2>6. tpc \in {"collect", "failed"} /\ NothingLoaded
    BY <1>3, <2>1 DEF MemoryInv, Turns
  <2>. QED  BY <1>1, <1>2, <2>1, <2>2, <2>3, <2>4, <2>5, <2>6
            DEF MemoryInv, Turns, Colocating, Stepping
<1>8. ASSUME NEW r \in Runs, Deliver(r) \/ Report(r) PROVE MemoryInv'
  <2>1. /\ ~Colocated /\ UNCHANGED <<engine, task>>
        /\ pc' = [pc EXCEPT ![r] = "reported"] /\ pc[r] \in {"returned", "raised"}
    BY <1>8 DEF Deliver, Report
  <2>2. AllAsleep' = AllAsleep /\ OnlyWeights' = OnlyWeights /\ FlagsHonest'
    BY <2>1, SameEngines DEF MemoryInv
  <2>3. AwaitedInPhase'
    BY <1>1, <1>2, <2>1, AwaitedKept DEF MemoryInv, TypeOK
  <2>4. (Quiet => Quiet') /\ (StepAwake => StepAwake')
    BY <1>2, <2>1, SameEngines DEF Quiet, AtRest, StepAwake, MemoryInv, TypeOK
  <2>. QED  BY <1>1, <1>2, <2>1, <2>2, <2>3, <2>4 DEF MemoryInv, Turns, Colocating, Stepping
<1>. QED  BY <1>5, <1>6, <1>7, <1>8 DEF DispatchNext

----------------------------------------------------------------------------
\* The runs' steps.

\* A step of a run that is not at rest is a step of a collection: what has to be
\* shown of it is the protocol of its placement.
RunFrame == UNCHANGED <<config, tpc, policy, task, queue>>
LEMMA Protocol ==
    ASSUME MemoryInv, TypeOK', FlagsHonest', AwaitedInPhase', PhasesTogether', RunFrame,
           NEW r \in Runs, pc[r] \notin AtRest,
           Colocated /\ Barriers /\ PhaseAwake =>
               Barriers' /\ PhaseAwake' /\ (OthersAsleep => OthersAsleep'),
           ~Colocated /\ StepAwake => StepAwake'
    PROVE  MemoryInv'
<1>1. Colocated' = Colocated /\ NothingLoaded' = NothingLoaded /\ ~Quiet
  BY DEF RunFrame, Colocated, NothingLoaded, Quiet
<1>2. tpc \in {"collect", "drain", "failed"} /\ NothingLoaded
  BY <1>1 DEF MemoryInv, TypeOK, TrainerPc, Turns
<1>3. CASE Colocated
  <2>1. tpc \in {"collect", "failed"}
    BY <1>2, <1>3 DEF MemoryInv, Turns
  <2>2. tpc = "collect" => task # "done"
    BY <1>3 DEF MemoryInv, Colocating, AtRest
  <2>. QED  BY <1>1, <1>2, <1>3, <2>1, <2>2
            DEF RunFrame, MemoryInv, Turns, Colocating, Stepping
<1>4. CASE ~Colocated
  <2>1. tpc \in {"collect", "drain"} => task # "done"
    BY <1>1, <1>4 DEF MemoryInv, Stepping
  <2>. QED  BY <1>1, <1>2, <1>4, <2>1 DEF RunFrame, MemoryInv, Turns, Colocating, Stepping
<1>. QED  BY <1>3, <1>4

\* One run moves on without the engines: what that asks of its two places.
Outside == {"rewards", "collect", "raising"}
LEMMA Moves ==
    ASSUME MemoryInv, TypeOK', AwaitedInPhase', PhasesTogether', RunFrame, UNCHANGED engine,
           NEW r \in Runs, NEW p \in RunPc, pc' = [pc EXCEPT ![r] = p],
           pc[r] \notin AtRest, Colocated => UNCHANGED phase,
           Colocated => \/ pc[r] \in Inside /\ p \in Inside
                        \/ /\ pc[r] \in Outside /\ p \in Outside \cup {"returned", "raised"}
                           /\ pc[r] = "raising" => p = "raised",
           ~Colocated => /\ p \notin {"enter", "shut", "open", "close", "closed"}
                         /\ p \in {"body", "gather"} => pc[r] \in {"body", "gather"}
    PROVE  MemoryInv'
<1>1. Runs' = Runs /\ Colocated' = Colocated /\ FlagsHonest'
  BY SameEngines DEF RunFrame, Runs, Colocated, MemoryInv
<1>2. pc \in [Runs -> RunPc]
  BY DEF MemoryInv, TypeOK
<1>3. ASSUME Colocated, Barriers, PhaseAwake
      PROVE  Barriers' /\ PhaseAwake' /\ (OthersAsleep => OthersAsleep')
  <2>1. Barriers'
    <3>1. CASE pc[r] \in Inside /\ p \in Inside
      <4>1. \A q \in Runs : pc'[q] \in Inside
        BY <1>2, <1>3, <3>1 DEF Barriers
      <4>. QED  BY <1>1, <4>1 DEF Barriers, Inside
    <3>2. CASE pc[r] \in Outside /\ p \in Outside \cup {"returned", "raised"}
      <4>1. \A q \in Runs : pc[q] \notin Inside
        BY <1>3, <3>2 DEF Barriers, Inside, Outside
      <4>2. \A q \in Runs : pc'[q] \notin Inside
        BY <1>2, <3>2, <4>1 DEF Inside, Outside
      <4>3. \A q \in Runs : pc'[q] \in {"enter", "shut"} => q = Leader
        BY <1>2, <1>3, <3>2 DEF Barriers, Outside
      <4>. QED  BY <1>1, <4>2, <4>3 DEF Barriers
    <3>. QED  BY <1>3, <3>1, <3>2
  <2>2. CASE r # Leader
    <3>1. pc'[Leader] = pc[Leader] /\ phase' = phase
      BY <1>2, <1>3, <2>2, LeaderRuns DEF MemoryInv
    <3>. QED  BY <1>3, <2>1, <3>1 DEF PhaseAwake, OthersAsleep, Awake, Asleep
  <2>3. CASE r = Leader
    <3>1. pc'[Leader] = p /\ phase' = phase
      BY <1>2, <1>3, <2>3, LeaderRuns DEF MemoryInv
    <3>2. CASE pc[r] \in Inside /\ p \in Inside
      BY <1>3, <2>1, <2>3, <3>1, <3>2 DEF PhaseAwake, OthersAsleep, Awake, Asleep, Inside
    <3>3. CASE /\ pc[r] \in Outside /\ p \in Outside \cup {"returned", "raised"}
               /\ pc[r] = "raising" => p = "raised"
      <4>1. PhaseAwake'
        BY <3>1, <3>3 DEF PhaseAwake, Inside, Outside
      <4>2. OthersAsleep => OthersAsleep'
        <5>1. CASE p \in {"raising", "raised"}
          BY <3>1, <5>1 DEF OthersAsleep, Inside
        <5>2. CASE p \notin {"raising", "raised"}
          BY <2>3, <3>1, <3>3, <5>2 DEF OthersAsleep, Inside, Outside, Asleep
        <5>. QED  BY <5>1, <5>2
      <4>. QED  BY <2>1, <4>1, <4>2
    <3>. QED  BY <1>3, <3>2, <3>3
  <2>. QED  BY <2>2, <2>3
<1>4. ASSUME ~Colocated, StepAwake PROVE StepAwake'
  BY <1>1, <1>2, <1>4, SameEngines DEF StepAwake, RunFrame
<1>. QED  BY <1>1, <1>3, <1>4, Protocol

LEMMA RunMemory ==
    ASSUME MemoryInv, RunNext, TypeOK'
    PROVE  MemoryInv'
<1>. USE DEF taskVars, runVars, callVars, trainerVars, RunStep, Goto
<1>1. RunFrame
  BY DEF RunFrame, RunNext, OpenBarrier, CloseBarrier, ClosedBarrier, EnterPhase,
         EnterPhaseFails, Issue, Consume, GatherPhase, GatherPhaseFails, LeavePhase,
         LeavePhaseFails, IssueRewards, CollectRewards, CollectRewardsFails, Raise
<1>2. /\ Runs' = Runs /\ Colocated' = Colocated /\ TypeOK /\ Leader \in Runs
      /\ pc \in [Runs -> RunPc] /\ phase \in [Runs -> {"sampler", "rm"}]
      /\ failed \in [Runs -> BOOLEAN]
  BY <1>1, LeaderRuns DEF RunFrame, Runs, Colocated, MemoryInv, TypeOK
<1>3. /\ AwaitedInPhase /\ FlagsHonest /\ PhasesTogether
      /\ \A c \in calls : c \in Request
  BY <1>2 DEF MemoryInv, TypeOK
\* Only runs at a barrier or on the leader's errand reach these.
<1>4. ASSUME NEW r \in Runs, pc[r] \in {"enter", "shut", "open", "close", "closed"}
      PROVE  Colocated
  BY <1>4 DEF MemoryInv, TypeOK, TrainerPc, Turns, Quiet, AtRest, Stepping, StepAwake
<1>5. ASSUME NEW r \in Runs, pc[r] \in {"enter", "shut"} PROVE Colocated /\ r = Leader
  BY <1>4, <1>5 DEF MemoryInv, TypeOK, TrainerPc, Turns, Quiet, AtRest, Colocating, Barriers
<1>6. ASSUME OpenBarrier PROVE MemoryInv'
  <2>1. /\ \A r \in Runs : pc[r] = "open" /\ pc'[r] = "body"
        /\ UNCHANGED <<engine, phase, failed, calls>>
    BY <1>6 DEF OpenBarrier, OpenTogether
  <2>2. AwaitedInPhase' /\ PhasesTogether' /\ FlagsHonest'
    BY <1>2, <1>3, <2>1, AwaitedKept, SameEngines DEF PhasesTogether
  <2>3. Barriers'
    BY <1>2, <2>1 DEF Barriers, Inside
  <2>4. PhaseAwake => PhaseAwake'
    BY <1>2, <2>1 DEF PhaseAwake, Inside, Awake
  <2>5. OthersAsleep => OthersAsleep'
    BY <1>2, <2>1 DEF OthersAsleep, Inside, Asleep
  <2>. QED  BY <1>1, <1>2, <1>6, <2>1, <2>2, <2>3, <2>4, <2>5, Protocol DEF OpenBarrier, AtRest
<1>7. ASSUME CloseBarrier PROVE MemoryInv'
  <2>1. /\ \A r \in Runs : pc[r] = "close" /\ pc'[r] = IF r = Leader THEN "shut" ELSE "closed"
        /\ UNCHANGED <<engine, phase, failed, calls>>
    BY <1>7 DEF CloseBarrier, CloseTogether
  <2>2. AwaitedInPhase' /\ PhasesTogether' /\ FlagsHonest'
    BY <1>2, <1>3, <2>1, AwaitedKept, SameEngines DEF PhasesTogether
  <2>3. Barriers'
    BY <1>2, <2>1 DEF Barriers, Inside
  <2>4. PhaseAwake => PhaseAwake'
    BY <1>2, <2>1 DEF PhaseAwake, Inside, Awake
  <2>5. OthersAsleep => OthersAsleep'
    BY <1>2, <2>1 DEF OthersAsleep, Inside, Asleep
  <2>. QED  BY <1>1, <1>2, <1>7, <2>1, <2>2, <2>3, <2>4, <2>5, Protocol DEF CloseBarrier, AtRest
<1>8. ASSUME ClosedBarrier PROVE MemoryInv'
  <2>1. /\ Colocated /\ \A r \in Runs : pc[r] = "closed"
        /\ UNCHANGED <<engine, failed, calls>>
        /\ phase' = [r \in Runs |-> IF NextPhase(r) THEN "rm" ELSE phase[r]]
    BY <1>8 DEF ClosedBarrier
  <2>2. EndOfPipeline \in {"collect", "rewards", "returned"}
    BY DEF EndOfPipeline
  <2>3. \A r \in Runs :
          \/ pc'[r] = "raising"
          \/ NextPhase(r) /\ pc'[r] = IF r = Leader THEN "enter" ELSE "open"
          \/ pc'[r] \in {"collect", "rewards", "returned"}
    BY <1>8, <2>2 DEF ClosedBarrier
  <2>4. PhasesTogether'
    BY <1>2, <1>3, <2>1 DEF PhasesTogether, NextPhase
  <2>5. AwaitedInPhase' /\ FlagsHonest'
    BY <1>2, <1>3, <2>1, AwaitedKept, SameEngines
  <2>6. Barriers' /\ PhaseAwake'
    BY <1>2, <2>3 DEF Barriers, PhaseAwake, Inside
  <2>7. ASSUME OthersAsleep PROVE OthersAsleep'
    <3>1. \A e \in Engines : Asleep(e)'
      BY <1>2, <2>1, <2>7 DEF OthersAsleep, Asleep
    <3>. QED  BY <3>1 DEF OthersAsleep, Engines
  <2>. QED  BY <1>1, <1>2, <2>1, <2>4, <2>5, <2>6, <2>7, Protocol DEF AtRest
<1>. SUFFICES ASSUME NEW r \in Runs,
                     \/ EnterPhase(r) \/ EnterPhaseFails(r) \/ Issue(r) \/ Consume(r)
                     \/ GatherPhase(r) \/ GatherPhaseFails(r) \/ LeavePhase(r)
                     \/ LeavePhaseFails(r) \/ IssueRewards(r) \/ CollectRewards(r)
                     \/ CollectRewardsFails(r) \/ Raise(r)
              PROVE  MemoryInv'
  BY <1>6, <1>7, <1>8 DEF RunNext
<1>9. OfPhase(phase[r]) \in SUBSET Engines
  BY DEF OfPhase, Engines
<1>10. CASE EnterPhase(r) \/ EnterPhaseFails(r) \/ LeavePhase(r) \/ LeavePhaseFails(r)
  <2>1. pc[r] \in {"enter", "shut"} /\ UNCHANGED <<phase, calls>>
    BY <1>10 DEF EnterPhase, EnterPhaseFails, LeavePhase, LeavePhaseFails
  <2>2. Colocated /\ r = Leader
    BY <1>5, <2>1
  <2>3. PhasesTogether'
    BY <1>2, <1>3, <2>1 DEF PhasesTogether
  <2>4. /\ \A q \in Runs \ {r} : pc'[q] = pc[q]
        /\ pc'[r] \in {"open", "raising", "closed"}
        /\ \A q \in Runs : failed[q] => failed'[q]
    BY <1>2, <1>10 DEF EnterPhase, EnterPhaseFails, LeavePhase, LeavePhaseFails
  <2>5. AwaitedInPhase'
    BY <1>2, <1>3, <2>1, <2>4, AwaitedKept
  <2>6. PICK es \in SUBSET OfPhase(phase[r]) :
          /\ engine' \in {EnginesAwake(es), EnginesAsleep(es)}
          /\ EnterPhase(r) \/ LeavePhase(r) => es = OfPhase(phase[r])
          /\ EnterPhase(r) => engine' = EnginesAwake(es)
          /\ LeavePhase(r) => engine' = EnginesAsleep(es)
    <3>1. CASE EnterPhase(r) /\ ~LeavePhase(r)
      BY <3>1 DEF EnterPhase
    <3>2. CASE LeavePhase(r) /\ ~EnterPhase(r)
      BY <3>2 DEF LeavePhase
    <3>3. CASE ~EnterPhase(r) /\ ~LeavePhase(r)
      BY <1>10, <3>3 DEF EnterPhaseFails, LeavePhaseFails
    <3>4. ~(EnterPhase(r) /\ LeavePhase(r))
      BY DEF EnterPhase, LeavePhase
    <3>. QED  BY <3>1, <3>2, <3>3, <3>4
  <2>7. es \in SUBSET Engines
    BY <1>9, <2>6
  <2>8. FlagsHonest'
    BY <1>2, <1>3, <2>6, <2>7, EnginesHonest DEF FlagsHonest
  <2>9. ASSUME Barriers PROVE Barriers'
    <3>1. \A q \in Runs : pc[q] \notin Inside
      BY <2>1, <2>9 DEF Barriers, Inside
    <3>2. \A q \in Runs : pc'[q] \notin Inside
      BY <2>4, <3>1 DEF Inside
    <3>. QED  BY <1>2, <2>4, <2>9, <3>2 DEF Barriers
  <2>10. pc'[Leader] = "open" => EnterPhase(r)
    BY <1>2, <1>10, <2>2 DEF EnterPhaseFails, LeavePhase, LeavePhaseFails
  <2>11. pc'[Leader] = "closed" => LeavePhase(r)
    BY <1>2, <1>10, <2>2 DEF EnterPhase, EnterPhaseFails, LeavePhaseFails
  <2>12. PhaseAwake'
    <3>. SUFFICES ASSUME pc'[Leader] = "open", NEW e \in OfPhase(phase[Leader])
                  PROVE  Awake(e)'
      BY <1>2, <2>1, <2>2, <2>4 DEF PhaseAwake, Inside, OfPhase
    <3>1. e \in Engines /\ e \in es /\ engine' = EnginesAwake(es)
      BY <1>9, <2>2, <2>6, <2>10
    <3>. QED  BY <1>2, <1>3, <2>7, <3>1, EnginesHonest DEF Awake
  <2>13. ASSUME OthersAsleep PROVE OthersAsleep'
    <3>1. \A e \in Engines \ OfPhase(phase[Leader]) : Asleep(e)
      BY <2>1, <2>2, <2>13 DEF OthersAsleep
    <3>2. \A e \in Engines \ OfPhase(phase[Leader]) : Asleep(e)'
      BY <1>2, <1>3, <2>2, <2>6, <2>7, <3>1, EnginesHonest DEF Asleep
    <3>3. ASSUME pc'[Leader] = "closed", NEW e \in OfPhase(phase[Leader]) PROVE Asleep(e)'
      <4>1. e \in Engines /\ e \in es /\ engine' = EnginesAsleep(es)
        BY <1>9, <2>2, <2>6, <2>11, <3>3
      <4>. QED  BY <1>2, <1>3, <2>7, <4>1, EnginesHonest DEF Asleep
    <3>4. pc'[Leader] \in {"open", "raising", "closed"} /\ phase'[Leader] = phase[Leader]
      BY <2>1, <2>2, <2>4
    <3>. QED  BY <3>2, <3>3, <3>4 DEF OthersAsleep, OfPhase, Engines
  <2>. QED  BY <1>1, <1>2, <2>1, <2>2, <2>3, <2>5, <2>8, <2>9, <2>12, <2>13, Protocol DEF AtRest
<1>11. CASE Issue(r)
  <2>1. /\ pc[r] = "body" /\ pc' = [pc EXCEPT ![r] = "gather"]
        /\ UNCHANGED <<engine, phase, failed>> /\ calls' = calls \cup Sends(r)
    BY <1>11 DEF Issue
  <2>2. \A c \in Sends(r) : c.run = r /\ c.on \in OfPhase(phase[r])
    BY DEF Sends, OfPhase
  <2>3. AwaitedInPhase'
    <3>. SUFFICES ASSUME NEW c \in calls'
                  PROVE  /\ c.run \in Runs
                         /\ c.on \in Engines /\ ~failed[c.run] =>
                               pc'[c.run] = "gather" /\ c.on \in OfPhase(phase[c.run])
      BY <1>2, <2>1 DEF AwaitedInPhase, OfPhase, Engines
    <3>1. CASE c \in Sends(r)
      BY <1>2, <2>1, <2>2, <3>1
    <3>2. CASE c \in calls
      BY <1>2, <1>3, <2>1, <3>2 DEF AwaitedInPhase
    <3>. QED  BY <2>1, <3>1, <3>2
  <2>4. PhasesTogether'
    BY <1>2, <1>3, <2>1 DEF PhasesTogether
  <2>. QED  BY <1>1, <2>1, <2>3, <2>4, Moves DEF RunPc, AtRest, Inside
<1>12. CASE Consume(r)
  <2>1. /\ pc[r] = "gather" /\ UNCHANGED <<engine, pc, phase, failed>>
        /\ \E c \in Answered(r, {"sampler"}) : calls' = calls \cup {FireReward(c)}
    BY <1>12 DEF Consume
  <2>2. \A c \in calls' : c \in calls \/ (c.run = r /\ c.on = "reward")
    BY <2>1 DEF FireReward, Answered
  <2>3. "reward" \notin Engines
    BY ConstantsOK DEF Engines
  <2>4. AwaitedInPhase'
    BY <1>2, <1>3, <2>1, <2>2, <2>3 DEF AwaitedInPhase, OfPhase, Engines
  <2>5. /\ Barriers' = Barriers /\ PhaseAwake' = PhaseAwake /\ OthersAsleep' = OthersAsleep
        /\ PhasesTogether' /\ FlagsHonest' /\ StepAwake' = StepAwake
    <3>1. UNCHANGED <<config, pc, phase, engine, task>>
      BY <1>1, <2>1 DEF RunFrame
    <3>. QED  BY <1>2, <1>3, <3>1, SameRuns, SameEngines, SameEnginesAndRuns DEF StepAwake
  <2>. QED  BY <1>1, <1>2, <2>1, <2>4, <2>5, Protocol DEF AtRest
<1>13. CASE GatherPhase(r)
  <2>1. /\ pc[r] = "gather" /\ pc' = [pc EXCEPT ![r] = EndOfBody(r)]
        /\ UNCHANGED <<engine, failed, calls>>
        /\ Running(r, OfPhase(phase[r])) = {}
        /\ phase' = IF Colocated THEN phase ELSE [phase EXCEPT ![r] = "rm"]
    BY <1>13 DEF GatherPhase
  <2>2. \A c \in calls : c.run = r => ~(c.on \in Engines /\ ~failed[c.run])
    BY <1>3, <2>1 DEF AwaitedInPhase, Running
  <2>3. AwaitedInPhase'
    BY <1>2, <1>3, <2>1, <2>2 DEF AwaitedInPhase, OfPhase, Engines
  <2>4. PhasesTogether'
    BY <1>2, <1>3, <2>1 DEF PhasesTogether
  <2>5. /\ EndOfBody(r) \in RunPc
        /\ Colocated => EndOfBody(r) = "close"
        /\ ~Colocated => EndOfBody(r) \in {"body", "collect", "rewards", "returned"}
    BY DEF EndOfBody, EndOfPipeline, RunPc
  <2>6. Colocated => UNCHANGED phase
    BY <2>1
  <2>7. pc[r] \notin AtRest /\ pc[r] \in Inside /\ "close" \in Inside
    BY <2>1 DEF AtRest, Inside
  <2>. QED  BY <1>1, <2>1, <2>3, <2>4, <2>5, <2>6, <2>7, Moves
<1>14. CASE GatherPhaseFails(r) \/ CollectRewardsFails(r)
  <2>1. /\ failed' = [failed EXCEPT ![r] = TRUE] /\ UNCHANGED <<engine, phase, calls>>
        /\ \/ pc[r] = "gather" /\ pc' = [pc EXCEPT ![r] = IF Colocated THEN "close" ELSE "raising"]
           \/ pc[r] = "collect" /\ pc' = [pc EXCEPT ![r] = "raising"]
    BY <1>14 DEF GatherPhaseFails, CollectRewardsFails
  <2>2. AwaitedInPhase' /\ PhasesTogether'
    <3>1. \A q \in Runs : failed[q] => failed'[q]
      BY <1>2, <2>1
    <3>2. \A q \in Runs : (pc'[q] = pc[q] /\ phase'[q] = phase[q]) \/ failed'[q]
      BY <1>2, <2>1
    <3>. QED  BY <1>2, <1>3, <2>1, <3>1, <3>2, AwaitedKept DEF PhasesTogether
  <2>3. CASE pc[r] = "gather" /\ pc' = [pc EXCEPT ![r] = IF Colocated THEN "close" ELSE "raising"]
    BY <1>1, <2>1, <2>2, <2>3, Moves DEF RunPc, AtRest, Inside
  <2>4. CASE pc[r] = "collect" /\ pc' = [pc EXCEPT ![r] = "raising"]
    BY <1>1, <2>1, <2>2, <2>4, Moves DEF RunPc, AtRest, Outside
  <2>. QED  BY <2>1, <2>3, <2>4
<1>15. CASE IssueRewards(r) \/ CollectRewards(r) \/ Raise(r)
  <2>1. /\ UNCHANGED <<engine, phase, failed>>
        /\ \/ pc[r] = "rewards" /\ pc' = [pc EXCEPT ![r] = "collect"]
           \/ pc[r] = "collect" /\ pc' = [pc EXCEPT ![r] = "returned"]
           \/ pc[r] = "raising" /\ pc' = [pc EXCEPT ![r] = "raised"]
    BY <1>15 DEF IssueRewards, CollectRewards, Raise
  <2>2. \A c \in calls' : c \in calls \/ (c.run = r /\ c.on = "reward")
    BY <1>15 DEF IssueRewards, CollectRewards, Raise
  <2>3. "reward" \notin Engines
    BY ConstantsOK DEF Engines
  <2>4. \A q \in Runs : pc[q] = "gather" => pc'[q] = "gather"
    BY <1>2, <2>1
  <2>5. AwaitedInPhase' /\ PhasesTogether'
    BY <1>2, <1>3, <2>1, <2>2, <2>3, <2>4 DEF AwaitedInPhase, PhasesTogether, OfPhase, Engines
  <2>. QED  BY <1>1, <2>1, <2>5, Moves DEF RunPc, AtRest, Inside, Outside
<1>. QED  BY <1>10, <1>11, <1>12, <1>13, <1>14, <1>15

----------------------------------------------------------------------------
LEMMA NextMemory == MemoryInv /\ TypeInv /\ [Next]_vars => MemoryInv'
<1>. SUFFICES ASSUME MemoryInv, TypeInv, [Next]_vars PROVE MemoryInv'
  OBVIOUS
<1>1. TypeOK'
  BY NextType DEF TypeInv
\* Steps of the requests, and stuttering ones.
<1>2. ASSUME CallNext \/ UNCHANGED vars PROVE MemoryInv'
  <2>1. calls' \subseteq calls
    BY <1>2 DEF CallNext, FinishCall, FailCall, vars, callVars
  <2>2. UNCHANGED <<config, tpc, policy, engine, task, queue, pc, phase, failed>>
    BY <1>2 DEF CallNext, FinishCall, FailCall, RunStep, vars, trainerVars, taskVars, runVars
  <2>3. /\ Runs' = Runs /\ Colocated' = Colocated /\ Barriers' = Barriers
        /\ PhasesTogether' = PhasesTogether /\ AllAsleep' = AllAsleep
        /\ OnlyWeights' = OnlyWeights /\ FlagsHonest' = FlagsHonest
        /\ PhaseAwake' = PhaseAwake /\ OthersAsleep' = OthersAsleep
    BY <2>2, SameRuns, SameEngines, SameEnginesAndRuns
  <2>4. /\ Quiet' = Quiet /\ StepAwake' = StepAwake /\ NothingLoaded' = NothingLoaded
        /\ AllOffloaded' = AllOffloaded
    BY <2>2, <2>3, SameEngines DEF Quiet, StepAwake, NothingLoaded, AllOffloaded
  <2>5. AwaitedInPhase'
    BY <2>1, <2>2, <2>3, AwaitedKept DEF MemoryInv
  <2>. QED  BY <1>1, <2>2, <2>3, <2>4, <2>5 DEF MemoryInv, Turns, Colocating, Stepping
<1>. QED  BY <1>1, <1>2, TrainerMemory, DispatchMemory, RunMemory DEF Next

LEMMA InitMemory == Init => MemoryInv
<1>. SUFFICES ASSUME Init PROVE MemoryInv
  OBVIOUS
<1>1. TypeOK
  BY InitType
<1>2. FlagsHonest /\ AllAsleep
  BY DEF Init, FlagsHonest, AllAsleep, Asleep
<1>3. AwaitedInPhase /\ PhasesTogether /\ Quiet
  BY DEF Init, AwaitedInPhase, PhasesTogether, Quiet, AtRest
<1>. QED  BY <1>1, <1>2, <1>3 DEF Init, MemoryInv, Turns, Colocating, Stepping

LEMMA MemoryHolds == Spec => []MemoryInv
<1>1. Init => TypeInv
  BY InitType, ConstantsOK DEF TypeInv, StepLeft, Init
<1>. QED  BY <1>1, InitMemory, NextType, NextMemory, PTL DEF Spec

\* MemoryExclusive: whatever the order of the agents, the ranks and the
\* trainer and whatever fails, the optimizer and an engine, or the KV cache and
\* the model, are never on the shared GPUs together.
THEOREM MemoryIsExclusive == Spec => []MemoryExclusive
<1>1. MemoryInv => MemoryExclusive
  <2>. SUFFICES ASSUME MemoryInv PROVE MemoryExclusive
    OBVIOUS
  <2>1. AllAsleep \/ NothingLoaded \/ (OnlyWeights /\ AllOffloaded)
    BY DEF MemoryInv, TypeOK, TrainerPc, Turns
  <2>2. CASE AllAsleep
    BY <2>2 DEF AllAsleep, Asleep, MemoryExclusive
  <2>3. CASE NothingLoaded
    BY <2>3 DEF NothingLoaded, MemoryExclusive
  <2>4. CASE OnlyWeights /\ AllOffloaded
    BY <2>4 DEF OnlyWeights, AllOffloaded, Asleep, Engines, MemoryExclusive
  <2>. QED  BY <2>1, <2>2, <2>3, <2>4
<1>. QED  BY <1>1, MemoryHolds, PTL

\* UsesAwakeEngines: a request that its run still awaits is on an engine whose
\* weights and KV cache are on the GPU.
THEOREM RequestsFindEnginesAwake == Spec => []UsesAwakeEngines
<1>1. MemoryInv => UsesAwakeEngines
  <2>. SUFFICES ASSUME MemoryInv, NEW c \in calls, c.on \in Engines, ~failed[c.run]
                PROVE  engine[c.on].held = Tags
    BY DEF UsesAwakeEngines
  <2>1. c.run \in Runs /\ pc[c.run] = "gather" /\ c.on \in OfPhase(phase[c.run])
    BY DEF MemoryInv, AwaitedInPhase
  <2>2. tpc \in {"collect", "drain", "failed"}
    BY <2>1 DEF MemoryInv, TypeOK, TrainerPc, Turns, Quiet, AtRest
  <2>3. CASE Colocated
    <3>1. Barriers /\ PhaseAwake /\ PhasesTogether /\ Leader \in Runs
      BY <2>2, <2>3, LeaderRuns DEF MemoryInv, Turns, Colocating
    <3>2. pc[Leader] \in Inside /\ phase[Leader] = phase[c.run]
      BY <2>1, <2>3, <3>1 DEF Barriers, PhasesTogether, Inside
    <3>. QED  BY <2>1, <3>1, <3>2 DEF PhaseAwake, Awake
  <2>4. CASE ~Colocated
    BY <2>1, <2>2, <2>4 DEF MemoryInv, Stepping, StepAwake, Awake
  <2>. QED  BY <2>3, <2>4
<1>. QED  BY <1>1, MemoryHolds, PTL
----------------------------------------------------------------------------
\* What is trained.

\* Every microbatch once, drawn from its own prompt and scored on its own
\* rollout by every scorer configured.
Finished(m) == [slot |-> m, rb |-> [sample |-> m, scores |-> Wanted \X {m}]]
Target == {Finished(m) : m \in Mbs}

\* How far a run has come: past the bodies of its phases, past the sampler's,
\* past the gen-RMs', home.
Early   == {"idle", "enter", "open", "body"}
Closing == {"close", "shut", "closed"}
Home    == {"returned", "reported"}
Past    == Closing \cup {"rewards", "collect"} \cup Home
Drawn(r)  == phase[r] = "rm" \/ pc[r] \in Past
Judged(r) == phase[r] = "rm" /\ pc[r] \in Past
Scored(r) == (IF Judged(r) THEN Rms ELSE {}) \cup
             (IF config.external /\ pc[r] \in Home THEN {"reward"} ELSE {})

\* The requests of a run that has not failed are those it has asked for so
\* far, each about its own rollout, and what is not answered is awaited.
Open     == calls \cup broken
Requests == Open \cup landed
Asked(r, on, m) ==
    \/ on = "sampler" /\ (pc[r] = "gather" \/ Drawn(r))
    \/ on \in Rms /\ phase[r] = "rm" /\ pc[r] \in Past \cup {"gather"}
    \/ on = "reward" /\ config.stream /\ rbs[r][m].sample = m
    \/ on = "reward" /\ config.external /\ ~config.stream /\ pc[r] \in Home \cup {"collect"}
Ask(r, on, m) == [run |-> r, on |-> on, slot |-> m, sample |-> m]
OnlyAsked(r) ==
    \A c \in Requests : c.run = r =>
        c.slot \in Slots(r) /\ c.sample = c.slot /\ Asked(r, c.on, c.slot)
AllAsked(r) ==
    \A m \in Slots(r) : \A on \in Engines \cup {"reward"} :
        Asked(r, on, m) => Ask(r, on, m) \in Requests
Awaited(r) ==
    \A c \in Open : c.run = r =>
        /\ c.on \in Engines => pc[r] = "gather" /\ c.on \in OfPhase(phase[r])
        /\ pc[r] \notin Home

\* Its rollout batches hold what the phases behind it put there.
Unfilled == [sample |-> NoSample, scores |-> {}]
Filled(r, m) == rbs[r][m] = [sample |-> m, scores |-> Scored(r) \X {m}]
Contents(r) ==
    \A m \in Slots(r) :
        IF Drawn(r) THEN Filled(r, m)
        ELSE \/ rbs[r][m] = Unfilled
             \/ config.stream /\ pc[r] = "gather" /\ Filled(r, m)
InPlace(r) ==
    /\ pc[r] \notin {"raising", "raised"}
    /\ phase[r] = "rm" => config.gen_rm
    /\ pc[r] \in {"rewards", "collect"} \cup Home /\ config.gen_rm => phase[r] = "rm"
    /\ pc[r] \in {"rewards", "collect"} => config.external
    /\ pc[r] = "rewards" => ~config.stream
RunRight(r) == OnlyAsked(r) /\ AllAsked(r) /\ Awaited(r) /\ Contents(r) /\ InPlace(r)

\* While a step is collected; and once it is, when nothing is left of it.
FailedPcs == Closing \cup {"raising", "raised", "reported"}
FailedRuns ==
    /\ \A r \in Runs : failed[r] => pc[r] \in FailedPcs
    /\ task = "done" => \A r \in Runs : ~failed[r]
    /\ task = "opening" => \A r \in Runs : pc[r] = "idle"
RunsRight == \A r \in Runs : ~failed[r] => RunRight(r)
Collecting == tpc \in {"collect", "drain"} => FailedRuns /\ RunsRight /\ queue \subseteq Target
Settled == tpc \notin {"collect", "drain", "failed"} =>
    Open = {} /\ \A r \in Runs : ~failed[r]
Collected == tpc \in {"drain", "train", "training"} => batch = Target
BatchInv == (\A c \in broken : c.run \in Runs) /\ Collecting /\ Settled /\ Collected

\* The requests of a run are left as they are, but for the answers.
SameRequests(r) ==
    \A c : c.run = r => (c \in Requests' <=> c \in Requests) /\ (c \in Open' => c \in Open)

\* A run that moves without a change of what it has asked for or stored.
LEMMA RunMovesOn ==
    ASSUME TypeOK, NEW r \in Runs, RunRight(r), UNCHANGED <<config, step>>, SameRequests(r),
           rbs'[r] = rbs[r], phase'[r] = phase[r],
           \/ pc'[r] = pc[r]
           \/ pc[r] \in Early /\ pc'[r] \in Early
           \/ pc[r] \in Closing /\ pc'[r] \in Closing
           \/ pc[r] \in Home /\ pc'[r] \in Home
    PROVE  RunRight(r)'
<1>1. /\ Slots(r)' = Slots(r) /\ Drawn(r)' = Drawn(r) /\ Judged(r)' = Judged(r)
      /\ Scored(r)' = Scored(r) /\ (pc'[r] = "gather" <=> pc[r] = "gather")
      /\ (pc'[r] \in Home <=> pc[r] \in Home)
  BY DEF Slots, Colocated, Drawn, Judged, Scored, Past, Early, Closing, Home
<1>2. \A on, m : Asked(r, on, m)' <=> Asked(r, on, m)
  BY <1>1 DEF Asked, Past, Early, Closing, Home
<1>3. OnlyAsked(r)' /\ AllAsked(r)'
  <2>1. ASSUME NEW c \in Requests', c.run = r
        PROVE  c.slot \in Slots(r)' /\ c.sample = c.slot /\ Asked(r, c.on, c.slot)'
    BY <1>1, <1>2, <2>1 DEF RunRight, OnlyAsked, SameRequests
  <2>2. ASSUME NEW m \in Slots(r), NEW on \in Engines \cup {"reward"}, Asked(r, on, m)'
        PROVE  Ask(r, on, m) \in Requests'
    <3>1. Ask(r, on, m) \in Requests /\ Ask(r, on, m).run = r
      BY <1>2, <2>2 DEF RunRight, AllAsked, Ask
    <3>. QED  BY <3>1 DEF SameRequests
  <2>3. OnlyAsked(r)'
    BY <2>1 DEF OnlyAsked
  <2>4. AllAsked(r)'
    BY <1>1, <2>2 DEF AllAsked, Ask
  <2>. QED  BY <2>3, <2>4
<1>4. Awaited(r)'
  <2>1. ASSUME NEW c \in Open', c.run = r
        PROVE  /\ c.on \in Engines => pc'[r] = "gather" /\ c.on \in OfPhase(phase'[r])
               /\ pc'[r] \notin Home
    <3>1. c \in Open
      BY <2>1 DEF SameRequests
    <3>. QED  BY <1>1, <2>1, <3>1 DEF RunRight, Awaited
  <2>. QED  BY <2>1 DEF Awaited
<1>5. Contents(r)'
  BY <1>1 DEF RunRight, Contents, Filled
<1>6. InPlace(r)'
  BY DEF RunRight, InPlace, Early, Closing, Home
<1>. QED  BY <1>3, <1>4, <1>5, <1>6 DEF RunRight

\* What the settings say of each other, and what a slot is.
LEMMA Settings ==
    ASSUME TypeOK
    PROVE  /\ config.stream \in BOOLEAN /\ config.external \in BOOLEAN /\ config.gen_rm \in BOOLEAN
           /\ config.stream => config.external /\ ~config.gen_rm
           /\ ~Colocated => config.gen_rm
           /\ \A r \in Runs : Slots(r) \subseteq Mbs
           /\ \A m \in Mbs : m # NoSample
           /\ "sampler" \notin Rms /\ "reward" \notin Engines /\ "sampler" \in Engines
           /\ Engines = {"sampler"} \cup Rms
<1>1. /\ config.stream \in BOOLEAN /\ config.external \in BOOLEAN /\ config.gen_rm \in BOOLEAN
      /\ config.stream => config.external /\ ~config.gen_rm
  BY DEF TypeOK, Config
<1>2. ~Colocated => config.gen_rm
  BY DEF TypeOK, Config, Colocated, Placements
<1>3. \A r \in Runs : Slots(r) \subseteq Mbs
  BY DEF Slots, Runs, Mbs, Colocated
<1>4. \A m \in Mbs : m # NoSample
  BY ConstantsOK DEF Mbs, NoSample
<1>. QED  BY <1>1, <1>2, <1>3, <1>4, ConstantsOK DEF Engines

\* A run that asks for what is added, and for nothing else.
LEMMA MoreAsked ==
    ASSUME NEW r, RunRight(r), UNCHANGED <<config, step>>, NEW added,
           \A c : c.run = r => (c \in Requests' <=> c \in Requests \/ c \in added),
           \A c \in added : /\ c.run = r /\ c.sample = c.slot /\ c.slot \in Slots(r)
                            /\ Asked(r, c.on, c.slot)',
           \A m \in Slots(r), on \in Engines \cup {"reward"} :
               Asked(r, on, m)' => Asked(r, on, m) \/ Ask(r, on, m) \in added,
           \A m \in Slots(r) : \A on : Asked(r, on, m) => Asked(r, on, m)'
    PROVE  OnlyAsked(r)' /\ AllAsked(r)'
<1>1. Slots(r)' = Slots(r)
  BY DEF Slots, Colocated
<1>2. ASSUME NEW c \in Requests', c.run = r
      PROVE  c.slot \in Slots(r)' /\ c.sample = c.slot /\ Asked(r, c.on, c.slot)'
  <2>1. CASE c \in Requests
    <3>1. c.slot \in Slots(r) /\ c.sample = c.slot /\ Asked(r, c.on, c.slot)
      BY <1>2, <2>1 DEF RunRight, OnlyAsked
    <3>. QED  BY <1>1, <3>1
  <2>2. CASE c \in added
    BY <1>1, <2>2
  <2>. QED  BY <1>2, <2>1, <2>2
<1>3. ASSUME NEW m \in Slots(r), NEW on \in Engines \cup {"reward"}, Asked(r, on, m)'
      PROVE  Ask(r, on, m) \in Requests'
  <2>1. Ask(r, on, m).run = r
    BY DEF Ask
  <2>2. Ask(r, on, m) \in Requests \/ Ask(r, on, m) \in added
    BY <1>3 DEF RunRight, AllAsked
  <2>. QED  BY <2>1, <2>2
<1>4. OnlyAsked(r)'
  BY <1>2 DEF OnlyAsked
<1>5. AllAsked(r)'
  BY <1>1, <1>3 DEF AllAsked, Ask
<1>. QED  BY <1>4, <1>5

LEMMA IssueRight ==
    ASSUME TypeOK, NEW r \in Runs, RunRight(r), Issue(r)
    PROVE  RunRight(r)'
<1>1. /\ pc[r] = "body" /\ pc'[r] = "gather" /\ calls' = calls \cup Sends(r)
      /\ UNCHANGED <<config, step, phase, rbs, landed, broken>>
  BY DEF Issue, Goto, RunStep, trainerVars, TypeOK
<1>2. Slots(r)' = Slots(r) /\ Slots(r) \subseteq Mbs
  BY <1>1, Settings DEF Slots, Colocated
<1>3. phase[r] \in {"sampler", "rm"}
  BY DEF TypeOK
<1>4. /\ Drawn(r) <=> phase[r] = "rm"
      /\ Drawn(r)' <=> phase[r] = "rm"
      /\ ~Judged(r) /\ ~Judged(r)' /\ Scored(r) = {} /\ Scored(r)' = {}
  BY <1>1 DEF Drawn, Judged, Scored, Past, Closing, Home
<1>5. \A m \in Slots(r) : rbs[r][m] = IF phase[r] = "rm" THEN [sample |-> m, scores |-> {}]
                                      ELSE Unfilled
  <2>1. ASSUME NEW m \in Slots(r), Drawn(r) PROVE rbs[r][m] = [sample |-> m, scores |-> {}]
    <3>1. rbs[r][m] = [sample |-> m, scores |-> {} \X {m}]
      BY <1>4, <2>1 DEF RunRight, Contents, Filled
    <3>2. {} \X {m} = {}
      OBVIOUS
    <3>. QED  BY <3>1, <3>2
  <2>2. ASSUME NEW m \in Slots(r), ~Drawn(r) PROVE rbs[r][m] = Unfilled
    BY <1>1, <2>2 DEF RunRight, Contents
  <2>. QED  BY <1>4, <2>1, <2>2
<1>. DEFINE to == OfPhase(phase[r])
<1>6. \A m \in Slots(r) : \A on : Asked(r, on, m)' <=> Asked(r, on, m) \/ on \in to
  BY <1>1, <1>3, <1>4, Settings DEF Asked, OfPhase, Past, Closing, Home
<1>7. Sends(r) = {Ask(r, on, m) : on \in to, m \in Slots(r)}
  <2>1. CASE phase[r] = "sampler"
    <3>1. Sends(r) = {Ask(r, "sampler", m) : m \in Slots(r)} /\ to = {"sampler"}
      BY <2>1 DEF Sends, Ask, OfPhase
    <3>. QED  BY <3>1
  <2>2. CASE phase[r] = "rm"
    <3>1. Sends(r) = {[run |-> r, on |-> e, slot |-> m, sample |-> rbs[r][m].sample] :
                         e \in Rms, m \in Slots(r)}
      BY <2>2 DEF Sends
    <3>2. ASSUME NEW m \in Slots(r) PROVE rbs[r][m].sample = m
      <4>1. rbs[r][m] = [sample |-> m, scores |-> {}]
        BY <1>5, <2>2
      <4>. QED  BY <4>1
    <3>3. to = Rms
      BY <2>2 DEF OfPhase
    <3>. QED  BY <3>1, <3>2, <3>3 DEF Ask
  <2>. QED  BY <1>3, <2>1, <2>2
<1>8. \A c \in Sends(r) : /\ c.run = r /\ c.sample = c.slot /\ c.slot \in Slots(r)
                          /\ c.on \in to
  BY <1>7 DEF Ask
<1>9. OnlyAsked(r)' /\ AllAsked(r)'
  <2>1. \A c : c \in Requests' <=> c \in Requests \/ c \in Sends(r)
    BY <1>1 DEF Requests, Open
  <2>2. \A m \in Slots(r), on \in Engines \cup {"reward"} :
           Asked(r, on, m)' => Asked(r, on, m) \/ Ask(r, on, m) \in Sends(r)
    BY <1>6, <1>7
  <2>3. \A c \in Sends(r) : Asked(r, c.on, c.slot)'
    BY <1>6, <1>8
  <2>. HIDE DEF to
  <2>. QED  BY <1>1, <1>6, <1>8, <2>1, <2>2, <2>3, MoreAsked
<1>10. Awaited(r)'
  <2>1. ASSUME NEW c \in Open', c.run = r
        PROVE  (c.on \in Engines => c.on \in OfPhase(phase'[r]))
    <3>1. c \in Open \/ c \in Sends(r)
      BY <1>1, <2>1 DEF Open
    <3>2. c \in Open => c.on \notin Engines
      BY <1>1, <2>1 DEF RunRight, Awaited
    <3>. QED  BY <1>1, <1>8, <3>1, <3>2
  <2>. QED  BY <1>1, <2>1 DEF Awaited, Home
<1>11. Contents(r)'
  <2>1. ASSUME NEW m \in Slots(r)
        PROVE  IF Drawn(r)' THEN Filled(r, m)' ELSE rbs'[r][m] = Unfilled'
    <3>1. {} \X {m} = {}
      OBVIOUS
    <3>. QED  BY <1>1, <1>4, <1>5, <3>1 DEF Filled, Unfilled
  <2>. QED  BY <1>2, <2>1 DEF Contents
<1>12. InPlace(r)'
  BY <1>1 DEF RunRight, InPlace, Home
<1>. QED  BY <1>9, <1>10, <1>11, <1>12 DEF RunRight

LEMMA ConsumeRight ==
    ASSUME TypeOK, NEW r \in Runs, RunRight(r), Consume(r)
    PROVE  RunRight(r)'
<1>1. PICK c \in Answered(r, {"sampler"}) :
        /\ rbs' = [rbs EXCEPT ![r][SlotOf(c)] = [sample |-> c.sample, scores |-> {}]]
        /\ calls' = calls \cup {FireReward(c)}
  BY DEF Consume
<1>2. /\ config.stream /\ pc[r] = "gather" /\ phase[r] = "sampler"
      /\ UNCHANGED <<config, step, pc, phase, landed, broken>>
  BY DEF Consume, RunStep, trainerVars
<1>3. Slots(r)' = Slots(r) /\ Slots(r) \subseteq Mbs
  BY <1>2, Settings DEF Slots, Colocated
<1>4. c \in Requests /\ c.run = r /\ c.slot \in Slots(r) /\ c.sample = c.slot
  BY <1>1 DEF Answered, Requests, RunRight, OnlyAsked
<1>. DEFINE k == c.slot
<1>5. FireReward(c) = Ask(r, "reward", k)
  BY <1>4 DEF FireReward, SlotOf, Ask
<1>6. \A m \in Slots(r) : rbs'[r][m] = IF m = k THEN [sample |-> k, scores |-> {}] ELSE rbs[r][m]
  BY <1>1, <1>3, <1>4 DEF SlotOf, TypeOK
<1>7. /\ ~Drawn(r) /\ ~Drawn(r)' /\ Scored(r) = {} /\ Scored(r)' = {}
      /\ \A m : {} \X {m} = {}
  BY <1>2 DEF Drawn, Judged, Scored, Past, Closing, Home
<1>8. /\ [sample |-> k, scores |-> {}].sample = k
      /\ Ask(r, "reward", k).run = r /\ Ask(r, "reward", k).sample = k
      /\ Ask(r, "reward", k).slot = k /\ Ask(r, "reward", k).on = "reward"
  BY DEF Ask
<1>. HIDE DEF k
<1>9. k \in Slots(r) /\ k \in Mbs
  BY <1>3, <1>4 DEF k
<1>10. \A m \in Slots(r) : \A on :
          Asked(r, on, m)' <=> Asked(r, on, m) \/ (on = "reward" /\ m = k)
  <2>. SUFFICES ASSUME NEW m \in Slots(r), NEW on
                PROVE  Asked(r, on, m)' <=> Asked(r, on, m) \/ (on = "reward" /\ m = k)
    OBVIOUS
  <2>1. rbs'[r][m].sample = m <=> rbs[r][m].sample = m \/ m = k
    BY <1>6, <1>8
  <2>2. "reward" \notin Rms
    BY ConstantsOK
  <2>. QED  BY <1>2, <1>7, <2>1, <2>2 DEF Asked, Past, Closing, Home
<1>11. OnlyAsked(r)' /\ AllAsked(r)'
  <2>. DEFINE added == {Ask(r, "reward", k)}
  <2>1. \A d : d \in Requests' <=> d \in Requests \/ d \in added
    BY <1>1, <1>2, <1>5 DEF Requests, Open
  <2>2. \A d \in added : /\ d.run = r /\ d.sample = d.slot /\ d.slot \in Slots(r)
                         /\ Asked(r, d.on, d.slot)'
    BY <1>8, <1>9, <1>10
  <2>3. \A m \in Slots(r), on \in Engines \cup {"reward"} :
           Asked(r, on, m)' => Asked(r, on, m) \/ Ask(r, on, m) \in added
    BY <1>10
  <2>4. \A m \in Slots(r) : \A on : Asked(r, on, m) => Asked(r, on, m)'
    BY <1>10
  <2>. HIDE DEF added
  <2>. QED  BY <1>2, <2>1, <2>2, <2>3, <2>4, MoreAsked
<1>12. Awaited(r)'
  <2>1. ASSUME NEW d \in Open', d.run = r
        PROVE  d.on \in Engines => d.on \in OfPhase(phase'[r])
    <3>1. d \in Open \/ d = Ask(r, "reward", k)
      BY <1>1, <1>2, <1>5, <2>1 DEF Open
    <3>2. d \in Open => (d.on \in Engines => d.on \in OfPhase(phase[r]))
      BY <2>1 DEF RunRight, Awaited
    <3>. QED  BY <1>2, <1>8, <3>1, <3>2, Settings
  <2>. QED  BY <1>2, <2>1 DEF Awaited, Home
<1>13. Contents(r)'
  <2>1. ASSUME NEW m \in Slots(r) PROVE rbs'[r][m] = Unfilled' \/ Filled(r, m)'
    <3>1. rbs[r][m] = Unfilled \/ rbs[r][m] = [sample |-> m, scores |-> {}]
      BY <1>7 DEF RunRight, Contents, Filled
    <3>. QED  BY <1>6, <1>7, <3>1 DEF Filled, Unfilled
  <2>. QED  BY <1>2, <1>3, <1>7, <2>1 DEF Contents
<1>14. InPlace(r)'
  BY <1>2 DEF RunRight, InPlace
<1>. QED  BY <1>11, <1>12, <1>13, <1>14 DEF RunRight

\* What a gather joins to the rollout batches when all has been answered.
Gathered == {{"sampler"}, Rms, {"reward"}}
LEMMA JoinedRight ==
    ASSUME TypeOK, NEW r \in Runs, RunRight(r), NEW on \in Gathered,
           \A c \in Open : c.run = r => c.on \notin on,
           NEW m \in Slots(r), \A x \in on : Asked(r, x, m)
    PROVE  Joined(r, on)[m] = IF on = {"sampler"} THEN [sample |-> m, scores |-> {}]
                              ELSE [sample |-> rbs[r][m].sample,
                                    scores |-> rbs[r][m].scores \cup (on \X {m})]
<1>. DEFINE got == {c \in Answered(r, on) : c.slot = m}
<1>1. m \in Mbs /\ on \subseteq Engines \cup {"reward"}
  BY Settings DEF Gathered
<1>2. ASSUME NEW c \in got PROVE c.sample = m /\ c.on \in on
  <2>1. c \in Requests /\ c.run = r /\ c.on \in on /\ c.slot = m
    BY <1>2 DEF Answered, Requests
  <2>. QED  BY <2>1 DEF RunRight, OnlyAsked
<1>3. ASSUME NEW x \in on PROVE Ask(r, x, m) \in got
  <2>1. Ask(r, x, m).run = r /\ Ask(r, x, m).on = x /\ Ask(r, x, m).slot = m
    BY DEF Ask
  <2>2. Ask(r, x, m) \in Requests
    BY <1>1, <1>3 DEF RunRight, AllAsked
  <2>3. Ask(r, x, m) \in landed
    BY <1>3, <2>1, <2>2 DEF Requests
  <2>. QED  BY <1>3, <2>1, <2>3 DEF Answered
<1>4. CASE on = {"sampler"}
  <2>1. Ask(r, "sampler", m) \in got
    BY <1>3, <1>4
  <2>2. (CHOOSE c \in got : TRUE) \in got
    BY <2>1
  <2>3. Joined(r, on)[m] = [sample |-> (CHOOSE c \in got : TRUE).sample, scores |-> {}]
    BY <1>1, <1>4, <2>1 DEF Joined
  <2>. QED  BY <1>2, <1>4, <2>2, <2>3
<1>5. CASE on # {"sampler"}
  <2>1. Joined(r, on)[m] = [rbs[r][m] EXCEPT !.scores = @ \cup {<<c.on, c.sample>> : c \in got}]
    BY <1>1, <1>5 DEF Joined
  <2>2. {<<c.on, c.sample>> : c \in got} = on \X {m}
    <3>1. ASSUME NEW c \in got PROVE <<c.on, c.sample>> \in on \X {m}
      BY <1>2
    <3>2. ASSUME NEW p \in on \X {m} PROVE \E c \in got : p = <<c.on, c.sample>>
      <4>1. PICK x \in on : p = <<x, m>>
        <5>1. p = <<p[1], p[2]>> /\ p[1] \in on /\ p[2] \in {m}
          OBVIOUS
        <5>. QED  BY <5>1
      <4>2. Ask(r, x, m).on = x /\ Ask(r, x, m).sample = m
        BY DEF Ask
      <4>. QED  BY <1>3, <4>1, <4>2
    <3>. HIDE DEF got
    <3>. QED  BY <3>1, <3>2
  <2>. DEFINE u == rbs[r][m].scores \cup {<<c.on, c.sample>> : c \in got}
  <2>3. Joined(r, on)[m] = [rbs[r][m] EXCEPT !.scores = u]
    BY <2>1
  <2>4. u = rbs[r][m].scores \cup (on \X {m})
    BY <2>2
  <2>. HIDE DEF got, u
  <2>5. rbs[r][m] \in [sample : 0 .. NumMb, scores : SUBSET (Scorers \X (0 .. NumMb))]
    BY <1>1 DEF TypeOK, RolloutBatch
  <2>6. [rbs[r][m] EXCEPT !.scores = u] = [sample |-> rbs[r][m].sample, scores |-> u]
    BY <2>5
  <2>. QED  BY <1>5, <2>3, <2>4, <2>6
<1>. QED  BY <1>4, <1>5

LEMMA GatherRight ==
    ASSUME TypeOK, NEW r \in Runs, RunRight(r), GatherPhase(r)
    PROVE  RunRight(r)'
<1>1. /\ pc[r] = "gather" /\ pc'[r] = EndOfBody(r)
      /\ UNCHANGED <<config, step, calls, landed, broken>>
      /\ config.stream => UNCHANGED rbs /\ \A m \in Slots(r) : rbs[r][m].sample # NoSample
      /\ ~config.stream => rbs'[r] = Joined(r, OfPhase(phase[r]))
      /\ phase'[r] = IF Colocated THEN phase[r] ELSE "rm"
  BY DEF GatherPhase, Goto, RunStep, trainerVars, callVars, TypeOK
<1>2. \A c \in Open : c.run = r => c.on \notin OfPhase(phase[r])
  BY DEF GatherPhase, Running, AnyBroken, Open
<1>3. Slots(r)' = Slots(r) /\ Slots(r) \subseteq Mbs /\ Open' = Open /\ Requests' = Requests
  BY <1>1, Settings DEF Slots, Colocated, Open, Requests
<1>4. phase[r] \in {"sampler", "rm"} /\ OfPhase(phase[r]) \in Gathered
  BY DEF TypeOK, OfPhase, Gathered
<1>5. /\ phase[r] = "rm" => config.gen_rm /\ ~config.stream /\ phase'[r] = "rm"
      /\ phase'[r] = "rm" => config.gen_rm /\ ~config.stream
      /\ ~Colocated => ~config.stream
  BY <1>1, <1>4, Settings DEF RunRight, InPlace
\* Where the run goes, and what that says of what it has asked for.
<1>6. /\ phase[r] = "sampler" => pc'[r] = IF Colocated THEN "close" ELSE "body"
      /\ phase[r] = "rm" => pc'[r] = IF Colocated THEN "close"
                                     ELSE IF config.external THEN "rewards" ELSE "returned"
  BY <1>1, <1>5 DEF EndOfBody, EndOfPipeline
<1>7. /\ Drawn(r)' /\ (Drawn(r) <=> phase[r] = "rm") /\ ~Judged(r) /\ Scored(r) = {}
      /\ Scored(r)' = IF phase[r] = "rm" THEN Rms ELSE {}
  <2>1. CASE phase[r] = "sampler"
    BY <1>1, <1>6, <2>1 DEF Drawn, Judged, Scored, Past, Closing, Home
  <2>2. CASE phase[r] = "rm"
    BY <1>1, <1>5, <1>6, <2>2 DEF Drawn, Judged, Scored, Past, Closing, Home
  <2>. QED  BY <1>4, <2>1, <2>2
<1>8. \A m : {} \X {m} = {}
  OBVIOUS
\* What is in its rollout batches.
<1>9. ASSUME NEW m \in Slots(r) PROVE Filled(r, m)'
  <2>1. CASE config.stream
    <3>1. phase[r] = "sampler" /\ rbs'[r][m] = rbs[r][m] /\ rbs[r][m].sample # NoSample
      BY <1>1, <1>4, <1>5, <1>9, <2>1
    <3>2. rbs[r][m] # Unfilled
      BY <3>1 DEF Unfilled
    <3>3. rbs[r][m] = [sample |-> m, scores |-> {}]
      BY <1>7, <1>8, <1>9, <3>1, <3>2 DEF RunRight, Contents, Filled
    <3>. QED  BY <1>7, <1>8, <3>1, <3>3 DEF Filled
  <2>2. CASE ~config.stream
    <3>1. \A x \in OfPhase(phase[r]) : Asked(r, x, m)
      BY <1>1, <1>4 DEF Asked, OfPhase
    <3>2. Joined(r, OfPhase(phase[r]))[m] =
              IF OfPhase(phase[r]) = {"sampler"} THEN [sample |-> m, scores |-> {}]
              ELSE [sample |-> rbs[r][m].sample,
                    scores |-> rbs[r][m].scores \cup (OfPhase(phase[r]) \X {m})]
      <4>1. PICK on \in Gathered : on = OfPhase(phase[r])
        BY <1>4
      <4>2. (\A c \in Open : c.run = r => c.on \notin on) /\ \A x \in on : Asked(r, x, m)
        BY <1>2, <3>1, <4>1
      <4>3. Joined(r, on)[m] = IF on = {"sampler"} THEN [sample |-> m, scores |-> {}]
                               ELSE [sample |-> rbs[r][m].sample,
                                     scores |-> rbs[r][m].scores \cup (on \X {m})]
        BY <1>9, <4>1, <4>2, JoinedRight
      <4>. QED  BY <4>1, <4>3
    <3>3. CASE phase[r] = "sampler"
      BY <1>1, <1>7, <1>8, <2>2, <3>2, <3>3 DEF OfPhase, Filled
    <3>4. CASE phase[r] = "rm"
      <4>1. rbs[r][m] = [sample |-> m, scores |-> {}]
        BY <1>7, <1>8, <1>9, <3>4 DEF RunRight, Contents, Filled
      <4>2. OfPhase(phase[r]) = Rms /\ Rms # {"sampler"}
        BY <3>4, ConstantsOK DEF OfPhase
      <4>3. rbs'[r][m] = [sample |-> rbs[r][m].sample, scores |-> rbs[r][m].scores \cup (Rms \X {m})]
        BY <1>1, <2>2, <3>2, <4>2
      <4>4. rbs'[r][m] = [sample |-> m, scores |-> Rms \X {m}]
        <5>1. rbs[r][m].sample = m /\ rbs[r][m].scores = {}
          BY <4>1
        <5>2. rbs[r][m].scores \cup (Rms \X {m}) = Rms \X {m}
          BY <5>1
        <5>. QED  BY <4>3, <5>1, <5>2
      <4>. QED  BY <1>7, <3>4, <4>4 DEF Filled
    <3>. QED  BY <1>4, <3>3, <3>4
  <2>. QED  BY <2>1, <2>2
<1>10. Contents(r)'
  BY <1>3, <1>7, <1>9 DEF Contents
\* It has asked for nothing new.
<1>11. ASSUME NEW m \in Slots(r), NEW on PROVE Asked(r, on, m)' <=> Asked(r, on, m)
  <2>1. config.stream => rbs'[r][m].sample = rbs[r][m].sample
    BY <1>1
  <2>2. on \in Rms => on # "sampler" /\ on # "reward"
    BY ConstantsOK
  <2>3. CASE phase[r] = "sampler"
    BY <1>1, <1>5, <1>6, <1>7, <2>1, <2>2, <2>3 DEF Asked, Past, Closing, Home
  <2>4. CASE phase[r] = "rm"
    BY <1>1, <1>5, <1>6, <1>7, <2>1, <2>2, <2>4 DEF Asked, Past, Closing, Home
  <2>. QED  BY <1>4, <2>3, <2>4
<1>12. OnlyAsked(r)' /\ AllAsked(r)'
  <2>2. /\ \A m \in Slots(r), on \in Engines \cup {"reward"} : Asked(r, on, m)' => Asked(r, on, m)
        /\ \A m \in Slots(r) : \A on : Asked(r, on, m) => Asked(r, on, m)'
    BY <1>11
  <2>. DEFINE added == {}
  <2>3. \A c \in added : FALSE
    OBVIOUS
  <2>. HIDE DEF added
  <2>4. \A c : c \in Requests' <=> c \in Requests \/ c \in added
    BY <1>3, <2>3
  <2>. QED  BY <1>1, <2>2, <2>3, <2>4, MoreAsked
<1>13. Awaited(r)'
  <2>1. ASSUME NEW c \in Open, c.run = r PROVE c.on \notin Engines /\ pc'[r] \notin Home
    <3>1. c.on \notin Engines
      BY <1>2, <2>1 DEF RunRight, Awaited
    <3>2. c.slot \in Slots(r) /\ Asked(r, c.on, c.slot)
      BY <2>1 DEF RunRight, OnlyAsked, Requests
    <3>3. config.stream
      BY <1>1, <3>1, <3>2, Settings DEF Asked, Home
    <3>. QED  BY <1>4, <1>5, <1>6, <3>1, <3>3 DEF Home
  <2>. QED  BY <1>3, <2>1 DEF Awaited
<1>14. InPlace(r)'
  <2>1. CASE phase[r] = "sampler"
    BY <1>1, <1>5, <1>6, <2>1 DEF InPlace, Home
  <2>2. CASE phase[r] = "rm"
    BY <1>1, <1>5, <1>6, <2>2 DEF InPlace, Home
  <2>. QED  BY <1>4, <2>1, <2>2
<1>. QED  BY <1>10, <1>12, <1>13, <1>14 DEF RunRight

\* A run that asks for nothing and stores nothing, but may go further.
LEMMA GoesOn ==
    ASSUME TypeOK, NEW r \in Runs, RunRight(r), rbs'[r] = rbs[r],
           UNCHANGED <<config, step, calls, landed, broken>>,
           \A m \in Slots(r) : \A on : Asked(r, on, m)' <=> Asked(r, on, m),
           Drawn(r), Drawn(r)', Scored(r)' = Scored(r), InPlace(r)', pc[r] # "gather",
           pc'[r] \in Home => \A m \in Slots(r) : ~Asked(r, "reward", m)
    PROVE  RunRight(r)'
<1>1. Slots(r)' = Slots(r) /\ Open' = Open /\ Requests' = Requests
  BY DEF Slots, Colocated, Open, Requests
<1>2. OnlyAsked(r)' /\ AllAsked(r)'
  <2>. DEFINE added == {}
  <2>1. \A c \in added : FALSE
    OBVIOUS
  <2>. HIDE DEF added
  <2>2. \A c : c \in Requests' <=> c \in Requests \/ c \in added
    BY <1>1, <2>1
  <2>3. /\ \A m \in Slots(r), on \in Engines \cup {"reward"} : Asked(r, on, m)' => Asked(r, on, m)
        /\ \A m \in Slots(r) : \A on : Asked(r, on, m) => Asked(r, on, m)'
    OBVIOUS
  <2>. QED  BY <2>1, <2>2, <2>3, MoreAsked
<1>3. Awaited(r)'
  <2>1. ASSUME NEW c \in Open, c.run = r PROVE c.on \notin Engines /\ pc'[r] \notin Home
    <3>1. c.on \notin Engines
      BY <2>1 DEF RunRight, Awaited
    <3>2. c.slot \in Slots(r) /\ Asked(r, c.on, c.slot)
      BY <2>1 DEF RunRight, OnlyAsked, Requests
    <3>3. c.on = "reward"
      BY <3>1, <3>2, Settings DEF Asked
    <3>. QED  BY <3>1, <3>2, <3>3
  <2>. QED  BY <1>1, <2>1 DEF Awaited
<1>4. Contents(r)'
  BY <1>1 DEF RunRight, Contents, Filled
<1>. QED  BY <1>2, <1>3, <1>4 DEF RunRight

LEMMA ClosedRight ==
    ASSUME TypeOK, NEW r \in Runs, ~failed[r], RunRight(r), ClosedBarrier
    PROVE  RunRight(r)'
<1>1. /\ pc[r] = "closed"
      /\ pc'[r] = IF NextPhase(r) THEN IF r = Leader THEN "enter" ELSE "open" ELSE EndOfPipeline
      /\ phase'[r] = IF NextPhase(r) THEN "rm" ELSE phase[r]
      /\ UNCHANGED <<config, step, calls, landed, broken, rbs>>
  BY DEF ClosedBarrier, RunStep, trainerVars, callVars
<1>2. phase[r] \in {"sampler", "rm"} /\ "reward" \notin Rms /\ "sampler" \notin Rms
  BY ConstantsOK DEF TypeOK
<1>3. CASE NextPhase(r)
  <2>1. config.gen_rm /\ ~config.stream /\ phase[r] = "sampler" /\ phase'[r] = "rm"
        /\ pc'[r] \in {"enter", "open"}
    BY <1>1, <1>3, Settings DEF NextPhase
  <2>2. /\ Drawn(r) /\ Drawn(r)' /\ Scored(r)' = Scored(r)
        /\ pc[r] # "gather" /\ pc'[r] \notin Home /\ InPlace(r)'
    BY <1>1, <2>1 DEF Drawn, Scored, Judged, Past, Closing, Home, InPlace
  <2>3. \A m \in Slots(r) : \A on : Asked(r, on, m)' <=> Asked(r, on, m)
    BY <1>1, <1>2, <2>1, <2>2 DEF Asked, Past, Closing, Home
  <2>. QED  BY <1>1, <2>2, <2>3, GoesOn
<1>4. CASE ~NextPhase(r)
  <2>1. /\ phase'[r] = phase[r] /\ (config.gen_rm => phase[r] = "rm")
        /\ pc'[r] = IF config.external THEN IF config.stream THEN "collect" ELSE "rewards"
                    ELSE "returned"
    BY <1>1, <1>2, <1>4 DEF NextPhase, EndOfPipeline
  <2>2. /\ Drawn(r) /\ Drawn(r)' /\ Scored(r)' = Scored(r) /\ pc[r] # "gather"
    BY <1>1, <2>1 DEF Drawn, Scored, Judged, Past, Closing, Home
  <2>3. InPlace(r)'
    BY <1>1, <2>1, Settings DEF RunRight, InPlace, Home
  <2>4. \A m \in Slots(r) : \A on : Asked(r, on, m)' <=> Asked(r, on, m)
    BY <1>1, <1>2, <2>1, <2>2 DEF Asked, Past, Closing, Home
  <2>5. pc'[r] \in Home => ~config.external /\ ~config.stream
    BY <2>1, Settings DEF Home
  <2>6. pc'[r] \in Home => \A m \in Slots(r) : ~Asked(r, "reward", m)
    BY <1>2, <2>5 DEF Asked
  <2>. QED  BY <1>1, <2>2, <2>3, <2>4, <2>6, GoesOn
<1>. QED  BY <1>3, <1>4

LEMMA RewardsIssued ==
    ASSUME TypeOK, NEW r \in Runs, RunRight(r), IssueRewards(r)
    PROVE  RunRight(r)'
<1>. DEFINE added == {[run |-> r, on |-> "reward", slot |-> m, sample |-> rbs[r][m].sample] :
                         m \in Slots(r)}
<1>1. /\ pc[r] = "rewards" /\ pc'[r] = "collect" /\ calls' = calls \cup added
      /\ UNCHANGED <<config, step, phase, rbs, landed, broken>>
  BY DEF IssueRewards, Goto, RunStep, trainerVars, TypeOK
<1>2. Slots(r)' = Slots(r) /\ Slots(r) \subseteq Mbs /\ config.external /\ ~config.stream
  BY <1>1, Settings DEF Slots, Colocated, RunRight, InPlace
<1>3. /\ Drawn(r) /\ Drawn(r)' /\ Scored(r)' = Scored(r)
      /\ (Judged(r)' <=> Judged(r)) /\ pc'[r] \notin Home
  BY <1>1 DEF Drawn, Scored, Judged, Past, Closing, Home
<1>4. added = {Ask(r, "reward", m) : m \in Slots(r)}
  <2>1. ASSUME NEW m \in Slots(r) PROVE rbs[r][m].sample = m
    <3>1. rbs[r][m] = [sample |-> m, scores |-> Scored(r) \X {m}]
      BY <1>3, <2>1 DEF RunRight, Contents, Filled
    <3>. QED  BY <3>1
  <2>. QED  BY <2>1 DEF Ask
<1>. HIDE DEF added
<1>5. \A m \in Slots(r) : \A on : Asked(r, on, m)' <=> Asked(r, on, m) \/ on = "reward"
  BY <1>1, <1>2, <1>3, ConstantsOK DEF Asked, Past, Closing, Home
<1>6. \A c \in added : /\ c.run = r /\ c.sample = c.slot /\ c.slot \in Slots(r)
                       /\ c.on = "reward"
  BY <1>4 DEF Ask
<1>7. OnlyAsked(r)' /\ AllAsked(r)'
  <2>1. \A c : c \in Requests' <=> c \in Requests \/ c \in added
    BY <1>1 DEF Requests, Open
  <2>2. \A m \in Slots(r), on \in Engines \cup {"reward"} :
           Asked(r, on, m)' => Asked(r, on, m) \/ Ask(r, on, m) \in added
    BY <1>4, <1>5
  <2>3. \A c \in added : Asked(r, c.on, c.slot)'
    BY <1>5, <1>6
  <2>. QED  BY <1>1, <1>5, <1>6, <2>1, <2>2, <2>3, MoreAsked
<1>8. Awaited(r)'
  <2>1. ASSUME NEW c \in Open', c.run = r PROVE c.on \notin Engines
    <3>1. c \in Open \/ c \in added
      BY <1>1, <2>1 DEF Open
    <3>2. c \in Open => c.on \notin Engines
      BY <1>1, <2>1 DEF RunRight, Awaited
    <3>. QED  BY <1>6, <3>1, <3>2, Settings
  <2>. QED  BY <1>3, <2>1 DEF Awaited
<1>9. Contents(r)'
  BY <1>1, <1>2, <1>3 DEF RunRight, Contents, Filled
<1>10. InPlace(r)'
  BY <1>1, <1>2 DEF RunRight, InPlace, Home
<1>. QED  BY <1>7, <1>8, <1>9, <1>10 DEF RunRight

LEMMA RewardsJoined ==
    ASSUME TypeOK, NEW r \in Runs, RunRight(r), CollectRewards(r)
    PROVE  RunRight(r)'
<1>1. /\ pc[r] = "collect" /\ pc'[r] = "returned" /\ rbs'[r] = Joined(r, {"reward"})
      /\ UNCHANGED <<config, step, phase, calls, landed, broken>>
  BY DEF CollectRewards, Goto, RunStep, trainerVars, callVars, TypeOK
<1>2. /\ Slots(r)' = Slots(r) /\ Slots(r) \subseteq Mbs /\ config.external
      /\ Open' = Open /\ Requests' = Requests
  BY <1>1, Settings DEF Slots, Colocated, RunRight, InPlace, Open, Requests
<1>3. \A c \in Open : c.run = r => c.on \notin {"reward"}
  BY DEF CollectRewards, Running, AnyBroken, Open
<1>4. /\ Drawn(r) /\ Drawn(r)' /\ Scored(r)' = Scored(r) \cup {"reward"}
      /\ (Judged(r)' <=> Judged(r))
  BY <1>1, <1>2 DEF Drawn, Scored, Judged, Past, Closing, Home
<1>5. ASSUME NEW m \in Slots(r)
      PROVE  /\ rbs[r][m] = [sample |-> m, scores |-> Scored(r) \X {m}]
             /\ rbs'[r][m] = [sample |-> m, scores |-> Scored(r)' \X {m}]
             /\ rbs[r][m].sample = m /\ rbs'[r][m].sample = m
  <2>1. rbs[r][m] = [sample |-> m, scores |-> Scored(r) \X {m}]
    BY <1>4, <1>5 DEF RunRight, Contents, Filled
  <2>2. rbs[r][m].sample = m
    BY <2>1
  <2>3. Asked(r, "reward", m)
    BY <1>1, <1>2, <2>2, Settings DEF Asked
  <2>4. PICK on \in Gathered : on = {"reward"}
    BY DEF Gathered
  <2>5. (\A c \in Open : c.run = r => c.on \notin on) /\ (\A x \in on : Asked(r, x, m))
    BY <1>3, <2>3, <2>4
  <2>6. Joined(r, on)[m] = [sample |-> rbs[r][m].sample,
                            scores |-> rbs[r][m].scores \cup (on \X {m})]
    <3>1. on \in Gathered
      BY <2>4
    <3>2. Joined(r, on)[m] = IF on = {"sampler"} THEN [sample |-> m, scores |-> {}]
                             ELSE [sample |-> rbs[r][m].sample,
                                   scores |-> rbs[r][m].scores \cup (on \X {m})]
      BY <1>5, <2>5, <3>1, JoinedRight
    <3>3. on # {"sampler"}
      BY <2>4
    <3>. QED  BY <3>2, <3>3
  <2>7. (Scored(r) \X {m}) \cup ({"reward"} \X {m}) = (Scored(r) \cup {"reward"}) \X {m}
    OBVIOUS
  <2>8. rbs'[r][m] = [sample |-> m, scores |-> (Scored(r) \X {m}) \cup ({"reward"} \X {m})]
    <3>1. rbs[r][m].scores = Scored(r) \X {m}
      BY <2>1
    <3>. QED  BY <1>1, <2>2, <2>4, <2>6, <3>1
  <2>9. rbs'[r][m].sample = m
    BY <2>8
  <2>. QED  BY <1>4, <2>1, <2>2, <2>7, <2>8, <2>9
<1>6. ASSUME NEW m \in Slots(r), NEW on PROVE Asked(r, on, m)' <=> Asked(r, on, m)
  <2>1. rbs[r][m].sample = m
    BY <1>5, <1>6
  <2>2. rbs'[r][m].sample = m
    BY <1>5, <1>6
  <2>3. on = "reward" => Asked(r, on, m) /\ Asked(r, on, m)'
    BY <1>1, <1>2, <2>1, <2>2, Settings DEF Asked, Home
  <2>. QED  BY <1>1, <1>4, <2>3 DEF Asked, Past, Closing, Home
<1>7. OnlyAsked(r)' /\ AllAsked(r)'
  <2>. DEFINE added == {}
  <2>1. \A c \in added : FALSE
    OBVIOUS
  <2>. HIDE DEF added
  <2>2. \A c : c \in Requests' <=> c \in Requests \/ c \in added
    BY <1>2, <2>1
  <2>3. /\ \A m \in Slots(r), on \in Engines \cup {"reward"} : Asked(r, on, m)' => Asked(r, on, m)
        /\ \A m \in Slots(r) : \A on : Asked(r, on, m) => Asked(r, on, m)'
    BY <1>6
  <2>. QED  BY <1>1, <2>1, <2>2, <2>3, MoreAsked
<1>8. Awaited(r)'
  <2>1. ASSUME NEW c \in Open, c.run = r PROVE FALSE
    <3>1. c.on \notin Engines
      BY <1>1, <2>1 DEF RunRight, Awaited
    <3>2. Asked(r, c.on, c.slot)
      BY <2>1 DEF RunRight, OnlyAsked, Requests
    <3>. QED  BY <1>3, <2>1, <3>1, <3>2, Settings DEF Asked
  <2>. QED  BY <1>2, <2>1 DEF Awaited
<1>9. Contents(r)'
  BY <1>2, <1>4, <1>5 DEF Contents, Filled
<1>10. InPlace(r)'
  BY <1>1, <1>2 DEF RunRight, InPlace, Home
<1>. QED  BY <1>7, <1>8, <1>9, <1>10 DEF RunRight

----------------------------------------------------------------------------
\* The steps that keep BatchInv.

\* A run is not at rest, and so a step is being collected.
LEMMA InCollection ==
    ASSUME MemoryInv, NEW r \in Runs, pc[r] \notin AtRest
    PROVE  /\ tpc \in {"collect", "drain", "failed"}
           /\ tpc \in {"collect", "drain"} => task # "done"
<1>1. ~Quiet
  BY DEF Quiet
<1>2. tpc \in {"collect", "drain", "failed"}
  BY <1>1 DEF MemoryInv, TypeOK, TrainerPc, Turns
<1>3. ASSUME tpc \in {"collect", "drain"}, task = "done" PROVE FALSE
  <2>1. CASE Colocated
    <3>1. tpc = "collect"
      BY <1>3, <2>1 DEF MemoryInv, Turns
    <3>. QED  BY <1>3, <2>1, <3>1 DEF MemoryInv, Colocating, AtRest
  <2>2. CASE ~Colocated
    BY <1>1, <1>3, <2>2 DEF MemoryInv, Stepping
  <2>. QED  BY <2>1, <2>2
<1>. QED  BY <1>2, <1>3

\* A step of one run that is not at rest.
LEMMA OneRun ==
    ASSUME MemoryInv, BatchInv, NEW r \in Runs, pc[r] \notin AtRest,
           RunStep, UNCHANGED broken,
           NEW p, pc' = [pc EXCEPT ![r] = p],
           phase' = phase \/ \E x : phase' = [phase EXCEPT ![r] = x],
           rbs' = rbs \/ \E x : rbs' = [rbs EXCEPT ![r] = x],
           \/ failed' = [failed EXCEPT ![r] = TRUE] /\ p \in FailedPcs
           \/ failed' = failed /\ failed[r] /\ p \in FailedPcs
           \/ failed' = failed /\ (tpc \in {"collect", "drain"} => ~failed[r] /\ RunRight(r)'),
           \A c : c.run # r => (c \in calls' <=> c \in calls) /\ (c \in landed' <=> c \in landed)
    PROVE  BatchInv'
<1>1. /\ TypeOK /\ Runs' = Runs
      /\ UNCHANGED <<config, step, tpc, task, queue, batch>>
  BY DEF MemoryInv, RunStep, trainerVars, taskVars, Runs, Colocated
<1>2. /\ tpc \in {"collect", "drain", "failed"}
      /\ tpc \in {"collect", "drain"} => task # "done"
  BY InCollection
<1>3. Settled'
  BY <1>1, <1>2 DEF Settled
<1>4. Collected' /\ \A c \in broken' : c.run \in Runs'
  <2>1. Target' = Target
    BY <1>1 DEF Target, Finished, Wanted, Mbs
  <2>. QED  BY <1>1, <2>1 DEF BatchInv, Collected
<1>5. ASSUME tpc \in {"collect", "drain"} PROVE FailedRuns' /\ RunsRight' /\ queue' \subseteq Target'
  <2>1. FailedRuns /\ RunsRight /\ queue \subseteq Target
    BY <1>5 DEF BatchInv, Collecting
  <2>2. Target' = Target
    BY <1>1 DEF Target, Finished, Wanted, Mbs
  <2>3. ASSUME NEW q \in Runs, q # r
        PROVE  /\ pc'[q] = pc[q] /\ phase'[q] = phase[q] /\ rbs'[q] = rbs[q]
               /\ failed'[q] = failed[q] /\ SameRequests(q)
    <3>1. pc'[q] = pc[q] /\ phase'[q] = phase[q] /\ rbs'[q] = rbs[q] /\ failed'[q] = failed[q]
      BY <1>1, <2>3 DEF TypeOK
    <3>2. SameRequests(q)
      BY <2>3 DEF SameRequests, Requests, Open
    <3>. QED  BY <3>1, <3>2
  <2>4. pc'[r] = p
    BY <1>1 DEF TypeOK
  <2>5. FailedRuns'
    <3>1. task \notin {"done", "opening"}
      BY <1>2, <1>5, <2>1 DEF FailedRuns, AtRest
    <3>2. ASSUME NEW q \in Runs, failed'[q] PROVE pc'[q] \in FailedPcs
      <4>1. CASE q # r
        BY <2>1, <2>3, <3>2, <4>1 DEF FailedRuns
      <4>2. CASE q = r
        <5>1. CASE p \in FailedPcs
          BY <2>4, <4>2, <5>1
        <5>2. CASE failed' = failed /\ ~failed[r]
          BY <3>2, <4>2, <5>2
        <5>. QED  BY <1>5, <5>1, <5>2
      <4>. QED  BY <4>1, <4>2
    <3>. QED  BY <1>1, <3>1, <3>2 DEF FailedRuns
  <2>6. RunsRight'
    <3>1. ASSUME NEW q \in Runs, ~failed'[q] PROVE RunRight(q)'
      <4>1. CASE q # r
        BY <1>1, <2>1, <2>3, <3>1, <4>1, RunMovesOn DEF RunsRight
      <4>2. CASE q = r
        BY <1>1, <1>5, <3>1, <4>2 DEF TypeOK
      <4>. QED  BY <4>1, <4>2
    <3>. QED  BY <1>1, <3>1 DEF RunsRight
  <2>. QED  BY <1>1, <2>1, <2>2, <2>5, <2>6
<1>. QED  BY <1>1, <1>3, <1>4, <1>5 DEF BatchInv, Collecting

\* What a collecting step says of a run that has not come to its failure.
LEMMA RunSoFar ==
    ASSUME BatchInv, tpc \in {"collect", "drain"}, NEW r \in Runs, pc[r] \notin FailedPcs
    PROVE  ~failed[r] /\ RunRight(r)
BY DEF BatchInv, Collecting, FailedRuns, RunsRight

\* A phase is entered, left, or fails.
LEMMA PhaseBatch ==
    ASSUME MemoryInv, BatchInv, NEW r \in Runs,
           \/ EnterPhase(r) \/ EnterPhaseFails(r) \/ GatherPhaseFails(r)
           \/ LeavePhase(r) \/ LeavePhaseFails(r) \/ CollectRewardsFails(r)
    PROVE  BatchInv'
<1>1. /\ RunStep /\ UNCHANGED <<phase, rbs, calls, landed, broken>> /\ TypeOK
      /\ UNCHANGED <<config, step, tpc>>
  BY DEF EnterPhase, EnterPhaseFails, GatherPhaseFails, LeavePhase, LeavePhaseFails,
         CollectRewardsFails, callVars, RunStep, trainerVars, MemoryInv
<1>2. \A q : SameRequests(q)
  BY <1>1 DEF SameRequests, Requests, Open
<1>3. CASE EnterPhase(r)
  <2>1. /\ pc[r] = "enter" /\ pc' = [pc EXCEPT ![r] = "open"] /\ failed' = failed
        /\ pc'[r] = "open"
    BY <1>1, <1>3 DEF EnterPhase, Goto, TypeOK
  <2>2. tpc \in {"collect", "drain"} => ~failed[r] /\ RunRight(r)'
    <3>1. pc[r] \notin FailedPcs /\ pc[r] \in Early /\ pc'[r] \in Early
      BY <2>1 DEF FailedPcs, Closing, Early
    <3>. QED  BY <1>1, <1>2, <3>1, RunSoFar, RunMovesOn
  <2>. QED  BY <1>1, <2>1, <2>2, OneRun DEF AtRest
<1>4. CASE EnterPhaseFails(r) \/ GatherPhaseFails(r) \/ LeavePhaseFails(r) \/ CollectRewardsFails(r)
  <2>1. PICK p \in {"raising", "close"} : pc' = [pc EXCEPT ![r] = p]
    BY <1>4 DEF EnterPhaseFails, GatherPhaseFails, LeavePhaseFails, CollectRewardsFails, Goto
  <2>2. failed' = [failed EXCEPT ![r] = TRUE] /\ pc[r] \notin AtRest /\ p \in FailedPcs
    BY <1>4, <2>1 DEF EnterPhaseFails, GatherPhaseFails, LeavePhaseFails, CollectRewardsFails,
       AtRest, FailedPcs, Closing
  <2>. QED  BY <1>1, <2>1, <2>2, OneRun
<1>5. CASE LeavePhase(r)
  <2>1. /\ pc[r] = "shut" /\ pc' = [pc EXCEPT ![r] = "closed"] /\ failed' = failed
        /\ pc'[r] = "closed"
    BY <1>1, <1>5 DEF LeavePhase, Goto, TypeOK
  <2>2. CASE failed[r]
    BY <1>1, <2>1, <2>2, OneRun DEF AtRest, FailedPcs, Closing
  <2>3. CASE ~failed[r]
    <3>1. tpc \in {"collect", "drain"} => ~failed[r] /\ RunRight(r)'
      <4>1. pc[r] \in Closing /\ pc'[r] \in Closing
        BY <2>1 DEF Closing
      <4>2. tpc \in {"collect", "drain"} => RunRight(r)
        BY <2>3 DEF BatchInv, Collecting, RunsRight
      <4>. QED  BY <1>1, <1>2, <2>3, <4>1, <4>2, RunMovesOn
    <3>. QED  BY <1>1, <2>1, <3>1, OneRun DEF AtRest
  <2>. QED  BY <2>2, <2>3
<1>. QED  BY <1>3, <1>4, <1>5

\* Requests are sent, answers are joined.
LEMMA BodyBatch ==
    ASSUME MemoryInv, BatchInv, NEW r \in Runs,
           Issue(r) \/ Consume(r) \/ GatherPhase(r) \/ IssueRewards(r) \/ CollectRewards(r)
    PROVE  BatchInv'
<1>1. /\ RunStep /\ UNCHANGED <<failed, landed, broken>> /\ TypeOK
      /\ pc[r] \in {"body", "gather", "rewards", "collect"}
  BY DEF Issue, Consume, GatherPhase, IssueRewards, CollectRewards, callVars, MemoryInv
<1>2. pc[r] \notin FailedPcs /\ pc[r] \notin AtRest
  BY <1>1 DEF FailedPcs, Closing, AtRest
<1>3. tpc \in {"collect", "drain"} => ~failed[r] /\ RunRight(r)'
  BY <1>1, <1>2, RunSoFar, IssueRight, ConsumeRight, GatherRight, RewardsIssued, RewardsJoined
<1>4. PICK p : pc' = [pc EXCEPT ![r] = p]
  <2>1. CASE Consume(r)
    <3>1. pc' = [pc EXCEPT ![r] = pc[r]]
      BY <1>1, <2>1 DEF Consume, TypeOK
    <3>. QED  BY <3>1
  <2>. QED  BY <2>1 DEF Issue, GatherPhase, IssueRewards, CollectRewards, Goto
<1>5. phase' = phase \/ \E x : phase' = [phase EXCEPT ![r] = x]
  BY DEF Issue, Consume, GatherPhase, IssueRewards, CollectRewards
<1>6. rbs' = rbs \/ \E x : rbs' = [rbs EXCEPT ![r] = x]
  <2>1. CASE Consume(r)
    <3>1. PICK c : rbs' = [rbs EXCEPT ![r][SlotOf(c)] = [sample |-> c.sample, scores |-> {}]]
      BY <2>1 DEF Consume
    <3>2. rbs' = [rbs EXCEPT ![r] = [rbs[r] EXCEPT ![SlotOf(c)] =
                                         [sample |-> c.sample, scores |-> {}]]]
      BY <3>1
    <3>. QED  BY <3>2
  <2>. QED  BY <2>1 DEF Issue, GatherPhase, IssueRewards, CollectRewards
<1>7. \A c : c.run # r => (c \in calls' <=> c \in calls)
  <2>1. CASE Issue(r)
    BY <2>1 DEF Issue, Sends
  <2>2. CASE Consume(r)
    BY <2>2 DEF Consume, FireReward, Answered
  <2>3. CASE GatherPhase(r) \/ CollectRewards(r)
    BY <2>3 DEF GatherPhase, CollectRewards, callVars
  <2>4. CASE IssueRewards(r)
    BY <2>4 DEF IssueRewards
  <2>. QED  BY <2>1, <2>2, <2>3, <2>4
<1>8. \A c : c.run # r => (c \in calls' <=> c \in calls) /\ (c \in landed' <=> c \in landed)
  BY <1>1, <1>7
<1>. QED  BY <1>1, <1>2, <1>3, <1>4, <1>5, <1>6, <1>8, OneRun

\* A run that failed ends; what it streamed is cancelled.
LEMMA RaiseBatch ==
    ASSUME MemoryInv, BatchInv, NEW r \in Runs, Raise(r)
    PROVE  BatchInv'
<1>1. /\ RunStep /\ UNCHANGED <<failed, landed, broken, phase, rbs>> /\ TypeOK
      /\ pc[r] = "raising" /\ pc' = [pc EXCEPT ![r] = "raised"]
      /\ \A c : c.run # r => (c \in calls' <=> c \in calls)
  BY DEF Raise, Goto, MemoryInv, Cancelled, Running
<1>2. CASE failed[r]
  BY <1>1, <1>2, OneRun DEF AtRest, FailedPcs
<1>3. CASE ~failed[r]
  <2>1. tpc \notin {"collect", "drain"}
    BY <1>1, <1>3 DEF BatchInv, Collecting, RunsRight, RunRight, InPlace
  <2>. QED  BY <1>1, <1>3, <2>1, OneRun DEF AtRest
<1>. QED  BY <1>2, <1>3

\* The agents go through a barrier together.
LEMMA BarrierBatch ==
    ASSUME MemoryInv, BatchInv, OpenBarrier \/ CloseBarrier \/ ClosedBarrier
    PROVE  BatchInv'
<1>1. /\ TypeOK /\ RunStep /\ UNCHANGED <<failed, rbs, calls, landed, broken>> /\ Runs' = Runs
      /\ UNCHANGED <<config, step, tpc, task, queue, batch>>
  BY DEF OpenBarrier, CloseBarrier, ClosedBarrier, RunStep, trainerVars, taskVars, callVars,
         Runs, Colocated, MemoryInv
<1>2. /\ tpc \in {"collect", "drain", "failed"}
      /\ tpc \in {"collect", "drain"} => task # "done"
      /\ task = "opening" => tpc \notin {"collect", "drain"}
  <2>1. Leader \in Runs /\ pc[Leader] \in {"open", "close", "closed"}
    BY <1>1, LeaderRuns DEF OpenBarrier, OpenTogether, CloseBarrier, CloseTogether, ClosedBarrier
  <2>2. pc[Leader] \notin AtRest
    BY <2>1 DEF AtRest
  <2>3. tpc \in {"collect", "drain"} /\ task = "opening" => pc[Leader] = "idle"
    BY <2>1 DEF BatchInv, Collecting, FailedRuns
  <2>. QED  BY <2>1, <2>2, <2>3, InCollection
<1>3. Target' = Target /\ (\A q : SameRequests(q))
  BY <1>1 DEF Target, Finished, Wanted, Mbs, SameRequests, Requests, Open
<1>4. ASSUME tpc \in {"collect", "drain"}, NEW r \in Runs
      PROVE  /\ failed[r] => pc'[r] \in FailedPcs
             /\ ~failed[r] => RunRight(r)'
  <2>1. (failed[r] => pc[r] \in FailedPcs) /\ (~failed[r] => RunRight(r))
    BY <1>4 DEF BatchInv, Collecting, FailedRuns, RunsRight
  <2>2. CASE OpenBarrier
    <3>1. pc[r] = "open" /\ pc'[r] = "body" /\ phase'[r] = phase[r]
      BY <2>2 DEF OpenBarrier, OpenTogether
    <3>2. pc[r] \notin FailedPcs /\ pc[r] \in Early /\ pc'[r] \in Early
      BY <3>1 DEF FailedPcs, Closing, Early
    <3>. QED  BY <1>1, <1>3, <2>1, <3>1, <3>2, RunMovesOn
  <2>3. CASE CloseBarrier
    <3>1. pc[r] = "close" /\ pc'[r] \in {"shut", "closed"} /\ phase'[r] = phase[r]
      BY <2>3 DEF CloseBarrier, CloseTogether
    <3>2. pc'[r] \in FailedPcs /\ pc[r] \in Closing /\ pc'[r] \in Closing
      BY <3>1 DEF FailedPcs, Closing
    <3>. QED  BY <1>1, <1>3, <2>1, <3>1, <3>2, RunMovesOn
  <2>4. CASE ClosedBarrier
    <3>1. failed[r] => pc'[r] = "raising"
      BY <2>4 DEF ClosedBarrier
    <3>. QED  BY <1>1, <2>1, <2>4, <3>1, ClosedRight DEF FailedPcs
  <2>. QED  BY <2>2, <2>3, <2>4
<1>5. Collecting'
  <2>1. ASSUME tpc \in {"collect", "drain"}
        PROVE FailedRuns' /\ RunsRight' /\ queue' \subseteq Target'
    <3>1. FailedRuns'
      BY <1>1, <1>2, <1>4, <2>1 DEF FailedRuns
    <3>2. RunsRight'
      BY <1>1, <1>4, <2>1 DEF RunsRight
    <3>. QED  BY <1>1, <1>3, <2>1, <3>1, <3>2 DEF BatchInv, Collecting
  <2>. QED  BY <1>1, <2>1 DEF Collecting
<1>. QED  BY <1>1, <1>2, <1>3, <1>5 DEF BatchInv, Settled, Collected

\* A request is answered, or fails.
LEMMA CallBatch ==
    ASSUME MemoryInv, BatchInv, CallNext
    PROVE  BatchInv'
<1>1. PICK c \in calls : FinishCall(c) \/ FailCall(c)
  BY DEF CallNext
<1>2. /\ TypeOK /\ Runs' = Runs /\ c.run \in Runs
      /\ UNCHANGED <<config, step, tpc, task, queue, batch, pc, phase, failed, rbs>>
      /\ broken' = broken \/ broken' = broken \cup {c}
  BY <1>1 DEF FinishCall, FailCall, RunStep, trainerVars, taskVars, runVars, Runs, Colocated,
              MemoryInv, AwaitedInPhase
<1>3. Target' = Target /\ FailedRuns' = FailedRuns
  BY <1>2 DEF Target, Finished, Wanted, Mbs, FailedRuns
<1>4. \A d : (d \in Requests' <=> d \in Requests) /\ (d \in Open' => d \in Open)
  <2>1. CASE FinishCall(c)
    BY <1>1, <2>1 DEF FinishCall, Requests, Open
  <2>2. CASE FailCall(c)
    BY <1>1, <2>2 DEF FailCall, Requests, Open
  <2>. QED  BY <1>1, <2>1, <2>2
<1>5. RunsRight => RunsRight'
  <2>1. \A r \in Runs : SameRequests(r)
    BY <1>4 DEF SameRequests
  <2>2. ASSUME RunsRight, NEW r \in Runs, ~failed[r] PROVE RunRight(r)'
    BY <1>2, <2>1, <2>2, RunMovesOn DEF RunsRight
  <2>. QED  BY <1>2, <2>2 DEF RunsRight
<1>6. Settled'
  <2>1. tpc \in {"collect", "drain", "failed"}
    BY <1>1 DEF BatchInv, Settled, Open
  <2>. QED  BY <1>2, <2>1 DEF Settled
<1>7. \A d \in broken' : d.run \in Runs'
  BY <1>2 DEF BatchInv
<1>8. Collecting' /\ Collected'
  BY <1>2, <1>3, <1>5 DEF BatchInv, Collecting, Collected
<1>. QED  BY <1>6, <1>7, <1>8 DEF BatchInv

LEMMA RunBatch ==
    ASSUME MemoryInv, BatchInv, RunNext
    PROVE  BatchInv'
BY BarrierBatch, PhaseBatch, BodyBatch, RaiseBatch DEF RunNext

\* What a run that has returned hands over.
LEMMA ReturnedRight ==
    ASSUME TypeOK, NEW r \in Runs, RunRight(r), pc[r] = "returned"
    PROVE  {[slot |-> m, rb |-> rbs[r][m]] : m \in Slots(r)} \subseteq Target
<1>1. Drawn(r) /\ Scored(r) = Wanted
  <2>1. phase[r] = "rm" <=> config.gen_rm
    BY DEF RunRight, InPlace, Home
  <2>. QED  BY <2>1 DEF Drawn, Scored, Judged, Wanted, Past, Home
<1>2. ASSUME NEW m \in Slots(r) PROVE [slot |-> m, rb |-> rbs[r][m]] = Finished(m) /\ m \in Mbs
  BY <1>1, Settings DEF RunRight, Contents, Filled, Finished
<1>. QED  BY <1>2 DEF Target

\* The dispatching task's steps.
LEMMA DispatchBatch ==
    ASSUME MemoryInv, BatchInv, DispatchNext
    PROVE  BatchInv'
<1>1. /\ TypeOK /\ Runs' = Runs
      /\ UNCHANGED <<config, step, tpc, batch, phase, failed, rbs, calls, landed, broken>>
  BY DEF DispatchNext, OpenStep, OpenStepFails, CloseStep, CloseStepFails, DispatchDone,
         DispatchFails, Deliver, Report, trainerVars, runVars, callVars, Runs, Colocated, MemoryInv
<1>2. Target' = Target /\ (\A q : SameRequests(q))
  BY <1>1 DEF Target, Finished, Wanted, Mbs, SameRequests, Requests, Open
<1>3. Settled' /\ Collected' /\ \A c \in broken' : c.run \in Runs'
  BY <1>1, <1>2 DEF BatchInv, Settled, Collected, Open
<1>4. ASSUME tpc \in {"collect", "drain"}
      PROVE  FailedRuns' /\ RunsRight' /\ queue' \subseteq Target'
  <2>1. FailedRuns /\ RunsRight /\ queue \subseteq Target
    BY <1>4 DEF BatchInv, Collecting
  <2>2. ASSUME NEW r \in Runs, pc[r] = "returned"
        PROVE  ~failed[r] /\ {[slot |-> m, rb |-> rbs[r][m]] : m \in Slots(r)} \subseteq Target
    <3>1. pc[r] \notin FailedPcs
      BY <2>2 DEF FailedPcs, Closing
    <3>. QED  BY <1>1, <1>4, <2>2, <3>1, RunSoFar, ReturnedRight
  \* No run is where it was not, or they all leave together.
  <2>3. ASSUME \A r \in Runs : \/ pc'[r] = pc[r]
                               \/ pc[r] = "idle" /\ pc'[r] = "body" /\ ~failed[r]
                               \/ pc[r] = "returned" /\ pc'[r] = "reported"
                               \/ pc'[r] = "reported" /\ failed[r]
        PROVE  RunsRight' /\ \A r \in Runs : failed[r] => pc'[r] \in FailedPcs
    <3>1. ASSUME NEW r \in Runs, ~failed[r] PROVE RunRight(r)'
      <4>1. \/ pc'[r] = pc[r]
            \/ pc[r] \in Early /\ pc'[r] \in Early
            \/ pc[r] \in Home /\ pc'[r] \in Home
        BY <2>3, <3>1 DEF Early, Home
      <4>. QED  BY <1>1, <1>2, <2>1, <3>1, <4>1, RunMovesOn DEF RunsRight
    <3>2. RunsRight'
      BY <1>1, <3>1 DEF RunsRight
    <3>. QED  BY <2>1, <2>3, <3>2 DEF FailedRuns, FailedPcs
  <2>4. CASE OpenStep
    <3>1. /\ task = "opening" /\ task' = "running" /\ queue' = queue
          /\ \A r \in Runs : pc'[r] = "body"
      BY <2>4 DEF OpenStep
    <3>2. \A r \in Runs : pc[r] = "idle" /\ ~failed[r]
      BY <2>1, <3>1 DEF FailedRuns, FailedPcs, Closing
    <3>3. RunsRight' /\ \A r \in Runs : failed[r] => pc'[r] \in FailedPcs
      BY <2>3, <3>1, <3>2
    <3>. QED  BY <1>1, <1>2, <2>1, <3>1, <3>3 DEF FailedRuns
  <2>5. CASE OpenStepFails \/ CloseStepFails \/ DispatchFails
    <3>1. task' = "failed" /\ queue' = queue /\ pc' = pc
      BY <2>5 DEF OpenStepFails, CloseStepFails, DispatchFails, runVars
    <3>2. RunsRight' /\ \A r \in Runs : failed[r] => pc'[r] \in FailedPcs
      BY <2>3, <3>1
    <3>. QED  BY <1>1, <1>2, <2>1, <3>1, <3>2 DEF FailedRuns
  <2>6. CASE CloseStep
    <3>1. task' = Outcome /\ queue' = queue /\ pc' = pc
      BY <2>6 DEF CloseStep, runVars
    <3>2. RunsRight' /\ \A r \in Runs : failed[r] => pc'[r] \in FailedPcs
      BY <2>3, <3>1
    <3>. QED  BY <1>1, <1>2, <2>1, <3>1, <3>2 DEF FailedRuns, Outcome
  <2>7. CASE DispatchDone
    <3>1. /\ task' = "done" /\ pc' = pc /\ \A r \in Runs : pc[r] = "returned"
          /\ queue' = UNION {{[slot |-> m, rb |-> rbs[r][m]] : m \in Slots(r)} : r \in Runs}
      BY <2>7 DEF DispatchDone, runVars
    <3>2. RunsRight' /\ \A r \in Runs : failed[r] => pc'[r] \in FailedPcs
      BY <2>3, <3>1
    <3>3. queue' \subseteq Target /\ \A r \in Runs : ~failed[r]
      BY <2>2, <3>1
    <3>. QED  BY <1>1, <1>2, <3>1, <3>2, <3>3 DEF FailedRuns
  <2>8. ASSUME NEW r \in Runs, Deliver(r) PROVE FailedRuns' /\ RunsRight' /\ queue' \subseteq Target'
    <3>1. /\ pc[r] = "returned" /\ pc' = [pc EXCEPT ![r] = "reported"] /\ task' = task
          /\ queue' = queue \cup {[slot |-> m, rb |-> rbs[r][m]] : m \in Slots(r)}
      BY <2>8 DEF Deliver
    <3>2. \A q \in Runs : pc'[q] = IF q = r THEN "reported" ELSE pc[q]
      BY <1>1, <3>1 DEF TypeOK
    <3>3. RunsRight' /\ \A q \in Runs : failed[q] => pc'[q] \in FailedPcs
      BY <2>3, <3>1, <3>2
    <3>4. queue' \subseteq Target /\ task # "opening"
      BY <2>1, <2>2, <3>1 DEF FailedRuns
    <3>. QED  BY <1>1, <1>2, <2>1, <3>1, <3>3, <3>4 DEF FailedRuns
  <2>9. ASSUME NEW r \in Runs, Report(r) PROVE FailedRuns' /\ RunsRight' /\ queue' \subseteq Target'
    <3>1. /\ pc[r] = "raised" /\ pc' = [pc EXCEPT ![r] = "reported"] /\ task' = task
          /\ queue' = queue
      BY <2>9 DEF Report
    <3>2. \A q \in Runs : pc'[q] = IF q = r THEN "reported" ELSE pc[q]
      BY <1>1, <3>1 DEF TypeOK
    <3>3. failed[r]
      BY <2>1, <3>1 DEF RunsRight, RunRight, InPlace
    <3>4. RunsRight' /\ \A q \in Runs : failed[q] => pc'[q] \in FailedPcs
      BY <2>3, <3>2, <3>3
    <3>5. task # "opening"
      BY <2>1, <3>1 DEF FailedRuns
    <3>. QED  BY <1>1, <1>2, <2>1, <3>1, <3>4, <3>5 DEF FailedRuns
  <2>. QED  BY <2>4, <2>5, <2>6, <2>7, <2>8, <2>9 DEF DispatchNext
<1>. QED  BY <1>1, <1>3, <1>4 DEF BatchInv, Collecting

\* A step's target has no more rollout batches than the step has microbatches.
LEMMA TargetSize == IsFiniteSet(Target) /\ Cardinality(Target) <= NumMb
<1>. DEFINE f == [m \in Mbs |-> Finished(m)]
<1>1. f \in Surjection(Mbs, Target)
  BY DEF Surjection, Target
<1>2. IsFiniteSet(Mbs) /\ Cardinality(Mbs) = NumMb
  BY ConstantsOK, FS_Interval DEF Mbs
<1>. QED  BY <1>1, <1>2, FS_Surjection

\* The generation of a step is fired: nothing is left of the one before.
LEMMA FireBatch ==
    ASSUME MemoryInv, BatchInv, Fire
    PROVE  BatchInv'
<1>1. /\ TypeOK /\ Runs' = Runs /\ Open = {} /\ tpc' \in {"collect", "failed"}
      /\ UNCHANGED <<config, step, failed, calls, broken, queue>>
      /\ \A r \in Runs : ~failed[r]
  BY DEF Fire, Runs, Colocated, MemoryInv, BatchInv, Settled
<1>2. Open' = {} /\ Settled' /\ Collected' /\ \A c \in broken' : c.run \in Runs'
  BY <1>1 DEF Open, Settled, Collected, BatchInv
<1>3. ASSUME tpc' = "collect" PROVE FailedRuns' /\ RunsRight' /\ queue' = {}
  <2>1. /\ task' = IF Colocated THEN "running" ELSE "opening"
        /\ pc' = [r \in Runs |-> IF ~Colocated THEN "idle"
                                 ELSE IF r = Leader THEN "enter" ELSE "open"]
        /\ phase' = [r \in Runs |-> "sampler"] /\ rbs' = [r \in Runs |-> EmptySlots]
        /\ landed' = {} /\ queue' = {}
    BY <1>1, <1>3 DEF Fire
  <2>2. FailedRuns'
    BY <1>1, <2>1 DEF FailedRuns
  <2>3. ASSUME NEW r \in Runs PROVE RunRight(r)'
    <3>1. /\ pc'[r] \in {"idle", "enter", "open"} /\ phase'[r] = "sampler"
          /\ rbs'[r] = EmptySlots
      BY <2>1
    <3>2. ~Drawn(r)' /\ Requests' = {}
      BY <1>2, <2>1, <3>1 DEF Drawn, Past, Closing, Home, Requests
    <3>3. \A m \in Slots(r)' : m \in Mbs /\ m # NoSample /\ rbs'[r][m] = Unfilled'
      BY <1>1, <3>1, Settings DEF Slots, Colocated, EmptySlots, Unfilled, NoSample
    <3>4. \A m \in Slots(r)' : \A on : ~Asked(r, on, m)'
      <4>1. ASSUME NEW m \in Slots(r)' PROVE rbs'[r][m].sample # m
        <5>1. rbs'[r][m].sample = NoSample
          BY <3>3 DEF Unfilled, NoSample
        <5>. QED  BY <3>3, <5>1
      <4>. QED  BY <3>1, <3>2, <4>1 DEF Asked, Home
    <3>5. OnlyAsked(r)' /\ AllAsked(r)' /\ Awaited(r)'
      BY <1>2, <3>2, <3>4 DEF OnlyAsked, AllAsked, Awaited
    <3>6. Contents(r)' /\ InPlace(r)'
      BY <3>1, <3>2, <3>3 DEF Contents, InPlace, Home
    <3>. QED  BY <3>5, <3>6 DEF RunRight
  <2>4. RunsRight'
    BY <1>1, <2>3 DEF RunsRight
  <2>. QED  BY <2>1, <2>2, <2>4
<1>4. Collecting'
  BY <1>1, <1>3 DEF Collecting
<1>. QED  BY <1>2, <1>4 DEF BatchInv

\* Once all runs of a step are at rest and none has failed, nothing is open.
LEMMA NothingOpen ==
    ASSUME MemoryInv, BatchInv, tpc \in {"collect", "drain"},
           \A r \in Runs : ~failed[r],
           \A r \in Runs : pc[r] \in Home \/ (~Colocated /\ pc[r] = "idle")
    PROVE  Open = {}
<1>. SUFFICES ASSUME NEW c \in Open PROVE FALSE
  OBVIOUS
<1>1. c.run \in Runs
  BY DEF MemoryInv, AwaitedInPhase, BatchInv, Open
<1>. DEFINE r == c.run
<1>2. RunRight(r) /\ c \in Requests
  BY <1>1 DEF BatchInv, Collecting, RunsRight, Requests
<1>3. ~Colocated /\ pc[r] = "idle" /\ c.on \notin Engines
  BY <1>1, <1>2 DEF RunRight, Awaited, Home
<1>4. Asked(r, c.on, c.slot)
  BY <1>2 DEF RunRight, OnlyAsked
<1>5. TypeOK
  BY DEF MemoryInv
<1>. QED  BY <1>3, <1>4, <1>5, Settings DEF Asked, Home

\* The trainer takes what is queued: the whole step.
LEMMA CollectBatch ==
    ASSUME MemoryInv, BatchInv, Collect
    PROVE  BatchInv'
<1>1. /\ TypeOK /\ Runs' = Runs /\ tpc = "collect" /\ tpc' = AfterCollect
      /\ Cardinality(queue) = NumMb /\ batch' = queue /\ queue' = {}
      /\ UNCHANGED <<config, step, task, pc, phase, failed, rbs, calls, landed, broken>>
  BY DEF Collect, runVars, callVars, Runs, Colocated, MemoryInv
<1>2. FailedRuns /\ RunsRight /\ queue \subseteq Target
  BY <1>1 DEF BatchInv, Collecting
<1>3. queue = Target
  <2>1. Cardinality(queue) <= Cardinality(Target) /\ Cardinality(Target) \in Nat
    BY <1>2, TargetSize, FS_Subset, FS_CardinalityType
  <2>2. Cardinality(Target) = Cardinality(queue)
    BY <1>1, <2>1, TargetSize, ConstantsOK
  <2>. QED  BY <1>2, <2>2, TargetSize, FS_Subset
<1>4. Target' = Target /\ FailedRuns' = FailedRuns /\ Open' = Open
  BY <1>1 DEF Target, Finished, Wanted, Mbs, FailedRuns, Open
<1>5. RunsRight'
  <2>1. \A r \in Runs : SameRequests(r)
    BY <1>1 DEF SameRequests, Requests, Open
  <2>2. ASSUME NEW r \in Runs, ~failed[r] PROVE RunRight(r)'
    BY <1>1, <1>2, <2>1, <2>2, RunMovesOn DEF RunsRight
  <2>. QED  BY <1>1, <2>2 DEF RunsRight
<1>6. Collecting' /\ Collected' /\ \A c \in broken' : c.run \in Runs'
  BY <1>1, <1>2, <1>3, <1>4, <1>5 DEF BatchInv, Collecting, Collected
<1>7. Settled'
  <2>1. CASE Colocated
    <3>1. queue # {}
      BY <1>1, FS_EmptySet, ConstantsOK
    <3>2. task = "done" /\ \A r \in Runs : pc[r] = "returned"
      BY <1>1, <2>1, <3>1 DEF MemoryInv, Colocating
    <3>3. \A r \in Runs : ~failed[r]
      BY <1>2, <3>2 DEF FailedRuns
    <3>4. Open = {}
      BY <1>1, <3>2, <3>3, NothingOpen DEF Home
    <3>. QED  BY <1>1, <1>4, <3>3, <3>4 DEF Settled
  <2>2. CASE ~Colocated
    BY <1>1, <2>2 DEF Settled, AfterCollect
  <2>. QED  BY <2>1, <2>2
<1>. QED  BY <1>6, <1>7 DEF BatchInv

\* The wait for the task that has dispatched the step.
LEMMA WaitBatch ==
    ASSUME MemoryInv, BatchInv, WaitAllInflight
    PROVE  BatchInv'
<1>1. /\ TypeOK /\ Runs' = Runs /\ tpc \in {"drain", "wait"} /\ task \in {"none", "done", "failed"}
      /\ tpc' = CASE task = "failed" -> "failed"
                  [] task # "failed" /\ tpc = "drain" -> "train"
                  [] OTHER -> "offload"
      /\ UNCHANGED <<config, batch, failed, calls, broken>>
  BY DEF WaitAllInflight, runVars, callVars, Runs, Colocated, MemoryInv
<1>2. Target' = Target /\ Open' = Open
  BY <1>1 DEF Target, Finished, Wanted, Mbs, Open
<1>3. Collecting' /\ Collected' /\ \A c \in broken' : c.run \in Runs'
  BY <1>1, <1>2 DEF BatchInv, Collecting, Collected
<1>4. Settled'
  <2>1. CASE tpc = "wait"
    BY <1>1, <1>2, <2>1 DEF BatchInv, Settled
  <2>2. CASE tpc = "drain" /\ task # "failed"
    <3>1. ~Colocated /\ task = "done" /\ Quiet
      BY <1>1, <2>2 DEF MemoryInv, Turns, Stepping
    <3>2. \A r \in Runs : ~failed[r]
      BY <2>2, <3>1 DEF BatchInv, Collecting, FailedRuns
    <3>3. Open = {}
      BY <2>2, <3>1, <3>2, NothingOpen DEF Quiet, AtRest, Home
    <3>. QED  BY <1>1, <1>2, <3>2, <3>3 DEF Settled
  <2>3. CASE tpc = "drain" /\ task = "failed"
    BY <1>1, <2>3 DEF Settled
  <2>. QED  BY <1>1, <2>1, <2>2, <2>3
<1>. QED  BY <1>3, <1>4 DEF BatchInv

LEMMA TrainerBatch ==
    ASSUME MemoryInv, BatchInv, TrainerNext
    PROVE  BatchInv'
<1>1. CASE CollectFails
  <2>1. tpc' = "failed" /\ UNCHANGED <<config, broken>>
    BY <1>1 DEF CollectFails, callVars
  <2>2. Runs' = Runs
    BY <2>1 DEF Runs, Colocated
  <2>. QED  BY <2>1, <2>2 DEF BatchInv, Collecting, Settled, Collected
<1>2. ASSUME \/ \E k \in Ranks : Offload(k) \/ OffloadModel(k) \/ FinalOnload(k)
             \/ PushWeights \/ UpdateWeightsDone \/ Train \/ TrainDone \/ FinalSleep \/ FinalSave
      PROVE  BatchInv'
  <2>1. /\ UNCHANGED <<config, failed, calls, broken>>
        /\ tpc \notin {"collect", "drain", "failed"} /\ tpc' \notin {"collect", "drain", "failed"}
    BY <1>2 DEF Offload, OffloadModel, FinalOnload, PushWeights, UpdateWeightsDone, Train,
                TrainDone, FinalSleep, FinalSave, runVars, callVars
  <2>2. tpc' \in {"train", "training"} => tpc \in {"train", "training"} /\ batch' = batch
    BY <1>2 DEF Offload, OffloadModel, FinalOnload, PushWeights, UpdateWeightsDone, Train,
                TrainDone, FinalSleep, FinalSave
  <2>3. Runs' = Runs /\ Target' = Target /\ Open' = Open
    BY <2>1 DEF Runs, Colocated, Target, Finished, Wanted, Mbs, Open
  <2>4. Settled'
    BY <2>1, <2>3 DEF BatchInv, Settled
  <2>. QED  BY <2>1, <2>2, <2>3, <2>4 DEF BatchInv, Collecting, Collected
<1>. QED  BY <1>1, <1>2, FireBatch, CollectBatch, WaitBatch DEF TrainerNext

LEMMA NextBatch == MemoryInv /\ BatchInv /\ [Next]_vars => BatchInv'
<1>. SUFFICES ASSUME MemoryInv, BatchInv, [Next]_vars PROVE BatchInv'
  OBVIOUS
<1>1. CASE UNCHANGED vars
  <2>1. /\ Runs' = Runs /\ TypeOK
        /\ UNCHANGED <<config, step, tpc, task, queue, batch, pc, phase, failed, rbs>>
        /\ UNCHANGED <<calls, landed, broken>>
    BY <1>1 DEF vars, trainerVars, taskVars, runVars, callVars, Runs, Colocated, MemoryInv
  <2>2. Target' = Target /\ FailedRuns' = FailedRuns /\ Open' = Open
    BY <2>1 DEF Target, Finished, Wanted, Mbs, FailedRuns, Open
  <2>3. RunsRight => RunsRight'
    <3>1. \A r \in Runs : SameRequests(r)
      BY <2>1 DEF SameRequests, Requests, Open
    <3>2. ASSUME RunsRight, NEW r \in Runs, ~failed[r] PROVE RunRight(r)'
      BY <2>1, <3>1, <3>2, RunMovesOn DEF RunsRight
    <3>. QED  BY <2>1, <3>2 DEF RunsRight
  <2>4. Settled' /\ Collected' /\ Collecting'
    BY <2>1, <2>2, <2>3 DEF BatchInv, Settled, Collected, Collecting
  <2>. QED  BY <2>1, <2>4 DEF BatchInv
<1>. QED  BY <1>1, TrainerBatch, DispatchBatch, RunBatch, CallBatch DEF Next

LEMMA InitBatch == Init => BatchInv
BY DEF Init, BatchInv, Collecting, Settled, Collected, Open

\* BatchComplete: in either placement, for any number of agents, microbatches
\* and gen-RMs and any order of the answers, the trainer trains each microbatch
\* of the step once, generated from its own prompt and scored on its own
\* rollout by every scorer configured; a failed call never lets a part of a
\* step through.
THEOREM BatchesAreComplete == Spec => []BatchComplete
<1>1. BatchInv => BatchComplete
  BY DEF BatchInv, Collected, BatchComplete, Target, Finished
<1>. QED  BY <1>1, InitBatch, NextBatch, MemoryHolds, PTL DEF Spec
=============================================================================
