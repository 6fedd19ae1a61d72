---------------------------- MODULE TrainerRetry ----------------------------
(***************************************************************************)
(* TrainerRetryMixin.launch_then_run_with_recovery (trainer_mixin.py): the *)
(* race between the training loop and the liveness check, and the restart  *)
(* path behind it, with RayTrainGroup.train_loop and check_liveness        *)
(* (train_group.py), the retry flags of a training actor (actor/mixin.py)  *)
(* and the three node replacers (none, MockNodeReplacer,                   *)
(* GeminiNodeReplacer).                                                    *)
(*                                                                         *)
(* A training actor is its rank, and so is the node it runs on; rank 0     *)
(* runs on the launcher.  An actor's loop is a sequence of segments with a *)
(* cpu_barrier after each: segment 0 is the set-up before the first step,  *)
(* segments 1 .. NumSteps are the steps, then train_step_finished is set   *)
(* and the last segment, NumSteps + 1, ends in the final save.             *)
(***************************************************************************)
EXTENDS Integers, FiniteSets

CONSTANTS
    NumActors,           \* training actors
    NumSteps,            \* steps left when a launch resumes
    MaxRestartAttempts,  \* max_restart_attempts
    TimeLimit,           \* max_train_step_waiting_time is set
    Replacers,           \* the node_replacer_cls settings explored
    MaxFaults            \* bound: actor faults in a behaviour

ASSUME TrainerRetryAssumption ==
    /\ NumActors \in Nat \ {0} /\ NumSteps \in Nat \ {0}
    /\ MaxRestartAttempts \in Nat /\ TimeLimit \in BOOLEAN
    /\ Replacers \in SUBSET {"none", "mock", "gemini"}
    /\ MaxFaults \in Nat

VARIABLES
    replacer,          \* node_replacer_cls of this run
    phase,             \* where launch_then_run_with_recovery is
    launch_count,
    reached,           \* rank -> barriers the actor has arrived at
    fault,             \* rank -> what went wrong with the actor
    faults,            \* faults injected so far
    loop,              \* task_train_loop
    liveness,          \* task_check_liveness
    failed_node_ips,   \* of failure_event
    abnormal,          \* nodes the platform reports as having a bad GPU
    bad_pods,          \* GeminiNodeReplacer._bad_pods
    replacing          \* the platform has a pod replacement under way

driverVars   == <<phase, launch_count, failed_node_ips>>
actorVars    == <<reached, fault, faults>>
taskVars     == <<loop, liveness>>
platformVars == <<abnormal, bad_pods, replacing>>
vars == <<replacer, driverVars, actorVars, taskVars, platformVars>>

Ranks == 0 .. NumActors - 1
Launcher == 0
MaxLaunchAttempts == MaxRestartAttempts + 1
LastBarrier == NumSteps + 2

Phases == {"launch", "wait", "join", "failed", "cancel", "evict", "provision",
           "cluster_ready", "sleep", "returned", "exhausted", "raised"}

Init ==
    /\ replacer \in Replacers
    /\ phase = "launch" /\ launch_count = 0 /\ failed_node_ips = {}
    /\ reached = [r \in Ranks |-> 0] /\ fault = [r \in Ranks |-> "none"] /\ faults = 0
    /\ loop = "running" /\ liveness = "polling"
    /\ abnormal = {} /\ bad_pods = {} /\ replacing = FALSE

----------------------------------------------------------------------------
\* The actors.

\* Waiting in a barrier somebody has not arrived at.  cpu_barrier blocks the
\* actor's event loop: no remote call is answered meanwhile.
Blocked(r) == \E q \in Ranks : reached[q] < reached[r]
InBarrierWithFaulty(r) == \E q \in Ranks : reached[q] < reached[r] /\ fault[q] # "none"
Returned(r) == reached[r] = LastBarrier /\ ~ Blocked(r) /\ fault[r] = "none"

\* retry flags: last_progress_time is None before the first step,
\* train_step_finished is set after the last one.
Progressed(r) == reached[r] > 0
TrainStepFinished(r) == reached[r] > NumSteps /\ ~ (reached[r] = NumSteps + 1 /\ Blocked(r))

Running == phase \in {"wait", "join"}

Arrive(r) ==
    /\ Running
    /\ fault[r] = "none" /\ ~ Blocked(r) /\ reached[r] < LastBarrier
    /\ reached' = [reached EXCEPT ![r] = @ + 1]
    /\ UNCHANGED <<replacer, driverVars, fault, faults, taskVars, platformVars>>

\* The process dies, its coroutine raises, or an await in it never returns.
\* A dead process may come from a GPU the platform flags.
Fault(r) ==
    /\ Running /\ faults < MaxFaults
    /\ fault[r] = "none" /\ ~ Blocked(r) /\ ~ Returned(r)
    /\ \E f \in {"dead", "raised", "hung"} :
          /\ fault' = [fault EXCEPT ![r] = f]
          /\ \/ UNCHANGED abnormal
             \/ f = "dead" /\ abnormal' = abnormal \cup {r}
    /\ faults' = faults + 1
    /\ UNCHANGED <<replacer, driverVars, reached, taskVars, bad_pods, replacing>>

\* torch.distributed gives up on a peer that will not come (connection closed,
\* or torch_dist_timeout_minutes).
PeerError(r) ==
    /\ Running
    /\ fault[r] = "none" /\ InBarrierWithFaulty(r)
    /\ fault' = [fault EXCEPT ![r] = "raised"]
    /\ UNCHANGED <<replacer, driverVars, reached, faults, taskVars, platformVars>>

----------------------------------------------------------------------------
\* RayTrainGroup.train_loop: one future after the other, in rank order.

AwaitedUpTo(r) == \A q \in Ranks : q < r => Returned(q)

TrainLoopDone ==
    /\ Running /\ loop = "running"
    /\ \/ (\A r \in Ranks : Returned(r)) /\ loop' = "returned"
       \/ /\ \E r \in Ranks : AwaitedUpTo(r) /\ fault[r] \in {"dead", "raised"}
          /\ loop' = "crash"
    /\ UNCHANGED <<replacer, driverVars, actorVars, liveness, platformVars>>

\* RayTrainGroup.check_liveness: one poll of actor 0 that ends the task.  A
\* dead actor fails the call; a finished one ends the check; an actor that
\* makes no progress is reported once a first step has begun.
Stuck(r) == fault[r] \in {"hung", "raised"}
HangMissed == TimeLimit /\ fault[0] = "raised" /\ Progressed(0) /\ ~ TrainStepFinished(0)
HangSeen == TimeLimit /\ Stuck(0) /\ Progressed(0) /\ ~ TrainStepFinished(0)

CheckLiveness ==
    /\ phase = "wait" /\ liveness = "polling"
    /\ \/ fault[0] = "dead" /\ liveness' = "crash"
       \/ fault[0] # "dead" /\ ~ Blocked(0) /\ TrainStepFinished(0) /\ liveness' = "none"
       \/ HangSeen /\ liveness' = "hang"
    /\ UNCHANGED <<replacer, driverVars, actorVars, loop, platformVars>>

----------------------------------------------------------------------------
\* launch_then_run_with_recovery.

Launch ==
    /\ phase = "launch"
    /\ launch_count' = launch_count + 1
    /\ reached' = [r \in Ranks |-> 0] /\ fault' = [r \in Ranks |-> "none"]
    /\ loop' = "running" /\ liveness' = "polling"
    /\ failed_node_ips' = {}
    /\ phase' = "wait"
    /\ UNCHANGED <<replacer, faults, platformVars>>

\* asyncio.wait came back with the liveness check among the finished tasks: no
\* event means the training is over but for the final save, which is joined.
NoJoin == "returned"
JoinTraining == "join"

LivenessFirst ==
    /\ phase = "wait" /\ liveness # "polling"
    /\ phase' = IF liveness = "none" THEN JoinTraining ELSE "failed"
    /\ failed_node_ips' = IF liveness = "hang" THEN {0} ELSE {}
    /\ UNCHANGED <<replacer, launch_count, actorVars, taskVars, platformVars>>

\* It came back with the training loop only, or the join ends.
LoopFirst ==
    /\ \/ phase = "wait" /\ liveness = "polling"
       \/ phase = "join"
    /\ loop # "running"
    /\ phase' = IF loop = "returned" THEN "returned" ELSE "failed"
    /\ UNCHANGED <<replacer, launch_count, failed_node_ips, actorVars, taskVars,
                   platformVars>>

NoRetryLeft == launch_count >= MaxRestartAttempts
OneMoreLaunch == launch_count > MaxLaunchAttempts
AttemptsExhausted == launch_count >= MaxLaunchAttempts

GiveUpOrRestart ==
    /\ phase = "failed"
    /\ phase' = IF AttemptsExhausted THEN "exhausted" ELSE "cancel"
    /\ UNCHANGED <<replacer, launch_count, failed_node_ips, actorVars, taskVars,
                   platformVars>>

\* Cancel what is left of both tasks, shut Ray down: every actor is gone.
Shutdown ==
    /\ phase = "cancel"
    /\ reached' = [r \in Ranks |-> 0] /\ fault' = [r \in Ranks |-> "none"]
    /\ phase' = IF replacer = "none" THEN "sleep" ELSE "evict"
    /\ UNCHANGED <<replacer, launch_count, failed_node_ips, faults, taskVars, platformVars>>

----------------------------------------------------------------------------
\* The node replacers.

EvictMock ==
    /\ phase = "evict" /\ replacer = "mock"
    /\ phase' = "provision"
    /\ UNCHANGED <<replacer, launch_count, failed_node_ips, actorVars, taskVars,
                   platformVars>>

\* evict_nodes ignores its argument and asks the platform.  Without a bad node
\* it returns before anything is assigned; a bad launcher exits.
EvictGemini ==
    /\ phase = "evict" /\ replacer = "gemini"
    /\ IF abnormal = {}
       THEN phase' = "provision" /\ UNCHANGED <<bad_pods, replacing>>
       ELSE /\ bad_pods' = abnormal
            /\ IF Launcher \in abnormal
               THEN phase' = "raised" /\ UNCHANGED replacing
               ELSE phase' = "provision" /\ replacing' = TRUE
    /\ UNCHANGED <<replacer, launch_count, failed_node_ips, actorVars, taskVars, abnormal>>

\* provision_nodes: wait for the replacement of _bad_pods, if there are any.
\* The platform finishes it, or recovery_max_wait passes first; without one
\* under way every poll answers errcode 9999 until it has.
NothingCounted == failed_node_ips = {}
NothingToProvision == replacer = "mock" \/ bad_pods = {}

Provision ==
    /\ phase = "provision"
    /\ \/ /\ NothingToProvision
          /\ phase' = "cluster_ready"
          /\ UNCHANGED <<abnormal, replacing>>
       \/ /\ ~ NothingToProvision /\ replacing
          /\ abnormal' = abnormal \ bad_pods /\ replacing' = FALSE
          /\ phase' = "cluster_ready"
       \/ /\ ~ NothingToProvision
          /\ phase' = "raised"
          /\ UNCHANGED <<abnormal, replacing>>
    /\ UNCHANGED <<replacer, launch_count, failed_node_ips, actorVars, taskVars, bad_pods>>

\* wait_cluster_ready: enough nodes joined, or the 300 s are over and the
\* driver raises.  Gemini does not look when _bad_pods is empty.
WaitClusterReady ==
    /\ phase = "cluster_ready"
    /\ \/ phase' = "sleep"
       \/ (replacer = "mock" \/ bad_pods # {}) /\ phase' = "raised"
    /\ UNCHANGED <<replacer, launch_count, failed_node_ips, actorVars, taskVars,
                   platformVars>>

Relaunch ==
    /\ phase = "sleep"
    /\ phase' = "launch"
    /\ UNCHANGED <<replacer, launch_count, failed_node_ips, actorVars, taskVars,
                   platformVars>>

\* Actor 0 hangs where no check looks: before its first step (no
\* last_progress_time) or after its last (train_step_finished), or there is no
\* time limit at all.
BlindSpot ==
    fault[0] = "hung" /\ (~ TimeLimit \/ ~ Progressed(0) \/ TrainStepFinished(0))

\* The driver is done, or polls and awaits for ever.
Decided == phase \in {"returned", "exhausted", "raised"}
Idle == (Decided \/ BlindSpot) /\ UNCHANGED vars

----------------------------------------------------------------------------
ActorStep == \E r \in Ranks : Arrive(r) \/ PeerError(r)
DriverStep ==
    \/ Launch \/ LivenessFirst \/ LoopFirst \/ GiveUpOrRestart \/ Shutdown
    \/ EvictMock \/ EvictGemini \/ Provision \/ WaitClusterReady \/ Relaunch
TaskStep == TrainLoopDone \/ CheckLiveness

Next == ActorStep \/ TaskStep \/ DriverStep \/ (\E r \in Ranks : Fault(r)) \/ Idle

\* Actors run, tasks poll and the driver goes on; nothing has to fail.
Spec == Init /\ [][Next]_vars
             /\ WF_vars(ActorStep) /\ WF_vars(TrainLoopDone) /\ WF_vars(CheckLiveness)
             /\ WF_vars(DriverStep)

----------------------------------------------------------------------------
\* Properties.

\* The variables hold what the code's attributes can hold.
TypeOK ==
    /\ replacer \in Replacers /\ phase \in Phases
    /\ launch_count \in 0 .. MaxLaunchAttempts
    /\ failed_node_ips \in SUBSET Ranks
    /\ reached \in [Ranks -> 0 .. LastBarrier]
    /\ fault \in [Ranks -> {"none", "hung", "dead", "raised"}]
    /\ faults \in 0 .. MaxFaults
    /\ loop \in {"running", "returned", "crash"}
    /\ liveness \in {"polling", "none", "hang", "crash"}
    /\ abnormal \in SUBSET Ranks /\ bad_pods \in SUBSET Ranks /\ replacing \in BOOLEAN

\* The driver returns only what a complete run returned: every actor, past the
\* final save, whichever of the two racing tasks woke the driver.
ReturnsOnlyComplete == phase = "returned" => \A r \in Ranks : Returned(r)

\* Attempts are spent on real failures only: the driver gives up after as many
\* faulty launches as max_restart_attempts allows, never earlier.
ExhaustedForCause == phase = "exhausted" => faults > MaxRestartAttempts

\* A run is not relaunched onto a node the platform has reported, although the
\* failure event of a crash names no node at all.
NoBadNodeReused == phase = "sleep" /\ replacer = "gemini" => abnormal = {}

\* Whatever fails, the driver ends up returning, restarting or giving up, but
\* for a hang of actor 0 in the blind spot of the check.
EventuallyDecided == <>[](Decided \/ BlindSpot)

\* "If all restart attempts are exhausted or the cluster fails to recover":
\* no other reason to raise.  The cluster has recovered when nothing is being
\* replaced and no node is reported bad.
RaisesForCause ==
    [][phase = "provision" /\ phase' = "raised" => replacing \/ abnormal # {}]_vars
=============================================================================
