------------------------- MODULE TrainerRetryProofs -------------------------
(***************************************************************************)
(* Proofs about TrainerRetry: whatever the actors, the two racing tasks    *)
(* and the platform do, the driver returns only complete runs, counts its  *)
(* attempts right and reuses no node it was told is bad.                   *)
(***************************************************************************)
EXTENDS TrainerRetry, TLAPS

----------------------------------------------------------------------------
\* Attempts.  A launch is only prepared while one is left, and each launch
\* that ended in a failure had a fault of its own.

Preparing == phase \in {"launch", "cancel", "evict", "provision", "cluster_ready", "sleep"}
AttemptLeft == Preparing => launch_count < MaxLaunchAttempts

SomeFault == \E r \in Ranks : fault[r] # "none"
TasksHonest == Running => /\ loop = "crash" => SomeFault
                          /\ liveness \in {"hang", "crash"} => SomeFault
FaultsPaid ==
    /\ Running => faults >= launch_count - 1
    /\ Running /\ SomeFault => faults >= launch_count
    /\ phase = "failed" \/ Preparing => faults >= launch_count
    /\ phase = "exhausted" => faults > MaxRestartAttempts

AttemptInv == TypeOK /\ AttemptLeft /\ TasksHonest /\ FaultsPaid

\* Where a launch is over, or not yet begun, nothing is running.
LEMMA RanksNonEmpty == 0 \in Ranks
BY TrainerRetryAssumption DEF TrainerRetryAssumption, Ranks

LEMMA InitAttemptInv == Init => AttemptInv
<1>. SUFFICES ASSUME Init PROVE AttemptInv
  OBVIOUS
<1>. USE TrainerRetryAssumption DEF TrainerRetryAssumption
<1>1. TypeOK
  <2>1. launch_count \in 0 .. MaxLaunchAttempts /\ reached \in [Ranks -> 0 .. LastBarrier]
    BY DEF Init, MaxLaunchAttempts, LastBarrier
  <2>2. fault \in [Ranks -> {"none", "hung", "dead", "raised"}] /\ faults \in 0 .. MaxFaults
    BY DEF Init
  <2>. QED  BY <2>1, <2>2 DEF Init, TypeOK, Phases
<1>2. AttemptLeft /\ TasksHonest /\ FaultsPaid
  BY DEF Init, AttemptLeft, TasksHonest, FaultsPaid, Preparing, Running, MaxLaunchAttempts
<1>. QED  BY <1>1, <1>2 DEF AttemptInv

\* Steps of the actors: they move, or fail and are counted, or fail after a
\* peer that was counted.
LEMMA ActorAttemptInv ==
    ASSUME AttemptInv, NEW r \in Ranks, Arrive(r) \/ Fault(r) \/ PeerError(r)
    PROVE  AttemptInv'
<1>. USE TrainerRetryAssumption DEF TrainerRetryAssumption, AttemptInv
<1>1. TypeOK'
  <2>1. CASE Arrive(r)
    BY <2>1 DEF Arrive, TypeOK, driverVars, taskVars, platformVars, LastBarrier
  <2>2. CASE Fault(r)
    BY <2>2 DEF Fault, TypeOK, driverVars, taskVars
  <2>3. CASE PeerError(r)
    BY <2>3 DEF PeerError, TypeOK, driverVars, taskVars, platformVars
  <2>. QED  BY <2>1, <2>2, <2>3
<1>2. Running /\ UNCHANGED <<phase, launch_count, loop, liveness>>
  BY DEF Arrive, Fault, PeerError, driverVars, taskVars
<1>3. SomeFault => SomeFault'
  BY DEF Arrive, Fault, PeerError, SomeFault, TypeOK
<1>4. /\ faults' >= faults
      /\ SomeFault' /\ ~SomeFault => faults' = faults + 1
  BY DEF Arrive, Fault, PeerError, SomeFault, InBarrierWithFaulty, TypeOK
<1>5. AttemptLeft' /\ TasksHonest'
  BY <1>2, <1>3 DEF AttemptLeft, TasksHonest, Preparing, Running
<1>6. FaultsPaid'
  BY <1>1, <1>2, <1>3, <1>4 DEF FaultsPaid, Preparing, Running, TypeOK, MaxLaunchAttempts
<1>. QED  BY <1>1, <1>5, <1>6

\* Steps of the two tasks: they end in a failure only where there is a fault.
LEMMA TaskAttemptInv ==
    ASSUME AttemptInv, TrainLoopDone \/ CheckLiveness
    PROVE  AttemptInv'
<1>. USE TrainerRetryAssumption DEF TrainerRetryAssumption, AttemptInv
<1>1. TypeOK'
  BY DEF TrainLoopDone, CheckLiveness, TypeOK, driverVars, actorVars, platformVars
<1>2. UNCHANGED <<phase, launch_count, fault, faults>>
  BY DEF TrainLoopDone, CheckLiveness, driverVars, actorVars
<1>3. AttemptLeft' /\ FaultsPaid'
  BY <1>2 DEF AttemptLeft, FaultsPaid, Preparing, Running, SomeFault
<1>4. TasksHonest'
  BY <1>2, RanksNonEmpty
  DEF TrainLoopDone, CheckLiveness, TasksHonest, Running, SomeFault, HangSeen, Stuck
<1>. QED  BY <1>1, <1>3, <1>4

\* The relaunch and the replacers between two launches.
LEMMA BetweenAttemptInv ==
    ASSUME AttemptInv,
           Shutdown \/ EvictMock \/ EvictGemini \/ Provision \/ WaitClusterReady \/ Relaunch
    PROVE  AttemptInv'
<1>. USE TrainerRetryAssumption DEF TrainerRetryAssumption, AttemptInv
<1>1. TypeOK'
  <2>1. CASE Shutdown
    BY <2>1 DEF Shutdown, TypeOK, taskVars, platformVars, Phases, LastBarrier
  <2>2. CASE EvictMock \/ EvictGemini
    BY <2>2 DEF EvictMock, EvictGemini, TypeOK, actorVars, taskVars, platformVars, Phases
  <2>3. CASE Provision
    BY <2>3 DEF Provision, TypeOK, actorVars, taskVars, Phases
  <2>4. CASE WaitClusterReady \/ Relaunch
    BY <2>4 DEF WaitClusterReady, Relaunch, TypeOK, actorVars, taskVars, platformVars, Phases
  <2>. QED  BY <2>1, <2>2, <2>3, <2>4
<1>2. /\ Preparing /\ (Preparing' \/ phase' = "raised")
      /\ UNCHANGED <<launch_count, faults>>
  BY DEF Shutdown, EvictMock, EvictGemini, Provision, WaitClusterReady, Relaunch, Preparing,
         actorVars
<1>3. AttemptLeft' /\ TasksHonest' /\ FaultsPaid'
  BY <1>2 DEF AttemptLeft, TasksHonest, FaultsPaid, Preparing, Running
<1>. QED  BY <1>1, <1>3

\* A launch takes the attempt that was left; its end decides about the next.
LEMMA LaunchAttemptInv ==
    ASSUME AttemptInv, Launch \/ LivenessFirst \/ LoopFirst \/ GiveUpOrRestart
    PROVE  AttemptInv'
<1>. USE TrainerRetryAssumption DEF TrainerRetryAssumption, AttemptInv
<1>1. CASE Launch
  <2>1. TypeOK'
    BY <1>1 DEF Launch, TypeOK, AttemptLeft, Preparing, platformVars, Phases, LastBarrier,
                MaxLaunchAttempts
  <2>2. ~SomeFault' /\ phase' = "wait" /\ launch_count' = launch_count + 1 /\ faults' = faults
    BY <1>1 DEF Launch, SomeFault
  <2>3. faults >= launch_count
    BY <1>1 DEF Launch, FaultsPaid, Preparing
  <2>4. AttemptLeft' /\ TasksHonest' /\ FaultsPaid'
    BY <1>1, <2>2, <2>3
    DEF Launch, AttemptLeft, TasksHonest, FaultsPaid, Preparing, Running, TypeOK,
        MaxLaunchAttempts
  <2>. QED  BY <2>1, <2>4
<1>2. CASE LivenessFirst \/ LoopFirst
  <2>1. TypeOK'
    BY <1>2, RanksNonEmpty
    DEF LivenessFirst, LoopFirst, JoinTraining, TypeOK, actorVars, taskVars, platformVars, Phases
  <2>2. /\ Running /\ UNCHANGED <<launch_count, fault, faults, loop, liveness>>
        /\ phase' \in {"join", "returned"} \/ (phase' = "failed" /\ SomeFault)
    BY <1>2 DEF LivenessFirst, LoopFirst, JoinTraining, TasksHonest, Running, TypeOK, actorVars,
                taskVars
  <2>3. AttemptLeft' /\ TasksHonest' /\ FaultsPaid'
    BY <2>2 DEF AttemptLeft, TasksHonest, FaultsPaid, Preparing, Running, SomeFault
  <2>. QED  BY <2>1, <2>3
<1>3. CASE GiveUpOrRestart
  <2>1. TypeOK'
    BY <1>3 DEF GiveUpOrRestart, TypeOK, actorVars, taskVars, platformVars, Phases
  <2>2. AttemptLeft' /\ TasksHonest' /\ FaultsPaid'
    BY <1>3 DEF GiveUpOrRestart, AttemptsExhausted, AttemptLeft, TasksHonest, FaultsPaid,
                Preparing, Running, TypeOK, MaxLaunchAttempts, actorVars
  <2>. QED  BY <2>1, <2>2
<1>. QED  BY <1>1, <1>2, <1>3

LEMMA NextAttemptInv == AttemptInv /\ [Next]_vars => AttemptInv'
<1>. SUFFICES ASSUME AttemptInv, [Next]_vars PROVE AttemptInv'
  OBVIOUS
<1>1. CASE UNCHANGED vars
  BY <1>1 DEF AttemptInv, TypeOK, AttemptLeft, TasksHonest, FaultsPaid, Preparing, Running,
              SomeFault, vars, driverVars, actorVars, taskVars, platformVars
<1>2. CASE Next
  BY <1>1, <1>2, ActorAttemptInv, TaskAttemptInv, BetweenAttemptInv, LaunchAttemptInv
  DEF Next, ActorStep, TaskStep, DriverStep, Idle
<1>. QED  BY <1>1, <1>2

\* The driver's attributes keep their shapes; launch_count never exceeds the
\* attempts that max_restart_attempts grants.
THEOREM RecoveryTypeCorrect == Spec => []TypeOK
<1>1. AttemptInv => TypeOK
  BY DEF AttemptInv
<1>. QED  BY <1>1, InitAttemptInv, NextAttemptInv, PTL DEF Spec

\* The driver gives up only after as many faults as it had restarts to spend,
\* and one more: no launch without a fault of its own counts as an attempt lost.
THEOREM GivesUpForCause == Spec => []ExhaustedForCause
<1>1. AttemptInv => ExhaustedForCause
  BY DEF AttemptInv, FaultsPaid, ExhaustedForCause
<1>. QED  BY <1>1, InitAttemptInv, NextAttemptInv, PTL DEF Spec

----------------------------------------------------------------------------
\* Completion.  Once the training loop has returned every actor is past its
\* last barrier, and nothing can happen to it any more.

AllReturned == \A r \in Ranks : Returned(r)
ReturnInv ==
    /\ Running /\ loop = "returned" => AllReturned
    /\ phase = "returned" => AllReturned

LEMMA ReturnedStays ==
    ASSUME TypeOK, AllReturned, NEW r \in Ranks
    PROVE  ~Arrive(r) /\ ~Fault(r) /\ ~PeerError(r)
<1>1. \A q \in Ranks : reached[q] = LastBarrier /\ fault[q] = "none"
  BY DEF AllReturned, Returned
<1>2. ~(reached[r] < LastBarrier) /\ ~InBarrierWithFaulty(r) /\ Returned(r)
  BY <1>1, TrainerRetryAssumption
  DEF TrainerRetryAssumption, AllReturned, InBarrierWithFaulty, LastBarrier
<1>. QED  BY <1>2 DEF Arrive, Fault, PeerError

LEMMA NextReturnInv == TypeOK /\ ReturnInv /\ [Next]_vars => ReturnInv'
<1>. SUFFICES ASSUME TypeOK, ReturnInv, [Next]_vars PROVE ReturnInv'
  OBVIOUS
<1>1. ASSUME UNCHANGED <<reached, fault>> PROVE AllReturned => AllReturned'
  BY <1>1 DEF AllReturned, Returned, Blocked
<1>2. CASE ActorStep \/ \E r \in Ranks : Fault(r)
  <2>1. ~AllReturned /\ Running /\ UNCHANGED <<phase, loop>>
    BY <1>2, ReturnedStays DEF ActorStep, Arrive, Fault, PeerError, driverVars, taskVars
  <2>. QED  BY <2>1 DEF ReturnInv, Running
<1>3. CASE TaskStep
  <2>1. UNCHANGED <<reached, fault, phase>> /\ (loop' # loop /\ loop' = "returned" => AllReturned)
    BY <1>3 DEF TaskStep, TrainLoopDone, CheckLiveness, actorVars, driverVars, AllReturned
  <2>. QED  BY <1>1, <2>1 DEF ReturnInv, Running
<1>4. CASE Launch
  BY <1>4 DEF Launch, ReturnInv, Running
<1>5. CASE LivenessFirst \/ LoopFirst
  <2>1. /\ UNCHANGED <<reached, fault, loop>> /\ Running
        /\ phase' = "returned" => loop = "returned"
    BY <1>5 DEF LivenessFirst, LoopFirst, JoinTraining, Running, actorVars, taskVars
  <2>. QED  BY <1>1, <2>1 DEF ReturnInv
<1>6. CASE \/ GiveUpOrRestart \/ Shutdown \/ EvictMock \/ EvictGemini \/ Provision
           \/ WaitClusterReady \/ Relaunch
  <2>1. phase' \notin {"wait", "join", "returned"}
    BY <1>6 DEF GiveUpOrRestart, Shutdown, EvictMock, EvictGemini, Provision, WaitClusterReady,
                Relaunch
  <2>. QED  BY <2>1 DEF ReturnInv, Running
<1>7. CASE UNCHANGED vars
  BY <1>1, <1>7 DEF ReturnInv, Running, vars, driverVars, actorVars, taskVars
<1>. QED  BY <1>2, <1>3, <1>4, <1>5, <1>6, <1>7 DEF Next, DriverStep, Idle

\* launch_then_run_with_recovery returns only what a run of every actor past
\* its final save returned, whichever task woke the driver.
THEOREM ReturnsCompleteRuns == Spec => []ReturnsOnlyComplete
<1>1. Init => ReturnInv
  BY DEF Init, ReturnInv, Running
<1>2. ReturnInv => ReturnsOnlyComplete
  BY DEF ReturnInv, AllReturned, ReturnsOnlyComplete
<1>. QED  BY <1>1, <1>2, NextReturnInv, RecoveryTypeCorrect, PTL DEF Spec

----------------------------------------------------------------------------
\* Bad nodes.  A node is reported while actors run; evict_nodes takes down all
\* that are, and provision_nodes returns only once these are replaced.

EvictInv ==
    replacer = "gemini" =>
        /\ phase = "provision" => abnormal \subseteq bad_pods
        /\ phase \in {"cluster_ready", "sleep"} => abnormal = {}

LEMMA NextEvictInv == TypeOK /\ EvictInv /\ [Next]_vars => EvictInv'
<1>. SUFFICES ASSUME TypeOK, EvictInv, [Next]_vars PROVE EvictInv'
  OBVIOUS
<1>1. replacer' = replacer
  BY DEF Next, ActorStep, Arrive, PeerError, TaskStep, TrainLoopDone, CheckLiveness, DriverStep,
         Launch, LivenessFirst, LoopFirst, GiveUpOrRestart, Shutdown, EvictMock, EvictGemini,
         Provision, WaitClusterReady, Relaunch, Fault, Idle, vars
<1>2. CASE ActorStep \/ TaskStep \/ \E r \in Ranks : Fault(r)
  <2>1. phase' = phase
    BY <1>2 DEF ActorStep, Arrive, PeerError, TaskStep, TrainLoopDone, CheckLiveness, Fault,
                driverVars
  <2>2. phase \in {"provision", "cluster_ready", "sleep"} => UNCHANGED <<abnormal, bad_pods>>
    BY <1>2 DEF ActorStep, Arrive, PeerError, TaskStep, TrainLoopDone, CheckLiveness, Fault,
                Running, platformVars
  <2>. QED  BY <1>1, <2>1, <2>2 DEF EvictInv
<1>3. CASE Launch \/ LivenessFirst \/ LoopFirst \/ GiveUpOrRestart
  BY <1>3 DEF Launch, LivenessFirst, LoopFirst, GiveUpOrRestart, JoinTraining, EvictInv
<1>4. CASE Shutdown \/ EvictMock
  <2>1. replacer = "gemini" => phase' = "evict"
    BY <1>4 DEF Shutdown, EvictMock
  <2>. QED  BY <1>1, <2>1 DEF EvictInv
<1>5. CASE EvictGemini
  BY <1>1, <1>5 DEF EvictGemini, EvictInv, TypeOK
<1>6. CASE Provision
  BY <1>1, <1>6 DEF Provision, NothingToProvision, EvictInv, TypeOK
<1>7. CASE WaitClusterReady \/ Relaunch
  BY <1>1, <1>7 DEF WaitClusterReady, Relaunch, EvictInv, platformVars
<1>8. CASE UNCHANGED vars
  BY <1>8 DEF EvictInv, vars, driverVars, platformVars
<1>. QED  BY <1>2, <1>3, <1>4, <1>5, <1>6, <1>7, <1>8 DEF Next, DriverStep, Idle

\* With the Gemini replacer no relaunch starts while a node it was told about
\* is still in the cluster.
THEOREM RelaunchesOnGoodNodes == Spec => []NoBadNodeReused
<1>1. Init => EvictInv
  BY DEF Init, EvictInv
<1>2. EvictInv => NoBadNodeReused
  BY DEF EvictInv, NoBadNodeReused
<1>. QED  BY <1>1, <1>2, NextEvictInv, RecoveryTypeCorrect, PTL DEF Spec
=============================================================================
