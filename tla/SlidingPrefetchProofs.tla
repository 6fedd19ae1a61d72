------------------------ MODULE SlidingPrefetchProofs ------------------------
(***************************************************************************)
(* Proofs about SlidingPrefetch, for every number of steps, epoch length,  *)
(* staleness and batch size.                                               *)
(*                                                                         *)
(* First the order: ordered collection trains the prompts of the dataset   *)
(* in their order, and a resumable source whose checkpoint is complete is  *)
(* accepted, where whole steps fill an epoch.                              *)
(*                                                                         *)
(* Then what is collected: whole groups, each prompt in one step, nothing  *)
(* too stale, nothing left over, and no stop without a cause.  In arrival  *)
(* order most of it is said of Line, the items the collection has taken    *)
(* followed by the ready queue: taking an item leaves Line as it is.  With *)
(* ordered collection it is said of each dispatch: how many of its items   *)
(* are in the buffer and how many in the queue.                            *)
(***************************************************************************)
EXTENDS SlidingPrefetch, SequenceTheorems, FiniteSetTheorems, FunctionTheorems, TLAPS

----------------------------------------------------------------------------
\* The invariants.

\* The loop never fires past its target, its target past what the step allows,
\* and has a step left while it collects or trains one.
LoopInv ==
    /\ fired_step <= fire_target /\ fire_target <= FireTarget(train_step)
    /\ pc \in {"begin_step", "fire", "collect", "train"} => train_step < TotalSteps
    /\ model_ckpt <= train_step

\* What a data-source file says is decided by its step.
SnapshotsOK ==
    \A s \in DOMAIN ds_ckpt :
        /\ ds_ckpt[s].total_dl_consumed = Committed(s)
        /\ ds_ckpt[s].current_epoch = s \div StepsPerEpoch

TypeInv == TypeOK /\ LoopInv /\ SnapshotsOK

\* Every item, wherever it is on its way, is the prompt its dispatch stands for.
ExpectedOf(k) == Expected(k[1], k[2])
TasksOK  == \A k \in DOMAIN inflight_tasks : inflight_tasks[k].raw = ExpectedOf(k)
QueueOK  == \A i \in DOMAIN ready_queue : ready_queue[i].raw = ExpectedOf(ready_queue[i].key)
BufferOK == \A k \in DOMAIN ordered_ready :
                \A i \in DOMAIN ordered_ready[k] : ordered_ready[k][i].raw = ExpectedOf(k)
StepOf(s) == [i \in 1 .. NumCollect |-> Expected(s, (i - 1) \div RbMultiplier)]
BatchOK  == ordered /\ pc = "train" =>
                /\ Len(batch) = NumCollect
                /\ \A i \in 1 .. NumCollect : batch[i].raw = StepOf(train_step)[i]
TrainedOK == ordered => \A s \in 0 .. train_step - 1 : trained_in[s] = StepOf(s)

\* The iterator stands where the next step to fire begins, unless that step
\* opens the next epoch.
Place(s) == At(s \div StepsPerEpoch, (s % StepsPerEpoch) * NumMb)
ReaderOK ==
    /\ source = "plain" => start_index = 0
    /\ pc # "failed" =>
         IF current_epoch = fired_step \div StepsPerEpoch THEN train_iter = Place(fired_step)
         ELSE fired_step % StepsPerEpoch = 0

\* The prompts of a run are read in their order until a relaunch that does not
\* resume where the checkpoint was.
InOrder == restarts = 0 \/ (source = "resumable" /\ EpochLen % NumMb = 0)
ItemsInPlace == TasksOK /\ QueueOK /\ BufferOK
OrderInv == InOrder => ItemsInPlace /\ BatchOK /\ TrainedOK /\ ReaderOK

----------------------------------------------------------------------------
\* Arithmetic.

LEMMA ConstantsOK ==
    /\ TotalSteps \in Nat \ {0} /\ StepsPerEpoch \in Nat \ {0}
    /\ MaxStale \in Nat /\ SaveInterval \in Nat \ {0}
    /\ NumMb \in Nat \ {0} /\ RbMultiplier \in Nat \ {0} /\ EpochLen \in Nat
    /\ StepsPerEpoch = EpochLen \div NumMb
    /\ MaxFailures \in Nat /\ MaxRestarts \in Nat
BY TrainerWindowAssumption, SlidingPrefetchAssumption
   DEF TrainerWindowAssumption, SlidingPrefetchAssumption

LEMMA Euclid ==
    ASSUME NEW a \in Nat, NEW b \in Nat \ {0}
    PROVE  a \div b \in Nat /\ a % b \in 0 .. b - 1 /\ a = (a \div b) * b + (a % b)
<1>1. a \div b \in Nat
  OBVIOUS
<1>2. a % b \in 0 .. b - 1
  OBVIOUS
<1>3. a % b \in Int /\ a \div b \in Int
  BY <1>1, <1>2
<1>4. a = (a \div b) * b + (a % b)
  <2>1. PICK q \in Int, r \in Int : q = a \div b /\ r = a % b
    BY <1>3
  <2>2. a = q * b + r
    BY <2>1
  <2>. QED  BY <2>1, <2>2
<1>. QED  BY <1>1, <1>2, <1>4

LEMMA Products ==
    ASSUME NEW a \in Nat, NEW b \in Nat, NEW n \in Nat
    PROVE  /\ a * n \in Nat /\ (a + b) * n = a * n + b * n /\ (a + 1) * n = a * n + n
           /\ a <= b => a * n <= b * n
<1>1. a * n \in Nat /\ b * n \in Nat /\ (a + b) * n = a * n + b * n
  OBVIOUS
<1>2. (a + 1) * n = a * n + n
  OBVIOUS
<1>3. ASSUME a <= b PROVE a * n <= b * n
  <2>1. b - a \in Nat /\ b = a + (b - a)
    BY <1>3
  <2>2. PICK d \in Nat : b = a + d
    BY <2>1
  <2>3. b * n = a * n + d * n /\ d * n \in Nat
    BY <2>2
  <2>. QED  BY <1>1, <2>3
<1>. QED  BY <1>1, <1>2, <1>3

\* Quotient and remainder are unique.
LEMMA EuclidUnique ==
    ASSUME NEW b \in Nat \ {0}, NEW q \in Nat, NEW r \in 0 .. b - 1, NEW a \in Nat,
           a = q * b + r
    PROVE  a \div b = q /\ a % b = r
<1>1. /\ a \div b \in Nat /\ a % b \in 0 .. b - 1
      /\ a = (a \div b) * b + (a % b)
  BY Euclid
<1>2. ASSUME NEW x \in Nat, NEW y \in Nat, NEW u \in 0 .. b - 1, NEW v \in 0 .. b - 1,
             x * b + u = y * b + v, x < y
      PROVE  FALSE
  <2>1. x + 1 \in Nat /\ x + 1 <= y /\ b \in Nat
    BY <1>2
  <2>2. x * b \in Nat /\ y * b \in Nat /\ (x + 1) * b = x * b + b
    BY <2>1, Products
  <2>3. (x + 1) * b <= y * b
    BY <2>1, Products
  <2>. QED  BY <1>2, <2>2, <2>3
<1>3. a \div b = q
  <2>1. PICK x \in Nat, u \in 0 .. b - 1 : x = a \div b /\ u = a % b /\ a = x * b + u
    BY <1>1
  <2>2. ~(x < q) /\ ~(q < x)
    BY <1>2, <2>1
  <2>. QED  BY <2>1, <2>2
<1>4. q * b \in Nat
  BY Products
<1>. QED  BY <1>1, <1>3, <1>4

LEMMA LesserProperties ==
    ASSUME NEW a \in Int, NEW b \in Int
    PROVE  /\ Lesser(a, b) \in {a, b} /\ Lesser(a, b) <= a /\ Lesser(a, b) <= b
BY DEF Lesser

LEMMA FireTargetProperties ==
    ASSUME NEW s \in 0 .. TotalSteps
    PROVE  /\ FireTarget(s) \in 0 .. TotalSteps
           /\ s < TotalSteps => s < FireTarget(s)
           /\ s <= FireTarget(s)
           /\ s < TotalSteps => FireTarget(s) <= FireTarget(s + 1)
BY ConstantsOK DEF FireTarget, Lesser

\* An epoch holds its whole steps, and what is left over.
LEMMA EpochHoldsSteps ==
    /\ StepsPerEpoch * NumMb \in Nat /\ StepsPerEpoch * NumMb <= EpochLen
    /\ EpochLen \in Nat \ {0} /\ NumMb <= EpochLen
    /\ EpochLen % NumMb = 0 => EpochLen = StepsPerEpoch * NumMb
<1>1. /\ EpochLen % NumMb \in 0 .. NumMb - 1
      /\ EpochLen = StepsPerEpoch * NumMb + (EpochLen % NumMb)
  BY ConstantsOK, Euclid
<1>2. 1 <= StepsPerEpoch /\ StepsPerEpoch \in Nat /\ NumMb \in Nat /\ NumMb >= 1
  BY ConstantsOK
<1>3. StepsPerEpoch * NumMb \in Nat
  BY <1>2, Products
<1>4. 1 * NumMb <= StepsPerEpoch * NumMb
  BY <1>2, Products
<1>. QED  BY <1>1, <1>2, <1>3, <1>4, ConstantsOK

\* Where whole steps fill an epoch, the position of a step is the same by
\* microbatches and by steps.
LEMMA AlignedPosition ==
    ASSUME EpochLen % NumMb = 0, NEW s \in Nat
    PROVE  /\ (s * NumMb) \div EpochLen = s \div StepsPerEpoch
           /\ (s * NumMb) % EpochLen = (s % StepsPerEpoch) * NumMb
<1>. DEFINE q == s \div StepsPerEpoch
            r == s % StepsPerEpoch
<1>1. q \in Nat /\ r \in 0 .. StepsPerEpoch - 1 /\ s = q * StepsPerEpoch + r
  BY ConstantsOK, Euclid
<1>2. EpochLen = StepsPerEpoch * NumMb /\ EpochLen \in Nat \ {0}
  BY EpochHoldsSteps
<1>. HIDE DEF q, r
<1>3. s * NumMb = (q * StepsPerEpoch) * NumMb + r * NumMb
  <2>1. q * StepsPerEpoch \in Nat /\ r \in Nat /\ NumMb \in Nat
    BY <1>1, ConstantsOK, Products
  <2>. QED  BY <1>1, <2>1, Products
<1>4. (q * StepsPerEpoch) * NumMb = q * EpochLen
  BY <1>1, <1>2, ConstantsOK
<1>5. r * NumMb \in 0 .. EpochLen - 1
  <2>1. r \in Nat /\ r + 1 \in Nat /\ r + 1 <= StepsPerEpoch
    BY <1>1, ConstantsOK
  <2>2. (r + 1) * NumMb = r * NumMb + NumMb /\ r * NumMb \in Nat
    BY <2>1, ConstantsOK, Products
  <2>3. (r + 1) * NumMb <= StepsPerEpoch * NumMb
    BY <2>1, ConstantsOK, Products
  <2>. QED  BY <1>2, <2>2, <2>3, ConstantsOK
<1>6. s * NumMb \in Nat
  BY ConstantsOK, Products
<1>7. s * NumMb = q * EpochLen + r * NumMb
  BY <1>3, <1>4
<1>8. (s * NumMb) \div EpochLen = q /\ (s * NumMb) % EpochLen = r * NumMb
  <2>1. PICK a \in Nat : a = s * NumMb
    BY <1>6
  <2>2. PICK c \in 0 .. EpochLen - 1 : c = r * NumMb
    BY <1>5
  <2>3. a = q * EpochLen + c
    BY <1>7, <2>1, <2>2
  <2>4. q \in Nat /\ EpochLen \in Nat \ {0}
    BY <1>1, <1>2
  <2>5. a \div EpochLen = q /\ a % EpochLen = c
    BY <2>3, <2>4, EuclidUnique
  <2>. QED  BY <2>1, <2>2, <2>5
<1>. QED  BY <1>8 DEF q, r

----------------------------------------------------------------------------
\* Type correctness.

LEMMA InitTypeInv == Init => TypeInv
<1>. SUFFICES ASSUME Init PROVE TypeInv
  OBVIOUS
<1>1. FireTarget(0) \in 0 .. TotalSteps /\ 0 <= FireTarget(0) /\ 0 < TotalSteps /\ 0 \in 0 .. TotalSteps
  BY ConstantsOK, FireTargetProperties
<1>2. LoopTypeOK
  BY <1>1, EmptySeq DEF Init, LoopTypeOK, TrainerPcs
<1>3. ReaderTypeOK
  BY EpochHoldsSteps DEF Init, ReaderTypeOK, NoIter, At, Prompt
<1>4. RolloutTypeOK
  BY EmptySeq DEF Init, RolloutTypeOK, EmptyDict
<1>5. DiskTypeOK
  BY <1>1, ConstantsOK DEF Init, DiskTypeOK, EmptyDict
<1>6. LoopInv /\ SnapshotsOK
  BY <1>1 DEF Init, LoopInv, SnapshotsOK, EmptyDict
<1>. QED  BY <1>2, <1>3, <1>4, <1>5, <1>6 DEF TypeInv, TypeOK

\* A call to fire stays inside its epoch and inside the target, and never
\* moves the iterator past the end of the epoch.
LEMMA ChunkBounds ==
    ASSUME TypeInv
    PROVE  /\ FireEpoch \in Nat /\ (FireEpoch + 1) * StepsPerEpoch \in Nat
           /\ fired_step = FireEpoch * StepsPerEpoch + (fired_step % StepsPerEpoch)
           /\ fired_step % StepsPerEpoch \in 0 .. StepsPerEpoch - 1
           /\ FireEpoch * StepsPerEpoch \in Nat
           /\ (FireEpoch + 1) * StepsPerEpoch = FireEpoch * StepsPerEpoch + StepsPerEpoch
           /\ ChunkEnd \in fired_step .. fire_target
           /\ ChunkEnd \in {fire_target, (FireEpoch + 1) * StepsPerEpoch}
           /\ ChunkEnd <= (FireEpoch + 1) * StepsPerEpoch
           /\ ChunkEnd - fired_step \in Nat /\ Reads \in Nat
<1>1. fired_step \in 0 .. TotalSteps /\ fire_target \in 0 .. TotalSteps /\ fired_step <= fire_target
  BY DEF TypeInv, TypeOK, LoopTypeOK, LoopInv
<1>2. fired_step \in Nat /\ StepsPerEpoch \in Nat \ {0}
  BY <1>1, ConstantsOK
<1>3. /\ FireEpoch \in Nat /\ fired_step % StepsPerEpoch \in 0 .. StepsPerEpoch - 1
      /\ fired_step = FireEpoch * StepsPerEpoch + (fired_step % StepsPerEpoch)
  BY <1>2, Euclid DEF FireEpoch
<1>4. /\ FireEpoch * StepsPerEpoch \in Nat
      /\ (FireEpoch + 1) * StepsPerEpoch = FireEpoch * StepsPerEpoch + StepsPerEpoch
  BY <1>2, <1>3, Products
<1>. DEFINE end == (FireEpoch + 1) * StepsPerEpoch
<1>5. end \in Nat /\ fired_step < end
  BY <1>2, <1>3, <1>4
<1>6. ChunkEnd = Lesser(fire_target, end)
  BY DEF ChunkEnd, FireEpoch
<1>. HIDE DEF end
<1>7. ChunkEnd \in {fire_target, end} /\ ChunkEnd <= fire_target /\ ChunkEnd <= end
  BY <1>1, <1>5, <1>6, LesserProperties
<1>8. ChunkEnd \in fired_step .. fire_target /\ ChunkEnd - fired_step \in Nat
  BY <1>1, <1>5, <1>7
<1>9. Reads \in Nat
  BY <1>8, ConstantsOK, Products DEF Reads
<1>. QED  BY <1>3, <1>4, <1>5, <1>7, <1>8, <1>9 DEF end

LEMMA ServedBounds ==
    ASSUME TypeInv
    PROVE  /\ OpenedAt \in Prompt /\ OpenedAt.at \in 0 .. EpochLen
           /\ Served \in 0 .. Reads /\ OpenedAt.at + Served \in 0 .. EpochLen
<1>1. EpochOffset \in 0 .. EpochLen /\ train_iter \in Prompt /\ FireEpoch \in Nat
  BY ChunkBounds, ConstantsOK DEF TypeInv, TypeOK, ReaderTypeOK, EpochOffset
<1>2. OpenedAt \in Prompt
  BY <1>1 DEF OpenedAt, At, Prompt
<1>3. OpenedAt.at \in 0 .. EpochLen
  BY <1>2 DEF Prompt
<1>4. Reads \in Nat
  BY ChunkBounds
<1>5. EpochLen - OpenedAt.at \in Nat
  BY <1>3, ConstantsOK
<1>6. Served \in {Reads, EpochLen - OpenedAt.at} /\ Served <= Reads /\ Served <= EpochLen - OpenedAt.at
  BY <1>4, <1>5, LesserProperties DEF Served
<1>. QED  BY <1>2, <1>3, <1>4, <1>5, <1>6, ConstantsOK

LEMMA FiredKeys ==
    ASSUME TypeInv, NEW k \in Fired
    PROVE  /\ k \in Dispatch /\ k[1] \in Nat /\ k[2] \in 0 .. NumMb - 1
           /\ k[1] \in fired_step .. ChunkEnd - 1 /\ k[1] - fired_step \in Nat
           /\ (k[1] - fired_step) * NumMb \in Nat
           /\ (k[1] - fired_step) * NumMb + k[2] < Reads
<1>1. /\ k \in Dispatch /\ k[1] \in 0 .. TotalSteps - 1 /\ k[2] \in 0 .. NumMb - 1
      /\ k[1] \in fired_step .. ChunkEnd - 1
  BY DEF Fired, Dispatch
<1>2. ChunkEnd \in Nat /\ fired_step \in Nat /\ ChunkEnd - fired_step \in Nat
  <2>1. ChunkEnd \in fired_step .. fire_target /\ ChunkEnd - fired_step \in Nat
    BY ChunkBounds
  <2>2. fired_step \in Nat /\ fire_target \in Nat
    BY DEF TypeInv, TypeOK, LoopTypeOK
  <2>. QED  BY <2>1, <2>2
<1>. DEFINE d == k[1] - fired_step
<1>3. d \in Nat /\ d + 1 \in Nat /\ d + 1 <= ChunkEnd - fired_step /\ k[1] \in Nat
  BY <1>1, <1>2, ConstantsOK
<1>4. (d + 1) * NumMb = d * NumMb + NumMb /\ d * NumMb \in Nat
  BY <1>3, ConstantsOK, Products
<1>5. (d + 1) * NumMb <= Reads
  BY <1>2, <1>3, ConstantsOK, Products DEF Reads
<1>6. d * NumMb + k[2] < Reads
  <2>. HIDE DEF d
  <2>. QED  BY <1>1, <1>4, <1>5, ChunkBounds, ConstantsOK
<1>. QED  BY <1>1, <1>3, <1>4, <1>6

LEMMA FireTypeInv == TypeInv /\ FireGenerationRequests => TypeInv'
<1>. SUFFICES ASSUME TypeInv, FireGenerationRequests PROVE TypeInv'
  OBVIOUS
<1>. USE DEF settings, learnerVars, diskVars
<1>1. /\ current_epoch' = FireEpoch /\ train_iter' = At(OpenedAt.epoch, OpenedAt.at + Served)
      /\ start_index' \in {start_index, EpochOffset}
      /\ total_dl_consumed' \in {total_dl_consumed, total_dl_consumed + Served}
      /\ UNCHANGED <<ordered, source, train_step, fire_target, steps_since_update,
                     sampler_weights, trained_in, step_target_rb, ready_queue, ordered_ready,
                     batch, model_ckpt, ds_ckpt, failures, restarts>>
      /\ pc = "fire"
  BY DEF FireGenerationRequests
<1>2. ReaderTypeOK'
  <2>1. EpochOffset \in 0 .. EpochLen /\ total_dl_consumed \in Nat /\ Served \in Nat
    BY ServedBounds, ChunkBounds, ConstantsOK DEF TypeInv, TypeOK, ReaderTypeOK, EpochOffset
  <2>2. train_iter' \in Prompt
    BY <1>1, ServedBounds DEF At, Prompt
  <2>3. total_dl_consumed' \in Nat
    BY <1>1, <2>1
  <2>. QED  BY <1>1, <2>1, <2>2, <2>3, ChunkBounds DEF TypeInv, TypeOK, ReaderTypeOK
<1>3. CASE Served < Reads
  <2>1. pc' = "failed" /\ UNCHANGED <<fired_step, inflight_tasks, attr_cache>>
    BY <1>3 DEF FireGenerationRequests
  <2>. QED  BY <1>1, <1>2, <2>1
            DEF TypeInv, TypeOK, LoopTypeOK, RolloutTypeOK, DiskTypeOK, LoopInv, SnapshotsOK,
                TrainerPcs
<1>4. CASE ~(Served < Reads)
  <2>1. /\ fired_step' = ChunkEnd /\ pc' \in {"collect", "fire"}
        /\ attr_cache' = attr_cache \cup Fired
        /\ inflight_tasks' =
              [k \in DOMAIN inflight_tasks \cup Fired |->
                 IF k \in Fired
                 THEN [phase |-> "created", raw |-> PromptOf(k), weights |-> 0]
                 ELSE inflight_tasks[k]]
    BY <1>4 DEF FireGenerationRequests
  <2>2. Served = Reads
    BY <1>4, ServedBounds, ChunkBounds
  <2>3. ASSUME NEW k \in Fired PROVE PromptOf(k) \in Prompt
    <3>. DEFINE off == (k[1] - fired_step) * NumMb
    <3>1. off \in Nat /\ k[2] \in 0 .. NumMb - 1 /\ off + k[2] < Reads
      BY FiredKeys
    <3>2. OpenedAt \in Prompt /\ OpenedAt.at \in 0 .. EpochLen /\ OpenedAt.at + Reads \in 0 .. EpochLen
      BY <2>2, ServedBounds
    <3>3. PromptOf(k) = At(OpenedAt.epoch, OpenedAt.at + off + k[2])
      BY DEF PromptOf
    <3>. HIDE DEF off
    <3>4. OpenedAt.at + off + k[2] \in 0 .. EpochLen
      BY <3>1, <3>2, ChunkBounds, ConstantsOK
    <3>. QED  BY <3>2, <3>3, <3>4 DEF At, Prompt
  <2>4. Fired \subseteq Dispatch
    BY DEF Fired
  <2>5. RolloutTypeOK'
    <3>1. \A k \in Fired : [phase |-> "created", raw |-> PromptOf(k), weights |-> 0] \in Task
      BY <2>3 DEF Task
    <3>2. \A k \in DOMAIN inflight_tasks : inflight_tasks[k] \in Task
      BY DEF TypeInv, TypeOK, RolloutTypeOK
    <3>3. inflight_tasks' \in [DOMAIN inflight_tasks' -> Task]
      BY <2>1, <3>1, <3>2
    <3>4. DOMAIN inflight_tasks' \in SUBSET Dispatch
      BY <2>1, <2>4 DEF TypeInv, TypeOK, RolloutTypeOK
    <3>. QED  BY <1>1, <2>1, <2>4, <3>3, <3>4 DEF TypeInv, TypeOK, RolloutTypeOK
  <2>6. fired_step' \in 0 .. TotalSteps /\ fired_step' <= fire_target
    <3>1. ChunkEnd \in fired_step .. fire_target
      BY ChunkBounds
    <3>2. fired_step \in 0 .. TotalSteps /\ fire_target \in 0 .. TotalSteps
      BY DEF TypeInv, TypeOK, LoopTypeOK
    <3>3. fired_step' = ChunkEnd /\ TotalSteps \in Nat
      BY <2>1, ConstantsOK
    <3>. QED  BY <3>1, <3>2, <3>3
  <2>. QED  BY <1>1, <1>2, <2>1, <2>5, <2>6
            DEF TypeInv, TypeOK, LoopTypeOK, DiskTypeOK, LoopInv, SnapshotsOK, TrainerPcs
<1>. QED  BY <1>3, <1>4

LEMMA ConstantSeq ==
    ASSUME NEW S, NEW x \in S, NEW n \in Nat
    PROVE  [i \in 1 .. n |-> x] \in Seq(S) /\ <<x>> \in Seq(S)
OBVIOUS

LEMMA TaskTypeInv == TypeInv /\ (TaskStep \/ AgentFailure) => TypeInv'
<1>. SUFFICES ASSUME TypeInv, NEW k \in DOMAIN inflight_tasks,
                     StartTask(k) \/ Complete(k) \/ Fail(k)
              PROVE  TypeInv'
  BY DEF TaskStep, AgentFailure
<1>. USE DEF taskFrame, settings, loopVars, learnerVars, readerVars, diskVars
<1>1. /\ UNCHANGED <<ordered, source, pc, train_step, fired_step, fire_target,
                     steps_since_update, sampler_weights, trained_in, current_epoch, start_index,
                     train_iter, total_dl_consumed, step_target_rb, ordered_ready, batch,
                     attr_cache, model_ckpt, ds_ckpt, restarts>>
  BY DEF StartTask, Complete, Fail
<1>2. /\ k \in Dispatch /\ inflight_tasks[k] \in Task /\ sampler_weights \in Nat
      /\ inflight_tasks \in [DOMAIN inflight_tasks -> Task]
  BY ConstantsOK DEF TypeInv, TypeOK, RolloutTypeOK, LoopTypeOK
<1>3. inflight_tasks' \in [DOMAIN inflight_tasks -> Task]
  <2>1. CASE StartTask(k)
    BY <1>2, <2>1 DEF StartTask, Task
  <2>2. ASSUME NEW p \in {"done", "failed"} PROVE [inflight_tasks[k] EXCEPT !.phase = p] \in Task
    BY <1>2 DEF Task
  <2>3. CASE Complete(k)
    BY <1>2, <2>2, <2>3 DEF Complete
  <2>4. CASE Fail(k)
    BY <1>2, <2>2, <2>4 DEF Fail
  <2>. QED  BY <2>1, <2>3, <2>4
<1>4. ready_queue' \in Seq(QueuedRolloutBatch)
  <2>1. Item(k, FALSE) \in QueuedRolloutBatch /\ Item(k, TRUE) \in QueuedRolloutBatch
    BY <1>2, FALSE \in BOOLEAN, TRUE \in BOOLEAN DEF Item, Task, QueuedRolloutBatch
  <2>2. [i \in 1 .. RbMultiplier |-> Item(k, FALSE)] \in Seq(QueuedRolloutBatch)
    BY <2>1, ConstantsOK, ConstantSeq
  <2>3. <<Item(k, TRUE)>> \in Seq(QueuedRolloutBatch)
    BY <2>1, ConstantsOK, ConstantSeq
  <2>4. ready_queue \in Seq(QueuedRolloutBatch)
    BY DEF TypeInv, TypeOK, RolloutTypeOK
  <2>5. ready_queue' \in {ready_queue, Put([i \in 1 .. RbMultiplier |-> Item(k, FALSE)]),
                         Put(<<Item(k, TRUE)>>)}
    BY DEF StartTask, Complete, Fail
  <2>6. \A q \in Seq(QueuedRolloutBatch) : Put(q) \in Seq(QueuedRolloutBatch)
    BY <2>4, ConcatProperties DEF Put
  <2>. QED  BY <2>2, <2>3, <2>4, <2>5, <2>6
<1>5. failures' \in 0 .. MaxFailures
  BY ConstantsOK DEF StartTask, Complete, Fail, TypeInv, TypeOK, DiskTypeOK
<1>. QED  BY <1>1, <1>3, <1>4, <1>5
          DEF TypeInv, TypeOK, LoopTypeOK, ReaderTypeOK, RolloutTypeOK, DiskTypeOK, LoopInv,
              SnapshotsOK

LEMMA CollectItemTypeInv == TypeInv /\ CollectItem => TypeInv'
<1>. SUFFICES ASSUME TypeInv, CollectItem PROVE TypeInv'
  OBVIOUS
<1>. USE DEF collectFrame, settings, learnerVars, readerVars, diskVars
<1>1. /\ UNCHANGED <<ordered, source, train_step, fired_step, fire_target, steps_since_update,
                     sampler_weights, trained_in, current_epoch, start_index, train_iter,
                     total_dl_consumed, step_target_rb, inflight_tasks, attr_cache, model_ckpt,
                     ds_ckpt, failures, restarts>>
      /\ pc = "collect" /\ pc' \in {"collect", "failed"}
      /\ ready_queue # <<>> /\ ready_queue' = Tail(ready_queue)
  BY DEF CollectItem, CollectFirstFinished, CollectOrdered
<1>2. /\ ready_queue \in Seq(QueuedRolloutBatch) /\ batch \in Seq(QueuedRolloutBatch)
      /\ DOMAIN ordered_ready \in SUBSET Dispatch
      /\ ordered_ready \in [DOMAIN ordered_ready -> Seq(QueuedRolloutBatch)]
  BY DEF TypeInv, TypeOK, RolloutTypeOK
<1>3. Head(ready_queue) \in QueuedRolloutBatch /\ Tail(ready_queue) \in Seq(QueuedRolloutBatch)
  BY <1>1, <1>2, HeadTailProperties
<1>4. batch' \in Seq(QueuedRolloutBatch)
  <2>1. batch' \in {batch, Append(batch, Head(ready_queue))}
    BY DEF CollectItem, CollectFirstFinished, CollectOrdered
  <2>. QED  BY <1>2, <1>3, <2>1, AppendProperties
<1>5. /\ DOMAIN ordered_ready' \in SUBSET Dispatch
      /\ ordered_ready' \in [DOMAIN ordered_ready' -> Seq(QueuedRolloutBatch)]
  <2>1. CASE UNCHANGED ordered_ready
    BY <1>2, <2>1
  <2>2. CASE CollectOrdered /\ ~ UNCHANGED ordered_ready
    <3>. DEFINE item == Head(ready_queue)
    <3>1. ordered_ready' = [k \in DOMAIN ordered_ready \cup {Slot(item)} |->
                              IF k = Slot(item) THEN Append(ItemsAt(k), item)
                              ELSE ordered_ready[k]]
      BY <2>2 DEF CollectOrdered
    <3>2. Slot(item) \in Dispatch /\ item \in QueuedRolloutBatch
      BY <1>3 DEF Slot, QueuedRolloutBatch
    <3>3. ItemsAt(Slot(item)) \in Seq(QueuedRolloutBatch)
      BY <1>2, EmptySeq DEF ItemsAt
    <3>4. Append(ItemsAt(Slot(item)), item) \in Seq(QueuedRolloutBatch)
      BY <3>2, <3>3, AppendProperties
    <3>. QED  BY <1>2, <3>1, <3>2, <3>4
  <2>3. CASE CollectFirstFinished
    BY <2>1, <2>3 DEF CollectFirstFinished
  <2>. QED  BY <2>1, <2>2, <2>3 DEF CollectItem
<1>. QED  BY <1>1, <1>3, <1>4, <1>5
          DEF TypeInv, TypeOK, LoopTypeOK, ReaderTypeOK, RolloutTypeOK, DiskTypeOK, LoopInv,
              SnapshotsOK, TrainerPcs

\* The i-th item of an ordered step.
LEMMA ItemPlace ==
    ASSUME NEW i \in 1 .. NumCollect
    PROVE  /\ (i - 1) \div RbMultiplier \in 0 .. NumMb - 1
           /\ ((i - 1) % RbMultiplier) + 1 \in 1 .. RbMultiplier
<1>1. NumMb \in Nat /\ RbMultiplier \in Nat \ {0} /\ NumCollect \in Nat
  BY ConstantsOK, Products DEF NumCollect
<1>2. i - 1 \in Nat /\ i - 1 < NumCollect
  BY <1>1
<1>. DEFINE q == (i - 1) \div RbMultiplier
            r == (i - 1) % RbMultiplier
<1>3. q \in Nat /\ r \in 0 .. RbMultiplier - 1 /\ i - 1 = q * RbMultiplier + r
  BY <1>1, <1>2, Euclid
<1>. HIDE DEF q, r
<1>4. q < NumMb
  <2>. SUFFICES ASSUME NumMb <= q PROVE FALSE
    BY <1>1, <1>3
  <2>1. NumMb * RbMultiplier <= q * RbMultiplier /\ q * RbMultiplier \in Nat
    BY <1>1, <1>3, Products
  <2>2. i - 1 < NumMb * RbMultiplier
    BY <1>2 DEF NumCollect
  <2>3. NumMb * RbMultiplier \in Nat
    BY <1>1, Products
  <2>. QED  BY <1>2, <1>3, <2>1, <2>2, <2>3
<1>5. q \in 0 .. NumMb - 1 /\ r + 1 \in 1 .. RbMultiplier
  BY <1>1, <1>3, <1>4
<1>. QED  BY <1>5 DEF q, r

\* A complete step is NumCollect items, each where its dispatch put it.
LEMMA CollectedItems ==
    ASSUME TypeInv, pc = "collect", ordered, CollectionComplete
    PROVE  /\ Collected \in Seq(QueuedRolloutBatch) /\ Len(Collected) = NumCollect
           /\ \A i \in 1 .. NumCollect :
                 \E j \in 0 .. NumMb - 1 :
                     /\ j = (i - 1) \div RbMultiplier
                     /\ <<train_step, j>> \in DOMAIN ordered_ready
                     /\ \E n \in DOMAIN ordered_ready[<<train_step, j>>] :
                           Collected[i] = ordered_ready[<<train_step, j>>][n]
<1>1. /\ NumCollect \in Nat /\ RbMultiplier \in Nat \ {0}
      /\ ordered_ready \in [DOMAIN ordered_ready -> Seq(QueuedRolloutBatch)]
  BY ConstantsOK, Products DEF NumCollect, TypeInv, TypeOK, RolloutTypeOK
<1>2. ASSUME NEW i \in 1 .. NumCollect
      PROVE  /\ (i - 1) \div RbMultiplier \in 0 .. NumMb - 1
             /\ <<train_step, (i - 1) \div RbMultiplier>> \in DOMAIN ordered_ready
             /\ ((i - 1) % RbMultiplier) + 1
                   \in DOMAIN ordered_ready[<<train_step, (i - 1) \div RbMultiplier>>]
             /\ Collected[i] = ordered_ready[<<train_step, (i - 1) \div RbMultiplier>>]
                                            [((i - 1) % RbMultiplier) + 1]
             /\ Collected[i] \in QueuedRolloutBatch
  <2>. DEFINE k == <<train_step, (i - 1) \div RbMultiplier>>
              n == ((i - 1) % RbMultiplier) + 1
  <2>1. (i - 1) \div RbMultiplier \in 0 .. NumMb - 1 /\ n \in 1 .. RbMultiplier
    BY ItemPlace
  <2>2. k \in StepKeys(train_step)
    BY <2>1 DEF StepKeys
  <2>3. Len(ItemsAt(k)) = RbMultiplier
    BY <2>2 DEF CollectionComplete, OrderedStepComplete
  <2>4. k \in DOMAIN ordered_ready
    <3>. SUFFICES ASSUME k \notin DOMAIN ordered_ready PROVE FALSE
      OBVIOUS
    <3>1. ItemsAt(k) = <<>>
      BY DEF ItemsAt
    <3>. HIDE DEF k
    <3>. QED  BY <1>1, <2>3, <3>1, EmptySeq
  <2>5. Len(ordered_ready[k]) = RbMultiplier /\ ordered_ready[k] \in Seq(QueuedRolloutBatch)
    BY <1>1, <2>3, <2>4 DEF ItemsAt
  <2>6. Collected[i] = ordered_ready[k][n]
    BY DEF Collected
  <2>. HIDE DEF k, n
  <2>7. n \in DOMAIN ordered_ready[k] /\ ordered_ready[k][n] \in QueuedRolloutBatch
    BY <2>1, <2>5, LenProperties, ElementOfSeq
  <2>8. Collected[i] \in QueuedRolloutBatch
    BY <2>6, <2>7
  <2>. QED  BY <2>1, <2>4, <2>6, <2>7, <2>8 DEF k, n
<1>3. Collected \in [1 .. NumCollect -> QueuedRolloutBatch]
  <2>1. Collected = [i \in 1 .. NumCollect |-> Collected[i]]
    BY DEF Collected
  <2>. QED  BY <1>2, <2>1
<1>4. Collected \in Seq(QueuedRolloutBatch) /\ Len(Collected) = NumCollect
  BY <1>1, <1>3
<1>. QED  BY <1>2, <1>4

LEMMA FinishCollectTypeInv == TypeInv /\ FinishCollect => TypeInv'
<1>. SUFFICES ASSUME TypeInv, FinishCollect PROVE TypeInv'
  OBVIOUS
<1>. USE DEF collectFrame, settings, learnerVars, readerVars, diskVars
<1>1. /\ UNCHANGED <<ordered, source, train_step, fired_step, fire_target, steps_since_update,
                     sampler_weights, trained_in, current_epoch, start_index, train_iter,
                     total_dl_consumed, step_target_rb, inflight_tasks, ready_queue, model_ckpt,
                     ds_ckpt, failures, restarts>>
      /\ pc = "collect" /\ pc' = "train" /\ batch' = Collected /\ CollectionComplete
      /\ attr_cache' \subseteq attr_cache
      /\ ordered_ready' = [k \in DOMAIN ordered_ready \ StepKeys(train_step) |-> ordered_ready[k]]
  BY DEF FinishCollect, AttrsLeft
<1>2. batch' \in Seq(QueuedRolloutBatch)
  <2>1. CASE ordered
    BY <1>1, <2>1, CollectedItems
  <2>2. CASE ~ordered
    BY <1>1, <2>2 DEF Collected, TypeInv, TypeOK, RolloutTypeOK
  <2>. QED  BY <2>1, <2>2
<1>3. /\ DOMAIN ordered_ready' \in SUBSET Dispatch
      /\ ordered_ready' \in [DOMAIN ordered_ready' -> Seq(QueuedRolloutBatch)]
  BY <1>1 DEF TypeInv, TypeOK, RolloutTypeOK
<1>. QED  BY <1>1, <1>2, <1>3
          DEF TypeInv, TypeOK, LoopTypeOK, ReaderTypeOK, RolloutTypeOK, DiskTypeOK, LoopInv,
              SnapshotsOK, TrainerPcs

LEMMA TrainTypeInv == TypeInv /\ Train => TypeInv'
<1>. SUFFICES ASSUME TypeInv, Train PROVE TypeInv'
  OBVIOUS
<1>. USE DEF settings, readerVars, diskVars
<1>1. /\ train_step \in 0 .. TotalSteps /\ train_step < TotalSteps /\ steps_since_update \in Nat
      /\ batch \in Seq(QueuedRolloutBatch) /\ TotalSteps \in Nat
  BY ConstantsOK DEF Train, TypeInv, TypeOK, LoopTypeOK, RolloutTypeOK, LoopInv
<1>2. train_step' \in 0 .. TotalSteps /\ steps_since_update' \in Nat /\ train_step' = train_step + 1
  BY <1>1 DEF Train
<1>3. /\ pc' \in TrainerPcs /\ pc' \notin {"begin_step", "fire", "train"}
      /\ pc' = "collect" => train_step' < TotalSteps
  BY <1>1, <1>2 DEF Train, AfterTrain, AtBoundary, TrainerPcs
<1>4. trained_in' \in [0 .. TotalSteps - 1 -> Seq(Prompt)]
  <2>. DEFINE raws == [i \in DOMAIN batch |-> batch[i].raw]
  <2>1. \A i \in 1 .. Len(batch) : batch[i].raw \in Prompt
    <3>1. \A i \in 1 .. Len(batch) : batch[i] \in QueuedRolloutBatch
      BY <1>1, ElementOfSeq
    <3>. QED  BY <3>1 DEF QueuedRolloutBatch
  <2>2. DOMAIN batch = 1 .. Len(batch) /\ Len(batch) \in Nat
    BY <1>1, LenProperties
  <2>3. raws \in [1 .. Len(batch) -> Prompt]
    BY <2>1, <2>2
  <2>4. raws \in Seq(Prompt)
    <3>. HIDE DEF raws
    <3>. QED  BY <2>2, <2>3, SeqDef
  <2>5. trained_in' = [trained_in EXCEPT ![train_step] = raws]
    BY DEF Train
  <2>. HIDE DEF raws
  <2>. QED  BY <2>4, <2>5 DEF TypeInv, TypeOK, LoopTypeOK
<1>5. fire_target <= FireTarget(train_step')
  <2>1. FireTarget(train_step) <= FireTarget(train_step + 1)
    BY <1>1, FireTargetProperties
  <2>2. FireTarget(train_step) \in 0 .. TotalSteps /\ FireTarget(train_step + 1) \in 0 .. TotalSteps
    BY <1>1, <1>2, FireTargetProperties
  <2>. QED  BY <1>1, <1>2, <2>1, <2>2 DEF TypeInv, TypeOK, LoopTypeOK, LoopInv
<1>6. /\ batch' = <<>>
      /\ UNCHANGED <<ordered, source, fired_step, fire_target, sampler_weights, current_epoch,
                     start_index, train_iter, total_dl_consumed, step_target_rb, inflight_tasks,
                     ready_queue, ordered_ready, attr_cache, model_ckpt, ds_ckpt, failures,
                     restarts>>
  BY DEF Train
<1>7. LoopInv'
  BY <1>1, <1>2, <1>3, <1>5, <1>6 DEF TypeInv, TypeOK, DiskTypeOK, LoopInv
<1>8. LoopTypeOK' /\ ReaderTypeOK' /\ RolloutTypeOK' /\ DiskTypeOK'
  BY <1>2, <1>3, <1>4, <1>6, EmptySeq
     DEF TypeInv, TypeOK, LoopTypeOK, ReaderTypeOK, RolloutTypeOK, DiskTypeOK
<1>. QED  BY <1>6, <1>7, <1>8 DEF TypeInv, TypeOK, SnapshotsOK

LEMMA LoopTypeInv ==
    TypeInv /\ (BeginStep \/ WaitAllInflight \/ UpdateWeights) => TypeInv'
<1>. SUFFICES ASSUME TypeInv, BeginStep \/ WaitAllInflight \/ UpdateWeights PROVE TypeInv'
  OBVIOUS
<1>. USE DEF settings, learnerVars, readerVars, rolloutVars, diskVars
<1>1. UNCHANGED <<ordered, source, train_step, fired_step, trained_in, current_epoch,
                  start_index, train_iter, total_dl_consumed, ready_queue, ordered_ready, batch,
                  attr_cache, model_ckpt, ds_ckpt, failures, restarts>>
  BY DEF BeginStep, WaitAllInflight, UpdateWeights
<1>2. CASE BeginStep
  <2>1. WindowTarget \in Nat
    <3>1. fire_target - fired_step \in Nat
      BY ConstantsOK DEF TypeInv, TypeOK, LoopTypeOK, LoopInv
    <3>2. (fire_target - fired_step) * NumMb \in Nat
      BY <3>1, ConstantsOK, Products
    <3>. QED  BY <3>2, ConstantsOK, Products DEF WindowTarget
  <2>. QED  BY <1>1, <1>2, <2>1
            DEF BeginStep, TypeInv, TypeOK, LoopTypeOK, ReaderTypeOK, RolloutTypeOK, DiskTypeOK,
                LoopInv, SnapshotsOK, TrainerPcs
<1>3. CASE WaitAllInflight
  BY <1>1, <1>3 DEF WaitAllInflight, EmptyDict, TypeInv, TypeOK, LoopTypeOK, ReaderTypeOK,
     RolloutTypeOK, DiskTypeOK, LoopInv, SnapshotsOK, TrainerPcs
<1>4. CASE UpdateWeights
  <2>1. /\ FireTarget(train_step) \in 0 .. TotalSteps /\ train_step \in 0 .. TotalSteps
        /\ fired_step <= fire_target /\ fire_target <= FireTarget(train_step)
        /\ fired_step \in 0 .. TotalSteps /\ fire_target \in 0 .. TotalSteps
    BY FireTargetProperties DEF TypeInv, TypeOK, LoopTypeOK, LoopInv
  <2>2. /\ pc' \in TrainerPcs /\ pc' \notin {"fire", "train"}
        /\ pc' \in {"begin_step", "collect"} => train_step < TotalSteps
    BY <1>4 DEF UpdateWeights, LoopTop, AfterLoop, TrainerPcs
  <2>3. fire_target' \in {fire_target, FireTarget(train_step)}
    BY <1>4 DEF UpdateWeights
  <2>4. sampler_weights' \in 0 .. TotalSteps /\ steps_since_update' \in Nat
    BY <1>4, <2>1 DEF UpdateWeights, Pushed
  <2>5. fired_step <= FireTarget(train_step)
    BY <2>1, ConstantsOK
  <2>6. LoopInv'
    BY <1>1, <2>1, <2>2, <2>3, <2>5 DEF TypeInv, LoopInv
  <2>7. LoopTypeOK'
    BY <1>1, <2>1, <2>2, <2>3, <2>4 DEF TypeInv, TypeOK, LoopTypeOK
  <2>. QED  BY <1>1, <1>4, <2>6, <2>7
            DEF UpdateWeights, TypeInv, TypeOK, ReaderTypeOK, RolloutTypeOK, DiskTypeOK,
                SnapshotsOK
<1>. QED  BY <1>2, <1>3, <1>4

LEMMA SaveTypeInv == TypeInv /\ (SaveModel \/ SaveData) => TypeInv'
<1>. SUFFICES ASSUME TypeInv, SaveModel \/ SaveData PROVE TypeInv'
  OBVIOUS
<1>. USE DEF saveFrame, settings, learnerVars, readerVars, rolloutVars
<1>1. /\ UNCHANGED <<ordered, source, train_step, fired_step, fire_target, steps_since_update,
                     sampler_weights, trained_in, current_epoch, start_index, train_iter,
                     total_dl_consumed, step_target_rb, inflight_tasks, ready_queue,
                     ordered_ready, batch, attr_cache, failures, restarts>>
      /\ pc' \in TrainerPcs /\ pc' \notin {"begin_step", "fire", "collect", "train"}
      /\ model_ckpt' \in {model_ckpt, train_step}
  BY DEF SaveModel, SaveData, TrainerPcs
<1>2. train_step \in 0 .. TotalSteps /\ train_step \in Nat /\ model_ckpt \in 0 .. TotalSteps
  BY ConstantsOK DEF TypeInv, TypeOK, LoopTypeOK, DiskTypeOK
<1>3. /\ DOMAIN ds_ckpt' \in SUBSET (0 .. TotalSteps)
      /\ ds_ckpt' \in [DOMAIN ds_ckpt' -> Snapshot] /\ SnapshotsOK'
  <2>. DEFINE new == [total_dl_consumed |-> Committed(train_step),
                      current_epoch |-> train_step \div StepsPerEpoch]
  <2>0. /\ DOMAIN ds_ckpt \in SUBSET (0 .. TotalSteps)
        /\ ds_ckpt \in [DOMAIN ds_ckpt -> Snapshot] /\ SnapshotsOK
    BY DEF TypeInv, TypeOK, DiskTypeOK
  <2>1. CASE UNCHANGED ds_ckpt
    BY <2>0, <2>1 DEF SnapshotsOK
  <2>2. CASE ds_ckpt' = [s \in DOMAIN ds_ckpt \cup {train_step} |->
                           IF s = train_step THEN new ELSE ds_ckpt[s]]
    <3>1. Committed(train_step) \in Nat /\ train_step \div StepsPerEpoch \in Nat
      BY <1>2, ConstantsOK, Products, Euclid DEF Committed
    <3>2. new \in Snapshot
      BY <3>1 DEF Snapshot
    <3>3. /\ new.total_dl_consumed = Committed(train_step)
          /\ new.current_epoch = train_step \div StepsPerEpoch
      OBVIOUS
    <3>. HIDE DEF new
    <3>4. SnapshotsOK'
      BY <2>0, <2>2, <3>3 DEF SnapshotsOK, Committed
    <3>. QED  BY <1>2, <2>0, <2>2, <3>2, <3>4
  <2>3. \/ UNCHANGED ds_ckpt
        \/ ds_ckpt' = [s \in DOMAIN ds_ckpt \cup {train_step} |->
                         IF s = train_step THEN new ELSE ds_ckpt[s]]
    BY DEF SaveModel, SaveData
  <2>. QED  BY <2>1, <2>2, <2>3
<1>4. model_ckpt' \in 0 .. TotalSteps /\ model_ckpt' <= train_step
  BY <1>1, <1>2 DEF TypeInv, LoopInv
<1>. QED  BY <1>1, <1>3, <1>4
          DEF TypeInv, TypeOK, LoopTypeOK, ReaderTypeOK, RolloutTypeOK, DiskTypeOK, LoopInv

\* Where the dataset factory leaves the cursor.
LEMMA FactoryCursorOK ==
    ASSUME NEW s \in Nat
    PROVE  /\ FactoryCursor(s) \in Prompt /\ FactoryCursor(s).at \in 0 .. EpochLen
           /\ FactoryCursor(s).at = (s * NumMb) % EpochLen
<1>1. s * NumMb \in Nat /\ EpochLen \in Nat \ {0}
  BY ConstantsOK, Products, EpochHoldsSteps
<1>2. (s * NumMb) \div EpochLen \in Nat /\ (s * NumMb) % EpochLen \in 0 .. EpochLen - 1
  BY <1>1, Euclid
<1>3. (s * NumMb) % EpochLen \in 0 .. EpochLen
  BY <1>1, <1>2
<1>. QED  BY <1>2, <1>3 DEF FactoryCursor, At, Prompt

LEMMA RestartTypeInv == TypeInv /\ Restart => TypeInv'
<1>. SUFFICES ASSUME TypeInv, Restart PROVE TypeInv'
  OBVIOUS
<1>. USE DEF settings, learnerVars, readerVars, diskVars
<1>1. /\ restarts' \in 0 .. MaxRestarts
      /\ inflight_tasks' = EmptyDict /\ ready_queue' = <<>> /\ ordered_ready' = EmptyDict
      /\ batch' = <<>> /\ attr_cache' = {} /\ step_target_rb' = 0
      /\ UNCHANGED <<ordered, source, model_ckpt, ds_ckpt, failures>>
  BY ConstantsOK DEF Restart, TypeInv, TypeOK, DiskTypeOK
<1>2. RolloutTypeOK' /\ DiskTypeOK' /\ SnapshotsOK'
  BY <1>1, EmptySeq DEF TypeInv, TypeOK, RolloutTypeOK, DiskTypeOK, SnapshotsOK, EmptyDict
<1>3. CASE Resumes(model_ckpt) /\ Rejected(model_ckpt)
  <2>1. /\ pc' = "failed"
        /\ UNCHANGED <<train_step, fired_step, fire_target, steps_since_update, learnerVars,
                       readerVars>>
    BY <1>3 DEF Restart
  <2>. QED  BY <1>1, <1>2, <2>1
            DEF TypeInv, TypeOK, LoopTypeOK, ReaderTypeOK, LoopInv, TrainerPcs
<1>4. CASE ~(Resumes(model_ckpt) /\ Rejected(model_ckpt))
  <2>1. /\ pc' = AfterBoot(model_ckpt)
        /\ train_step' = model_ckpt /\ fired_step' = model_ckpt
        /\ fire_target' = FireTarget(model_ckpt)
        /\ steps_since_update' = 0 /\ sampler_weights' = model_ckpt
        /\ trained_in' = [s \in 0 .. TotalSteps - 1 |->
                            IF s < model_ckpt THEN trained_in[s] ELSE <<>>]
        /\ RestartReader(model_ckpt)
    BY <1>4 DEF Restart
  <2>2. /\ model_ckpt \in 0 .. TotalSteps /\ model_ckpt \in Nat
        /\ FireTarget(model_ckpt) \in 0 .. TotalSteps /\ model_ckpt <= FireTarget(model_ckpt)
    BY ConstantsOK, FireTargetProperties DEF TypeInv, TypeOK, DiskTypeOK
  <2>3. /\ pc' \in TrainerPcs /\ pc' \notin {"fire", "train"}
        /\ pc' \in {"begin_step", "collect"} => model_ckpt < TotalSteps
    <3>1. CASE model_ckpt < FireTarget(model_ckpt)
      BY <2>1, <2>2, <3>1, ConstantsOK DEF AfterBoot, TrainerPcs
    <3>2. CASE ~(model_ckpt < FireTarget(model_ckpt))
      BY <2>1, <3>2 DEF AfterBoot, LoopTop, AfterLoop, TrainerPcs
    <3>. QED  BY <3>1, <3>2
  <2>4. trained_in' \in [0 .. TotalSteps - 1 -> Seq(Prompt)]
    BY <2>1, EmptySeq DEF TypeInv, TypeOK, LoopTypeOK
  <2>5. ReaderTypeOK'
    <3>1. CASE Resumes(model_ckpt)
      <4>1. model_ckpt \in DOMAIN ds_ckpt
        BY <1>4, <3>1 DEF Rejected
      <4>2. ds_ckpt[model_ckpt] \in Snapshot
        BY <4>1 DEF TypeInv, TypeOK, DiskTypeOK
      <4>3. /\ FactoryCursor(model_ckpt) \in Prompt
            /\ FactoryCursor(model_ckpt).at \in 0 .. EpochLen
        BY <2>2, FactoryCursorOK
      <4>. QED  BY <2>1, <3>1, <4>2, <4>3 DEF RestartReader, ReaderTypeOK, Snapshot
    <3>2. CASE ~Resumes(model_ckpt)
      BY <2>1, <3>2, ConstantsOK DEF RestartReader, ReaderTypeOK, NoIter, At, Prompt
    <3>. QED  BY <3>1, <3>2
  <2>6. LoopTypeOK' /\ LoopInv'
    BY <1>1, <2>1, <2>2, <2>3, <2>4 DEF TypeInv, TypeOK, LoopTypeOK, LoopInv
  <2>. QED  BY <1>2, <2>5, <2>6 DEF TypeInv, TypeOK
<1>. QED  BY <1>3, <1>4

LEMMA NextTypeInv == TypeInv /\ [Next]_vars => TypeInv'
<1>1. ASSUME TypeInv, UNCHANGED vars PROVE TypeInv'
  BY <1>1 DEF vars, settings, loopVars, learnerVars, readerVars, rolloutVars, diskVars, TypeInv,
     TypeOK, LoopTypeOK, ReaderTypeOK, RolloutTypeOK, DiskTypeOK, LoopInv, SnapshotsOK
<1>. QED
  BY <1>1, FireTypeInv, TaskTypeInv, CollectItemTypeInv, FinishCollectTypeInv, TrainTypeInv,
     LoopTypeInv, SaveTypeInv, RestartTypeInv DEF Next, TrainerStep, Terminated

LEMMA TypeInvHolds == Spec => []TypeInv
BY InitTypeInv, NextTypeInv, PTL DEF Spec

\* TypeOK: every variable of the loop, the reader, the controller and the disk
\* keeps to what the code's attribute can hold, for every size of the run.
THEOREM PrefetchTypeCorrect == Spec => []TypeOK
<1>1. TypeInv => TypeOK
  BY DEF TypeInv
<1>. QED  BY <1>1, TypeInvHolds, PTL

\* ResumeAccepted: where whole steps fill an epoch, a relaunch from a complete
\* checkpoint is never refused: the cursor the dataset factory computes from
\* the step is the one the resumable source asks for.
THEOREM CompleteCheckpointsResume ==
    ASSUME EpochLen % NumMb = 0 PROVE Spec => ResumeAccepted
<1>1. ASSUME TypeInv, [Next]_vars, restarts' # restarts, model_ckpt \in DOMAIN ds_ckpt
      PROVE  pc' # "failed"
  <2>1. Restart
    BY <1>1 DEF Next, TrainerStep, TaskStep, AgentFailure, Terminated, vars, BeginStep,
       FireGenerationRequests, CollectItem, CollectFirstFinished, CollectOrdered, FinishCollect,
       Train, SaveModel, SaveData, WaitAllInflight, UpdateWeights, StartTask, Complete, Fail,
       taskFrame, collectFrame, saveFrame
  <2>2. model_ckpt \in Nat
    BY <1>1, ConstantsOK DEF TypeInv, TypeOK, DiskTypeOK
  <2>3. FactoryCursor(model_ckpt).at = (model_ckpt % StepsPerEpoch) * NumMb
    BY <2>2, FactoryCursorOK, AlignedPosition
  <2>4. ~ Rejected(model_ckpt)
    BY <1>1, <2>3 DEF Rejected, TypeInv, SnapshotsOK, Committed
  <2>5. pc' = AfterBoot(model_ckpt)
    BY <2>1, <2>4 DEF Restart
  <2>. QED  BY <2>5 DEF AfterBoot, LoopTop, AfterLoop
<1>2. TypeInv /\ [Next]_vars
        => (restarts' # restarts /\ model_ckpt \in DOMAIN ds_ckpt => pc' # "failed")
  BY <1>1
<1>3. TypeInv /\ [Next]_vars
        => [restarts' # restarts /\ model_ckpt \in DOMAIN ds_ckpt => pc' # "failed"]_vars
  BY <1>2
<1>. QED  BY <1>3, TypeInvHolds, PTL DEF Spec, ResumeAccepted

----------------------------------------------------------------------------
\* Prompts in their order.

LEMMA InitOrderInv == Init => OrderInv
<1>. SUFFICES ASSUME Init PROVE OrderInv
  OBVIOUS
<1>1. ItemsInPlace /\ TrainedOK /\ BatchOK
  BY DEF Init, EmptyDict, ItemsInPlace, TasksOK, QueueOK, BufferOK, TrainedOK, BatchOK
<1>2. 0 % StepsPerEpoch = 0 /\ 0 \div StepsPerEpoch = 0
  BY ConstantsOK
<1>3. ReaderOK
  BY <1>2 DEF Init, ReaderOK
<1>. QED  BY <1>1, <1>3 DEF OrderInv

\* The iterator a call to fire reads from stands at the first step it fires.
LEMMA OpenedPlace ==
    ASSUME TypeInv, ReaderOK, pc = "fire"
    PROVE  /\ OpenedAt.epoch = FireEpoch
           /\ OpenedAt.at = (fired_step % StepsPerEpoch) * NumMb
<1>1. 0 * NumMb = 0
  BY ConstantsOK
<1>2. CASE NewEpoch
  <2>1. source \in {"plain", "resumable"}
    BY SlidingPrefetchAssumption DEF SlidingPrefetchAssumption, TypeInv, TypeOK, LoopTypeOK
  <2>2. EpochOffset = 0
    BY <2>1 DEF EpochOffset, ReaderOK
  <2>3. fired_step % StepsPerEpoch = 0
    BY <1>2 DEF NewEpoch, FireEpoch, ReaderOK
  <2>4. OpenedAt = At(FireEpoch, 0)
    BY <1>2, <2>2 DEF OpenedAt
  <2>. QED  BY <1>1, <2>3, <2>4 DEF At
<1>3. CASE ~NewEpoch
  <2>1. current_epoch = fired_step \div StepsPerEpoch /\ FireEpoch = fired_step \div StepsPerEpoch
    BY <1>3 DEF NewEpoch, FireEpoch
  <2>2. OpenedAt = Place(fired_step)
    BY <1>3, <2>1 DEF OpenedAt, ReaderOK
  <2>. QED  BY <2>1, <2>2 DEF Place, At
<1>. QED  BY <1>2, <1>3

\* What a call to fire reads for a dispatch is the prompt it stands for.
LEMMA PromptExpected ==
    ASSUME TypeInv, ReaderOK, pc = "fire", NEW k \in Fired
    PROVE  PromptOf(k) = ExpectedOf(k)
<1>. DEFINE r == fired_step % StepsPerEpoch
            d == k[1] - fired_step
<1>1. /\ FireEpoch \in Nat /\ FireEpoch * StepsPerEpoch \in Nat
      /\ fired_step = FireEpoch * StepsPerEpoch + r /\ r \in 0 .. StepsPerEpoch - 1
      /\ (FireEpoch + 1) * StepsPerEpoch = FireEpoch * StepsPerEpoch + StepsPerEpoch
      /\ ChunkEnd <= (FireEpoch + 1) * StepsPerEpoch
      /\ ChunkEnd \in fired_step .. fire_target
  BY ChunkBounds
<1>2. /\ k[1] \in Nat /\ k[1] \in fired_step .. ChunkEnd - 1 /\ d \in Nat
      /\ k[2] \in 0 .. NumMb - 1 /\ d * NumMb \in Nat
  BY FiredKeys
<1>3. fired_step \in Nat /\ fire_target \in Nat /\ StepsPerEpoch \in Nat \ {0} /\ NumMb \in Nat
  BY ConstantsOK DEF TypeInv, TypeOK, LoopTypeOK
<1>4. k[1] = fired_step + d
  BY <1>2, <1>3
<1>. HIDE DEF r, d
<1>5. r + d \in 0 .. StepsPerEpoch - 1 /\ k[1] = FireEpoch * StepsPerEpoch + (r + d)
  BY <1>1, <1>2, <1>3, <1>4
<1>6. k[1] \div StepsPerEpoch = FireEpoch /\ k[1] % StepsPerEpoch = r + d
  <2>1. FireEpoch \in Nat /\ k[1] \in Nat /\ StepsPerEpoch \in Nat \ {0}
    BY <1>1, <1>2, <1>3
  <2>. QED  BY <1>5, <2>1, EuclidUnique
<1>7. r \in Nat /\ (r + d) * NumMb = r * NumMb + d * NumMb /\ r * NumMb \in Nat
  BY <1>1, <1>2, <1>3, Products
<1>8. (r + d) * NumMb + k[2] = r * NumMb + d * NumMb + k[2]
  BY <1>7
<1>9. OpenedAt.epoch = FireEpoch /\ OpenedAt.at = r * NumMb
  BY OpenedPlace DEF r
<1>10. PromptOf(k) = At(FireEpoch, r * NumMb + d * NumMb + k[2])
  BY <1>9 DEF PromptOf, d
<1>11. ExpectedOf(k) = At(FireEpoch, (r + d) * NumMb + k[2])
  BY <1>6 DEF ExpectedOf, Expected
<1>. QED  BY <1>8, <1>10, <1>11

\* A call to fire leaves the iterator where the next call begins.
LEMMA FireReader ==
    ASSUME TypeInv, ReaderOK, FireGenerationRequests
    PROVE  ReaderOK'
<1>. DEFINE r == fired_step % StepsPerEpoch
            d == ChunkEnd - fired_step
<1>1. /\ pc = "fire" /\ current_epoch' = FireEpoch /\ UNCHANGED source
      /\ train_iter' = At(OpenedAt.epoch, OpenedAt.at + Served)
      /\ start_index' \in {start_index, EpochOffset}
  BY DEF FireGenerationRequests, settings
<1>2. source = "plain" => start_index' = 0
  BY <1>1 DEF ReaderOK, EpochOffset
<1>3. CASE Served < Reads
  <2>1. pc' = "failed"
    BY <1>3 DEF FireGenerationRequests
  <2>. QED  BY <1>1, <1>2, <2>1 DEF ReaderOK
<1>4. CASE ~(Served < Reads)
  <2>1. fired_step' = ChunkEnd /\ Served = Reads
    BY <1>4, ServedBounds, ChunkBounds DEF FireGenerationRequests
  <2>2. /\ FireEpoch \in Nat /\ FireEpoch * StepsPerEpoch \in Nat
        /\ fired_step = FireEpoch * StepsPerEpoch + r /\ r \in 0 .. StepsPerEpoch - 1
        /\ (FireEpoch + 1) * StepsPerEpoch = FireEpoch * StepsPerEpoch + StepsPerEpoch
        /\ ChunkEnd <= (FireEpoch + 1) * StepsPerEpoch
        /\ ChunkEnd \in fired_step .. fire_target /\ d \in Nat
    BY ChunkBounds
  <2>3. fired_step \in Nat /\ fire_target \in Nat /\ StepsPerEpoch \in Nat \ {0} /\ NumMb \in Nat
    BY ConstantsOK DEF TypeInv, TypeOK, LoopTypeOK
  <2>4. ChunkEnd = fired_step + d /\ ChunkEnd \in Nat
    BY <2>2, <2>3
  <2>5. Served = d * NumMb
    BY <2>1 DEF Reads
  <2>6. OpenedAt.epoch = FireEpoch /\ OpenedAt.at = r * NumMb
    BY <1>1, OpenedPlace
  <2>. HIDE DEF r, d
  <2>7. CASE ChunkEnd = (FireEpoch + 1) * StepsPerEpoch
    <3>1. FireEpoch + 1 \in Nat
      BY <2>2
    <3>2. ChunkEnd \div StepsPerEpoch = FireEpoch + 1 /\ ChunkEnd % StepsPerEpoch = 0
      <4>1. ChunkEnd \in Nat /\ StepsPerEpoch \in Nat \ {0}
        BY <2>3, <2>4
      <4>2. PICK q \in Nat : q = FireEpoch + 1
        BY <3>1
      <4>3. ChunkEnd = q * StepsPerEpoch
        BY <2>7, <4>2
      <4>4. ChunkEnd \div StepsPerEpoch = q /\ ChunkEnd % StepsPerEpoch = 0
        <5>1. q * StepsPerEpoch \in Nat
          BY <4>1, Products
        <5>2. ChunkEnd = q * StepsPerEpoch + 0 /\ 0 \in 0 .. StepsPerEpoch - 1
          BY <4>1, <4>3, <5>1
        <5>. QED  BY <4>1, <5>2, EuclidUnique
      <4>. QED  BY <4>2, <4>4
    <3>3. current_epoch' # fired_step' \div StepsPerEpoch /\ fired_step' % StepsPerEpoch = 0
      BY <1>1, <2>1, <2>2, <3>2
    <3>. QED  BY <1>1, <1>2, <3>3 DEF ReaderOK
  <2>8. CASE ChunkEnd # (FireEpoch + 1) * StepsPerEpoch
    <3>1. /\ r + d \in 0 .. StepsPerEpoch - 1
          /\ ChunkEnd = FireEpoch * StepsPerEpoch + (r + d)
      BY <2>2, <2>3, <2>4, <2>8
    <3>2. ChunkEnd \div StepsPerEpoch = FireEpoch /\ ChunkEnd % StepsPerEpoch = r + d
      BY <2>2, <2>3, <2>4, <3>1, EuclidUnique
    <3>3. (r + d) * NumMb = r * NumMb + d * NumMb
      BY <2>2, <2>3, Products
    <3>4. train_iter' = Place(ChunkEnd)
      BY <1>1, <2>5, <2>6, <3>2, <3>3 DEF Place
    <3>5. fired_step' \div StepsPerEpoch = current_epoch' /\ train_iter' = Place(fired_step')
      BY <1>1, <2>1, <3>2, <3>4
    <3>. QED  BY <1>1, <1>2, <3>5 DEF ReaderOK, Place
  <2>. QED  BY <2>7, <2>8
<1>. QED  BY <1>3, <1>4

LEMMA FireOrderInv == TypeInv /\ OrderInv /\ FireGenerationRequests => OrderInv'
<1>. SUFFICES ASSUME TypeInv, OrderInv, FireGenerationRequests, InOrder' PROVE OrderInv'
  BY DEF OrderInv
<1>. USE DEF settings, learnerVars, diskVars
<1>1. /\ UNCHANGED <<ordered, source, train_step, trained_in, ready_queue, ordered_ready,
                     batch, restarts>>
      /\ pc = "fire" /\ pc' \in {"fire", "collect", "failed"}
  BY DEF FireGenerationRequests
<1>2. ItemsInPlace /\ TrainedOK /\ ReaderOK
  BY <1>1 DEF InOrder, OrderInv
<1>3. TasksOK'
  <2>1. CASE UNCHANGED inflight_tasks
    BY <1>2, <2>1 DEF ItemsInPlace, TasksOK, ExpectedOf, Expected, At
  <2>2. CASE inflight_tasks' =
              [k \in DOMAIN inflight_tasks \cup Fired |->
                 IF k \in Fired
                 THEN [phase |-> "created", raw |-> PromptOf(k), weights |-> 0]
                 ELSE inflight_tasks[k]]
    <3>1. \A k \in Fired : PromptOf(k) = ExpectedOf(k)
      BY <1>1, <1>2, PromptExpected
    <3>2. \A k \in DOMAIN inflight_tasks' : inflight_tasks'[k].raw = ExpectedOf(k)
      BY <1>2, <2>2, <3>1 DEF ItemsInPlace, TasksOK
    <3>. QED  BY <3>2 DEF TasksOK, ExpectedOf, Expected, At
  <2>. QED  BY <2>1, <2>2 DEF FireGenerationRequests
<1>4. QueueOK' /\ BufferOK' /\ TrainedOK' /\ BatchOK'
  BY <1>1, <1>2 DEF ItemsInPlace, QueueOK, BufferOK, TrainedOK, BatchOK, ExpectedOf, Expected,
     At, StepOf
<1>5. ReaderOK'
  BY <1>2, FireReader
<1>. QED  BY <1>3, <1>4, <1>5 DEF OrderInv, ItemsInPlace

\* A sequence of one element, as a function.
LEMMA Singleton ==
    ASSUME NEW x PROVE <<x>> = [i \in 1 .. 1 |-> x]
<1>1. DOMAIN <<x>> = 1 .. 1 /\ <<x>>[1] = x
  OBVIOUS
<1>2. <<x>> \in Seq({x}) /\ Len(<<x>>) = 1
  OBVIOUS
<1>3. <<x>> \in [1 .. 1 -> {x}]
  BY <1>2
<1>4. \A f \in [1 .. 1 -> {x}] : f = [i \in 1 .. 1 |-> x]
  OBVIOUS
<1>. QED  BY <1>3, <1>4

\* A task, done or failed, puts items of its own prompt at the end of the queue.
LEMMA TaskOrderInv ==
    TypeInv /\ OrderInv /\ (TaskStep \/ AgentFailure) => OrderInv'
<1>. SUFFICES ASSUME TypeInv, OrderInv, InOrder', NEW k \in DOMAIN inflight_tasks,
                     StartTask(k) \/ Complete(k) \/ Fail(k)
              PROVE  OrderInv'
  BY DEF TaskStep, AgentFailure, OrderInv
<1>. USE DEF taskFrame, settings, loopVars, learnerVars, readerVars
<1>1. UNCHANGED <<ordered, source, pc, train_step, fired_step, trained_in, current_epoch,
                  start_index, train_iter, ordered_ready, batch, restarts>>
  BY DEF StartTask, Complete, Fail
<1>2. ItemsInPlace /\ BatchOK /\ TrainedOK /\ ReaderOK
  BY <1>1 DEF InOrder, OrderInv
<1>3. BufferOK' /\ BatchOK' /\ TrainedOK' /\ ReaderOK'
  BY <1>1, <1>2 DEF ItemsInPlace, BufferOK, BatchOK, TrainedOK, ReaderOK, ExpectedOf, Expected,
     At, StepOf, Place
<1>4. TasksOK'
  <2>1. /\ DOMAIN inflight_tasks' = DOMAIN inflight_tasks
        /\ \A j \in DOMAIN inflight_tasks : inflight_tasks'[j].raw = inflight_tasks[j].raw
    <3>1. inflight_tasks \in [DOMAIN inflight_tasks -> Task]
      BY DEF TypeInv, TypeOK, RolloutTypeOK
    <3>2. CASE StartTask(k)
      BY <3>1, <3>2 DEF StartTask, Task
    <3>3. CASE Complete(k)
      BY <3>1, <3>3 DEF Complete, Task
    <3>4. CASE Fail(k)
      BY <3>1, <3>4 DEF Fail, Task
    <3>. QED  BY <3>2, <3>3, <3>4
  <2>. QED  BY <1>2, <2>1 DEF ItemsInPlace, TasksOK, ExpectedOf, Expected, At
<1>5. QueueOK'
  <2>1. /\ k \in Dispatch /\ inflight_tasks[k] \in Task
        /\ ready_queue \in Seq(QueuedRolloutBatch)
    BY DEF TypeInv, TypeOK, RolloutTypeOK
  <2>2. ASSUME NEW b \in BOOLEAN
        PROVE  Item(k, b) \in QueuedRolloutBatch /\ Item(k, b).raw = ExpectedOf(Item(k, b).key)
    BY <1>2, <2>1 DEF Item, Task, QueuedRolloutBatch, ItemsInPlace, TasksOK
  <2>3. ASSUME NEW n \in Nat, NEW b \in BOOLEAN,
               ready_queue' = Put([i \in 1 .. n |-> Item(k, b)])
        PROVE  QueueOK'
    <3>. DEFINE items == [i \in 1 .. n |-> Item(k, b)]
    <3>1. items \in Seq(QueuedRolloutBatch) /\ Len(items) = n
      BY <2>2, ConstantSeq
    <3>2. \A i \in 1 .. n : items[i].raw = ExpectedOf(items[i].key)
      BY <2>2
    <3>3. ready_queue' = ready_queue \o items
      BY <2>3 DEF Put
    <3>. HIDE DEF items
    <3>4. \A i \in 1 .. Len(ready_queue) : ready_queue[i].raw = ExpectedOf(ready_queue[i].key)
      BY <1>2, <2>1, LenProperties DEF ItemsInPlace, QueueOK
    <3>5. ASSUME NEW i \in 1 .. Len(ready_queue) + n
          PROVE  ready_queue'[i].raw = ExpectedOf(ready_queue'[i].key)
      <4>1. Len(ready_queue) \in Nat
        BY <2>1, LenProperties
      <4>2. CASE i <= Len(ready_queue)
        <5>1. ready_queue'[i] = ready_queue[i] /\ i \in 1 .. Len(ready_queue)
          BY <2>1, <3>1, <3>3, <4>1, <4>2, ConcatProperties
        <5>. QED  BY <3>4, <5>1
      <4>3. CASE ~(i <= Len(ready_queue))
        <5>1. /\ i - Len(ready_queue) \in 1 .. n
              /\ ready_queue'[i] = items[i - Len(ready_queue)]
          BY <2>1, <3>1, <3>3, <4>1, <4>3, ConcatProperties
        <5>. QED  BY <3>2, <5>1
      <4>. QED  BY <4>2, <4>3
    <3>6. DOMAIN ready_queue' = 1 .. Len(ready_queue) + n
      BY <2>1, <3>1, <3>3, ConcatProperties, LenProperties
    <3>. QED  BY <3>5, <3>6 DEF QueueOK, ExpectedOf, Expected, At
  <2>4. CASE StartTask(k)
    BY <1>2, <2>4 DEF StartTask, ItemsInPlace, QueueOK, ExpectedOf, Expected, At
  <2>5. CASE Complete(k)
    <3>1. RbMultiplier \in Nat /\ FALSE \in BOOLEAN
      BY ConstantsOK
    <3>2. ready_queue' = Put([i \in 1 .. RbMultiplier |-> Item(k, FALSE)])
      BY <2>5 DEF Complete
    <3>. QED  BY <2>3, <3>1, <3>2
  <2>6. CASE Fail(k)
    <3>1. <<Item(k, TRUE)>> = [i \in 1 .. 1 |-> Item(k, TRUE)]
      BY Singleton
    <3>2. ready_queue' = Put([i \in 1 .. 1 |-> Item(k, TRUE)])
      BY <2>6, <3>1 DEF Fail
    <3>. QED  BY <2>3, <3>2
  <2>. QED  BY <2>4, <2>5, <2>6
<1>. QED  BY <1>3, <1>4, <1>5 DEF OrderInv, ItemsInPlace

LEMMA CollectOrderInv == TypeInv /\ OrderInv /\ CollectItem => OrderInv'
<1>. SUFFICES ASSUME TypeInv, OrderInv, CollectItem, InOrder' PROVE OrderInv'
  BY DEF OrderInv
<1>. USE DEF collectFrame, settings, learnerVars, readerVars
<1>1. /\ UNCHANGED <<ordered, source, train_step, fired_step, trained_in, current_epoch,
                     start_index, train_iter, inflight_tasks, restarts>>
      /\ pc = "collect" /\ pc' \in {"collect", "failed"}
      /\ ready_queue # <<>> /\ ready_queue' = Tail(ready_queue)
  BY DEF CollectItem, CollectFirstFinished, CollectOrdered
<1>2. ItemsInPlace /\ TrainedOK /\ ReaderOK
  BY <1>1 DEF InOrder, OrderInv
<1>3. TasksOK' /\ BatchOK' /\ TrainedOK' /\ ReaderOK'
  BY <1>1, <1>2 DEF ItemsInPlace, TasksOK, BatchOK, TrainedOK, ReaderOK, ExpectedOf, Expected,
     At, StepOf, Place
<1>4. ready_queue \in Seq(QueuedRolloutBatch) /\ ready_queue # <<>>
  BY <1>1 DEF TypeInv, TypeOK, RolloutTypeOK
<1>5. QueueOK'
  <2>1. /\ DOMAIN Tail(ready_queue) = 1 .. Len(ready_queue) - 1
        /\ DOMAIN ready_queue = 1 .. Len(ready_queue) /\ Len(ready_queue) \in Nat
        /\ \A i \in 1 .. Len(ready_queue) - 1 : Tail(ready_queue)[i] = ready_queue[i + 1]
    <3>1. /\ Tail(ready_queue) \in Seq(QueuedRolloutBatch)
          /\ Len(Tail(ready_queue)) = Len(ready_queue) - 1
          /\ \A i \in 1 .. Len(Tail(ready_queue)) : Tail(ready_queue)[i] = ready_queue[i + 1]
      BY <1>4, HeadTailProperties
    <3>. QED  BY <1>4, <3>1, LenProperties
  <2>2. \A i \in 1 .. Len(ready_queue) - 1 :
           Tail(ready_queue)[i].raw = ExpectedOf(Tail(ready_queue)[i].key)
    <3>1. \A i \in 1 .. Len(ready_queue) - 1 : i + 1 \in DOMAIN ready_queue
      BY <2>1
    <3>. QED  BY <1>2, <2>1, <3>1 DEF ItemsInPlace, QueueOK
  <2>. QED  BY <1>1, <2>1, <2>2 DEF QueueOK, ExpectedOf, Expected, At
<1>6. BufferOK'
  <2>1. CASE UNCHANGED ordered_ready
    BY <1>2, <2>1 DEF ItemsInPlace, BufferOK, ExpectedOf, Expected, At
  <2>2. CASE ~ UNCHANGED ordered_ready
    <3>. DEFINE item == Head(ready_queue)
    <3>1. ordered_ready' = [k \in DOMAIN ordered_ready \cup {item.key} |->
                              IF k = item.key THEN Append(ItemsAt(k), item)
                              ELSE ordered_ready[k]]
      BY <2>2 DEF CollectItem, CollectFirstFinished, CollectOrdered, Slot
    <3>2. item \in QueuedRolloutBatch /\ item.raw = ExpectedOf(item.key)
      <4>1. item = ready_queue[1] /\ item \in QueuedRolloutBatch /\ 1 \in DOMAIN ready_queue
        BY <1>4, HeadTailProperties, LenProperties, EmptySeq
      <4>. QED  BY <1>2, <4>1 DEF ItemsInPlace, QueueOK
    <3>. HIDE DEF item
    <3>3. /\ ItemsAt(item.key) \in Seq(QueuedRolloutBatch)
          /\ \A i \in DOMAIN ItemsAt(item.key) : ItemsAt(item.key)[i].raw = ExpectedOf(item.key)
      BY <1>2, EmptySeq DEF ItemsAt, TypeInv, TypeOK, RolloutTypeOK, ItemsInPlace, BufferOK
    <3>. DEFINE new == Append(ItemsAt(item.key), item)
    <3>4. \A i \in DOMAIN new : new[i].raw = ExpectedOf(item.key)
      <4>1. DOMAIN new = 1 .. Len(ItemsAt(item.key)) + 1
        BY <3>2, <3>3, AppendProperties, LenProperties
      <4>2. new[Len(ItemsAt(item.key)) + 1] = item
        BY <3>2, <3>3, AppendProperties
      <4>3. \A i \in 1 .. Len(ItemsAt(item.key)) : new[i] = ItemsAt(item.key)[i]
        BY <3>2, <3>3, AppendProperties
      <4>4. /\ DOMAIN ItemsAt(item.key) = 1 .. Len(ItemsAt(item.key))
            /\ Len(ItemsAt(item.key)) \in Nat
        BY <3>3, LenProperties
      <4>5. \A i \in 1 .. Len(ItemsAt(item.key)) + 1 :
               i \in 1 .. Len(ItemsAt(item.key)) \/ i = Len(ItemsAt(item.key)) + 1
        BY <4>4
      <4>. HIDE DEF new
      <4>. QED  BY <3>2, <3>3, <4>1, <4>2, <4>3, <4>4, <4>5
    <3>5. \A k \in DOMAIN ordered_ready' :
             \A i \in DOMAIN ordered_ready'[k] : ordered_ready'[k][i].raw = ExpectedOf(k)
      <4>1. ASSUME NEW k \in DOMAIN ordered_ready', NEW i \in DOMAIN ordered_ready'[k]
            PROVE  ordered_ready'[k][i].raw = ExpectedOf(k)
        <5>. HIDE DEF new
        <5>1. CASE k = item.key
          <6>1. ordered_ready'[k] = new
            BY <3>1, <5>1 DEF new
          <6>. QED  BY <3>4, <4>1, <5>1, <6>1
        <5>2. CASE k # item.key
          <6>1. k \in DOMAIN ordered_ready /\ ordered_ready'[k] = ordered_ready[k]
            BY <3>1, <4>1, <5>2
          <6>. QED  BY <1>2, <4>1, <6>1 DEF ItemsInPlace, BufferOK
        <5>. QED  BY <5>1, <5>2
      <4>. QED  BY <4>1
    <3>. QED  BY <3>5 DEF BufferOK, ExpectedOf, Expected, At
  <2>. QED  BY <2>1, <2>2
<1>. QED  BY <1>3, <1>5, <1>6 DEF OrderInv, ItemsInPlace

LEMMA FinishCollectOrderInv == TypeInv /\ OrderInv /\ FinishCollect => OrderInv'
<1>. SUFFICES ASSUME TypeInv, OrderInv, FinishCollect, InOrder' PROVE OrderInv'
  BY DEF OrderInv
<1>. USE DEF collectFrame, settings, learnerVars, readerVars
<1>1. /\ UNCHANGED <<ordered, source, train_step, fired_step, trained_in, current_epoch,
                     start_index, train_iter, inflight_tasks, ready_queue, restarts>>
      /\ pc = "collect" /\ pc' = "train" /\ batch' = Collected /\ CollectionComplete
      /\ ordered_ready' = [k \in DOMAIN ordered_ready \ StepKeys(train_step) |-> ordered_ready[k]]
  BY DEF FinishCollect
<1>2. ItemsInPlace /\ TrainedOK /\ ReaderOK
  BY <1>1 DEF InOrder, OrderInv
<1>3. TasksOK' /\ QueueOK' /\ BufferOK' /\ TrainedOK' /\ ReaderOK'
  BY <1>1, <1>2 DEF ItemsInPlace, TasksOK, QueueOK, BufferOK, TrainedOK, ReaderOK, ExpectedOf,
     Expected, At, StepOf, Place
<1>4. ordered => Len(Collected) = NumCollect
  BY <1>1, <1>2, CollectedItems
<1>5. ASSUME NEW i \in 1 .. NumCollect, ordered
      PROVE  Collected[i].raw = StepOf(train_step)[i]
  <2>1. PICK j \in 0 .. NumMb - 1 :
           /\ j = (i - 1) \div RbMultiplier
           /\ <<train_step, j>> \in DOMAIN ordered_ready
           /\ \E n \in DOMAIN ordered_ready[<<train_step, j>>] :
                 Collected[i] = ordered_ready[<<train_step, j>>][n]
    BY <1>1, <1>2, <1>5, CollectedItems
  <2>2. Collected[i].raw = ExpectedOf(<<train_step, j>>)
    BY <1>2, <2>1 DEF ItemsInPlace, BufferOK
  <2>3. ExpectedOf(<<train_step, j>>) = Expected(train_step, j)
    BY DEF ExpectedOf
  <2>4. StepOf(train_step)[i] = Expected(train_step, (i - 1) \div RbMultiplier)
    BY DEF StepOf
  <2>. QED  BY <2>1, <2>2, <2>3, <2>4
<1>6. BatchOK'
  <2>1. ordered => \A i \in 1 .. NumCollect : batch'[i].raw = StepOf(train_step')[i]
    BY <1>1, <1>5
  <2>2. ordered => Len(batch') = NumCollect
    BY <1>1, <1>4
  <2>. QED  BY <1>1, <2>1, <2>2 DEF BatchOK, StepOf, Expected, At, NumCollect
<1>. QED  BY <1>3, <1>6 DEF OrderInv, ItemsInPlace

LEMMA TrainOrderInv == TypeInv /\ OrderInv /\ Train => OrderInv'
<1>. SUFFICES ASSUME TypeInv, OrderInv, Train, InOrder' PROVE OrderInv'
  BY DEF OrderInv
<1>. USE DEF settings, readerVars
<1>1. /\ UNCHANGED <<ordered, source, fired_step, current_epoch, start_index, train_iter,
                     inflight_tasks, ready_queue, ordered_ready, restarts>>
      /\ pc = "train" /\ pc' \notin {"train", "failed"} /\ train_step' = train_step + 1
      /\ trained_in' = [trained_in EXCEPT ![train_step] = [i \in DOMAIN batch |-> batch[i].raw]]
  BY DEF Train, AfterTrain, AtBoundary
<1>2. ItemsInPlace /\ BatchOK /\ TrainedOK /\ ReaderOK
  BY <1>1 DEF InOrder, OrderInv
<1>3. TasksOK' /\ QueueOK' /\ BufferOK' /\ BatchOK' /\ ReaderOK'
  BY <1>1, <1>2 DEF ItemsInPlace, TasksOK, QueueOK, BufferOK, BatchOK, ReaderOK, ExpectedOf,
     Expected, At, Place
<1>4. ASSUME ordered PROVE [i \in DOMAIN batch |-> batch[i].raw] = StepOf(train_step)
  <2>1. DOMAIN batch = 1 .. NumCollect
    <3>1. batch \in Seq(QueuedRolloutBatch) /\ Len(batch) = NumCollect
      BY <1>1, <1>2, <1>4 DEF TypeInv, TypeOK, RolloutTypeOK, BatchOK
    <3>. QED  BY <3>1, LenProperties
  <2>2. \A i \in 1 .. NumCollect : batch[i].raw = StepOf(train_step)[i]
    BY <1>1, <1>2, <1>4 DEF BatchOK
  <2>3. StepOf(train_step) = [i \in 1 .. NumCollect |-> StepOf(train_step)[i]]
    BY DEF StepOf
  <2>. QED  BY <2>1, <2>2, <2>3
<1>5. TrainedOK'
  <2>1. train_step \in Nat /\ train_step \in 0 .. TotalSteps - 1 /\ DOMAIN trained_in = 0 .. TotalSteps - 1
    BY <1>1, ConstantsOK DEF TypeInv, TypeOK, LoopTypeOK, LoopInv
  <2>2. ASSUME NEW s \in 0 .. train_step, ordered PROVE trained_in'[s] = StepOf(s)
    <3>1. CASE s = train_step
      BY <1>1, <1>4, <2>1, <2>2, <3>1
    <3>2. CASE s # train_step
      <4>1. s \in 0 .. train_step - 1
        BY <2>1, <3>2
      <4>2. trained_in'[s] = trained_in[s]
        BY <1>1, <3>2
      <4>. QED  BY <1>2, <2>2, <4>1, <4>2 DEF TrainedOK
    <3>. QED  BY <3>1, <3>2
  <2>3. 0 .. train_step' - 1 = 0 .. train_step
    BY <1>1, <2>1
  <2>. QED  BY <1>1, <2>2, <2>3 DEF TrainedOK, StepOf, Expected, At, NumCollect
<1>. QED  BY <1>3, <1>5 DEF OrderInv, ItemsInPlace

LEMMA SideOrderInv ==
    TypeInv /\ OrderInv /\ (BeginStep \/ WaitAllInflight \/ UpdateWeights \/ SaveModel \/ SaveData)
        => OrderInv'
<1>. SUFFICES ASSUME TypeInv, OrderInv, InOrder',
                     BeginStep \/ WaitAllInflight \/ UpdateWeights \/ SaveModel \/ SaveData
              PROVE  OrderInv'
  BY DEF OrderInv
<1>. USE DEF settings, learnerVars, readerVars, rolloutVars, saveFrame
<1>1. /\ UNCHANGED <<ordered, source, train_step, fired_step, trained_in, current_epoch,
                     start_index, train_iter, ready_queue, ordered_ready, batch, restarts>>
      /\ inflight_tasks' \in {inflight_tasks, EmptyDict}
      /\ pc # "failed" /\ pc' # "train"
  BY DEF BeginStep, WaitAllInflight, UpdateWeights, SaveModel, SaveData, LoopTop, AfterLoop
<1>2. ItemsInPlace /\ TrainedOK /\ ReaderOK
  BY <1>1 DEF InOrder, OrderInv
<1>3. QueueOK' /\ BufferOK' /\ BatchOK' /\ TrainedOK' /\ ReaderOK'
  BY <1>1, <1>2 DEF ItemsInPlace, QueueOK, BufferOK, BatchOK, TrainedOK, ReaderOK, ExpectedOf,
     Expected, At, StepOf, Place
<1>4. TasksOK'
  BY <1>1, <1>2 DEF ItemsInPlace, TasksOK, EmptyDict, ExpectedOf, Expected, At
<1>. QED  BY <1>3, <1>4 DEF OrderInv, ItemsInPlace

LEMMA RestartOrderInv == TypeInv /\ OrderInv /\ Restart => OrderInv'
<1>. SUFFICES ASSUME TypeInv, OrderInv, Restart, InOrder' PROVE OrderInv'
  BY DEF OrderInv
<1>. USE DEF settings, learnerVars, readerVars, diskVars
<1>1. /\ inflight_tasks' = EmptyDict /\ ready_queue' = <<>> /\ ordered_ready' = EmptyDict
      /\ restarts' = restarts + 1 /\ restarts \in Nat
      /\ UNCHANGED <<ordered, source, model_ckpt, ds_ckpt>>
  BY ConstantsOK DEF Restart, TypeInv, TypeOK, DiskTypeOK
<1>2. source = "resumable" /\ EpochLen % NumMb = 0
  BY <1>1 DEF InOrder
<1>3. TrainedOK
  BY <1>2 DEF InOrder, OrderInv
<1>4. ItemsInPlace'
  BY <1>1 DEF ItemsInPlace, TasksOK, QueueOK, BufferOK, EmptyDict
<1>5. CASE Resumes(model_ckpt) /\ Rejected(model_ckpt)
  <2>1. pc' = "failed" /\ UNCHANGED <<train_step, trained_in>>
    BY <1>5 DEF Restart
  <2>. QED  BY <1>1, <1>2, <1>3, <1>4, <2>1
            DEF OrderInv, BatchOK, TrainedOK, ReaderOK, StepOf, Expected, At
<1>6. CASE ~(Resumes(model_ckpt) /\ Rejected(model_ckpt))
  <2>1. /\ pc' = AfterBoot(model_ckpt) /\ train_step' = model_ckpt /\ fired_step' = model_ckpt
        /\ trained_in' = [s \in 0 .. TotalSteps - 1 |->
                            IF s < model_ckpt THEN trained_in[s] ELSE <<>>]
        /\ RestartReader(model_ckpt)
    BY <1>6 DEF Restart
  <2>2. /\ model_ckpt \in Nat /\ train_step \in 0 .. TotalSteps /\ model_ckpt <= train_step
        /\ TotalSteps \in Nat
    BY ConstantsOK DEF TypeInv, TypeOK, LoopTypeOK, DiskTypeOK, LoopInv
  <2>3. BatchOK'
    BY <2>1 DEF BatchOK, AfterBoot, LoopTop, AfterLoop
  <2>4. TrainedOK'
    <3>1. \A s \in 0 .. model_ckpt - 1 :
             s \in 0 .. train_step - 1 /\ s \in 0 .. TotalSteps - 1 /\ s < model_ckpt
      BY <2>2
    <3>2. ordered => \A s \in 0 .. model_ckpt - 1 : trained_in'[s] = StepOf(s)
      BY <1>3, <2>1, <3>1 DEF TrainedOK
    <3>. QED  BY <1>1, <2>1, <3>2 DEF TrainedOK, StepOf, Expected, At, NumCollect
  <2>5. ReaderOK'
    <3>1. CASE Resumes(model_ckpt)
      <4>1. current_epoch' = ds_ckpt[model_ckpt].current_epoch /\ train_iter' = FactoryCursor(model_ckpt)
        BY <2>1, <3>1 DEF RestartReader
      <4>2. ds_ckpt[model_ckpt].current_epoch = model_ckpt \div StepsPerEpoch
        BY <1>6, <3>1 DEF Rejected
      <4>3. FactoryCursor(model_ckpt) = Place(model_ckpt)
        BY <1>2, <2>2, AlignedPosition DEF FactoryCursor, Place
      <4>4. train_iter' = Place(fired_step') /\ current_epoch' = fired_step' \div StepsPerEpoch
        BY <2>1, <4>1, <4>2, <4>3
      <4>. QED  BY <1>1, <1>2, <4>4 DEF ReaderOK, Place
    <3>2. CASE ~Resumes(model_ckpt)
      <4>1. model_ckpt = 0
        BY <1>2, <2>2, <3>2 DEF Resumes
      <4>2. 0 % StepsPerEpoch = 0 /\ 0 \div StepsPerEpoch = 0
        BY ConstantsOK
      <4>3. current_epoch' = -1 /\ fired_step' = 0
        BY <2>1, <3>2, <4>1 DEF RestartReader
      <4>. QED  BY <1>1, <1>2, <4>2, <4>3 DEF ReaderOK
    <3>. QED  BY <3>1, <3>2
  <2>. QED  BY <1>4, <2>3, <2>4, <2>5 DEF OrderInv
<1>. QED  BY <1>5, <1>6

LEMMA NextOrderInv == TypeInv /\ OrderInv /\ [Next]_vars => OrderInv'
<1>1. ASSUME OrderInv, UNCHANGED vars PROVE OrderInv'
  BY <1>1 DEF vars, settings, loopVars, learnerVars, readerVars, rolloutVars, OrderInv, InOrder,
     ItemsInPlace, TasksOK, QueueOK, BufferOK, BatchOK, TrainedOK, ReaderOK, ExpectedOf,
     Expected, At, StepOf, Place
<1>. QED
  BY <1>1, FireOrderInv, TaskOrderInv, CollectOrderInv, FinishCollectOrderInv, TrainOrderInv,
     SideOrderInv, RestartOrderInv DEF Next, TrainerStep, Terminated

\* OrderedTraining: with ordered collection every step trains the prompts of
\* the dataset that are its own, in their order, whatever order the agents
\* finish in and however often a resumable run is relaunched, for every number
\* of steps, staleness and microbatches that fill an epoch.
THEOREM PromptsInOrder ==
    ASSUME EpochLen % NumMb = 0 PROVE Spec => []OrderedTraining
<1>1. TypeInv /\ OrderInv /\ [Next]_vars => (TypeInv /\ OrderInv)'
  BY NextTypeInv, NextOrderInv
<1>2. OrderInv => OrderedTraining
  BY DEF OrderInv, InOrder, TrainedOK, StepOf, OrderedTraining
<1>3. Init => TypeInv /\ OrderInv
  BY InitTypeInv, InitOrderInv
<1>. QED  BY <1>1, <1>2, <1>3, PTL DEF Spec

----------------------------------------------------------------------------
\* The invariants of collection.

Phase(k) == inflight_tasks[k].phase
Outstanding == {k \in DOMAIN inflight_tasks : Phase(k) \in {"created", "running"}}

Line == batch \o ready_queue
Clean(p) == \A i \in 1 .. p : ~ Line[i].error
Block(p) == (p - 1) \div RbMultiplier

\* The sampler has the weights of the step the window began with, and all of
\* the window is fired before the trainer collects.
StepInv ==
    /\ sampler_weights + steps_since_update = train_step
    /\ steps_since_update <= WindowSize
    /\ fire_target = FireTarget(sampler_weights)
    /\ train_step <= fired_step
    /\ pc \in {"collect", "train"} => steps_since_update < WindowSize
    /\ pc \in {"begin_step", "fire"} => steps_since_update = 0 /\ fired_step < fire_target
    /\ pc \notin {"begin_step", "fire", "failed"} => fired_step = fire_target
    /\ pc \in {"final_model", "final_data", "done"} => train_step = TotalSteps

\* The iterator is not past the place where the next step to fire begins, and
\* the resumable cursor is at that place.
ReaderInv ==
    /\ source = "plain" => start_index = 0
    /\ pc # "failed" /\ current_epoch = fired_step \div StepsPerEpoch =>
          train_iter.at <= (fired_step % StepsPerEpoch) * NumMb
    /\ pc # "failed" /\ source = "resumable" => total_dl_consumed = fired_step * NumMb

\* A task that starts finds a target to work for; one that runs has the
\* sampler's weights.
TaskInv ==
    /\ pc = "fire" \/ DOMAIN inflight_tasks # {} => step_target_rb > 0
    /\ pc \in {"update", "begin_step", "final_model", "final_data", "done"} =>
          DOMAIN inflight_tasks = {}
    /\ \A k \in DOMAIN inflight_tasks :
          /\ k[1] < fired_step
          /\ Phase(k) = "running" => inflight_tasks[k].weights = sampler_weights
          /\ Phase(k) = "failed" => failures > 0

\* An item is of a dispatch that is no longer worked on.
ItemOK(x) ==
    /\ x.key \notin Outstanding /\ x.key[1] < fired_step
    /\ x.error => failures > 0
    /\ x.weights <= train_step
QueuedInv ==
    /\ \A i \in 1 .. Len(batch) : ItemOK(batch[i]) /\ ~ batch[i].error
    /\ \A i \in 1 .. Len(ready_queue) : ItemOK(ready_queue[i])
    /\ \A k \in DOMAIN ordered_ready : \A i \in 1 .. Len(ordered_ready[k]) :
          /\ ItemOK(ordered_ready[k][i]) /\ ~ ordered_ready[k][i].error
          /\ ordered_ready[k][i].key = k
    /\ \A k \in DOMAIN ordered_ready : k \notin Outstanding /\ k[1] < fired_step

BatchInv ==
    /\ Len(batch) <= NumCollect
    /\ pc = "train" => Len(batch) = NumCollect
    /\ pc \notin {"collect", "train", "failed"} => batch = <<>>
    /\ ordered /\ pc # "train" => batch = <<>>
    /\ ~ ordered => DOMAIN ordered_ready = {}

BaseInv == TypeInv /\ StepInv /\ TaskInv /\ QueuedInv /\ BatchInv

----------------------------------------------------------------------------
\* The loop.

LEMMA WindowSizeOK ==
    WindowSize \in Nat \ {0} /\ WindowSize <= MaxStale + 1 /\ MaxStale <= WindowSize
BY ConstantsOK DEF WindowSize

RolloutSide == TaskStep \/ AgentFailure \/ UNCHANGED vars

LEMMA NextCases ==
    ASSUME [Next]_vars
    PROVE  \/ BeginStep \/ FireGenerationRequests \/ CollectItem \/ FinishCollect
           \/ Train \/ SaveModel \/ SaveData \/ WaitAllInflight \/ UpdateWeights
           \/ Restart \/ RolloutSide
BY DEF Next, TrainerStep, Terminated, RolloutSide

LEMMA RolloutFrame ==
    ASSUME RolloutSide
    PROVE  /\ UNCHANGED <<settings, loopVars, learnerVars, readerVars, diskVars>>
           /\ UNCHANGED <<step_target_rb, ordered_ready, batch, attr_cache, restarts>>
<1>1. CASE TaskStep \/ AgentFailure
  <2>1. PICK k \in DOMAIN inflight_tasks : StartTask(k) \/ Complete(k) \/ Fail(k)
    BY <1>1 DEF TaskStep, AgentFailure
  <2>2. UNCHANGED taskFrame
    BY <2>1 DEF StartTask, Complete, Fail
  <2>. QED  BY <2>2 DEF taskFrame
<1>2. CASE UNCHANGED vars
  BY <1>2 DEF vars, rolloutVars
<1>. QED  BY <1>1, <1>2 DEF RolloutSide

LEMMA TargetReached ==
    ASSUME TypeInv, StepInv
    PROVE  /\ train_step <= fire_target /\ FireTarget(train_step) >= fire_target
           /\ pc \in {"collect", "train"} => train_step < fire_target
           /\ fire_target <= sampler_weights + MaxStale + 1
           /\ train_step \in 0 .. TotalSteps /\ sampler_weights \in 0 .. TotalSteps
           /\ fire_target \in 0 .. TotalSteps /\ fired_step \in 0 .. TotalSteps
           /\ fired_step <= fire_target /\ sampler_weights <= train_step
<1>1. /\ train_step \in 0 .. TotalSteps /\ sampler_weights \in 0 .. TotalSteps
      /\ fire_target \in 0 .. TotalSteps /\ fired_step \in 0 .. TotalSteps
      /\ steps_since_update \in Nat /\ fired_step <= fire_target
      /\ fire_target <= FireTarget(train_step)
      /\ pc \in {"collect", "train"} => train_step < TotalSteps
  BY DEF TypeInv, TypeOK, LoopTypeOK, LoopInv
<1>2. /\ sampler_weights + steps_since_update = train_step
      /\ steps_since_update <= WindowSize /\ fire_target = FireTarget(sampler_weights)
      /\ pc \in {"collect", "train"} => steps_since_update < WindowSize
  BY DEF StepInv
<1>3. /\ fire_target = sampler_weights + MaxStale + 1 \/ fire_target = TotalSteps
      /\ fire_target <= sampler_weights + MaxStale + 1
  BY <1>1, <1>2, ConstantsOK DEF FireTarget, Lesser
<1>4. FireTarget(train_step) \in 0 .. TotalSteps
  BY <1>1, FireTargetProperties
<1>5. train_step <= fire_target /\ (pc \in {"collect", "train"} => train_step < fire_target)
  BY <1>1, <1>2, <1>3, ConstantsOK, WindowSizeOK
<1>. QED  BY <1>1, <1>2, <1>3, <1>4, <1>5, ConstantsOK

LEMMA InitStepInv == Init => StepInv
<1>1. FireTarget(0) \in 0 .. TotalSteps /\ 0 < FireTarget(0)
  BY FireTargetProperties, ConstantsOK
<1>. QED  BY <1>1, WindowSizeOK DEF Init, StepInv

LEMMA FireStepInv == TypeInv /\ StepInv /\ FireGenerationRequests => StepInv'
<1>. SUFFICES ASSUME TypeInv, StepInv, FireGenerationRequests PROVE StepInv'
  OBVIOUS
<1>1. /\ pc = "fire"
      /\ UNCHANGED <<train_step, fire_target, steps_since_update, sampler_weights>>
      /\ \/ pc' = "failed" /\ fired_step' = fired_step
         \/ fired_step' = ChunkEnd /\ pc' = IF ChunkEnd = fire_target THEN "collect" ELSE "fire"
  BY DEF FireGenerationRequests, learnerVars
<1>2. fired_step \in Nat /\ train_step \in Nat /\ fire_target \in Nat
  BY ConstantsOK DEF TypeInv, TypeOK, LoopTypeOK
<1>3. ChunkEnd \in fired_step .. fire_target
  BY ChunkBounds
<1>4. train_step <= fired_step'
  BY <1>1, <1>2, <1>3 DEF StepInv
<1>5. pc' = "fire" => fired_step' < fire_target'
  BY <1>1, <1>2, <1>3
<1>6. pc' = "collect" => fired_step' = fire_target'
  BY <1>1
<1>7. pc' \in {"failed", "collect", "fire"}
  BY <1>1
<1>8. 0 < WindowSize
  BY WindowSizeOK
<1>. QED  BY <1>1, <1>4, <1>5, <1>6, <1>7, <1>8 DEF StepInv

LEMMA TrainStepInv == TypeInv /\ StepInv /\ Train => StepInv'
<1>. SUFFICES ASSUME TypeInv, StepInv, Train PROVE StepInv'
  OBVIOUS
<1>1. /\ pc = "train" /\ train_step' = train_step + 1
      /\ steps_since_update' = steps_since_update + 1
      /\ pc' = AfterTrain(train_step + 1, steps_since_update + 1)
      /\ UNCHANGED <<fired_step, fire_target, sampler_weights>>
  BY DEF Train
<1>2. /\ train_step \in Nat /\ steps_since_update \in Nat /\ sampler_weights \in Nat
      /\ steps_since_update < WindowSize /\ fired_step = fire_target /\ fire_target \in Nat
  BY <1>1, ConstantsOK DEF TypeInv, TypeOK, LoopTypeOK, StepInv
<1>3. /\ pc' \in {"collect", "save_model", "drain"}
      /\ pc' = "collect" => ~ (steps_since_update + 1 >= WindowSize)
  BY <1>1 DEF AfterTrain, AtBoundary
<1>4. /\ sampler_weights + steps_since_update + 1 = train_step + 1
      /\ steps_since_update + 1 <= WindowSize
      /\ pc' = "collect" => steps_since_update + 1 < WindowSize
  BY <1>2, <1>3, WindowSizeOK DEF StepInv
<1>5. train_step + 1 <= fired_step
  BY <1>1, <1>2, TargetReached
<1>. QED  BY <1>1, <1>2, <1>3, <1>4, <1>5 DEF StepInv

LEMMA UpdateStepInv == TypeInv /\ StepInv /\ UpdateWeights => StepInv'
<1>. SUFFICES ASSUME TypeInv, StepInv, UpdateWeights PROVE StepInv'
  OBVIOUS
<1>1. /\ pc = "update" /\ sampler_weights' = train_step /\ steps_since_update' = 0
      /\ fire_target' = IF train_step < TotalSteps THEN FireTarget(train_step)
                        ELSE fire_target
      /\ pc' = IF train_step < TotalSteps /\ fired_step < FireTarget(train_step)
               THEN "begin_step" ELSE LoopTop(train_step)
      /\ UNCHANGED <<train_step, fired_step>>
  BY DEF UpdateWeights, Pushed
<1>2. /\ train_step \in 0 .. TotalSteps /\ fired_step \in 0 .. TotalSteps
      /\ fire_target \in 0 .. TotalSteps /\ train_step <= fire_target
      /\ FireTarget(train_step) >= fire_target
  BY TargetReached
<1>3. fired_step = fire_target /\ train_step <= fired_step
  BY <1>1 DEF StepInv
<1>4. FireTarget(train_step) \in 0 .. TotalSteps /\ TotalSteps \in Nat
  BY <1>2, FireTargetProperties, ConstantsOK
<1>5. fire_target' = FireTarget(train_step)
  <2>1. ~ (train_step < TotalSteps) => fire_target = FireTarget(train_step)
    BY <1>2, <1>4
  <2>. QED  BY <1>1, <2>1
<1>6. pc' # "begin_step" => fired_step' = fire_target'
  <2>1. CASE train_step < TotalSteps
    BY <1>1, <1>2, <1>3, <1>4, <1>5, <2>1
  <2>2. CASE ~ (train_step < TotalSteps)
    BY <1>1, <1>3, <2>2
  <2>. QED  BY <2>1, <2>2
<1>7. pc' = "begin_step" => fired_step' < fire_target'
  BY <1>1, <1>5 DEF LoopTop, AfterLoop
<1>8. /\ pc' \notin {"train", "fire"}
      /\ pc' \in {"final_model", "final_data", "done"} => train_step = TotalSteps
  BY <1>1, <1>2, <1>4 DEF LoopTop, AfterLoop
<1>9. train_step + 0 = train_step /\ 0 <= WindowSize /\ 0 < WindowSize
  BY <1>2, <1>4, WindowSizeOK
<1>. QED  BY <1>1, <1>3, <1>5, <1>6, <1>7, <1>8, <1>9 DEF StepInv

LEMMA RestartStepInv == TypeInv /\ StepInv /\ Restart => StepInv'
<1>. SUFFICES ASSUME TypeInv, StepInv, Restart PROVE StepInv'
  OBVIOUS
<1>1. model_ckpt \in 0 .. TotalSteps /\ model_ckpt \in Nat /\ TotalSteps \in Nat
  BY ConstantsOK DEF TypeInv, TypeOK, DiskTypeOK
<1>2. CASE Resumes(model_ckpt) /\ Rejected(model_ckpt)
  BY <1>2 DEF Restart, StepInv, learnerVars
<1>3. CASE ~ (Resumes(model_ckpt) /\ Rejected(model_ckpt))
  <2>1. /\ pc' = AfterBoot(model_ckpt) /\ train_step' = model_ckpt
        /\ fired_step' = model_ckpt /\ fire_target' = FireTarget(model_ckpt)
        /\ steps_since_update' = 0 /\ sampler_weights' = model_ckpt
    BY <1>3 DEF Restart
  <2>2. /\ FireTarget(model_ckpt) \in 0 .. TotalSteps /\ model_ckpt <= FireTarget(model_ckpt)
        /\ model_ckpt < TotalSteps => model_ckpt < FireTarget(model_ckpt)
    BY <1>1, FireTargetProperties
  <2>3. CASE model_ckpt < FireTarget(model_ckpt)
    BY <1>1, <2>1, <2>2, <2>3, WindowSizeOK DEF AfterBoot, StepInv
  <2>4. CASE ~ (model_ckpt < FireTarget(model_ckpt))
    <3>1. model_ckpt = FireTarget(model_ckpt) /\ model_ckpt = TotalSteps
      BY <1>1, <2>2, <2>4
    <3>2. pc' \in {"final_model", "done"}
      BY <2>1, <2>4, <3>1, <1>1 DEF AfterBoot, LoopTop, AfterLoop
    <3>. QED  BY <1>1, <2>1, <3>1, <3>2, WindowSizeOK DEF StepInv
  <2>. QED  BY <2>3, <2>4
<1>. QED  BY <1>2, <1>3

LEMMA NextStepInv == TypeInv /\ StepInv /\ [Next]_vars => StepInv'
<1>. SUFFICES ASSUME TypeInv, StepInv, [Next]_vars PROVE StepInv'
  OBVIOUS
<1>1. CASE BeginStep
  BY <1>1 DEF BeginStep, StepInv, learnerVars
<1>2. CASE CollectItem \/ FinishCollect
  BY <1>2 DEF CollectItem, CollectFirstFinished, CollectOrdered, FinishCollect, collectFrame,
     StepInv, learnerVars
<1>3. CASE SaveModel \/ SaveData \/ WaitAllInflight
  BY <1>3 DEF SaveModel, SaveData, saveFrame, WaitAllInflight, StepInv, learnerVars
<1>4. CASE RolloutSide
  BY <1>4, RolloutFrame DEF loopVars, learnerVars, StepInv
<1>. QED  BY <1>1, <1>2, <1>3, <1>4, FireStepInv, TrainStepInv, UpdateStepInv,
             RestartStepInv, NextCases

----------------------------------------------------------------------------
\* Sequences, and what a task puts in the queue.

LEMMA Concatenation ==
    ASSUME NEW S, NEW s \in Seq(S), NEW t \in Seq(S)
    PROVE  /\ s \o t \in Seq(S) /\ Len(s \o t) = Len(s) + Len(t)
           /\ Len(s) \in Nat /\ Len(t) \in Nat
           /\ \A i \in 1 .. Len(s) : (s \o t)[i] = s[i]
           /\ \A i \in 1 .. Len(t) : (s \o t)[Len(s) + i] = t[i]
           /\ \A i \in 1 .. Len(s) + Len(t) :
                 i \in 1 .. Len(s) \/ i - Len(s) \in 1 .. Len(t)
OBVIOUS

LEMMA SameSequence ==
    ASSUME NEW S, NEW s \in Seq(S), NEW t \in Seq(S), Len(s) = Len(t),
           \A i \in 1 .. Len(s) : s[i] = t[i]
    PROVE  s = t
OBVIOUS

\* What is left once the head is taken.
LEMMA TailPlaces ==
    ASSUME NEW S, NEW q \in Seq(S), q # <<>>
    PROVE  /\ Tail(q) \in Seq(S) /\ Len(q) = Len(Tail(q)) + 1 /\ Len(Tail(q)) \in Nat
           /\ Head(q) = q[1] /\ Head(q) \in S /\ 1 \in 1 .. Len(q)
           /\ \A i \in 1 .. Len(Tail(q)) : i + 1 \in 1 .. Len(q) /\ Tail(q)[i] = q[i + 1]
OBVIOUS

\* Taking the head of the second sequence to the end of the first.
LEMMA MoveHead ==
    ASSUME NEW S, NEW b \in Seq(S), NEW q \in Seq(S), q # <<>>
    PROVE  Append(b, Head(q)) \o Tail(q) = b \o q
<1>. DEFINE c == Append(b, Head(q))
            r == Tail(q)
<1>1. /\ c \in Seq(S) /\ Len(c) = Len(b) + 1 /\ r \in Seq(S) /\ Len(r) = Len(q) - 1
      /\ Len(q) \in Nat \ {0} /\ Len(b) \in Nat
      /\ \A i \in 1 .. Len(b) : c[i] = b[i]
      /\ c[Len(b) + 1] = q[1]
      /\ \A i \in 1 .. Len(r) : r[i] = q[i + 1]
  OBVIOUS
<1>. HIDE DEF c, r
<1>2. \A i \in 1 .. Len(b) + Len(q) : (c \o r)[i] = (b \o q)[i]
  <2>. SUFFICES ASSUME NEW i \in 1 .. Len(b) + Len(q) PROVE (c \o r)[i] = (b \o q)[i]
    OBVIOUS
  <2>1. CASE i <= Len(b)
    BY <1>1, <2>1, Concatenation
  <2>2. CASE i = Len(b) + 1
    BY <1>1, <2>2, Concatenation
  <2>3. CASE i > Len(b) + 1
    <3>1. PICK j \in 1 .. Len(r) : i = Len(c) + j
      <4>1. i - Len(c) \in 1 .. Len(r) /\ i = Len(c) + (i - Len(c))
        BY <1>1, <2>3
      <4>. QED  BY <4>1
    <3>2. (c \o r)[i] = q[j + 1]
      BY <1>1, <3>1, Concatenation
    <3>3. (b \o q)[i] = q[j + 1]
      <4>1. j + 1 \in 1 .. Len(q) /\ i = Len(b) + (j + 1)
        BY <1>1, <3>1
      <4>. QED  BY <4>1, Concatenation
    <3>. QED  BY <3>2, <3>3
  <2>. QED  BY <1>1, <2>1, <2>2, <2>3
<1>3. /\ c \o r \in Seq(S) /\ b \o q \in Seq(S)
      /\ Len(c \o r) = Len(b) + Len(q) /\ Len(b \o q) = Len(b) + Len(q)
  <2>1. c \o r \in Seq(S) /\ Len(c \o r) = Len(c) + Len(r)
    <3>1. c \in Seq(S) /\ r \in Seq(S)
      BY <1>1
    <3>. QED  BY <3>1, Concatenation
  <2>2. b \o q \in Seq(S) /\ Len(b \o q) = Len(b) + Len(q)
    BY Concatenation
  <2>. QED  BY <1>1, <2>1, <2>2
<1>4. c \o r = b \o q
  BY <1>2, <1>3, SameSequence
<1>. QED  BY <1>4 DEF c, r

LEMMA Queues ==
    ASSUME TypeInv
    PROVE  /\ batch \in Seq(QueuedRolloutBatch) /\ ready_queue \in Seq(QueuedRolloutBatch)
           /\ Len(batch) \in Nat /\ Len(ready_queue) \in Nat
           /\ \A i \in 1 .. Len(batch) : batch[i] \in QueuedRolloutBatch
           /\ \A i \in 1 .. Len(ready_queue) : ready_queue[i] \in QueuedRolloutBatch
           /\ ordered_ready \in [DOMAIN ordered_ready -> Seq(QueuedRolloutBatch)]
           /\ DOMAIN ordered_ready \subseteq Dispatch
           /\ \A k \in DOMAIN ordered_ready :
                 /\ Len(ordered_ready[k]) \in Nat
                 /\ \A i \in 1 .. Len(ordered_ready[k]) :
                       ordered_ready[k][i] \in QueuedRolloutBatch
<1>1. /\ batch \in Seq(QueuedRolloutBatch) /\ ready_queue \in Seq(QueuedRolloutBatch)
      /\ ordered_ready \in [DOMAIN ordered_ready -> Seq(QueuedRolloutBatch)]
      /\ DOMAIN ordered_ready \subseteq Dispatch
  BY DEF TypeInv, TypeOK, RolloutTypeOK
<1>2. \A k \in DOMAIN ordered_ready : ordered_ready[k] \in Seq(QueuedRolloutBatch)
  BY <1>1
<1>3. \A s \in Seq(QueuedRolloutBatch) :
         Len(s) \in Nat /\ \A i \in 1 .. Len(s) : s[i] \in QueuedRolloutBatch
  OBVIOUS
<1>. QED  BY <1>1, <1>2, <1>3

LEMMA LineItems ==
    ASSUME TypeInv
    PROVE  /\ Line \in Seq(QueuedRolloutBatch) /\ Len(Line) \in Nat
           /\ Len(Line) = Len(batch) + Len(ready_queue)
           /\ \A p \in 1 .. Len(Line) : Line[p] \in QueuedRolloutBatch
           /\ \A i \in 1 .. Len(batch) : Line[i] = batch[i]
           /\ \A i \in 1 .. Len(ready_queue) : Line[Len(batch) + i] = ready_queue[i]
           /\ \A p \in 1 .. Len(Line) :
                 p \in 1 .. Len(batch) \/ p - Len(batch) \in 1 .. Len(ready_queue)
<1>1. /\ Line \in Seq(QueuedRolloutBatch) /\ Len(Line) = Len(batch) + Len(ready_queue)
      /\ \A i \in 1 .. Len(batch) : Line[i] = batch[i]
      /\ \A i \in 1 .. Len(ready_queue) : Line[Len(batch) + i] = ready_queue[i]
      /\ \A p \in 1 .. Len(batch) + Len(ready_queue) :
            p \in 1 .. Len(batch) \/ p - Len(batch) \in 1 .. Len(ready_queue)
  BY Queues, Concatenation DEF Line
<1>2. Len(Line) \in Nat /\ \A p \in 1 .. Len(Line) : Line[p] \in QueuedRolloutBatch
  BY <1>1
<1>. QED  BY <1>1, <1>2

\* n copies of an item join the end of a sequence.
Grows(old, new, x, n) ==
    /\ Len(new) = Len(old) + n
    /\ \A p \in 1 .. Len(old) : new[p] = old[p]
    /\ \A p \in Len(old) + 1 .. Len(old) + n : new[p] = x

LEMMA CopiesGrow ==
    ASSUME NEW S, NEW s \in Seq(S), NEW x \in S, NEW n \in Nat
    PROVE  /\ [i \in 1 .. n |-> x] \in Seq(S)
           /\ Grows(s, s \o [i \in 1 .. n |-> x], x, n)
<1>. DEFINE items == [i \in 1 .. n |-> x]
<1>1. items \in Seq(S) /\ Len(items) = n /\ \A i \in 1 .. n : items[i] = x
  OBVIOUS
<1>. HIDE DEF items
<1>2. /\ Len(s \o items) = Len(s) + n /\ Len(s) \in Nat
      /\ \A p \in 1 .. Len(s) : (s \o items)[p] = s[p]
      /\ \A i \in 1 .. n : (s \o items)[Len(s) + i] = items[i]
  <2>1. items \in Seq(S) /\ Len(items) = n
    BY <1>1
  <2>2. /\ Len(s \o items) = Len(s) + Len(items) /\ Len(s) \in Nat
        /\ \A p \in 1 .. Len(s) : (s \o items)[p] = s[p]
        /\ \A i \in 1 .. Len(items) : (s \o items)[Len(s) + i] = items[i]
    <3>1. s \in Seq(S) /\ items \in Seq(S)
      BY <2>1
    <3>. HIDE <2>1
    <3>. QED  BY <3>1, Concatenation
  <2>. QED  BY <2>1, <2>2
<1>3. ASSUME NEW p \in Len(s) + 1 .. Len(s) + n PROVE (s \o items)[p] = x
  <2>1. p - Len(s) \in 1 .. n /\ p = Len(s) + (p - Len(s))
    BY <1>2
  <2>. QED  BY <1>1, <1>2, <2>1
<1>. QED  BY <1>1, <1>2, <1>3 DEF Grows, items

LEMMA QueueGrows ==
    ASSUME TypeInv, NEW x \in QueuedRolloutBatch, NEW n \in Nat, UNCHANGED batch,
           ready_queue' = ready_queue \o [i \in 1 .. n |-> x]
    PROVE  Grows(ready_queue, ready_queue', x, n) /\ Grows(Line, Line', x, n)
<1>. DEFINE items == [i \in 1 .. n |-> x]
<1>1. Grows(ready_queue, ready_queue', x, n) /\ items \in Seq(QueuedRolloutBatch)
  BY Queues, CopiesGrow
<1>2. Line' = Line \o items
  <2>1. Line' = batch \o (ready_queue \o items)
    BY DEF Line
  <2>. HIDE DEF items
  <2>0. /\ batch \in Seq(QueuedRolloutBatch) /\ ready_queue \in Seq(QueuedRolloutBatch)
        /\ items \in Seq(QueuedRolloutBatch)
    BY <1>1, Queues
  <2>2. /\ batch \o (ready_queue \o items) \in Seq(QueuedRolloutBatch)
        /\ Line \o items \in Seq(QueuedRolloutBatch)
        /\ Len(batch \o (ready_queue \o items)) = Len(Line \o items)
    BY <2>0 DEF Line
  <2>3. \A i \in 1 .. Len(Line \o items) :
           (batch \o (ready_queue \o items))[i] = (Line \o items)[i]
    BY <2>0 DEF Line
  <2>. QED  BY <2>1, <2>2, <2>3, SameSequence
<1>3. Grows(Line, Line', x, n)
  BY <1>2, LineItems, CopiesGrow
<1>. QED  BY <1>1, <1>3

----------------------------------------------------------------------------
\* What a step on the rollout side does.

OthersKept(k) ==
    /\ DOMAIN inflight_tasks' = DOMAIN inflight_tasks
    /\ \A j \in DOMAIN inflight_tasks \ {k} : inflight_tasks'[j] = inflight_tasks[j]

Starts(k) ==
    /\ OthersKept(k) /\ Phase(k) = "created" /\ Phase(k)' = "running"
    /\ inflight_tasks'[k].weights = sampler_weights
    /\ UNCHANGED <<ready_queue, Line, failures>> /\ Outstanding' = Outstanding
Finishes(k) ==
    /\ OthersKept(k) /\ Phase(k) = "running" /\ Phase(k)' = "done"
    /\ Grows(ready_queue, ready_queue', Item(k, FALSE), RbMultiplier)
    /\ Grows(Line, Line', Item(k, FALSE), RbMultiplier)
    /\ UNCHANGED failures /\ Outstanding' = Outstanding \ {k}
Raises(k) ==
    /\ OthersKept(k) /\ Phase(k) = "running" /\ Phase(k)' = "failed"
    /\ Grows(ready_queue, ready_queue', Item(k, TRUE), 1)
    /\ Grows(Line, Line', Item(k, TRUE), 1)
    /\ failures' = failures + 1 /\ Outstanding' = Outstanding \ {k}

LEMMA TaskTypes ==
    ASSUME TypeInv, NEW k \in DOMAIN inflight_tasks
    PROVE  /\ inflight_tasks \in [DOMAIN inflight_tasks -> Task]
           /\ inflight_tasks[k] \in Task /\ k \in Dispatch /\ k[1] \in Nat
           /\ inflight_tasks[k].weights \in Nat
           /\ \A b \in BOOLEAN : /\ Item(k, b) \in QueuedRolloutBatch
                                 /\ Item(k, b).key = k /\ Item(k, b).error = b
                                 /\ Item(k, b).weights = inflight_tasks[k].weights
<1>1. /\ inflight_tasks \in [DOMAIN inflight_tasks -> Task]
      /\ inflight_tasks[k] \in Task /\ k \in Dispatch
  BY DEF TypeInv, TypeOK, RolloutTypeOK
<1>2. k[1] \in Nat /\ inflight_tasks[k].weights \in Nat
  BY <1>1, ConstantsOK DEF Dispatch, Task
<1>. QED  BY <1>1, <1>2 DEF Item, Task, QueuedRolloutBatch

LEMMA TaskCases ==
    ASSUME TypeInv, TaskInv, TaskStep \/ AgentFailure
    PROVE  \E k \in DOMAIN inflight_tasks : Starts(k) \/ Finishes(k) \/ Raises(k)
<1>1. PICK k \in DOMAIN inflight_tasks : StartTask(k) \/ Complete(k) \/ Fail(k)
  BY DEF TaskStep, AgentFailure
<1>2. UNCHANGED batch
  BY <1>1 DEF StartTask, Complete, Fail, taskFrame
<1>3. inflight_tasks \in [DOMAIN inflight_tasks -> Task] /\ inflight_tasks[k] \in Task
  BY TaskTypes
<1>4. CASE StartTask(k)
  <2>1. step_target_rb \in Nat /\ step_target_rb > 0
    BY DEF TypeInv, TypeOK, RolloutTypeOK, TaskInv
  <2>2. ~ TargetMet
    BY <2>1 DEF TargetMet
  <2>3. /\ Phase(k) = "created" /\ UNCHANGED <<ready_queue, failures>>
        /\ inflight_tasks' = [inflight_tasks EXCEPT ![k].phase = "running",
                                                    ![k].weights = sampler_weights]
    BY <1>4, <2>2 DEF StartTask, Phase
  <2>4. OthersKept(k) /\ Phase(k)' = "running" /\ inflight_tasks'[k].weights = sampler_weights
    BY <1>3, <2>3 DEF OthersKept, Phase, Task
  <2>5. Outstanding' = Outstanding
    BY <2>3, <2>4 DEF OthersKept, Outstanding, Phase
  <2>. QED  BY <1>2, <2>3, <2>4, <2>5 DEF Starts, Line
<1>5. CASE Complete(k)
  <2>1. OthersKept(k) /\ Phase(k) = "running" /\ Phase(k)' = "done" /\ UNCHANGED failures
    BY <1>3, <1>5 DEF Complete, OthersKept, Phase, Task
  <2>2. ready_queue' = ready_queue \o [i \in 1 .. RbMultiplier |-> Item(k, FALSE)]
    BY <1>5 DEF Complete, Put
  <2>3. Item(k, FALSE) \in QueuedRolloutBatch
    BY TaskTypes, FALSE \in BOOLEAN
  <2>4. Outstanding' = Outstanding \ {k}
    BY <2>1 DEF OthersKept, Outstanding, Phase
  <2>5. /\ Grows(ready_queue, ready_queue', Item(k, FALSE), RbMultiplier)
        /\ Grows(Line, Line', Item(k, FALSE), RbMultiplier)
    BY <1>2, <2>2, <2>3, ConstantsOK, QueueGrows
  <2>. QED  BY <2>1, <2>4, <2>5 DEF Finishes
<1>6. CASE Fail(k)
  <2>1. OthersKept(k) /\ Phase(k) = "running" /\ Phase(k)' = "failed"
        /\ failures' = failures + 1
    BY <1>3, <1>6 DEF Fail, OthersKept, Phase, Task
  <2>2. ready_queue' = ready_queue \o [i \in 1 .. 1 |-> Item(k, TRUE)]
    BY <1>6, Singleton DEF Fail, Put
  <2>3. Item(k, TRUE) \in QueuedRolloutBatch
    BY TaskTypes, TRUE \in BOOLEAN
  <2>4. Outstanding' = Outstanding \ {k}
    BY <2>1 DEF OthersKept, Outstanding, Phase
  <2>5. /\ Grows(ready_queue, ready_queue', Item(k, TRUE), 1)
        /\ Grows(Line, Line', Item(k, TRUE), 1)
    BY <1>2, <2>2, <2>3, ConstantsOK, QueueGrows
  <2>. QED  BY <2>1, <2>4, <2>5 DEF Raises
<1>. QED  BY <1>1, <1>4, <1>5, <1>6

LEMMA RolloutCases ==
    ASSUME TypeInv, TaskInv, RolloutSide
    PROVE  \/ UNCHANGED <<inflight_tasks, ready_queue, Line, failures, Outstanding>>
           \/ \E k \in DOMAIN inflight_tasks : Starts(k) \/ Finishes(k) \/ Raises(k)
<1>1. CASE UNCHANGED vars
  BY <1>1 DEF vars, rolloutVars, Line, Outstanding, Phase
<1>. QED  BY <1>1, TaskCases DEF RolloutSide

----------------------------------------------------------------------------
\* The tasks.

\* What a call to fire adds: tasks of steps not fired before.
FiresAll ==
    /\ fired_step' = ChunkEnd /\ pc' = (IF ChunkEnd = fire_target THEN "collect" ELSE "fire")
    /\ DOMAIN inflight_tasks' = DOMAIN inflight_tasks \cup Fired
    /\ \A k \in Fired : inflight_tasks'[k].phase = "created"
    /\ \A k \in DOMAIN inflight_tasks \ Fired : inflight_tasks'[k] = inflight_tasks[k]
    /\ attr_cache' = attr_cache \cup Fired

LEMMA FireCases ==
    ASSUME TypeInv, FireGenerationRequests
    PROVE  /\ pc = "fire"
           /\ UNCHANGED <<settings, train_step, fire_target, steps_since_update, learnerVars,
                          step_target_rb, ready_queue, ordered_ready, batch, Line, diskVars,
                          failures, restarts>>
           /\ \/ /\ pc' = "failed" /\ Served < Reads
                 /\ UNCHANGED <<fired_step, inflight_tasks, attr_cache, Outstanding>>
              \/ FiresAll /\ Served = Reads
<1>1. /\ pc = "fire"
      /\ UNCHANGED <<settings, train_step, fire_target, steps_since_update, learnerVars,
                     step_target_rb, ready_queue, ordered_ready, batch, Line, diskVars,
                     failures, restarts>>
  BY DEF FireGenerationRequests, Line
<1>2. CASE Served < Reads
  BY <1>1, <1>2 DEF FireGenerationRequests, Outstanding, Phase
<1>3. CASE ~ (Served < Reads)
  <2>1. Served = Reads
    BY <1>3, ServedBounds, ChunkBounds
  <2>2. /\ inflight_tasks' =
              [k \in DOMAIN inflight_tasks \cup Fired |->
                 IF k \in Fired
                 THEN [phase |-> "created", raw |-> PromptOf(k), weights |-> 0]
                 ELSE inflight_tasks[k]]
        /\ attr_cache' = attr_cache \cup Fired /\ fired_step' = ChunkEnd
        /\ pc' = (IF ChunkEnd = fire_target THEN "collect" ELSE "fire")
    BY <1>3 DEF FireGenerationRequests
  <2>3. FiresAll
    BY <2>2 DEF FiresAll
  <2>. QED  BY <1>1, <2>1, <2>3
<1>. QED  BY <1>2, <1>3

LEMMA InitTaskInv == Init => TaskInv
BY DEF Init, TaskInv, EmptyDict

LEMMA RolloutTaskInv == TypeInv /\ TaskInv /\ RolloutSide => TaskInv'
<1>. SUFFICES ASSUME TypeInv, TaskInv, RolloutSide PROVE TaskInv'
  OBVIOUS
<1>1. UNCHANGED <<pc, fired_step, step_target_rb, sampler_weights>>
  BY RolloutFrame DEF loopVars, learnerVars
<1>2. failures \in Nat
  BY ConstantsOK DEF TypeInv, TypeOK, DiskTypeOK
<1>3. CASE UNCHANGED <<inflight_tasks, ready_queue, Line, failures, Outstanding>>
  BY <1>1, <1>3 DEF TaskInv, Phase
<1>4. ASSUME NEW k \in DOMAIN inflight_tasks, Starts(k) \/ Finishes(k) \/ Raises(k)
      PROVE  TaskInv'
  <2>1. /\ OthersKept(k)
        /\ Phase(k)' = "running" => inflight_tasks'[k].weights = sampler_weights
        /\ Phase(k)' = "failed" => failures' > 0
        /\ failures' \in {failures, failures + 1}
    <3>1. CASE Starts(k)
      BY <3>1 DEF Starts
    <3>2. CASE Finishes(k)
      BY <3>2 DEF Finishes
    <3>3. CASE Raises(k)
      BY <1>2, <3>3 DEF Raises
    <3>. QED  BY <1>4, <3>1, <3>2, <3>3
  <2>2. ASSUME NEW j \in DOMAIN inflight_tasks'
        PROVE  /\ j[1] < fired_step'
               /\ Phase(j)' = "running" => inflight_tasks'[j].weights = sampler_weights'
               /\ Phase(j)' = "failed" => failures' > 0
    <3>1. j \in DOMAIN inflight_tasks /\ j[1] < fired_step
      BY <2>1 DEF OthersKept, TaskInv
    <3>2. CASE j = k
      BY <1>1, <2>1, <3>1, <3>2
    <3>3. CASE j # k
      <4>1. inflight_tasks'[j] = inflight_tasks[j]
        BY <2>1, <3>1, <3>3 DEF OthersKept
      <4>. QED  BY <1>1, <1>2, <2>1, <3>1, <4>1 DEF TaskInv, Phase
    <3>. QED  BY <3>2, <3>3
  <2>3. DOMAIN inflight_tasks' = DOMAIN inflight_tasks
    BY <2>1 DEF OthersKept
  <2>. QED  BY <1>1, <2>2, <2>3 DEF TaskInv
<1>. QED  BY <1>3, <1>4, RolloutCases

LEMMA NextTaskInv == TypeInv /\ StepInv /\ TaskInv /\ [Next]_vars => TaskInv'
<1>. SUFFICES ASSUME TypeInv, StepInv, TaskInv, [Next]_vars PROVE TaskInv'
  OBVIOUS
<1>1. CASE BeginStep
  <2>1. /\ pc = "begin_step" /\ pc' = "fire" /\ step_target_rb' = WindowTarget
        /\ UNCHANGED <<fired_step, inflight_tasks, sampler_weights, failures>>
    BY <1>1 DEF BeginStep, learnerVars, rolloutVars
  <2>2. WindowTarget > 0
    <3>1. fire_target - fired_step \in Nat /\ 1 <= fire_target - fired_step
      BY <2>1, TargetReached, ConstantsOK DEF StepInv
    <3>. DEFINE d == fire_target - fired_step
    <3>2. d \in Nat /\ 1 \in Nat /\ 1 <= d
      BY <3>1
    <3>. HIDE DEF d
    <3>3. 1 * NumMb <= d * NumMb /\ d * NumMb \in Nat /\ 1 * NumMb = NumMb
      BY <3>2, ConstantsOK, Products
    <3>4. d * NumMb \in Nat /\ 1 <= d * NumMb
      BY <3>3, ConstantsOK
    <3>5. 1 * RbMultiplier <= (d * NumMb) * RbMultiplier /\ 1 * RbMultiplier = RbMultiplier
      BY <3>4, ConstantsOK, Products
    <3>6. (d * NumMb) * RbMultiplier > 0
      BY <3>4, <3>5, ConstantsOK, Products
    <3>. QED  BY <3>6 DEF WindowTarget, d
  <2>. QED  BY <2>1, <2>2 DEF TaskInv, Phase
<1>2. CASE FireGenerationRequests
  <2>1. /\ pc = "fire" /\ step_target_rb > 0
        /\ UNCHANGED <<step_target_rb, sampler_weights, failures>>
    BY <1>2, FireCases DEF TaskInv, learnerVars
  <2>2. CASE pc' = "failed" /\ UNCHANGED <<fired_step, inflight_tasks>>
    BY <2>1, <2>2 DEF TaskInv, Phase
  <2>3. CASE FiresAll
    <3>1. pc' \in {"collect", "fire"}
      BY <2>3 DEF FiresAll
    <3>2. ChunkEnd \in fired_step .. fire_target /\ fired_step \in Nat /\ fire_target \in Nat
      BY ChunkBounds, ConstantsOK DEF TypeInv, TypeOK, LoopTypeOK
    <3>3. ASSUME NEW k \in DOMAIN inflight_tasks'
          PROVE  /\ k[1] < fired_step'
                 /\ Phase(k)' = "running" => inflight_tasks'[k].weights = sampler_weights'
                 /\ Phase(k)' = "failed" => failures' > 0
      <4>1. CASE k \in Fired
        <5>1. k[1] \in fired_step .. ChunkEnd - 1
          BY <4>1, FiredKeys
        <5>2. k[1] < ChunkEnd
          BY <3>2, <5>1
        <5>. QED  BY <2>3, <4>1, <5>2 DEF FiresAll, Phase
      <4>2. CASE k \notin Fired
        <5>1. k \in DOMAIN inflight_tasks /\ inflight_tasks'[k] = inflight_tasks[k]
          BY <2>3, <3>3, <4>2 DEF FiresAll
        <5>2. k[1] < fired_step /\ k[1] \in Nat
          BY <5>1, TaskTypes DEF TaskInv
        <5>3. k[1] < fired_step'
          BY <2>3, <3>2, <5>2 DEF FiresAll
        <5>. QED  BY <2>1, <5>1, <5>3 DEF TaskInv, Phase
      <4>. QED  BY <4>1, <4>2
    <3>. QED  BY <2>1, <3>1, <3>3 DEF TaskInv
  <2>. QED  BY <1>2, <2>2, <2>3, FireCases
<1>3. CASE CollectItem \/ FinishCollect \/ Train \/ SaveModel \/ SaveData
  <2>1. /\ UNCHANGED <<fired_step, step_target_rb, sampler_weights, inflight_tasks, failures>>
        /\ pc' # "fire"
        /\ pc' \in {"update", "begin_step", "final_model", "final_data", "done"} =>
              pc \in {"final_model", "final_data"}
    BY <1>3 DEF CollectItem, CollectFirstFinished, CollectOrdered, FinishCollect, Train, SaveModel,
       SaveData, collectFrame, saveFrame, learnerVars, rolloutVars, AfterTrain
  <2>. QED  BY <2>1 DEF TaskInv, Phase
<1>4. CASE WaitAllInflight \/ Restart
  <2>1. DOMAIN inflight_tasks' = {} /\ pc' # "fire"
    BY <1>4 DEF WaitAllInflight, Restart, EmptyDict, AfterBoot, LoopTop, AfterLoop
  <2>. QED  BY <2>1 DEF TaskInv
<1>5. CASE UpdateWeights
  <2>1. DOMAIN inflight_tasks' = {} /\ pc' # "fire"
    BY <1>5 DEF UpdateWeights, TaskInv, rolloutVars, LoopTop, AfterLoop
  <2>. QED  BY <2>1 DEF TaskInv
<1>. QED  BY <1>1, <1>2, <1>3, <1>4, <1>5, RolloutTaskInv, NextCases

----------------------------------------------------------------------------
\* What the collection does with the head of the queue.

Rejects ==
    /\ pc' = "failed" /\ UNCHANGED <<batch, ordered_ready>>
    /\ LET x == Head(ready_queue)
       IN \/ x.error
          \/ ordered /\ (Stale \/ x.key[1] < train_step \/ Len(ItemsAt(x.key)) >= RbMultiplier)
Takes ==
    /\ ~ ordered /\ pc' = "collect" /\ ~ Head(ready_queue).error
    /\ Len(batch) < NumCollect
    /\ batch' = Append(batch, Head(ready_queue)) /\ UNCHANGED ordered_ready
Buffers(x) ==
    /\ ordered /\ pc' = "collect" /\ ~ x.error /\ UNCHANGED batch
    /\ ~ (x.key[1] < train_step) /\ ~ (Len(ItemsAt(x.key)) >= RbMultiplier)
    /\ DOMAIN ordered_ready' = DOMAIN ordered_ready \cup {x.key}
    /\ \A k \in DOMAIN ordered_ready \ {x.key} : ordered_ready'[k] = ordered_ready[k]
    /\ Grows(ItemsAt(x.key), ordered_ready'[x.key], x, 1)

LEMMA ItemsAtTypes ==
    ASSUME TypeInv, NEW k
    PROVE  ItemsAt(k) \in Seq(QueuedRolloutBatch) /\ Len(ItemsAt(k)) \in Nat
<1>1. ItemsAt(k) \in Seq(QueuedRolloutBatch)
  <2>1. CASE k \in DOMAIN ordered_ready
    <3>1. ordered_ready \in [DOMAIN ordered_ready -> Seq(QueuedRolloutBatch)]
      BY Queues
    <3>. QED  BY <2>1, <3>1 DEF ItemsAt
  <2>2. CASE k \notin DOMAIN ordered_ready
    BY <2>2, EmptySeq DEF ItemsAt
  <2>. QED  BY <2>1, <2>2
<1>. QED  BY <1>1

LEMMA CollectCases ==
    ASSUME TypeInv, CollectItem
    PROVE  /\ pc = "collect" /\ ready_queue # <<>> /\ ready_queue' = Tail(ready_queue)
           /\ UNCHANGED <<settings, train_step, fired_step, fire_target, steps_since_update,
                          learnerVars, readerVars, step_target_rb, inflight_tasks, diskVars,
                          failures, restarts, attr_cache, Outstanding>>
           /\ Head(ready_queue) \in QueuedRolloutBatch
           /\ Rejects \/ Takes \/ Buffers(Head(ready_queue))
<1>1. /\ pc = "collect" /\ ready_queue # <<>> /\ ready_queue' = Tail(ready_queue)
      /\ UNCHANGED <<collectFrame, attr_cache>>
  BY DEF CollectItem, CollectFirstFinished, CollectOrdered
<1>2. UNCHANGED Outstanding
  BY <1>1 DEF Outstanding, Phase, collectFrame
<1>3. Head(ready_queue) \in QueuedRolloutBatch
  <2>1. ready_queue \in Seq(QueuedRolloutBatch)
    BY Queues
  <2>. QED  BY <1>1, <2>1, TailPlaces
<1>4. Rejects \/ Takes \/ Buffers(Head(ready_queue))
  <2>1. CASE CollectFirstFinished
    BY <1>1, <2>1 DEF CollectFirstFinished, Rejects, Takes
  <2>2. CASE CollectOrdered /\ pc' = "failed" /\ UNCHANGED ordered_ready
             /\ (Stale \/ Head(ready_queue).error \/ Head(ready_queue).key[1] < train_step
                 \/ Len(ItemsAt(Slot(Head(ready_queue)))) >= RbMultiplier)
    BY <2>2 DEF CollectOrdered, Rejects, Slot
  <2>3. CASE CollectOrdered
             /\ ~ (Stale \/ Head(ready_queue).error \/ Head(ready_queue).key[1] < train_step
                   \/ Len(ItemsAt(Slot(Head(ready_queue)))) >= RbMultiplier)
    <3>. DEFINE x == Head(ready_queue)
    <3>1. /\ ordered /\ pc' = "collect" /\ UNCHANGED batch
          /\ ~ x.error /\ ~ (x.key[1] < train_step) /\ ~ (Len(ItemsAt(x.key)) >= RbMultiplier)
          /\ ordered_ready' = [k \in DOMAIN ordered_ready \cup {x.key} |->
                                 IF k = x.key THEN Append(ItemsAt(k), x) ELSE ordered_ready[k]]
      BY <1>1, <2>3 DEF CollectOrdered, Slot
    <3>. HIDE DEF x
    <3>2. /\ DOMAIN ordered_ready' = DOMAIN ordered_ready \cup {x.key}
          /\ \A k \in DOMAIN ordered_ready \ {x.key} : ordered_ready'[k] = ordered_ready[k]
          /\ ordered_ready'[x.key] = Append(ItemsAt(x.key), x)
      BY <3>1
    <3>3. ItemsAt(x.key) \in Seq(QueuedRolloutBatch) /\ Len(ItemsAt(x.key)) \in Nat
      BY ItemsAtTypes
    <3>4. x \in QueuedRolloutBatch
      BY <1>3 DEF x
    <3>5. Grows(ItemsAt(x.key), Append(ItemsAt(x.key), x), x, 1)
      BY <3>3, <3>4 DEF Grows
    <3>6. Buffers(x)
      BY <3>1, <3>2, <3>5 DEF Buffers
    <3>. QED  BY <3>6 DEF x
  <2>4. CASE CollectOrdered
    BY <1>1, <2>2, <2>3, <2>4 DEF CollectOrdered
  <2>. QED  BY <2>1, <2>4 DEF CollectItem
<1>. QED  BY <1>1, <1>2, <1>3, <1>4 DEF collectFrame

\* What finishing a collection takes out of the buffer.
LEMMA FinishCases ==
    ASSUME TypeInv, FinishCollect
    PROVE  /\ pc = "collect" /\ pc' = "train" /\ CollectionComplete
           /\ UNCHANGED <<settings, train_step, fired_step, fire_target, steps_since_update,
                          learnerVars, readerVars, step_target_rb, inflight_tasks, diskVars,
                          failures, restarts, ready_queue, Outstanding>>
           /\ batch' = Collected /\ (~ ordered => UNCHANGED batch /\ Len(batch) = NumCollect)
           /\ DOMAIN ordered_ready' = DOMAIN ordered_ready \ StepKeys(train_step)
           /\ \A k \in DOMAIN ordered_ready' : ordered_ready'[k] = ordered_ready[k]
           /\ attr_cache' = attr_cache \ {Collected[i].key : i \in DOMAIN Collected}
<1>1. /\ pc = "collect" /\ pc' = "train" /\ CollectionComplete /\ batch' = Collected
      /\ UNCHANGED <<collectFrame, ready_queue>>
      /\ ordered_ready' = [k \in DOMAIN ordered_ready \ StepKeys(train_step) |->
                             ordered_ready[k]]
      /\ attr_cache' = attr_cache \ {Collected[i].key : i \in DOMAIN Collected}
  BY DEF FinishCollect, AttrsLeft
<1>2. UNCHANGED Outstanding
  BY <1>1 DEF Outstanding, Phase, collectFrame
<1>3. ~ ordered => UNCHANGED batch /\ Len(batch) = NumCollect
  BY <1>1 DEF Collected, CollectionComplete
<1>. QED  BY <1>1, <1>2, <1>3 DEF collectFrame

----------------------------------------------------------------------------
\* The items: a step that is not a relaunch leaves them what they are.

Advances ==
    /\ Outstanding' \subseteq Outstanding \cup {k \in Dispatch : fired_step <= k[1]}
    /\ fired_step <= fired_step' /\ failures <= failures' /\ train_step <= train_step'

LEMMA StepTypes ==
    ASSUME TypeInv
    PROVE  /\ train_step \in Nat /\ fired_step \in Nat /\ failures \in Nat
           /\ sampler_weights \in Nat /\ steps_since_update \in Nat /\ fire_target \in Nat
           /\ step_target_rb \in Nat /\ restarts \in Nat /\ model_ckpt \in Nat
           /\ ordered \in BOOLEAN /\ source \in {"plain", "resumable"}
BY ConstantsOK, SlidingPrefetchAssumption
   DEF TypeInv, TypeOK, LoopTypeOK, RolloutTypeOK, DiskTypeOK, SlidingPrefetchAssumption

LEMMA StepAdvances ==
    ASSUME TypeInv, TaskInv, [Next]_vars, ~ Restart
    PROVE  Advances
<1>1. CASE BeginStep \/ SaveModel \/ SaveData \/ UpdateWeights \/ Train
  <2>1. UNCHANGED <<inflight_tasks, fired_step, failures>> /\ train_step' \in {train_step, train_step + 1}
    BY <1>1 DEF BeginStep, SaveModel, SaveData, UpdateWeights, Train, saveFrame, rolloutVars
  <2>. QED  BY <2>1, StepTypes DEF Advances, Outstanding, Phase
<1>2. CASE CollectItem \/ FinishCollect
  <2>1. UNCHANGED <<Outstanding, fired_step, failures, train_step>>
    BY <1>2, CollectCases, FinishCases
  <2>. QED  BY <2>1, StepTypes DEF Advances
<1>3. CASE WaitAllInflight
  <2>1. UNCHANGED <<fired_step, failures, train_step>> /\ Outstanding' = {}
    BY <1>3 DEF WaitAllInflight, Outstanding, EmptyDict
  <2>. QED  BY <2>1, StepTypes DEF Advances
<1>4. CASE RolloutSide
  <2>1. UNCHANGED <<fired_step, train_step>>
    BY <1>4, RolloutFrame DEF loopVars
  <2>2. failures' \in {failures, failures + 1} /\ Outstanding' \subseteq Outstanding
    BY <1>4, RolloutCases DEF Starts, Finishes, Raises
  <2>. QED  BY <2>1, <2>2, StepTypes DEF Advances
<1>5. CASE FireGenerationRequests
  <2>1. UNCHANGED <<failures, train_step>>
    BY <1>5, FireCases
  <2>2. CASE UNCHANGED <<fired_step, Outstanding>>
    BY <2>1, <2>2, StepTypes DEF Advances
  <2>3. CASE FiresAll
    <3>1. fired_step' = ChunkEnd /\ ChunkEnd \in fired_step .. fire_target
      BY <2>3, ChunkBounds DEF FiresAll
    <3>2. ASSUME NEW k \in Outstanding', k \notin Outstanding
          PROVE  k \in Dispatch /\ fired_step <= k[1]
      <4>1. k \in Fired
        BY <2>3, <3>2 DEF FiresAll, Outstanding, Phase
      <4>2. k \in Dispatch /\ k[1] \in fired_step .. ChunkEnd - 1
        BY <4>1, FiredKeys
      <4>. QED  BY <3>1, <4>2, StepTypes
    <3>. QED  BY <2>1, <3>1, <3>2, StepTypes DEF Advances
  <2>. QED  BY <1>5, <2>2, <2>3, FireCases
<1>. QED  BY <1>1, <1>2, <1>3, <1>4, <1>5, NextCases

LEMMA ItemStays ==
    ASSUME TypeInv, TypeInv', Advances, NEW x \in QueuedRolloutBatch, ItemOK(x)
    PROVE  ItemOK(x)'
<1>1. x.key \in Dispatch /\ x.key[1] \in Nat /\ x.weights \in Nat
  BY ConstantsOK DEF QueuedRolloutBatch, Dispatch
<1>2. x.key \notin Outstanding /\ x.key[1] < fired_step /\ (x.error => failures > 0)
      /\ x.weights <= train_step
  BY DEF ItemOK
<1>3. /\ fired_step' \in Nat /\ failures' \in Nat /\ train_step' \in Nat
      /\ fired_step \in Nat /\ failures \in Nat /\ train_step \in Nat
  <2>1. ASSUME TypeInv PROVE train_step \in Nat /\ fired_step \in Nat /\ failures \in Nat
    BY <2>1, StepTypes
  <2>2. train_step' \in Nat /\ fired_step' \in Nat /\ failures' \in Nat
    BY ConstantsOK DEF TypeInv, TypeOK, LoopTypeOK, DiskTypeOK
  <2>. QED  BY <2>1, <2>2
<1>4. x.key \notin Outstanding'
  BY <1>1, <1>2, <1>3 DEF Advances
<1>. QED  BY <1>1, <1>2, <1>3, <1>4 DEF Advances, ItemOK

LEMMA KeyStays ==
    ASSUME TypeInv, TypeInv', Advances, NEW k \in Dispatch, k \notin Outstanding,
           k[1] < fired_step
    PROVE  k \notin Outstanding' /\ k[1] < fired_step'
<1>1. k[1] \in Nat /\ fired_step \in Nat /\ fired_step' \in Nat
  BY ConstantsOK, StepTypes DEF Dispatch, TypeInv, TypeOK, LoopTypeOK
<1>. QED  BY <1>1 DEF Advances

ItemsKept ==
    /\ \A x \in QueuedRolloutBatch : ItemOK(x) => ItemOK(x)'
    /\ \A k \in Dispatch : k \notin Outstanding /\ k[1] < fired_step =>
                              k \notin Outstanding' /\ k[1] < fired_step'
BatchItemsOK == \A i \in 1 .. Len(batch) : ItemOK(batch[i]) /\ ~ batch[i].error
QueueItemsOK == \A i \in 1 .. Len(ready_queue) : ItemOK(ready_queue[i])
BufferItemsOK ==
    \A k \in DOMAIN ordered_ready :
        /\ k \notin Outstanding /\ k[1] < fired_step
        /\ \A i \in 1 .. Len(ordered_ready[k]) :
              /\ ItemOK(ordered_ready[k][i]) /\ ~ ordered_ready[k][i].error
              /\ ordered_ready[k][i].key = k

LEMMA QueuedParts == QueuedInv <=> BatchItemsOK /\ QueueItemsOK /\ BufferItemsOK
BY DEF QueuedInv, BatchItemsOK, QueueItemsOK, BufferItemsOK

LEMMA QueuedPartsNext == QueuedInv' <=> (BatchItemsOK /\ QueueItemsOK /\ BufferItemsOK)'
BY QueuedParts, PTL

LEMMA StepKeepsItems ==
    ASSUME TypeInv, TypeInv', TaskInv, [Next]_vars, ~ Restart
    PROVE  ItemsKept
BY StepAdvances, ItemStays, KeyStays DEF ItemsKept

LEMMA BatchStays ==
    ASSUME TypeInv, QueuedInv, ItemsKept, UNCHANGED batch PROVE BatchItemsOK'
<1>1. ASSUME NEW i \in 1 .. Len(batch) PROVE ItemOK(batch[i])' /\ ~ batch[i].error
  <2>1. batch[i] \in QueuedRolloutBatch /\ ItemOK(batch[i]) /\ ~ batch[i].error
    BY QueuedParts, Queues DEF BatchItemsOK
  <2>2. PICK x \in QueuedRolloutBatch : x = batch[i]
    BY <2>1
  <2>3. ItemOK(x)'
    BY <2>1, <2>2 DEF ItemsKept
  <2>. QED  BY <2>1, <2>2, <2>3 DEF ItemOK
<1>. QED  BY <1>1 DEF BatchItemsOK

LEMMA QueueStays ==
    ASSUME TypeInv, QueuedInv, ItemsKept, UNCHANGED ready_queue PROVE QueueItemsOK'
<1>1. ASSUME NEW i \in 1 .. Len(ready_queue) PROVE ItemOK(ready_queue[i])'
  <2>1. ready_queue[i] \in QueuedRolloutBatch /\ ItemOK(ready_queue[i])
    BY QueuedParts, Queues DEF QueueItemsOK
  <2>2. PICK x \in QueuedRolloutBatch : x = ready_queue[i]
    BY <2>1
  <2>3. ItemOK(x)'
    BY <2>1, <2>2 DEF ItemsKept
  <2>. QED  BY <2>1, <2>2, <2>3 DEF ItemOK
<1>. QED  BY <1>1 DEF QueueItemsOK

LEMMA BufferedStays ==
    ASSUME TypeInv, QueuedInv, ItemsKept, NEW k \in DOMAIN ordered_ready
    PROVE  /\ k \notin Outstanding' /\ k[1] < fired_step'
           /\ \A i \in 1 .. Len(ordered_ready[k]) :
                 /\ \A y : y = ordered_ready[k][i] => ItemOK(y)'
                 /\ ~ ordered_ready[k][i].error /\ ordered_ready[k][i].key = k
<1>1. /\ k \notin Outstanding /\ k[1] < fired_step /\ k \in Dispatch
      /\ \A i \in 1 .. Len(ordered_ready[k]) :
            /\ ItemOK(ordered_ready[k][i]) /\ ~ ordered_ready[k][i].error
            /\ ordered_ready[k][i].key = k /\ ordered_ready[k][i] \in QueuedRolloutBatch
  BY QueuedParts, Queues DEF BufferItemsOK
<1>2. ASSUME NEW i \in 1 .. Len(ordered_ready[k]), NEW y, y = ordered_ready[k][i]
      PROVE  ItemOK(y)'
  <2>1. y \in QueuedRolloutBatch /\ ItemOK(y)
    BY <1>1, <1>2
  <2>. QED  BY <2>1 DEF ItemsKept
<1>. QED  BY <1>1, <1>2 DEF ItemsKept

LEMMA BufferStays ==
    ASSUME TypeInv, QueuedInv, ItemsKept, DOMAIN ordered_ready' \subseteq DOMAIN ordered_ready,
           \A k \in DOMAIN ordered_ready' : ordered_ready'[k] = ordered_ready[k]
    PROVE  BufferItemsOK'
<1>1. ASSUME NEW k \in DOMAIN ordered_ready'
      PROVE  /\ k \notin Outstanding' /\ k[1] < fired_step'
             /\ \A i \in 1 .. Len(ordered_ready'[k]) :
                   /\ ItemOK(ordered_ready[k][i])' /\ ~ ordered_ready'[k][i].error
                   /\ ordered_ready'[k][i].key = k
  <2>1. k \in DOMAIN ordered_ready /\ ordered_ready'[k] = ordered_ready[k]
    BY <1>1
  <2>2. /\ k \notin Outstanding' /\ k[1] < fired_step'
        /\ \A i \in 1 .. Len(ordered_ready[k]) :
              /\ \A y : y = ordered_ready[k][i] => ItemOK(y)'
              /\ ~ ordered_ready[k][i].error /\ ordered_ready[k][i].key = k
    BY <2>1, BufferedStays
  <2>. QED  BY <2>1, <2>2 DEF ItemOK
<1>. QED  BY <1>1 DEF BufferItemsOK

\* The head of the queue is an item like any other, and so is what is left.
LEMMA HeadItem ==
    ASSUME TypeInv, QueuedInv, ItemsKept, ready_queue # <<>>, ready_queue' = Tail(ready_queue)
    PROVE  /\ Head(ready_queue) \in QueuedRolloutBatch /\ ItemOK(Head(ready_queue))
           /\ QueueItemsOK'
<1>1. ready_queue \in Seq(QueuedRolloutBatch)
  BY Queues
<1>2. /\ Head(ready_queue) = ready_queue[1] /\ Head(ready_queue) \in QueuedRolloutBatch
      /\ 1 \in 1 .. Len(ready_queue)
      /\ \A i \in 1 .. Len(Tail(ready_queue)) :
            i + 1 \in 1 .. Len(ready_queue) /\ Tail(ready_queue)[i] = ready_queue[i + 1]
  BY <1>1, TailPlaces
<1>3. ItemOK(Head(ready_queue))
  BY <1>2, QueuedParts DEF QueueItemsOK
<1>4. ASSUME NEW i \in 1 .. Len(ready_queue') PROVE ItemOK(ready_queue[i])'
  <2>1. i \in 1 .. Len(Tail(ready_queue)) /\ ready_queue'[i] = Tail(ready_queue)[i]
    BY <1>4
  <2>2. PICK x \in QueuedRolloutBatch : x = ready_queue[i + 1] /\ ItemOK(x)
    BY <1>2, <2>1, QueuedParts, Queues DEF QueueItemsOK
  <2>3. ItemOK(x)' /\ ready_queue'[i] = x
    BY <1>2, <2>1, <2>2 DEF ItemsKept
  <2>. QED  BY <2>3 DEF ItemOK
<1>. QED  BY <1>2, <1>3, <1>4 DEF QueueItemsOK

LEMMA CollectQueuedInv ==
    ASSUME TypeInv, QueuedInv, ItemsKept, CollectItem PROVE QueuedInv'
<1>1. ready_queue # <<>> /\ ready_queue' = Tail(ready_queue)
  BY CollectCases
<1>2. Head(ready_queue) \in QueuedRolloutBatch /\ ItemOK(Head(ready_queue)) /\ QueueItemsOK'
  BY <1>1, HeadItem
<1>3. PICK x \in QueuedRolloutBatch : x = Head(ready_queue) /\ ItemOK(x) /\ ItemOK(x)'
  BY <1>2 DEF ItemsKept
<1>4. CASE Rejects
  BY <1>2, <1>4, BatchStays, BufferStays, QueuedPartsNext DEF Rejects
<1>5. CASE Takes
  <2>1. BufferItemsOK'
    BY <1>5, BufferStays DEF Takes
  <2>2. batch' = Append(batch, x) /\ ~ x.error /\ batch \in Seq(QueuedRolloutBatch)
    BY <1>3, <1>5, Queues DEF Takes
  <2>3. ASSUME NEW i \in 1 .. Len(batch') PROVE ItemOK(batch[i])' /\ ~ batch'[i].error
    <3>1. (i \in 1 .. Len(batch) /\ batch'[i] = batch[i]) \/ batch'[i] = x
      BY <2>2, <2>3
    <3>2. CASE i \in 1 .. Len(batch) /\ batch'[i] = batch[i]
      <4>1. PICK y \in QueuedRolloutBatch : y = batch[i] /\ ItemOK(y) /\ ~ y.error
        BY <3>2, QueuedParts, Queues DEF BatchItemsOK
      <4>2. ItemOK(y)' /\ batch'[i] = y
        BY <3>2, <4>1 DEF ItemsKept
      <4>. QED  BY <4>1, <4>2 DEF ItemOK
    <3>3. CASE batch'[i] = x
      BY <1>3, <2>2, <3>3 DEF ItemOK
    <3>. QED  BY <3>1, <3>2, <3>3
  <2>4. BatchItemsOK'
    BY <2>3 DEF BatchItemsOK
  <2>. QED  BY <1>2, <2>1, <2>4, QueuedPartsNext
<1>6. CASE Buffers(x)
  <2>1. BatchItemsOK'
    BY <1>6, BatchStays DEF Buffers
  <2>2. x.key \notin Outstanding' /\ x.key[1] < fired_step' /\ ~ x.error
    BY <1>3, <1>6 DEF ItemOK, Buffers
  <2>3. ASSUME NEW k \in DOMAIN ordered_ready'
        PROVE  /\ k \notin Outstanding' /\ k[1] < fired_step'
               /\ \A i \in 1 .. Len(ordered_ready'[k]) :
                     /\ ItemOK(ordered_ready[k][i])' /\ ~ ordered_ready'[k][i].error
                     /\ ordered_ready'[k][i].key = k
    <3>1. CASE k # x.key
      <4>1. k \in DOMAIN ordered_ready /\ ordered_ready'[k] = ordered_ready[k]
        BY <1>6, <3>1 DEF Buffers
      <4>2. /\ k \notin Outstanding' /\ k[1] < fired_step'
            /\ \A i \in 1 .. Len(ordered_ready[k]) :
                  /\ \A y : y = ordered_ready[k][i] => ItemOK(y)'
                  /\ ~ ordered_ready[k][i].error /\ ordered_ready[k][i].key = k
        BY <4>1, BufferedStays
      <4>. QED  BY <4>1, <4>2 DEF ItemOK
    <3>2. CASE k = x.key
      <4>1. ASSUME NEW i \in 1 .. Len(ordered_ready'[k])
            PROVE  /\ ItemOK(ordered_ready[k][i])' /\ ~ ordered_ready'[k][i].error
                   /\ ordered_ready'[k][i].key = k
        <5>1. Len(ItemsAt(k)) \in Nat /\ Grows(ItemsAt(k), ordered_ready'[k], x, 1)
          BY <1>6, <3>2, ItemsAtTypes DEF Buffers
        <5>2. CASE i \in 1 .. Len(ItemsAt(k))
          <6>1. ordered_ready'[k][i] = ItemsAt(k)[i]
            BY <5>1, <5>2 DEF Grows
          <6>2. k \in DOMAIN ordered_ready /\ ItemsAt(k) = ordered_ready[k]
            BY <5>2 DEF ItemsAt
          <6>3. /\ \A y : y = ordered_ready[k][i] => ItemOK(y)'
                /\ ~ ordered_ready[k][i].error /\ ordered_ready[k][i].key = k
            BY <5>2, <6>2, BufferedStays
          <6>. QED  BY <6>1, <6>2, <6>3 DEF ItemOK
        <5>3. CASE i \notin 1 .. Len(ItemsAt(k))
          <6>1. Len(ordered_ready'[k]) = Len(ItemsAt(k)) + 1
            BY <5>1 DEF Grows
          <6>2. i \in Len(ItemsAt(k)) + 1 .. Len(ItemsAt(k)) + 1
            BY <4>1, <5>1, <5>3, <6>1
          <6>3. ordered_ready'[k][i] = x
            BY <5>1, <6>2 DEF Grows
          <6>. QED  BY <1>3, <2>2, <3>2, <6>3 DEF ItemOK
        <5>. QED  BY <5>2, <5>3
      <4>. QED  BY <2>2, <3>2, <4>1
    <3>. QED  BY <3>1, <3>2
  <2>4. BufferItemsOK'
    BY <2>3 DEF BufferItemsOK
  <2>. QED  BY <1>2, <2>1, <2>4, QueuedPartsNext
<1>. QED  BY <1>3, <1>4, <1>5, <1>6, CollectCases

\* What a complete step trains comes out of the buffer.
LEMMA CollectedFrom ==
    ASSUME TypeInv, pc = "collect", ordered, CollectionComplete,
           NEW i \in 1 .. Len(Collected)
    PROVE  /\ Len(Collected) = NumCollect /\ i \in 1 .. NumCollect
           /\ <<train_step, Block(i)>> \in DOMAIN ordered_ready
           /\ \E n \in 1 .. Len(ordered_ready[<<train_step, Block(i)>>]) :
                 Collected[i] = ordered_ready[<<train_step, Block(i)>>][n]
<1>1. Len(Collected) = NumCollect /\ i \in 1 .. NumCollect
  BY CollectedItems
<1>2. PICK j \in 0 .. NumMb - 1 :
         /\ j = (i - 1) \div RbMultiplier
         /\ <<train_step, j>> \in DOMAIN ordered_ready
         /\ \E n \in DOMAIN ordered_ready[<<train_step, j>>] :
               Collected[i] = ordered_ready[<<train_step, j>>][n]
  BY <1>1, CollectedItems
<1>3. j = Block(i)
  BY <1>2 DEF Block
<1>4. DOMAIN ordered_ready[<<train_step, j>>] = 1 .. Len(ordered_ready[<<train_step, j>>])
  <2>1. ordered_ready[<<train_step, j>>] \in Seq(QueuedRolloutBatch)
    BY <1>2, Queues
  <2>. QED  BY <2>1, LenProperties
<1>. QED  BY <1>1, <1>2, <1>3, <1>4

LEMMA FinishQueuedInv ==
    ASSUME TypeInv, QueuedInv, ItemsKept, FinishCollect PROVE QueuedInv'
<1>1. QueueItemsOK' /\ BufferItemsOK'
  BY FinishCases, QueueStays, BufferStays
<1>2. CASE ~ ordered
  BY <1>1, <1>2, FinishCases, BatchStays, QueuedPartsNext
<1>3. CASE ordered
  <2>1. pc = "collect" /\ CollectionComplete /\ batch' = Collected
    BY FinishCases
  <2>2. ASSUME NEW i \in 1 .. Len(batch') PROVE ItemOK(batch[i])' /\ ~ batch'[i].error
    <3>. DEFINE k == <<train_step, Block(i)>>
    <3>1. /\ k \in DOMAIN ordered_ready
          /\ \E n \in 1 .. Len(ordered_ready[k]) : Collected[i] = ordered_ready[k][n]
      BY <1>3, <2>1, <2>2, CollectedFrom
    <3>. HIDE DEF k
    <3>2. PICK n \in 1 .. Len(ordered_ready[k]) : Collected[i] = ordered_ready[k][n]
      BY <3>1
    <3>3. (\A y : y = ordered_ready[k][n] => ItemOK(y)') /\ ~ ordered_ready[k][n].error
      BY <3>1, BufferedStays
    <3>. QED  BY <2>1, <3>2, <3>3 DEF ItemOK
  <2>3. BatchItemsOK'
    BY <2>2 DEF BatchItemsOK
  <2>. QED  BY <1>1, <2>3, QueuedPartsNext
<1>. QED  BY <1>2, <1>3

\* The queue after copies of an item joined it.
LEMMA GrownQueueStays ==
    ASSUME TypeInv, QueuedInv, ItemsKept, NEW x \in QueuedRolloutBatch, NEW n \in Nat,
           ItemOK(x)', Grows(ready_queue, ready_queue', x, n)
    PROVE  QueueItemsOK'
<1>1. ASSUME NEW i \in 1 .. Len(ready_queue') PROVE ItemOK(ready_queue[i])'
  <2>1. Len(ready_queue) \in Nat
    BY Queues
  <2>2. CASE i \in 1 .. Len(ready_queue)
    <3>1. PICK y \in QueuedRolloutBatch : y = ready_queue[i] /\ ItemOK(y)
      BY <2>2, QueuedParts, Queues DEF QueueItemsOK
    <3>2. ItemOK(y)' /\ ready_queue'[i] = y
      BY <2>2, <3>1 DEF ItemsKept, Grows
    <3>. QED  BY <3>2 DEF ItemOK
  <2>3. CASE i \notin 1 .. Len(ready_queue)
    <3>1. i \in Len(ready_queue) + 1 .. Len(ready_queue) + n
      BY <1>1, <2>1, <2>3 DEF Grows
    <3>2. ready_queue'[i] = x
      BY <3>1 DEF Grows
    <3>. QED  BY <3>2 DEF ItemOK
  <2>. QED  BY <2>2, <2>3
<1>. QED  BY <1>1 DEF QueueItemsOK

LEMMA RolloutQueuedInv ==
    ASSUME TypeInv, StepInv, TaskInv, QueuedInv, ItemsKept, RolloutSide PROVE QueuedInv'
<1>1. UNCHANGED <<batch, ordered_ready, fired_step, sampler_weights, train_step>>
  BY RolloutFrame DEF loopVars, learnerVars
<1>2. BatchItemsOK' /\ BufferItemsOK'
  BY <1>1, BatchStays, BufferStays
<1>3. CASE UNCHANGED ready_queue
  BY <1>2, <1>3, QueueStays, QueuedPartsNext
<1>4. ASSUME NEW k \in DOMAIN inflight_tasks, Finishes(k) \/ Raises(k)
      PROVE  QueueItemsOK'
  <2>1. /\ k[1] < fired_step /\ inflight_tasks[k].weights = sampler_weights
        /\ k \notin Outstanding' /\ failures \in Nat /\ sampler_weights <= train_step
    <3>1. Phase(k) = "running" /\ k \notin Outstanding'
      BY <1>4 DEF Finishes, Raises
    <3>2. k[1] < fired_step /\ inflight_tasks[k].weights = sampler_weights
      BY <3>1 DEF TaskInv
    <3>3. failures \in Nat /\ sampler_weights <= train_step
      BY StepTypes, TargetReached
    <3>. QED  BY <3>1, <3>2, <3>3
  <2>2. CASE Finishes(k)
    <3>1. PICK x \in QueuedRolloutBatch :
             /\ x = Item(k, FALSE) /\ x.key = k /\ ~ x.error
             /\ x.weights = inflight_tasks[k].weights
      BY TaskTypes, FALSE \in BOOLEAN
    <3>2. ItemOK(x)'
      BY <1>1, <2>1, <3>1 DEF ItemOK
    <3>. QED  BY <2>2, <3>1, <3>2, ConstantsOK, GrownQueueStays DEF Finishes
  <2>3. CASE Raises(k)
    <3>1. PICK x \in QueuedRolloutBatch :
             /\ x = Item(k, TRUE) /\ x.key = k /\ x.weights = inflight_tasks[k].weights
      BY TaskTypes, TRUE \in BOOLEAN
    <3>2. failures' > 0
      BY <2>1, <2>3 DEF Raises
    <3>3. ItemOK(x)'
      BY <1>1, <2>1, <3>1, <3>2 DEF ItemOK
    <3>. QED  BY <2>3, <3>1, <3>3, GrownQueueStays DEF Raises
  <2>. QED  BY <1>4, <2>2, <2>3
<1>5. UNCHANGED ready_queue \/ \E k \in DOMAIN inflight_tasks : Finishes(k) \/ Raises(k)
  BY RolloutCases DEF Starts
<1>. QED  BY <1>2, <1>3, <1>4, <1>5, QueuedPartsNext

LEMMA NextQueuedInv ==
    TypeInv /\ TypeInv' /\ StepInv /\ TaskInv /\ QueuedInv /\ [Next]_vars => QueuedInv'
<1>. SUFFICES ASSUME TypeInv, TypeInv', StepInv, TaskInv, QueuedInv, [Next]_vars PROVE QueuedInv'
  OBVIOUS
<1>1. CASE Restart
  <2>1. batch' = <<>> /\ ready_queue' = <<>> /\ DOMAIN ordered_ready' = {}
    BY <1>1 DEF Restart, EmptyDict
  <2>. QED  BY <2>1 DEF QueuedInv
<1>2. CASE ~ Restart
  <2>1. ItemsKept
    BY <1>2, StepKeepsItems
  <2>2. CASE BeginStep \/ FireGenerationRequests \/ SaveModel \/ SaveData \/ WaitAllInflight
             \/ UpdateWeights
    <3>1. UNCHANGED <<batch, ready_queue, ordered_ready>>
      BY <2>2, FireCases DEF BeginStep, SaveModel, SaveData, WaitAllInflight, UpdateWeights,
         saveFrame, rolloutVars
    <3>. QED  BY <2>1, <3>1, BatchStays, QueueStays, BufferStays, QueuedPartsNext
  <2>3. CASE Train
    <3>1. UNCHANGED <<ready_queue, ordered_ready>> /\ batch' = <<>>
      BY <2>3 DEF Train
    <3>2. BatchItemsOK'
      BY <3>1 DEF BatchItemsOK
    <3>. QED  BY <2>1, <3>1, <3>2, QueueStays, BufferStays, QueuedPartsNext
  <2>. QED  BY <1>2, <2>1, <2>2, <2>3, CollectQueuedInv, FinishQueuedInv, RolloutQueuedInv, NextCases
<1>. QED  BY <1>1, <1>2

----------------------------------------------------------------------------
\* The batch is filled up to its size, by the collection alone.

LEMMA NextBatchInv == TypeInv /\ StepInv /\ BatchInv /\ [Next]_vars => BatchInv'
<1>. SUFFICES ASSUME TypeInv, StepInv, BatchInv, [Next]_vars PROVE BatchInv'
  OBVIOUS
<1>0. NumCollect \in Nat /\ Len(batch) \in Nat /\ batch \in Seq(QueuedRolloutBatch)
      /\ NumCollect' = NumCollect
  BY ConstantsOK, Products, Queues DEF NumCollect
<1>1. CASE BeginStep \/ FireGenerationRequests \/ SaveModel \/ SaveData \/ WaitAllInflight
           \/ UpdateWeights
  <2>1. UNCHANGED <<ordered, batch, ordered_ready>> /\ batch = <<>>
    BY <1>1, FireCases DEF BeginStep, SaveModel, SaveData, WaitAllInflight, UpdateWeights,
       saveFrame, rolloutVars, settings, BatchInv
  <2>2. pc' # "train"
    BY <1>1, FireCases DEF FiresAll, BeginStep, SaveModel, SaveData, WaitAllInflight, UpdateWeights,
       LoopTop, AfterLoop
  <2>. QED  BY <1>0, <2>1, <2>2 DEF BatchInv
<1>2. CASE Train \/ Restart
  <2>1. /\ batch' = <<>> /\ pc' # "train" /\ UNCHANGED ordered
        /\ DOMAIN ordered_ready' = {} \/ UNCHANGED ordered_ready
    BY <1>2 DEF Train, AfterTrain, Restart, EmptyDict, AfterBoot, LoopTop, AfterLoop, settings
  <2>2. Len(batch') <= NumCollect
    BY <1>0, <2>1
  <2>. QED  BY <1>0, <2>1, <2>2 DEF BatchInv
<1>3. CASE CollectItem
  <2>1. pc = "collect" /\ UNCHANGED ordered /\ pc' \in {"collect", "failed"}
    BY <1>3, CollectCases DEF Rejects, Takes, Buffers, settings
  <2>2. CASE UNCHANGED batch /\ (ordered \/ UNCHANGED ordered_ready)
    BY <1>0, <2>1, <2>2 DEF BatchInv
  <2>3. CASE Takes
    <3>1. ready_queue \in Seq(QueuedRolloutBatch) /\ Head(ready_queue) \in QueuedRolloutBatch
      BY <1>3, Queues, CollectCases
    <3>2. Len(batch') = Len(batch) + 1 /\ Len(batch) < NumCollect
          /\ ~ ordered /\ UNCHANGED ordered_ready
      BY <1>0, <2>3, <3>1 DEF Takes
    <3>3. Len(batch') <= NumCollect
      BY <1>0, <3>2
    <3>. QED  BY <1>0, <2>1, <3>2, <3>3 DEF BatchInv
  <2>. QED  BY <1>3, <2>2, <2>3, CollectCases DEF Rejects, Buffers
<1>4. CASE FinishCollect
  <2>1. /\ pc = "collect" /\ pc' = "train" /\ UNCHANGED ordered /\ batch' = Collected
        /\ ~ ordered => Len(batch) = NumCollect /\ UNCHANGED batch
        /\ DOMAIN ordered_ready' \subseteq DOMAIN ordered_ready /\ CollectionComplete
    BY <1>4, FinishCases DEF settings
  <2>2. Len(batch') = NumCollect
    <3>1. CASE ordered
      <4>1. Len(Collected) = NumCollect
        BY <2>1, <3>1, CollectedItems
      <4>. QED  BY <2>1, <4>1
    <3>. QED  BY <2>1, <3>1
  <2>. QED  BY <1>0, <2>1, <2>2 DEF BatchInv
<1>5. CASE RolloutSide
  BY <1>0, <1>5, RolloutFrame DEF loopVars, settings, BatchInv
<1>. QED  BY <1>1, <1>2, <1>3, <1>4, <1>5, NextCases

LEMMA InitBaseInv == Init => BaseInv
<1>. SUFFICES ASSUME Init PROVE BaseInv
  OBVIOUS
<1>1. QueuedInv /\ BatchInv
  <2>1. NumCollect \in Nat
    BY ConstantsOK, Products DEF NumCollect
  <2>. QED  BY <2>1 DEF Init, QueuedInv, BatchInv, EmptyDict
<1>. QED  BY <1>1, InitTypeInv, InitStepInv, InitTaskInv DEF BaseInv

LEMMA NextBaseInv == BaseInv /\ [Next]_vars => BaseInv'
BY NextTypeInv, NextStepInv, NextTaskInv, NextQueuedInv, NextBatchInv DEF BaseInv

LEMMA BaseInvHolds == Spec => []BaseInv
BY InitBaseInv, NextBaseInv, PTL DEF Spec

----------------------------------------------------------------------------
\* The reader.

\* Where in its epoch a call to fire begins, and how far it goes.
LEMMA ChunkPlace ==
    ASSUME TypeInv,
           NEW r, r = fired_step % StepsPerEpoch, NEW d, d = ChunkEnd - fired_step
    PROVE  /\ r \in Nat /\ d \in Nat /\ r + d <= StepsPerEpoch
           /\ ChunkEnd = fired_step + d /\ ChunkEnd \in Nat
           /\ r * NumMb \in Nat /\ d * NumMb \in Nat
           /\ (r + d) * NumMb = r * NumMb + d * NumMb
           /\ (fired_step + d) * NumMb = fired_step * NumMb + d * NumMb
           /\ ChunkEnd \div StepsPerEpoch = FireEpoch => ChunkEnd % StepsPerEpoch = r + d
<1>1. /\ FireEpoch \in Nat /\ FireEpoch * StepsPerEpoch \in Nat
      /\ fired_step = FireEpoch * StepsPerEpoch + r /\ r \in 0 .. StepsPerEpoch - 1
      /\ (FireEpoch + 1) * StepsPerEpoch = FireEpoch * StepsPerEpoch + StepsPerEpoch
      /\ ChunkEnd <= (FireEpoch + 1) * StepsPerEpoch
      /\ ChunkEnd \in fired_step .. fire_target /\ d \in Nat
  BY ChunkBounds
<1>2. /\ fired_step \in Nat /\ fire_target \in Nat /\ StepsPerEpoch \in Nat \ {0}
      /\ NumMb \in Nat
  BY ConstantsOK, StepTypes
<1>3. r \in Nat /\ ChunkEnd = fired_step + d /\ ChunkEnd \in Nat /\ r + d <= StepsPerEpoch
  BY <1>1, <1>2
<1>4. /\ r * NumMb \in Nat /\ d * NumMb \in Nat
      /\ (r + d) * NumMb = r * NumMb + d * NumMb
      /\ (fired_step + d) * NumMb = fired_step * NumMb + d * NumMb
  BY <1>1, <1>2, <1>3, Products
<1>5. PICK p \in Nat, q \in Nat, e \in Nat :
         /\ p = FireEpoch * StepsPerEpoch /\ q = FireEpoch + 1 /\ e = r + d
         /\ q * StepsPerEpoch = p + StepsPerEpoch /\ ChunkEnd = p + e
  <2>1. r + d \in Nat /\ FireEpoch + 1 \in Nat
    BY <1>1, <1>3
  <2>2. ChunkEnd = (FireEpoch * StepsPerEpoch + r) + d
    BY <1>1, <1>3
  <2>3. \A x, y, z \in Nat : (x + y) + z = x + (y + z)
    OBVIOUS
  <2>4. ChunkEnd = FireEpoch * StepsPerEpoch + (r + d)
    BY <1>1, <1>3, <2>2, <2>3
  <2>. QED  BY <1>1, <2>1, <2>4
<1>6. e <= StepsPerEpoch
  BY <1>3, <1>5
<1>7. ASSUME ChunkEnd \div StepsPerEpoch = FireEpoch PROVE ChunkEnd % StepsPerEpoch = e
  <2>1. CASE e < StepsPerEpoch
    <3>1. e \in 0 .. StepsPerEpoch - 1 /\ ChunkEnd = FireEpoch * StepsPerEpoch + e
      BY <1>2, <1>5, <2>1
    <3>2. FireEpoch \in Nat /\ ChunkEnd \in Nat /\ StepsPerEpoch \in Nat \ {0}
      BY <1>1, <1>2, <1>3
    <3>3. ChunkEnd \div StepsPerEpoch = FireEpoch /\ ChunkEnd % StepsPerEpoch = e
      <4>1. PICK a \in Nat : a = ChunkEnd
        BY <3>2
      <4>2. PICK f \in Nat : f = FireEpoch
        BY <3>2
      <4>3. a = f * StepsPerEpoch + e
        BY <3>1, <4>1, <4>2
      <4>4. a \div StepsPerEpoch = f /\ a % StepsPerEpoch = e
        <5>1. PICK u \in 0 .. StepsPerEpoch - 1 : u = e
          BY <3>1
        <5>2. a = f * StepsPerEpoch + u
          BY <4>3, <5>1
        <5>3. a \div StepsPerEpoch = f /\ a % StepsPerEpoch = u
          <6>1. PICK n \in Nat \ {0} : n = StepsPerEpoch
            BY <3>2
          <6>2. u \in 0 .. n - 1 /\ a = f * n + u
            BY <5>2, <6>1
          <6>3. a \div n = f /\ a % n = u
            BY <6>2, EuclidUnique
          <6>. QED  BY <6>1, <6>3
        <5>. QED  BY <5>1, <5>3
      <4>. QED  BY <4>1, <4>2, <4>4
    <3>. QED  BY <3>3
  <2>2. CASE ~ (e < StepsPerEpoch)
    <3>1. e = StepsPerEpoch
      BY <1>2, <1>6, <2>2
    <3>2. ChunkEnd = q * StepsPerEpoch + 0 /\ 0 \in 0 .. StepsPerEpoch - 1
      BY <1>2, <1>5, <3>1
    <3>3. ChunkEnd \div StepsPerEpoch = q
      BY <1>2, <1>3, <3>2, EuclidUnique
    <3>4. q = FireEpoch + 1 /\ FireEpoch \in Nat
      BY <1>1, <1>5
    <3>5. q # FireEpoch
      BY <3>4
    <3>. QED  BY <1>7, <3>3, <3>5
  <2>. QED  BY <2>1, <2>2
<1>. QED  BY <1>1, <1>3, <1>4, <1>5, <1>7

LEMMA OpenedBefore ==
    ASSUME TypeInv, ReaderInv, pc = "fire",
           NEW r, r = fired_step % StepsPerEpoch
    PROVE  OpenedAt.at \in Nat /\ OpenedAt.at <= r * NumMb
<1>1. OpenedAt.at \in Nat
  BY ServedBounds, ConstantsOK
<1>2. r * NumMb \in Nat
  BY ChunkPlace
<1>3. CASE NewEpoch
  <2>1. EpochOffset = 0
    BY StepTypes DEF EpochOffset, ReaderInv
  <2>2. OpenedAt.at = 0
    BY <1>3, <2>1 DEF OpenedAt, At
  <2>. QED  BY <1>1, <1>2, <2>2
<1>4. CASE ~ NewEpoch
  BY <1>1, <1>4 DEF NewEpoch, FireEpoch, OpenedAt, ReaderInv
<1>. QED  BY <1>1, <1>3, <1>4

\* No call to fire runs into the end of its epoch.
LEMMA NeverDry == TypeInv /\ ReaderInv /\ pc = "fire" => Served = Reads
<1>. SUFFICES ASSUME TypeInv, ReaderInv, pc = "fire" PROVE Served = Reads
  OBVIOUS
<1>1. PICK r, d : r = fired_step % StepsPerEpoch /\ d = ChunkEnd - fired_step
  OBVIOUS
<1>2. /\ r \in Nat /\ d \in Nat /\ r + d <= StepsPerEpoch
      /\ r * NumMb \in Nat /\ d * NumMb \in Nat
      /\ (r + d) * NumMb = r * NumMb + d * NumMb
  BY <1>1, ChunkPlace
<1>3. OpenedAt.at \in Nat /\ OpenedAt.at <= r * NumMb
  BY <1>1, OpenedBefore
<1>4. (r + d) * NumMb <= StepsPerEpoch * NumMb
  <2>1. r + d \in Nat /\ StepsPerEpoch \in Nat /\ NumMb \in Nat
    BY <1>2, ConstantsOK
  <2>. QED  BY <1>2, <2>1, Products
<1>5. StepsPerEpoch * NumMb \in Nat /\ StepsPerEpoch * NumMb <= EpochLen /\ EpochLen \in Nat
  BY EpochHoldsSteps
<1>6. Reads = d * NumMb
  BY <1>1 DEF Reads
<1>7. r * NumMb + d * NumMb <= EpochLen
  BY <1>2, <1>4, <1>5
<1>8. EpochLen - OpenedAt.at \in Int /\ ~ (EpochLen - OpenedAt.at < Reads) /\ Reads \in Int
  BY <1>2, <1>3, <1>5, <1>6, <1>7
<1>9. \A a, b \in Int : ~ (b < a) => Lesser(a, b) = a
  BY DEF Lesser
<1>. QED  BY <1>8, <1>9 DEF Served

LEMMA FireReaderInv == TypeInv /\ ReaderInv /\ FireGenerationRequests => ReaderInv'
<1>. SUFFICES ASSUME TypeInv, ReaderInv, FireGenerationRequests PROVE ReaderInv'
  OBVIOUS
<1>1. /\ pc = "fire" /\ current_epoch' = FireEpoch /\ UNCHANGED source
      /\ train_iter' = At(OpenedAt.epoch, OpenedAt.at + Served)
      /\ start_index' \in {start_index, EpochOffset}
      /\ total_dl_consumed' = IF source = "resumable" THEN total_dl_consumed + Served
                              ELSE total_dl_consumed
  BY DEF FireGenerationRequests, settings
<1>2. Served = Reads /\ Reads \in Nat /\ fired_step' = ChunkEnd
  <2>1. Served = Reads /\ Reads \in Nat
    BY <1>1, NeverDry, ChunkBounds
  <2>. QED  BY <2>1 DEF FireGenerationRequests
<1>3. source = "plain" => start_index' = 0
  BY <1>1 DEF ReaderInv, EpochOffset
<1>4. PICK r, d : r = fired_step % StepsPerEpoch /\ d = ChunkEnd - fired_step
  OBVIOUS
<1>5. /\ r \in Nat /\ d \in Nat /\ r * NumMb \in Nat /\ d * NumMb \in Nat
      /\ ChunkEnd = fired_step + d
      /\ (r + d) * NumMb = r * NumMb + d * NumMb
      /\ (fired_step + d) * NumMb = fired_step * NumMb + d * NumMb
      /\ ChunkEnd \div StepsPerEpoch = FireEpoch => ChunkEnd % StepsPerEpoch = r + d
  BY <1>4, ChunkPlace
<1>6. OpenedAt.at \in Nat /\ OpenedAt.at <= r * NumMb /\ Reads = d * NumMb
  BY <1>1, <1>4, OpenedBefore DEF Reads
<1>7. train_iter'.at = OpenedAt.at + d * NumMb
  BY <1>1, <1>2, <1>6 DEF At
<1>8. ASSUME current_epoch' = fired_step' \div StepsPerEpoch
      PROVE  train_iter'.at <= (fired_step' % StepsPerEpoch) * NumMb
  <2>1. fired_step' % StepsPerEpoch = r + d
    BY <1>1, <1>2, <1>5, <1>8
  <2>2. OpenedAt.at + d * NumMb <= r * NumMb + d * NumMb
    BY <1>5, <1>6
  <2>. QED  BY <1>5, <1>7, <2>1, <2>2
<1>9. ASSUME source = "resumable" PROVE total_dl_consumed' = fired_step' * NumMb
  <2>1. total_dl_consumed = fired_step * NumMb
    BY <1>1, <1>9 DEF ReaderInv
  <2>. QED  BY <1>1, <1>2, <1>5, <1>6, <1>9, <2>1
<1>. QED  BY <1>1, <1>3, <1>8, <1>9 DEF ReaderInv

LEMMA RestartReaderInv == TypeInv /\ ReaderInv /\ Restart => ReaderInv'
<1>. SUFFICES ASSUME TypeInv, ReaderInv, Restart PROVE ReaderInv'
  OBVIOUS
<1>1. model_ckpt \in Nat /\ source \in {"plain", "resumable"} /\ UNCHANGED source
  BY StepTypes DEF Restart, settings
<1>2. CASE Resumes(model_ckpt) /\ Rejected(model_ckpt)
  BY <1>1, <1>2 DEF Restart, readerVars, ReaderInv
<1>3. CASE ~ (Resumes(model_ckpt) /\ Rejected(model_ckpt))
  <2>1. fired_step' = model_ckpt /\ RestartReader(model_ckpt)
    BY <1>3 DEF Restart
  <2>2. CASE Resumes(model_ckpt)
    <3>1. /\ ds_ckpt[model_ckpt].total_dl_consumed = model_ckpt * NumMb
          /\ FactoryCursor(model_ckpt).at = (model_ckpt % StepsPerEpoch) * NumMb
          /\ source = "resumable"
      BY <1>3, <2>2 DEF Rejected, Resumes
    <3>2. /\ train_iter' = FactoryCursor(model_ckpt)
          /\ total_dl_consumed' = ds_ckpt[model_ckpt].total_dl_consumed
      BY <2>1, <2>2 DEF RestartReader
    <3>3. (model_ckpt % StepsPerEpoch) * NumMb \in Nat
      <4>1. model_ckpt % StepsPerEpoch \in Nat
        BY <1>1, ConstantsOK
      <4>. QED  BY <4>1, ConstantsOK, Products
    <3>. QED  BY <1>1, <2>1, <3>1, <3>2, <3>3 DEF ReaderInv
  <2>3. CASE ~ Resumes(model_ckpt)
    <3>1. current_epoch' = -1 /\ start_index' = 0 /\ total_dl_consumed' = 0
      BY <2>1, <2>3 DEF RestartReader
    <3>2. model_ckpt \div StepsPerEpoch \in Nat
      BY <1>1, ConstantsOK
    <3>3. source = "resumable" => model_ckpt = 0
      BY <1>1, <2>3 DEF Resumes
    <3>4. 0 * NumMb = 0
      BY ConstantsOK
    <3>. QED  BY <1>1, <2>1, <3>1, <3>2, <3>3, <3>4 DEF ReaderInv
  <2>. QED  BY <2>2, <2>3
<1>. QED  BY <1>2, <1>3

LEMMA InitReaderInv == Init => ReaderInv
<1>1. 0 \div StepsPerEpoch \in Nat /\ 0 * NumMb = 0
  BY ConstantsOK
<1>. QED  BY <1>1 DEF Init, ReaderInv

LEMMA NextReaderInv == TypeInv /\ ReaderInv /\ [Next]_vars => ReaderInv'
<1>. SUFFICES ASSUME TypeInv, ReaderInv, [Next]_vars PROVE ReaderInv'
  OBVIOUS
<1>1. CASE BeginStep \/ CollectItem \/ FinishCollect \/ Train \/ SaveModel \/ SaveData
           \/ WaitAllInflight \/ UpdateWeights \/ RolloutSide
  <2>1. UNCHANGED <<source, fired_step, readerVars>> /\ (pc' # "failed" => pc # "failed")
    BY <1>1, CollectCases, FinishCases, RolloutFrame
       DEF BeginStep, Train, SaveModel, SaveData, WaitAllInflight, UpdateWeights, saveFrame,
           rolloutVars, settings, loopVars
  <2>. QED  BY <2>1 DEF ReaderInv, readerVars
<1>. QED  BY <1>1, FireReaderInv, RestartReaderInv, NextCases

----------------------------------------------------------------------------
\* How many items of a dispatch a queue holds.

PosIn(q, k) == {p \in 1 .. Len(q) : q[p].key = k}
Waiting(k) == Cardinality(PosIn(ready_queue, k))

LEMMA PosFinite ==
    ASSUME NEW S, NEW q \in Seq(S), NEW k
    PROVE  /\ IsFiniteSet(PosIn(q, k)) /\ Cardinality(PosIn(q, k)) \in Nat
           /\ PosIn(q, k) # {} <=> Cardinality(PosIn(q, k)) >= 1
<1>1. Len(q) \in Nat
  OBVIOUS
<1>2. IsFiniteSet(1 .. Len(q)) /\ PosIn(q, k) \in SUBSET (1 .. Len(q))
  BY <1>1, FS_Interval DEF PosIn
<1>3. IsFiniteSet(PosIn(q, k))
  BY <1>2, FS_Subset
<1>4. Cardinality(PosIn(q, k)) \in Nat
  BY <1>3, FS_CardinalityType
<1>5. Cardinality(PosIn(q, k)) = 0 <=> PosIn(q, k) = {}
  BY <1>3, FS_EmptySet
<1>. QED  BY <1>3, <1>4, <1>5

LEMMA PosTail ==
    ASSUME NEW S, NEW q \in Seq(S), q # <<>>, NEW k
    PROVE  Cardinality(PosIn(q, k)) =
              IF Head(q).key = k THEN Cardinality(PosIn(Tail(q), k)) + 1
              ELSE Cardinality(PosIn(Tail(q), k))
<1>. DEFINE r == Tail(q)
            T == PosIn(q, k) \ {1}
            f == [p \in PosIn(r, k) |-> p + 1]
<1>1. /\ r \in Seq(S) /\ Len(q) = Len(r) + 1 /\ Len(r) \in Nat /\ Head(q) = q[1]
      /\ 1 \in 1 .. Len(q) /\ \A i \in 1 .. Len(r) : i + 1 \in 1 .. Len(q) /\ r[i] = q[i + 1]
  BY TailPlaces
<1>. HIDE DEF r
<1>2. IsFiniteSet(PosIn(r, k)) /\ IsFiniteSet(PosIn(q, k))
      /\ Cardinality(PosIn(r, k)) \in Nat /\ Cardinality(PosIn(q, k)) \in Nat
  BY <1>1, PosFinite
<1>3. f \in [PosIn(r, k) -> T]
  BY <1>1 DEF PosIn
<1>4. \A a, b \in PosIn(r, k) : f[a] = f[b] => a = b
  BY <1>1 DEF PosIn
<1>5. \A t \in T : \E a \in PosIn(r, k) : f[a] = t
  <2>. SUFFICES ASSUME NEW t \in T PROVE \E a \in PosIn(r, k) : f[a] = t
    OBVIOUS
  <2>1. PICK a \in 1 .. Len(r) : t = a + 1
    <3>1. t \in 1 .. Len(q) /\ t # 1
      BY DEF PosIn
    <3>2. t - 1 \in 1 .. Len(r) /\ t = (t - 1) + 1
      BY <1>1, <3>1
    <3>. QED  BY <3>2
  <2>2. a \in PosIn(r, k)
    BY <1>1, <2>1 DEF PosIn
  <2>. QED  BY <2>1, <2>2
<1>6. f \in Bijection(PosIn(r, k), T)
  <2>. HIDE DEF f, T
  <2>. QED  BY <1>3, <1>4, <1>5, Fun_IsBij
<1>7. Cardinality(T) = Cardinality(PosIn(r, k))
  <2>1. ExistsBijection(PosIn(r, k), T)
    BY <1>6 DEF ExistsBijection
  <2>. HIDE DEF T
  <2>. QED  BY <1>2, <2>1, FS_Bijection
<1>8. Cardinality(T) = IF 1 \in PosIn(q, k) THEN Cardinality(PosIn(q, k)) - 1
                       ELSE Cardinality(PosIn(q, k))
  BY <1>2, FS_RemoveElement
<1>9. 1 \in PosIn(q, k) <=> Head(q).key = k
  BY <1>1 DEF PosIn
<1>. QED  BY <1>2, <1>7, <1>8, <1>9 DEF r

LEMMA PosGrows ==
    ASSUME NEW S, NEW q \in Seq(S), NEW r \in Seq(S), NEW x, NEW n \in Nat, Grows(q, r, x, n),
           NEW k
    PROVE  /\ k # x.key => PosIn(r, k) = PosIn(q, k)
           /\ k = x.key /\ PosIn(q, k) = {} => Cardinality(PosIn(r, k)) = n
<1>1. /\ Len(q) \in Nat /\ Len(r) = Len(q) + n
      /\ \A p \in 1 .. Len(q) : r[p] = q[p]
      /\ \A p \in Len(q) + 1 .. Len(q) + n : r[p] = x
  BY DEF Grows
<1>2. ASSUME k # x.key PROVE PosIn(r, k) = PosIn(q, k)
  <2>1. \A p \in 1 .. Len(r) : p \in 1 .. Len(q) \/ p \in Len(q) + 1 .. Len(q) + n
    BY <1>1
  <2>2. \A p \in 1 .. Len(q) : p \in 1 .. Len(r)
    BY <1>1
  <2>. QED  BY <1>1, <1>2, <2>1, <2>2 DEF PosIn
<1>3. ASSUME k = x.key, PosIn(q, k) = {} PROVE Cardinality(PosIn(r, k)) = n
  <2>1. PosIn(r, k) = Len(q) + 1 .. Len(q) + n
    <3>1. \A p \in 1 .. Len(r) : p \in 1 .. Len(q) \/ p \in Len(q) + 1 .. Len(q) + n
      BY <1>1
    <3>2. \A p \in Len(q) + 1 .. Len(q) + n : p \in 1 .. Len(r)
      BY <1>1
    <3>3. \A p \in 1 .. Len(q) : q[p].key # k
      BY <1>3 DEF PosIn
    <3>. QED  BY <1>1, <1>3, <3>1, <3>2, <3>3 DEF PosIn
  <2>2. Len(q) + 1 \in Int /\ Len(q) + n \in Int
    BY <1>1
  <2>3. Cardinality(Len(q) + 1 .. Len(q) + n) =
          IF Len(q) + 1 > Len(q) + n THEN 0 ELSE (Len(q) + n) - (Len(q) + 1) + 1
    BY <2>2, FS_Interval
  <2>. QED  BY <1>1, <2>1, <2>3
<1>. QED  BY <1>2, <1>3

----------------------------------------------------------------------------
\* Ordered collection: nothing on its way belongs to a step already trained,
\* and no dispatch has more items than its group.

Oldest == IF pc = "train" THEN train_step + 1 ELSE train_step
Due(x) == Oldest <= x.key[1] /\ x.key[1] <= x.weights + MaxStale
TasksDue == \A k \in Outstanding : Oldest <= k[1]
QueueDue == \A p \in 1 .. Len(ready_queue) : Due(ready_queue[p])
BufferDue == \A k \in DOMAIN ordered_ready : \A i \in 1 .. Len(ordered_ready[k]) :
                Due(ordered_ready[k][i])
StepsDue == \A k \in DOMAIN ordered_ready : Oldest <= k[1]
Room == \A k \in Dispatch : Len(ItemsAt(k)) + Waiting(k) <= RbMultiplier
BatchInPlace ==
    pc = "train" => \A i \in 1 .. Len(batch) :
        /\ batch[i].key = <<train_step, Block(i)>>
        /\ train_step <= batch[i].weights + MaxStale
Stepwise == TasksDue /\ QueueDue /\ BufferDue /\ StepsDue /\ Room /\ BatchInPlace
StepwiseInv == ordered /\ pc # "failed" => Stepwise

LEMMA WaitingTypes ==
    ASSUME TypeInv, NEW k
    PROVE  /\ Waiting(k) \in Nat /\ IsFiniteSet(PosIn(ready_queue, k))
           /\ (\E p \in 1 .. Len(ready_queue) : ready_queue[p].key = k) => Waiting(k) >= 1
<1>1. ready_queue \in Seq(QueuedRolloutBatch)
  BY Queues
<1>2. /\ IsFiniteSet(PosIn(ready_queue, k)) /\ Waiting(k) \in Nat
      /\ PosIn(ready_queue, k) # {} <=> Waiting(k) >= 1
  BY <1>1, PosFinite DEF Waiting
<1>. QED  BY <1>2 DEF PosIn

\* A step that moves nothing.
LEMMA StillStepwise ==
    ASSUME BaseInv, Stepwise, Oldest' = Oldest, Outstanding' \subseteq Outstanding,
           UNCHANGED <<ready_queue, ordered_ready>>,
           pc' = "train" => UNCHANGED <<pc, train_step, batch>>
    PROVE  Stepwise'
<1>1. TasksDue'
  BY DEF Stepwise, TasksDue
<1>2. QueueDue' /\ BufferDue' /\ StepsDue'
  BY DEF Stepwise, QueueDue, BufferDue, StepsDue, Due
<1>3. Room'
  BY DEF Stepwise, Room, ItemsAt, Waiting, PosIn
<1>4. BatchInPlace'
  BY DEF Stepwise, BatchInPlace, Block
<1>. QED  BY <1>1, <1>2, <1>3, <1>4 DEF Stepwise

LEMMA FireStepwise ==
    ASSUME BaseInv, Stepwise, FireGenerationRequests PROVE pc' = "failed" \/ Stepwise'
<1>. SUFFICES ASSUME FiresAll PROVE Stepwise'
  BY FireCases DEF BaseInv
<1>1. /\ pc = "fire" /\ pc' # "train" /\ UNCHANGED <<train_step, ready_queue, ordered_ready>>
      /\ fired_step \in Nat /\ train_step \in Nat /\ train_step <= fired_step
  BY FireCases, StepTypes DEF FiresAll, BaseInv, StepInv
<1>2. Oldest = train_step /\ Oldest' = Oldest
  BY <1>1 DEF Oldest
<1>3. ASSUME NEW k \in Outstanding' PROVE Oldest <= k[1]
  <2>1. CASE k \in Outstanding
    BY <2>1 DEF Stepwise, TasksDue
  <2>2. CASE k \notin Outstanding
    <3>1. k \in Fired
      BY <2>2 DEF FiresAll, Outstanding, Phase
    <3>2. k[1] \in fired_step .. ChunkEnd - 1 /\ k[1] \in Nat
      BY <3>1, FiredKeys DEF BaseInv
    <3>. QED  BY <1>1, <1>2, <3>2
  <2>. QED  BY <2>1, <2>2
<1>4. TasksDue'
  BY <1>2, <1>3 DEF TasksDue
<1>5. QueueDue' /\ BufferDue' /\ StepsDue'
  BY <1>1, <1>2 DEF Stepwise, QueueDue, BufferDue, StepsDue, Due
<1>6. Room'
  BY <1>1 DEF Stepwise, Room, ItemsAt, Waiting, PosIn
<1>. QED  BY <1>1, <1>4, <1>5, <1>6 DEF Stepwise, BatchInPlace

\* Items that join the queue are due, and they are the first of their dispatch.
LEMMA JoinStepwise ==
    ASSUME BaseInv, TypeInv', Stepwise, NEW k \in Outstanding, Phase(k) = "running",
           NEW b \in BOOLEAN, NEW n \in Nat, n <= RbMultiplier,
           Grows(ready_queue, ready_queue', Item(k, b), n),
           Outstanding' \subseteq Outstanding,
           UNCHANGED <<pc, train_step, ordered_ready, batch>>
    PROVE  Stepwise'
<1>1. /\ Item(k, b) \in QueuedRolloutBatch /\ k \in Dispatch /\ k[1] \in Nat
      /\ Item(k, b).key = k /\ Item(k, b).weights = sampler_weights
  BY TaskTypes DEF BaseInv, TaskInv, Outstanding
<1>2. PICK x \in QueuedRolloutBatch :
         x = Item(k, b) /\ x.key = k /\ x.weights = sampler_weights
  BY <1>1
<1>3. Oldest' = Oldest
  BY DEF Oldest
<1>4. Due(x)
  <2>1. Oldest <= k[1]
    BY DEF Stepwise, TasksDue
  <2>2. k[1] < fired_step
    BY DEF Outstanding, BaseInv, TaskInv
  <2>3. k[1] <= sampler_weights + MaxStale
    <3>1. /\ fired_step <= fire_target /\ fire_target <= sampler_weights + MaxStale + 1
          /\ fired_step \in Nat /\ fire_target \in Nat /\ sampler_weights \in Nat
      BY TargetReached, StepTypes DEF BaseInv
    <3>. QED  BY <1>1, <2>2, <3>1, ConstantsOK
  <2>. QED  BY <1>2, <2>1, <2>3 DEF Due
<1>5. /\ ready_queue \in Seq(QueuedRolloutBatch) /\ ready_queue' \in Seq(QueuedRolloutBatch)
      /\ Len(ready_queue) \in Nat
  BY Queues DEF BaseInv, TypeInv, TypeOK, RolloutTypeOK
<1>6. QueueDue'
  <2>1. ASSUME NEW p \in 1 .. Len(ready_queue') PROVE Due(ready_queue'[p])
    <3>1. CASE p \in 1 .. Len(ready_queue)
      BY <3>1 DEF Grows, Stepwise, QueueDue
    <3>2. CASE p \notin 1 .. Len(ready_queue)
      <4>1. p \in Len(ready_queue) + 1 .. Len(ready_queue) + n
        BY <1>5, <2>1, <3>2 DEF Grows
      <4>. QED  BY <1>2, <1>4, <4>1 DEF Grows
    <3>. QED  BY <3>1, <3>2
  <2>. QED  BY <1>3, <2>1 DEF QueueDue, Due
<1>7. TasksDue' /\ BufferDue' /\ StepsDue' /\ BatchInPlace'
  BY <1>3 DEF Stepwise, TasksDue, BufferDue, StepsDue, Due, BatchInPlace, Block
<1>8. Room'
  <2>1. ASSUME NEW j \in Dispatch, j # k PROVE Len(ItemsAt(j)) + Waiting(j)' <= RbMultiplier
    <3>1. PosIn(ready_queue', j) = PosIn(ready_queue, j)
      BY <1>2, <1>5, <2>1, PosGrows
    <3>. QED  BY <3>1 DEF Stepwise, Room, Waiting
  <2>2. Len(ItemsAt(k)) = 0 /\ PosIn(ready_queue, k) = {}
    <3>1. k \notin DOMAIN ordered_ready
      BY QueuedParts DEF BaseInv, BufferItemsOK
    <3>2. \A p \in 1 .. Len(ready_queue) : ready_queue[p].key # k
      BY QueuedParts DEF BaseInv, QueueItemsOK, ItemOK
    <3>. QED  BY <3>1, <3>2 DEF ItemsAt, PosIn
  <2>3. Waiting(k)' = n
    <3>1. Cardinality(PosIn(ready_queue', k)) = n
      BY <1>2, <1>5, <2>2, PosGrows
    <3>. QED  BY <3>1 DEF Waiting, PosIn
  <2>4. \A j \in Dispatch : Len(ItemsAt(j)) + Waiting(j)' <= RbMultiplier
    <3>1. Len(ItemsAt(k)) + Waiting(k)' <= RbMultiplier
      BY <2>2, <2>3, ConstantsOK
    <3>. QED  BY <2>1, <3>1
  <2>. QED  BY <2>4 DEF Room, ItemsAt
<1>. QED  BY <1>6, <1>7, <1>8 DEF Stepwise

LEMMA RolloutStepwise ==
    ASSUME BaseInv, TypeInv', Stepwise, RolloutSide PROVE Stepwise'
<1>1. UNCHANGED <<pc, train_step, ordered_ready, batch>>
  BY RolloutFrame DEF loopVars
<1>2. CASE UNCHANGED ready_queue /\ Outstanding' = Outstanding
  BY <1>1, <1>2, StillStepwise DEF Oldest
<1>3. ASSUME NEW k \in DOMAIN inflight_tasks, Finishes(k) \/ Raises(k) PROVE Stepwise'
  <2>1. k \in Outstanding /\ Phase(k) = "running" /\ Outstanding' \subseteq Outstanding
    BY <1>3 DEF Finishes, Raises, Outstanding
  <2>2. CASE Finishes(k)
    <3>1. Grows(ready_queue, ready_queue', Item(k, FALSE), RbMultiplier)
      BY <2>2 DEF Finishes
    <3>2. RbMultiplier \in Nat /\ RbMultiplier <= RbMultiplier /\ FALSE \in BOOLEAN
      BY ConstantsOK
    <3>. QED  BY <1>1, <2>1, <3>1, <3>2, JoinStepwise
  <2>3. CASE Raises(k)
    <3>1. Grows(ready_queue, ready_queue', Item(k, TRUE), 1)
      BY <2>3 DEF Raises
    <3>2. 1 \in Nat /\ 1 <= RbMultiplier
      BY ConstantsOK
    <3>. QED  BY <1>1, <2>1, <3>1, <3>2, TRUE \in BOOLEAN, JoinStepwise
  <2>. QED  BY <1>3, <2>2, <2>3
<1>. QED  BY <1>2, <1>3, RolloutCases DEF Starts, BaseInv

\* What the collection takes is what the queue has waited for.
LEMMA TakenPlaces ==
    ASSUME TypeInv, ready_queue # <<>>, ready_queue' = Tail(ready_queue)
    PROVE  /\ \A k : Waiting(k) = IF Head(ready_queue).key = k THEN Waiting(k)' + 1
                                  ELSE Waiting(k)'
           /\ QueueDue => Due(Head(ready_queue))
           /\ QueueDue /\ Oldest' = Oldest => QueueDue'
           /\ \A k : Waiting(k)' \in Nat
<1>1. ready_queue \in Seq(QueuedRolloutBatch)
  BY Queues
<1>2. /\ Tail(ready_queue) \in Seq(QueuedRolloutBatch)
      /\ Head(ready_queue) = ready_queue[1] /\ 1 \in 1 .. Len(ready_queue)
      /\ \A i \in 1 .. Len(Tail(ready_queue)) :
            i + 1 \in 1 .. Len(ready_queue) /\ Tail(ready_queue)[i] = ready_queue[i + 1]
  BY <1>1, TailPlaces
<1>3. \A k : Waiting(k) = IF Head(ready_queue).key = k THEN Waiting(k)' + 1 ELSE Waiting(k)'
  <2>. SUFFICES ASSUME NEW k
                PROVE  Waiting(k) = IF Head(ready_queue).key = k THEN Waiting(k)' + 1
                                    ELSE Waiting(k)'
    OBVIOUS
  <2>1. Waiting(k)' = Cardinality(PosIn(Tail(ready_queue), k))
    BY DEF Waiting, PosIn
  <2>2. Cardinality(PosIn(ready_queue, k)) =
           IF Head(ready_queue).key = k THEN Cardinality(PosIn(Tail(ready_queue), k)) + 1
           ELSE Cardinality(PosIn(Tail(ready_queue), k))
    BY <1>1, PosTail
  <2>. QED  BY <2>1, <2>2 DEF Waiting
<1>4. QueueDue => Due(Head(ready_queue))
  BY <1>2 DEF QueueDue
<1>5. ASSUME QueueDue, Oldest' = Oldest PROVE QueueDue'
  <2>1. \A i \in 1 .. Len(Tail(ready_queue)) : Due(Tail(ready_queue)[i])
    BY <1>2, <1>5 DEF QueueDue
  <2>. QED  BY <1>5, <2>1 DEF QueueDue, Due
<1>6. \A k : Waiting(k)' \in Nat
  <2>. SUFFICES ASSUME NEW k PROVE Waiting(k)' \in Nat
    OBVIOUS
  <2>1. Cardinality(PosIn(Tail(ready_queue), k)) \in Nat
    BY <1>2, PosFinite
  <2>. QED  BY <2>1 DEF Waiting, PosIn
<1>. QED  BY <1>3, <1>4, <1>5, <1>6

LEMMA BufferStepwise ==
    ASSUME BaseInv, Stepwise, CollectItem, NEW x \in QueuedRolloutBatch, x = Head(ready_queue),
           Buffers(x)
    PROVE  Stepwise'
<1>1. /\ ready_queue # <<>> /\ ready_queue' = Tail(ready_queue) /\ pc = "collect"
      /\ pc' = "collect" /\ UNCHANGED <<train_step, batch, Outstanding>>
  BY CollectCases DEF Buffers, BaseInv
<1>2. Oldest' = Oldest
  BY <1>1 DEF Oldest
<1>3. Due(x) /\ QueueDue'
  BY <1>1, <1>2, TakenPlaces DEF Stepwise, BaseInv
<1>4. TasksDue' /\ BatchInPlace'
  BY <1>1, <1>2 DEF Stepwise, TasksDue, BatchInPlace
<1>5. /\ DOMAIN ordered_ready' = DOMAIN ordered_ready \cup {x.key}
      /\ \A k \in DOMAIN ordered_ready \ {x.key} : ordered_ready'[k] = ordered_ready[k]
      /\ Grows(ItemsAt(x.key), ordered_ready'[x.key], x, 1)
      /\ Len(ItemsAt(x.key)) \in Nat
  BY ItemsAtTypes DEF Buffers, BaseInv
<1>6. StepsDue'
  BY <1>2, <1>3, <1>5 DEF StepsDue, Stepwise, Due
<1>7. ASSUME NEW k \in DOMAIN ordered_ready', NEW i \in 1 .. Len(ordered_ready'[k])
      PROVE  Due(ordered_ready'[k][i])
  <2>1. CASE k # x.key
    BY <1>5, <1>7, <2>1 DEF Stepwise, BufferDue
  <2>2. CASE k = x.key /\ i \in 1 .. Len(ItemsAt(k))
    <3>1. k \in DOMAIN ordered_ready /\ ItemsAt(k) = ordered_ready[k]
      BY <2>2 DEF ItemsAt
    <3>2. ordered_ready'[k][i] = ordered_ready[k][i]
      BY <1>5, <2>2, <3>1 DEF Grows
    <3>. QED  BY <2>2, <3>1, <3>2 DEF Stepwise, BufferDue
  <2>3. CASE k = x.key /\ i \notin 1 .. Len(ItemsAt(k))
    <3>1. i \in Len(ItemsAt(k)) + 1 .. Len(ItemsAt(k)) + 1
      BY <1>5, <1>7, <2>3 DEF Grows
    <3>2. ordered_ready'[k][i] = x
      BY <1>5, <2>3, <3>1 DEF Grows
    <3>. QED  BY <1>3, <3>2
  <2>. QED  BY <2>1, <2>2, <2>3
<1>8. BufferDue'
  BY <1>2, <1>7 DEF BufferDue, Due
<1>9. ASSUME NEW k \in Dispatch PROVE Len(ItemsAt(k)') + Waiting(k)' <= RbMultiplier
  <2>1. /\ Len(ItemsAt(k)) + Waiting(k) <= RbMultiplier
        /\ Len(ItemsAt(k)) \in Nat /\ Waiting(k)' \in Nat /\ RbMultiplier \in Nat
        /\ Waiting(k) = IF x.key = k THEN Waiting(k)' + 1 ELSE Waiting(k)'
    BY <1>1, TakenPlaces, ItemsAtTypes, ConstantsOK DEF Stepwise, Room, BaseInv
  <2>2. CASE k = x.key
    <3>1. ItemsAt(k)' = ordered_ready'[k]
      BY <1>5, <2>2 DEF ItemsAt
    <3>2. Len(ItemsAt(k)') = Len(ItemsAt(k)) + 1
      BY <1>5, <2>2, <3>1 DEF Grows
    <3>. QED  BY <2>1, <2>2, <3>2
  <2>3. CASE k # x.key
    <3>1. ItemsAt(k)' = ItemsAt(k)
      BY <1>5, <2>3 DEF ItemsAt
    <3>. QED  BY <2>1, <2>3, <3>1
  <2>. QED  BY <2>2, <2>3
<1>10. Room'
  BY <1>9 DEF Room
<1>. QED  BY <1>3, <1>4, <1>6, <1>8, <1>10 DEF Stepwise

\* A complete step leaves nothing of itself behind.
LEMMA FinishStepwise ==
    ASSUME BaseInv, Stepwise, ordered, FinishCollect
    PROVE  Stepwise'
<1>1. /\ pc = "collect" /\ pc' = "train" /\ CollectionComplete /\ batch' = Collected
      /\ UNCHANGED <<train_step, ready_queue, Outstanding>>
      /\ DOMAIN ordered_ready' = DOMAIN ordered_ready \ StepKeys(train_step)
      /\ \A k \in DOMAIN ordered_ready' : ordered_ready'[k] = ordered_ready[k]
  BY FinishCases DEF BaseInv
<1>2. Oldest = train_step /\ Oldest' = train_step + 1 /\ train_step \in Nat
  BY <1>1, StepTypes DEF Oldest, BaseInv
<1>3. ASSUME NEW k \in Dispatch, Oldest <= k[1], k \notin StepKeys(train_step)
      PROVE  Oldest' <= k[1]
  <2>1. k[1] \in Nat /\ k[2] \in 0 .. NumMb - 1 /\ k = <<k[1], k[2]>>
    BY <1>3, ConstantsOK DEF Dispatch
  <2>2. k[1] # train_step
    BY <1>3, <2>1 DEF StepKeys
  <2>. QED  BY <1>2, <1>3, <2>1, <2>2
<1>4. ASSUME NEW k \in StepKeys(train_step), k \in Dispatch
      PROVE  /\ k \in DOMAIN ordered_ready /\ k \notin Outstanding
             /\ \A p \in 1 .. Len(ready_queue) : ready_queue[p].key # k
  <2>1. Len(ItemsAt(k)) = RbMultiplier /\ RbMultiplier \in Nat \ {0}
    BY <1>1, <1>4, ConstantsOK DEF CollectionComplete, OrderedStepComplete
  <2>2. k \in DOMAIN ordered_ready
    BY <2>1 DEF ItemsAt
  <2>3. k \notin Outstanding
    BY <2>2, QueuedParts DEF BaseInv, BufferItemsOK
  <2>4. ~ (Waiting(k) >= 1)
    BY <1>4, <2>1, WaitingTypes DEF Stepwise, Room, BaseInv
  <2>. QED  BY <2>2, <2>3, <2>4, WaitingTypes DEF BaseInv
<1>5. TasksDue'
  <2>1. ASSUME NEW k \in Outstanding PROVE Oldest' <= k[1]
    <3>1. k \in Dispatch /\ Oldest <= k[1]
      BY TaskTypes DEF Outstanding, BaseInv, Stepwise, TasksDue
    <3>. QED  BY <1>3, <1>4, <2>1, <3>1
  <2>. QED  BY <1>1, <2>1 DEF TasksDue
<1>6. QueueDue'
  <2>1. ASSUME NEW p \in 1 .. Len(ready_queue)
        PROVE  /\ Oldest' <= ready_queue[p].key[1]
               /\ ready_queue[p].key[1] <= ready_queue[p].weights + MaxStale
    <3>1. ready_queue[p] \in QueuedRolloutBatch /\ Due(ready_queue[p])
      BY Queues DEF BaseInv, Stepwise, QueueDue
    <3>2. ready_queue[p].key \in Dispatch
      BY <3>1 DEF QueuedRolloutBatch
    <3>. QED  BY <1>3, <1>4, <3>1, <3>2 DEF Due
  <2>. QED  BY <1>1, <2>1 DEF QueueDue, Due
<1>7. StepsDue' /\ BufferDue'
  <2>1. ASSUME NEW k \in DOMAIN ordered_ready'
        PROVE  /\ Oldest' <= k[1] /\ ordered_ready'[k] = ordered_ready[k]
               /\ \A i \in 1 .. Len(ordered_ready[k]) :
                     /\ Oldest' <= ordered_ready[k][i].key[1]
                     /\ ordered_ready[k][i].key[1] <= ordered_ready[k][i].weights + MaxStale
    <3>1. k \in DOMAIN ordered_ready /\ k \notin StepKeys(train_step) /\ k \in Dispatch
      BY <1>1, Queues DEF BaseInv
    <3>2. Oldest' <= k[1]
      BY <1>3, <3>1 DEF Stepwise, StepsDue
    <3>3. \A i \in 1 .. Len(ordered_ready[k]) :
             ordered_ready[k][i].key = k /\ Due(ordered_ready[k][i])
      BY <3>1, QueuedParts DEF BaseInv, BufferItemsOK, Stepwise, BufferDue
    <3>. QED  BY <1>1, <3>2, <3>3 DEF Due
  <2>. QED  BY <2>1 DEF StepsDue, BufferDue, Due
<1>8. Room'
  <2>1. ASSUME NEW k \in Dispatch PROVE Len(ItemsAt(k)') + Waiting(k)' <= RbMultiplier
    <3>1. Waiting(k)' = Waiting(k)
      BY <1>1 DEF Waiting, PosIn
    <3>2. /\ Len(ItemsAt(k)) + Waiting(k) <= RbMultiplier
          /\ Len(ItemsAt(k)) \in Nat /\ Waiting(k) \in Nat /\ RbMultiplier \in Nat
      BY ItemsAtTypes, WaitingTypes, ConstantsOK DEF Stepwise, Room, BaseInv
    <3>3. CASE k \in DOMAIN ordered_ready'
      <4>1. ItemsAt(k)' = ItemsAt(k)
        BY <1>1, <3>3 DEF ItemsAt
      <4>. QED  BY <3>1, <3>2, <4>1
    <3>4. CASE k \notin DOMAIN ordered_ready'
      <4>1. Len(ItemsAt(k)') = 0
        BY <3>4 DEF ItemsAt
      <4>. QED  BY <3>1, <3>2, <4>1
    <3>. QED  BY <3>3, <3>4
  <2>. QED  BY <2>1 DEF Room
<1>9. BatchInPlace'
  <2>1. ASSUME NEW i \in 1 .. Len(batch')
        PROVE  /\ batch'[i].key = <<train_step, Block(i)>>
               /\ train_step <= batch'[i].weights + MaxStale
    <3>. DEFINE k == <<train_step, Block(i)>>
    <3>1. /\ k \in DOMAIN ordered_ready
          /\ \E n \in 1 .. Len(ordered_ready[k]) : Collected[i] = ordered_ready[k][n]
      BY <1>1, <2>1, CollectedFrom DEF BaseInv
    <3>2. k[1] = train_step
      OBVIOUS
    <3>. HIDE DEF k
    <3>3. PICK n \in 1 .. Len(ordered_ready[k]) : Collected[i] = ordered_ready[k][n]
      BY <3>1
    <3>4. ordered_ready[k][n].key = k /\ Due(ordered_ready[k][n])
      BY <3>1, QueuedParts DEF BaseInv, BufferItemsOK, Stepwise, BufferDue
    <3>5. batch'[i].key = k /\ train_step <= batch'[i].weights + MaxStale
      BY <1>1, <3>2, <3>3, <3>4 DEF Due
    <3>. QED  BY <3>5 DEF k
  <2>. QED  BY <1>1, <2>1 DEF BatchInPlace, Block
<1>. QED  BY <1>5, <1>6, <1>7, <1>8, <1>9 DEF Stepwise

LEMMA NextStepwiseInv == BaseInv /\ StepwiseInv /\ [Next]_vars => StepwiseInv'
<1>. SUFFICES ASSUME BaseInv, StepwiseInv, [Next]_vars, ordered', pc' # "failed" PROVE Stepwise'
  BY DEF StepwiseInv
<1>0. TypeInv /\ TypeInv' /\ train_step \in Nat
  BY NextTypeInv, StepTypes DEF BaseInv
<1>1. CASE Restart
  <2>1. /\ pc' # "train" /\ DOMAIN inflight_tasks' = {} /\ ready_queue' = <<>>
        /\ DOMAIN ordered_ready' = {}
    BY <1>1 DEF Restart, EmptyDict, AfterBoot, LoopTop, AfterLoop
  <2>2. TasksDue' /\ QueueDue' /\ BufferDue' /\ StepsDue' /\ BatchInPlace'
    BY <2>1 DEF TasksDue, Outstanding, QueueDue, BufferDue, StepsDue, BatchInPlace
  <2>3. ASSUME NEW k \in Dispatch PROVE Len(ItemsAt(k)') + Waiting(k)' <= RbMultiplier
    <3>1. Len(ItemsAt(k)') = 0 /\ PosIn(ready_queue', k) = {}
      BY <2>1 DEF ItemsAt, PosIn
    <3>2. Cardinality(PosIn(ready_queue', k)) = 0
      BY <3>1, FS_EmptySet
    <3>3. Waiting(k)' = 0
      BY <3>2 DEF Waiting, PosIn
    <3>. QED  BY <3>1, <3>3, ConstantsOK
  <2>4. Room'
    BY <2>3 DEF Room
  <2>. QED  BY <2>2, <2>4 DEF Stepwise
<1>2. CASE ~ Restart
  <2>1. UNCHANGED ordered /\ pc # "failed"
    BY <1>2, FireCases, CollectCases, FinishCases, RolloutFrame, NextCases
       DEF BeginStep, Train, SaveModel, SaveData, WaitAllInflight, UpdateWeights, saveFrame,
           settings, loopVars, BaseInv
  <2>2. Stepwise
    BY <2>1 DEF StepwiseInv
  <2>3. CASE BeginStep \/ SaveModel \/ SaveData \/ WaitAllInflight \/ UpdateWeights \/ Train
    <3>1. UNCHANGED <<ready_queue, ordered_ready>> /\ pc' # "train" /\ Oldest' = Oldest
      BY <2>3 DEF BeginStep, SaveModel, SaveData, WaitAllInflight, UpdateWeights, Train, saveFrame,
         rolloutVars, LoopTop, AfterLoop, AfterTrain, Oldest
    <3>2. Outstanding' \subseteq Outstanding
      BY <2>3 DEF BeginStep, SaveModel, SaveData, WaitAllInflight, UpdateWeights, Train, saveFrame,
         rolloutVars, Outstanding, Phase, EmptyDict
    <3>. QED  BY <2>2, <3>1, <3>2, StillStepwise
  <2>4. CASE FireGenerationRequests
    BY <2>2, <2>4, FireStepwise
  <2>5. CASE RolloutSide
    BY <1>0, <2>2, <2>5, RolloutStepwise
  <2>6. CASE CollectItem
    <3>1. PICK x \in QueuedRolloutBatch : x = Head(ready_queue)
      BY <1>0, <2>6, CollectCases
    <3>2. Buffers(x)
      BY <1>0, <2>1, <2>6, <3>1, CollectCases DEF Rejects, Takes
    <3>. QED  BY <2>2, <2>6, <3>1, <3>2, BufferStepwise
  <2>7. CASE FinishCollect
    BY <2>1, <2>2, <2>7, FinishStepwise
  <2>. QED  BY <1>2, <2>3, <2>4, <2>5, <2>6, <2>7, NextCases
<1>. QED  BY <1>1, <1>2

LEMMA InitStepwiseInv == Init => StepwiseInv
<1>. SUFFICES ASSUME Init PROVE Stepwise
  BY DEF StepwiseInv
<1>1. /\ pc # "train" /\ DOMAIN inflight_tasks = {} /\ ready_queue = <<>>
      /\ DOMAIN ordered_ready = {}
  BY DEF Init, EmptyDict
<1>2. TasksDue /\ QueueDue /\ BufferDue /\ StepsDue /\ BatchInPlace
  BY <1>1 DEF TasksDue, Outstanding, QueueDue, BufferDue, StepsDue, BatchInPlace
<1>3. ASSUME NEW k \in Dispatch PROVE Len(ItemsAt(k)) + Waiting(k) <= RbMultiplier
  <2>1. Len(ItemsAt(k)) = 0 /\ PosIn(ready_queue, k) = {}
    BY <1>1 DEF ItemsAt, PosIn
  <2>2. Waiting(k) = 0
    BY <2>1, FS_EmptySet DEF Waiting
  <2>. QED  BY <2>1, <2>2, ConstantsOK
<1>4. Room
  BY <1>3 DEF Room
<1>. QED  BY <1>2, <1>4 DEF Stepwise

LEMMA StepwiseHolds == Spec => [](BaseInv /\ StepwiseInv)
<1>1. Init => BaseInv /\ StepwiseInv
  BY InitBaseInv, InitStepwiseInv
<1>2. (BaseInv /\ StepwiseInv) /\ [Next]_vars => (BaseInv /\ StepwiseInv)'
  BY NextBaseInv, NextStepwiseInv
<1>. QED  BY <1>1, <1>2, PTL DEF Spec

----------------------------------------------------------------------------
\* Every stop has a cause.

Cause == failures > 0 \/ (Resumes(model_ckpt) /\ model_ckpt \notin DOMAIN ds_ckpt)

\* What the step that stops the trainer has met.
LEMMA StopHasCause ==
    ASSUME BaseInv, StepwiseInv, ReaderInv, EpochLen % NumMb = 0,
           [Next]_vars, pc # "failed" \/ restarts' # restarts, pc' = "failed"
    PROVE  Cause'
<1>0. TypeInv /\ failures \in Nat /\ model_ckpt \in Nat /\ train_step \in Nat
      /\ fired_step \in Nat
  BY StepTypes DEF BaseInv
<1>1. CASE FireGenerationRequests
  <2>1. Served = Reads /\ Reads \in Nat
    BY <1>0, <1>1, NeverDry, FireCases, ChunkBounds
  <2>. QED  BY <1>0, <1>1, <2>1, FireCases DEF FiresAll
<1>2. CASE CollectItem
  <2>1. PICK x \in QueuedRolloutBatch : x = Head(ready_queue)
    BY <1>0, <1>2, CollectCases
  <2>2. /\ pc = "collect" /\ ready_queue # <<>> /\ failures' = failures
    BY <1>0, <1>2, CollectCases
  <2>3. 1 \in 1 .. Len(ready_queue) /\ x = ready_queue[1]
    <3>1. ready_queue \in Seq(QueuedRolloutBatch)
      BY <1>0, Queues
    <3>. QED  BY <2>1, <2>2, <3>1, TailPlaces
  <2>4. CASE x.error
    <3>1. failures > 0
      BY <2>3, <2>4, QueuedParts DEF BaseInv, QueueItemsOK, ItemOK
    <3>. QED  BY <2>2, <3>1 DEF Cause
  <2>5. CASE ~ x.error
    <3>1. /\ ordered
          /\ Stale \/ x.key[1] < train_step \/ Len(ItemsAt(x.key)) >= RbMultiplier
      BY <1>0, <1>2, <2>1, <2>5, CollectCases DEF Rejects, Takes, Buffers
    <3>2. Stepwise /\ Oldest = train_step
      BY <2>2, <3>1 DEF StepwiseInv, Oldest
    <3>3. ~ Stale
      <4>1. \A k \in DOMAIN ordered_ready : k[1] \in Nat /\ train_step <= k[1]
        <5>1. DOMAIN ordered_ready \subseteq Dispatch
          BY <1>0, Queues
        <5>2. \A k \in Dispatch : k[1] \in Nat
          BY ConstantsOK DEF Dispatch
        <5>. QED  BY <3>2, <5>1, <5>2 DEF Stepwise, StepsDue
      <4>. QED  BY <1>0, <4>1 DEF Stale
    <3>4. x.key \in Dispatch /\ x.key[1] \in Nat
      BY ConstantsOK DEF QueuedRolloutBatch, Dispatch
    <3>5. ~ (x.key[1] < train_step)
      BY <1>0, <2>3, <3>2, <3>4 DEF Stepwise, QueueDue, Due
    <3>6. ~ (Len(ItemsAt(x.key)) >= RbMultiplier)
      <4>1. Waiting(x.key) >= 1 /\ Waiting(x.key) \in Nat
        BY <1>0, <2>3, WaitingTypes
      <4>2. Len(ItemsAt(x.key)) + Waiting(x.key) <= RbMultiplier
        BY <3>2, <3>4 DEF Stepwise, Room
      <4>. QED  BY <1>0, <4>1, <4>2, ItemsAtTypes, ConstantsOK
    <3>. QED  BY <3>1, <3>3, <3>5, <3>6
  <2>. QED  BY <2>4, <2>5
<1>3. CASE SaveData
  <2>1. /\ source = "resumable" /\ total_dl_consumed < Committed(train_step)
        /\ pc # "failed"
    BY <1>3 DEF SaveData
  <2>2. total_dl_consumed = fired_step * NumMb /\ train_step <= fired_step
    BY <2>1 DEF ReaderInv, BaseInv, StepInv
  <2>3. train_step * NumMb <= fired_step * NumMb
    BY <1>0, <2>2, ConstantsOK, Products
  <2>4. train_step * NumMb \in Nat /\ fired_step * NumMb \in Nat
    BY <1>0, ConstantsOK, Products
  <2>. QED  BY <2>1, <2>2, <2>3, <2>4 DEF Committed
<1>4. CASE WaitAllInflight
  <2>1. /\ \E k \in DOMAIN inflight_tasks : inflight_tasks[k].phase = "failed"
        /\ UNCHANGED failures
    BY <1>4 DEF WaitAllInflight
  <2>. QED  BY <2>1 DEF Cause, BaseInv, TaskInv, Phase
<1>5. CASE Restart
  <2>1. Resumes(model_ckpt) /\ Rejected(model_ckpt) /\ UNCHANGED <<source, model_ckpt, ds_ckpt>>
    BY <1>5 DEF Restart, AfterBoot, LoopTop, AfterLoop, diskVars, settings
  <2>2. FactoryCursor(model_ckpt).at = (model_ckpt % StepsPerEpoch) * NumMb
    BY <1>0, FactoryCursorOK, AlignedPosition
  <2>3. model_ckpt \notin DOMAIN ds_ckpt
    BY <2>1, <2>2 DEF Rejected, BaseInv, TypeInv, SnapshotsOK, Committed
  <2>. QED  BY <2>1, <2>3 DEF Cause, Resumes
<1>6. CASE BeginStep \/ FinishCollect \/ Train \/ SaveModel \/ UpdateWeights
  BY <1>0, <1>6, FinishCases DEF BeginStep, Train, SaveModel, UpdateWeights, AfterTrain, LoopTop,
     AfterLoop
<1>7. CASE RolloutSide
  BY <1>7, RolloutFrame DEF loopVars
<1>. QED  BY <1>1, <1>2, <1>3, <1>4, <1>5, <1>6, <1>7, NextCases

LEMMA NextCause ==
    BaseInv /\ StepwiseInv /\ ReaderInv /\ FailsForCause /\ [Next]_vars => FailsForCause'
<1>. SUFFICES ASSUME BaseInv, StepwiseInv, ReaderInv, FailsForCause, [Next]_vars,
                     pc' = "failed", EpochLen % NumMb = 0
              PROVE  Cause'
  BY DEF FailsForCause, Cause
<1>0. TypeInv /\ TaskInv /\ failures \in Nat /\ restarts \in Nat
  BY StepTypes DEF BaseInv
<1>1. CASE pc # "failed" \/ Restart
  <2>1. Restart => restarts' # restarts
    BY <1>0 DEF Restart
  <2>. QED  BY <1>1, <2>1, StopHasCause
<1>2. CASE pc = "failed" /\ ~ Restart
  <2>1. RolloutSide
    BY <1>0, <1>2, NextCases, FireCases, CollectCases, FinishCases DEF BeginStep, Train, SaveModel,
       SaveData, WaitAllInflight, UpdateWeights
  <2>2. UNCHANGED <<source, model_ckpt, ds_ckpt>> /\ failures' \in {failures, failures + 1}
    BY <1>0, <2>1, RolloutFrame, RolloutCases DEF settings, diskVars, Starts, Finishes, Raises
  <2>3. Cause
    BY <1>2 DEF FailsForCause, Cause
  <2>. QED  BY <1>0, <2>2, <2>3 DEF Cause, Resumes
<1>. QED  BY <1>1, <1>2

\* FailsForCause: where whole steps fill an epoch, with any collection order, any
\* source and any number of relaunches, the trainer stops early only on an
\* agent's exception or on a checkpoint torn between the model's save and the
\* data source's: none of the assertions of the ordered collection and of the
\* resume ever trips, and no read of the dataloader runs past its epoch.
THEOREM StopsForCause == Spec => []FailsForCause
<1>. DEFINE Inv == BaseInv /\ StepwiseInv /\ ReaderInv /\ FailsForCause
<1>1. Init => FailsForCause
  BY DEF Init, FailsForCause
<1>2. Init => Inv
  BY <1>1, InitBaseInv, InitStepwiseInv, InitReaderInv
<1>3. Inv /\ [Next]_vars => Inv'
  BY NextBaseInv, NextStepwiseInv, NextReaderInv, NextCause DEF BaseInv
<1>. QED  BY <1>2, <1>3, PTL DEF Spec

----------------------------------------------------------------------------
\* Arrival order: what the queue holds is decided by what has been fired and
\* trained, and the items of a dispatch fill a block of Line.

LEMMA Distribute ==
    ASSUME NEW a \in Int, NEW b \in Int, NEW n \in Int
    PROVE  /\ a * n \in Int /\ (a + b) * n = a * n + b * n /\ (a - b) * n = a * n - b * n
           /\ (a + 1) * n = a * n + n
           /\ n \in Nat /\ a <= b => a * n <= b * n
           /\ n \in Nat \ {0} /\ a * n < b * n => a < b
<1>1. /\ a * n \in Int /\ b * n \in Int /\ (a + b) * n = a * n + b * n
      /\ (a - b) * n = a * n - b * n /\ (a + 1) * n = a * n + n
  OBVIOUS
<1>2. ASSUME NEW x \in Int, NEW y \in Int, n \in Nat, x <= y PROVE x * n <= y * n
  <2>1. PICK d \in Nat : y = x + d
    <3>1. y - x \in Nat /\ y = x + (y - x)
      BY <1>2
    <3>. QED  BY <3>1
  <2>2. y * n = x * n + d * n /\ d * n \in Nat /\ x * n \in Int
    BY <1>2, <2>1
  <2>. QED  BY <2>2
<1>3. ASSUME n \in Nat, a * n < b * n PROVE a < b
  <2>1. ~ (b <= a)
    BY <1>1, <1>2, <1>3
  <2>. QED  BY <2>1
<1>. QED  BY <1>1, <1>2, <1>3

LEMMA BlockIs ==
    ASSUME NEW p \in Nat \ {0}, NEW g \in Nat
    PROVE  Block(p) = g <=> (g * RbMultiplier < p /\ p <= (g + 1) * RbMultiplier)
<1>1. /\ RbMultiplier \in Nat \ {0} /\ p - 1 \in Nat
      /\ (g + 1) * RbMultiplier = g * RbMultiplier + RbMultiplier /\ g * RbMultiplier \in Nat
  BY ConstantsOK, Products
<1>2. ASSUME Block(p) = g PROVE g * RbMultiplier < p /\ p <= (g + 1) * RbMultiplier
  <2>1. PICK r \in 0 .. RbMultiplier - 1 : p - 1 = Block(p) * RbMultiplier + r
    BY <1>1, Euclid DEF Block
  <2>2. PICK x \in Nat : x = g * RbMultiplier
    BY <1>1
  <2>3. p - 1 = x + r
    BY <1>2, <2>1, <2>2
  <2>. QED  BY <1>1, <2>2, <2>3
<1>3. ASSUME g * RbMultiplier < p, p <= (g + 1) * RbMultiplier PROVE Block(p) = g
  <2>1. PICK x \in Nat : x = g * RbMultiplier
    BY <1>1
  <2>2. x < p /\ p <= x + RbMultiplier
    BY <1>1, <1>3, <2>1
  <2>3. PICK r \in 0 .. RbMultiplier - 1 : p - 1 = x + r
    <3>1. p - 1 - x \in 0 .. RbMultiplier - 1 /\ p - 1 = x + (p - 1 - x)
      BY <1>1, <2>2
    <3>. QED  BY <3>1
  <2>4. PICK a \in Nat : a = p - 1
    BY <1>1
  <2>5. a = g * RbMultiplier + r
    BY <2>1, <2>3, <2>4
  <2>6. a \div RbMultiplier = g
    BY <1>1, <2>5, EuclidUnique
  <2>. QED  BY <2>4, <2>6 DEF Block
<1>. QED  BY <1>2, <1>3

LEMMA BlockType ==
    ASSUME NEW p \in Nat \ {0} PROVE Block(p) \in Nat
<1>1. RbMultiplier \in Nat \ {0} /\ p - 1 \in Nat
  BY ConstantsOK
<1>. QED  BY <1>1, Euclid DEF Block

LEMMA CollectSize ==
    /\ NumCollect \in Nat \ {0} /\ RbMultiplier \in Nat \ {0} /\ NumMb \in Nat \ {0}
    /\ NumCollect = NumMb * RbMultiplier
<1>1. 1 <= NumMb /\ 1 \in Nat /\ NumMb \in Nat /\ RbMultiplier \in Nat \ {0}
  BY ConstantsOK
<1>2. 1 * RbMultiplier <= NumMb * RbMultiplier /\ 1 * RbMultiplier = RbMultiplier
      /\ NumMb * RbMultiplier \in Nat
  BY <1>1, Products
<1>. QED  BY <1>1, <1>2 DEF NumCollect

\* A step's worth of places is a whole number of blocks.
LEMMA BlockShift ==
    ASSUME NEW p \in Nat \ {0} PROVE Block(p + NumCollect) = Block(p) + NumMb
<1>1. PICK g \in Nat : g = Block(p)
  BY BlockType
<1>2. g * RbMultiplier < p /\ p <= (g + 1) * RbMultiplier
  BY <1>1, BlockIs
<1>3. /\ g + NumMb \in Nat /\ p + NumCollect \in Nat \ {0} /\ g + 1 \in Nat
      /\ NumMb \in Nat /\ RbMultiplier \in Nat
  BY CollectSize
<1>4. /\ (g + NumMb) * RbMultiplier = g * RbMultiplier + NumCollect
      /\ ((g + 1) + NumMb) * RbMultiplier = (g + 1) * RbMultiplier + NumCollect
      /\ g * RbMultiplier \in Nat /\ (g + 1) * RbMultiplier \in Nat
  BY <1>3, CollectSize, Products
<1>5. (g + 1) + NumMb = (g + NumMb) + 1
  BY <1>3
<1>6. PICK x \in Nat, y \in Nat : x = g * RbMultiplier /\ y = (g + 1) * RbMultiplier
  BY <1>4
<1>7. x + NumCollect < p + NumCollect /\ p + NumCollect <= y + NumCollect
  BY <1>2, <1>6, CollectSize
<1>8. /\ (g + NumMb) * RbMultiplier < p + NumCollect
      /\ p + NumCollect <= ((g + NumMb) + 1) * RbMultiplier
  BY <1>4, <1>5, <1>6, <1>7
<1>. QED  BY <1>1, <1>3, <1>8, BlockIs

LEMMA DispatchFinite ==
    ASSUME NEW S, S \subseteq Dispatch
    PROVE  IsFiniteSet(S) /\ Cardinality(S) \in Nat
<1>1. IsFiniteSet(0 .. TotalSteps - 1) /\ IsFiniteSet(0 .. NumMb - 1)
  BY ConstantsOK, FS_Interval
<1>2. IsFiniteSet(Dispatch)
  BY <1>1, FS_Product DEF Dispatch
<1>. QED  BY <1>2, FS_Subset, FS_CardinalityType

\* A call fires NumMb dispatches for each of its steps, none of them fired before.
LEMMA FiredCount ==
    ASSUME TypeInv, TaskInv
    PROVE  /\ Cardinality(Fired) = (ChunkEnd - fired_step) * NumMb
           /\ IsFiniteSet(Fired) /\ Fired \cap DOMAIN inflight_tasks = {}
<1>. DEFINE steps == fired_step .. ChunkEnd - 1
            mbs == 0 .. NumMb - 1
<1>1. /\ fired_step \in Nat /\ ChunkEnd \in Nat /\ fired_step <= ChunkEnd
      /\ ChunkEnd <= TotalSteps /\ TotalSteps \in Nat /\ NumMb \in Nat \ {0}
  <2>1. ChunkEnd \in fired_step .. fire_target /\ fire_target \in 0 .. TotalSteps
        /\ fired_step \in 0 .. TotalSteps
    BY ChunkBounds DEF TypeInv, TypeOK, LoopTypeOK
  <2>. QED  BY <2>1, ConstantsOK
<1>2. /\ IsFiniteSet(steps) /\ Cardinality(steps) = ChunkEnd - fired_step
      /\ IsFiniteSet(mbs) /\ Cardinality(mbs) = NumMb
  <2>1. ChunkEnd - 1 \in Int /\ NumMb - 1 \in Int /\ fired_step \in Int
    BY <1>1
  <2>2. IsFiniteSet(steps) /\ Cardinality(steps) =
           IF fired_step > ChunkEnd - 1 THEN 0 ELSE ChunkEnd - 1 - fired_step + 1
    BY <2>1, FS_Interval
  <2>3. IsFiniteSet(mbs) /\ Cardinality(mbs) = NumMb - 1 - 0 + 1
    BY <1>1, <2>1, FS_Interval
  <2>. HIDE DEF steps, mbs
  <2>. QED  BY <1>1, <2>2, <2>3
<1>3. IsFiniteSet(steps \X mbs) /\ Cardinality(steps \X mbs) = (ChunkEnd - fired_step) * NumMb
  <2>. HIDE DEF steps, mbs
  <2>. QED  BY <1>2, FS_Product
<1>4. Fired = steps \X mbs
  <2>1. ASSUME NEW k \in steps \X mbs PROVE k \in Fired
    <3>1. k[1] \in steps /\ k[2] \in mbs /\ k = <<k[1], k[2]>>
      OBVIOUS
    <3>2. k[1] \in 0 .. TotalSteps - 1
      BY <1>1, <3>1
    <3>3. k \in Dispatch
      BY <3>1, <3>2 DEF Dispatch
    <3>. QED  BY <3>1, <3>3 DEF Fired
  <2>2. ASSUME NEW k \in Fired PROVE k \in steps \X mbs
    <3>1. k \in Dispatch /\ k[1] \in steps /\ k[2] \in mbs
      BY FiredKeys
    <3>2. k = <<k[1], k[2]>>
      BY <3>1 DEF Dispatch
    <3>. HIDE DEF steps, mbs
    <3>. QED  BY <3>1, <3>2
  <2>. QED  BY <2>1, <2>2
<1>5. Fired \cap DOMAIN inflight_tasks = {}
  <2>. SUFFICES ASSUME NEW k \in Fired, k \in DOMAIN inflight_tasks PROVE FALSE
    OBVIOUS
  <2>1. k[1] \in fired_step .. ChunkEnd - 1 /\ k[1] \in Nat /\ k[1] < fired_step
    BY FiredKeys DEF TaskInv
  <2>. QED  BY <1>1, <2>1
<1>. QED  BY <1>3, <1>4, <1>5

\* As long as no error is in Line, Line and the dispatches still worked on make
\* up the steps fired and not trained; the items of a dispatch fill a block; and
\* what is at a place is fresh enough for the step that will train it.
Balanced ==
    Clean(Len(Line)) =>
        Len(Line) + Cardinality(Outstanding) * RbMultiplier = (fired_step - train_step) * NumCollect
SomeFailed == \E k \in DOMAIN inflight_tasks : Phase(k) = "failed"
Guarded == Clean(Len(Line)) \/ SomeFailed
Grouped ==
    \A p, q \in 1 .. Len(Line) :
        Clean(p) /\ Clean(q) => (Line[p].key = Line[q].key <=> Block(p) = Block(q))
Aged ==
    \A p \in 1 .. Len(Line) :
        Clean(p) => p <= (Line[p].weights + MaxStale + 1 - train_step) * NumCollect
Arrival == Balanced /\ Guarded /\ Grouped /\ Aged
ArrivalInv == ~ ordered /\ pc # "failed" => Arrival

LEMMA OutstandingFinite ==
    ASSUME TypeInv
    PROVE  /\ Outstanding \subseteq Dispatch /\ IsFiniteSet(Outstanding)
           /\ Cardinality(Outstanding) \in Nat
<1>1. Outstanding \subseteq Dispatch
  BY TaskTypes DEF Outstanding
<1>. QED  BY <1>1, DispatchFinite

LEMMA SameArrival ==
    ASSUME Arrival, UNCHANGED <<Line, train_step, fired_step>>, Outstanding' = Outstanding,
           Clean(Len(Line)) \/ SomeFailed'
    PROVE  Arrival'
<1>1. Clean(Len(Line))' <=> Clean(Len(Line))
  BY DEF Clean
<1>2. Balanced'
  BY <1>1 DEF Arrival, Balanced, NumCollect
<1>3. Guarded'
  BY <1>1 DEF Guarded
<1>4. Grouped' /\ Aged'
  BY DEF Arrival, Grouped, Aged, Clean, Block, NumCollect
<1>. QED  BY <1>2, <1>3, <1>4 DEF Arrival

\* Firing steps adds their dispatches, and no item.
LEMMA FireArrival ==
    ASSUME BaseInv, Arrival, FireGenerationRequests, FiresAll
    PROVE  Arrival'
<1>1. /\ UNCHANGED <<Line, train_step>> /\ fired_step' = ChunkEnd /\ TypeInv /\ TaskInv
      /\ train_step \in Nat /\ fired_step \in Nat /\ ChunkEnd \in Nat
  <2>1. ChunkEnd \in fired_step .. fire_target /\ fire_target \in Nat
    BY ChunkBounds, StepTypes DEF BaseInv
  <2>. QED  BY <2>1, FireCases, StepTypes DEF BaseInv, FiresAll
<1>2. Clean(Len(Line))' <=> Clean(Len(Line))
  BY <1>1 DEF Clean
<1>3. Outstanding' = Outstanding \cup Fired
  <2>1. Outstanding \cap Fired = {}
    BY <1>1, FiredCount DEF Outstanding
  <2>. QED  BY <2>1 DEF FiresAll, Outstanding, Phase
<1>4. Cardinality(Outstanding)' = Cardinality(Outstanding) + (ChunkEnd - fired_step) * NumMb
  <2>1. Outstanding \cap Fired = {} /\ IsFiniteSet(Fired) /\ IsFiniteSet(Outstanding)
    BY <1>1, FiredCount, OutstandingFinite DEF Outstanding
  <2>2. Cardinality(Outstanding \cup Fired) =
           Cardinality(Outstanding) + Cardinality(Fired) - Cardinality(Outstanding \cap Fired)
    BY <2>1, FS_Union
  <2>3. Cardinality(Outstanding \cap Fired) = 0
    BY <2>1, FS_EmptySet
  <2>4. Cardinality(Fired) = (ChunkEnd - fired_step) * NumMb /\ Cardinality(Fired) \in Nat
    BY <1>1, <2>1, FiredCount, FS_CardinalityType
  <2>5. Cardinality(Outstanding) \in Nat
    BY <1>1, OutstandingFinite
  <2>. QED  BY <1>3, <2>2, <2>3, <2>4, <2>5
<1>5. Balanced'
  <2>. SUFFICES ASSUME Clean(Len(Line))
                PROVE  Len(Line) + Cardinality(Outstanding)' * RbMultiplier
                          = (ChunkEnd - train_step) * NumCollect
    BY <1>1, <1>2 DEF Balanced, NumCollect
  <2>1. /\ Len(Line) \in Nat
        /\ Len(Line) + Cardinality(Outstanding) * RbMultiplier = (fired_step - train_step) * NumCollect
    BY <1>1, LineItems DEF Arrival, Balanced
  <2>2. PICK o \in Int, d \in Int, f \in Int, g \in Int :
           /\ o = Cardinality(Outstanding) /\ d = ChunkEnd - fired_step
           /\ f = fired_step - train_step /\ g = ChunkEnd - train_step
    BY <1>1, OutstandingFinite
  <2>3. g = f + d
    BY <1>1, <2>2
  <2>4. PICK m \in Int, n \in Int : m = NumMb /\ n = RbMultiplier /\ NumCollect = m * n
    BY CollectSize
  <2>5. (o + d * m) * n = o * n + d * (m * n) /\ (f + d) * (m * n) = f * (m * n) + d * (m * n)
        /\ o * n \in Int /\ d * (m * n) \in Int /\ f * (m * n) \in Int
    OBVIOUS
  <2>6. Len(Line) + o * n = f * (m * n)
    BY <2>1, <2>2, <2>4
  <2>7. Len(Line) + (o + d * m) * n = g * (m * n)
    BY <2>1, <2>3, <2>5, <2>6
  <2>. QED  BY <1>4, <2>2, <2>4, <2>7
<1>6. Guarded'
  <2>1. SomeFailed => SomeFailed'
    <3>1. ASSUME NEW k \in DOMAIN inflight_tasks, Phase(k) = "failed" PROVE SomeFailed'
      <4>1. k \notin Fired
        BY <1>1, <3>1, FiredCount
      <4>. QED  BY <3>1, <4>1 DEF FiresAll, Phase, SomeFailed
    <3>. QED  BY <3>1 DEF SomeFailed
  <2>. QED  BY <1>2, <2>1 DEF Arrival, Guarded
<1>7. Grouped' /\ Aged'
  BY <1>1 DEF Arrival, Grouped, Aged, Clean, Block, NumCollect
<1>. QED  BY <1>5, <1>6, <1>7 DEF Arrival

\* The batch that is trained is the first of Line, and has no errors.
LEMMA TrainArrival ==
    ASSUME BaseInv, Arrival, Train
    PROVE  Arrival'
<1>1. /\ pc = "train" /\ batch' = <<>> /\ train_step' = train_step + 1
      /\ UNCHANGED <<fired_step, inflight_tasks, ready_queue>> /\ Len(batch) = NumCollect
      /\ TypeInv /\ train_step \in Nat /\ fired_step \in Nat
  BY StepTypes DEF Train, BaseInv, BatchInv
<1>2. /\ Line' = ready_queue /\ Len(Line)' \in Nat /\ Len(Line) = NumCollect + Len(Line)'
      /\ NumCollect \in Nat
      /\ \A p \in 1 .. Len(Line)' : Line'[p] = Line[NumCollect + p]
  <2>1. ready_queue \in Seq(QueuedRolloutBatch) /\ Len(ready_queue) \in Nat
    BY <1>1, Queues
  <2>2. Line' = ready_queue
    BY <1>1, <2>1 DEF Line
  <2>3. Len(Line)' = Len(ready_queue)
    BY <2>2
  <2>. QED  BY <1>1, <2>1, <2>2, <2>3, LineItems, CollectSize
<1>3. ASSUME NEW p \in Nat, p <= Len(Line)' PROVE Clean(p)' <=> Clean(NumCollect + p)
  <2>1. ASSUME Clean(p)', NEW i \in 1 .. NumCollect + p PROVE ~ Line[i].error
    <3>1. CASE i <= NumCollect
      <4>1. i \in 1 .. Len(batch) /\ Line[i] = batch[i]
        BY <1>1, <1>2, <3>1, LineItems
      <4>. QED  BY <4>1, QueuedParts DEF BaseInv, BatchItemsOK
    <3>2. CASE i > NumCollect
      <4>1. PICK j \in 1 .. p : i = NumCollect + j
        <5>1. i - NumCollect \in 1 .. p /\ i = NumCollect + (i - NumCollect)
          BY <1>2, <3>2
        <5>. QED  BY <5>1
      <4>2. Line'[j] = Line[i] /\ ~ Line'[j].error
        BY <1>2, <1>3, <2>1, <4>1 DEF Clean
      <4>. QED  BY <4>2
    <3>. QED  BY <1>2, <3>1, <3>2
  <2>2. ASSUME Clean(NumCollect + p), NEW j \in 1 .. p PROVE ~ Line'[j].error
    <3>1. NumCollect + j \in 1 .. NumCollect + p /\ Line'[j] = Line[NumCollect + j]
      BY <1>2, <1>3
    <3>. QED  BY <2>2, <3>1 DEF Clean
  <2>. QED  BY <2>1, <2>2 DEF Clean
<1>4. Clean(Len(Line))' <=> Clean(Len(Line))
  <2>1. PICK n \in Nat : n = Len(Line)'
    BY <1>2
  <2>2. Clean(n)' <=> Clean(NumCollect + n)
    BY <1>3, <2>1
  <2>. QED  BY <1>2, <2>1, <2>2 DEF Clean
<1>5. Balanced'
  <2>. SUFFICES ASSUME Clean(Len(Line))
                PROVE  Len(Line)' + Cardinality(Outstanding)' * RbMultiplier
                          = (fired_step - (train_step + 1)) * NumCollect
    BY <1>1, <1>4 DEF Balanced, NumCollect
  <2>1. Outstanding' = Outstanding
    BY <1>1 DEF Outstanding, Phase
  <2>2. Len(Line) + Cardinality(Outstanding) * RbMultiplier = (fired_step - train_step) * NumCollect
    BY DEF Arrival, Balanced
  <2>3. PICK d \in Int, e \in Int : d = fired_step - train_step /\ e = fired_step - (train_step + 1)
    BY <1>1
  <2>4. d = e + 1 /\ NumCollect \in Int
    BY <1>1, <1>2, <2>3
  <2>5. d * NumCollect = e * NumCollect + NumCollect /\ e * NumCollect \in Int
    BY <2>4, Distribute
  <2>6. PICK c \in Nat : c = Cardinality(Outstanding) * RbMultiplier
    BY <1>1, OutstandingFinite, CollectSize, Products
  <2>7. Cardinality(Outstanding)' * RbMultiplier = c
    BY <2>1, <2>6
  <2>8. /\ Len(Line) = NumCollect + Len(Line)' /\ Len(Line)' \in Nat /\ NumCollect \in Nat
        /\ Len(Line) + c = e * NumCollect + NumCollect /\ e * NumCollect \in Int
    BY <1>2, <2>2, <2>3, <2>5, <2>6
  <2>9. Len(Line)' + c = e * NumCollect
    BY <2>8
  <2>. QED  BY <2>3, <2>7, <2>9
<1>6. Guarded'
  BY <1>1, <1>4 DEF Arrival, Guarded, SomeFailed, Phase
<1>7. Grouped'
  <2>1. ASSUME NEW p \in 1 .. Len(Line)', NEW q \in 1 .. Len(Line)', Clean(p)', Clean(q)'
        PROVE  Line'[p].key = Line'[q].key <=> Block(p) = Block(q)
    <3>1. /\ Clean(NumCollect + p) /\ Clean(NumCollect + q)
          /\ NumCollect + p \in 1 .. Len(Line) /\ NumCollect + q \in 1 .. Len(Line)
          /\ Line'[p] = Line[NumCollect + p] /\ Line'[q] = Line[NumCollect + q]
      BY <1>2, <1>3, <2>1
    <3>2. Line[NumCollect + p].key = Line[NumCollect + q].key
             <=> Block(NumCollect + p) = Block(NumCollect + q)
      BY <3>1 DEF Arrival, Grouped
    <3>3. /\ Block(p + NumCollect) = Block(p) + NumMb /\ Block(q + NumCollect) = Block(q) + NumMb
          /\ Block(p) \in Nat /\ Block(q) \in Nat /\ NumMb \in Nat
          /\ p + NumCollect = NumCollect + p /\ q + NumCollect = NumCollect + q
      <4>1. p \in Nat \ {0} /\ q \in Nat \ {0}
        BY <1>2
      <4>. QED  BY <1>2, <4>1, BlockShift, BlockType, CollectSize
    <3>. QED  BY <3>1, <3>2, <3>3
  <2>. QED  BY <2>1 DEF Grouped, Block
<1>8. Aged'
  <2>1. ASSUME NEW p \in 1 .. Len(Line)', Clean(p)'
        PROVE  p <= (Line'[p].weights + MaxStale + 1 - (train_step + 1)) * NumCollect
    <3>1. /\ Clean(NumCollect + p) /\ NumCollect + p \in 1 .. Len(Line)
          /\ Line'[p] = Line[NumCollect + p] /\ p \in Nat
      BY <1>2, <1>3, <2>1
    <3>2. NumCollect + p <= (Line'[p].weights + MaxStale + 1 - train_step) * NumCollect
      BY <3>1 DEF Arrival, Aged
    <3>3. Line'[p].weights \in Nat
      BY <1>1, <3>1, LineItems DEF QueuedRolloutBatch
    <3>4. PICK d \in Int, e \in Int :
             /\ d = Line'[p].weights + MaxStale + 1 - train_step
             /\ e = Line'[p].weights + MaxStale + 1 - (train_step + 1)
      BY <1>1, <3>3, ConstantsOK
    <3>5. d = e + 1
      <4>1. PICK w \in Int, m \in Int, t \in Int :
               w = Line'[p].weights /\ m = MaxStale /\ t = train_step
        BY <1>1, <3>3, ConstantsOK
      <4>2. d = w + m + 1 - t /\ e = w + m + 1 - (t + 1)
        BY <3>4, <4>1
      <4>. QED  BY <4>2
    <3>6. d * NumCollect = e * NumCollect + NumCollect /\ e * NumCollect \in Int
      BY <1>2, <3>5, Distribute
    <3>7. p <= e * NumCollect
      BY <1>2, <3>1, <3>2, <3>4, <3>6
    <3>. QED  BY <3>4, <3>7
  <2>. QED  BY <1>1, <2>1 DEF Aged, NumCollect
<1>. QED  BY <1>5, <1>6, <1>7, <1>8 DEF Arrival

\* What was clean stays so, and what is clean after items joined was clean or
\* follows a Line with no error.
LEMMA GrownClean ==
    ASSUME TypeInv, NEW x, NEW n \in Nat, Grows(Line, Line', x, n)
    PROVE  /\ Len(Line) \in Nat /\ Len(Line)' = Len(Line) + n
           /\ \A p \in 1 .. Len(Line) : Line'[p] = Line[p] /\ (Clean(p)' <=> Clean(p))
           /\ \A p \in Len(Line) + 1 .. Len(Line) + n :
                 Line'[p] = x /\ (Clean(p)' => Clean(Len(Line)) /\ ~ x.error)
           /\ Clean(Len(Line))' => Clean(Len(Line))
           /\ n > 0 /\ x.error => ~ Clean(Len(Line))'
           /\ \A p \in 1 .. Len(Line)' : p \in 1 .. Len(Line) \/ p \in Len(Line) + 1 .. Len(Line) + n
<1>1. /\ Len(Line) \in Nat /\ Len(Line)' = Len(Line) + n
      /\ \A p \in 1 .. Len(Line) : Line'[p] = Line[p]
      /\ \A p \in Len(Line) + 1 .. Len(Line) + n : Line'[p] = x
  BY LineItems DEF Grows
<1>2. ASSUME NEW p \in 1 .. Len(Line) PROVE Clean(p)' <=> Clean(p)
  <2>1. \A i \in 1 .. p : i \in 1 .. Len(Line)
    BY <1>1
  <2>. QED  BY <1>1, <2>1 DEF Clean
<1>3. ASSUME NEW p \in Len(Line) + 1 .. Len(Line) + n, Clean(p)'
      PROVE  Clean(Len(Line)) /\ ~ x.error
  <2>1. /\ p \in 1 .. p /\ \A i \in 1 .. Len(Line) : i \in 1 .. p
    BY <1>1
  <2>. QED  BY <1>1, <1>3, <2>1 DEF Clean
<1>5. Clean(Len(Line))' => Clean(Len(Line))
  <2>1. \A i \in 1 .. Len(Line) : i \in 1 .. Len(Line)'
    BY <1>1
  <2>. QED  BY <1>1, <2>1 DEF Clean
<1>6. ASSUME n > 0, x.error PROVE ~ Clean(Len(Line))'
  <2>1. Len(Line) + 1 \in 1 .. Len(Line)' /\ Line'[Len(Line) + 1] = x
    BY <1>1, <1>6
  <2>. QED  BY <1>6, <2>1 DEF Clean
<1>7. \A p \in 1 .. Len(Line)' : p \in 1 .. Len(Line) \/ p \in Len(Line) + 1 .. Len(Line) + n
  BY <1>1
<1>. QED  BY <1>1, <1>2, <1>3, <1>5, <1>6, <1>7

\* As long as no error is in Line, its items fill whole blocks, and a dispatch
\* still worked on has room for its own within what has been fired.
LEMMA WholeBlocks ==
    ASSUME BaseInv, Arrival, Clean(Len(Line)), NEW k \in Outstanding
    PROVE  \E m \in Nat :
              /\ Len(Line) = m * RbMultiplier
              /\ Len(Line) + RbMultiplier <= (fired_step - train_step) * NumCollect
<1>1. /\ TypeInv /\ train_step \in Nat /\ fired_step \in Nat /\ Len(Line) \in Nat
      /\ Len(Line) + Cardinality(Outstanding) * RbMultiplier = (fired_step - train_step) * NumCollect
  BY StepTypes, LineItems DEF BaseInv, Arrival, Balanced
<1>2. PICK c \in Nat : c = Cardinality(Outstanding) /\ c >= 1
  <2>1. IsFiniteSet(Outstanding) /\ Cardinality(Outstanding) \in Nat
    BY <1>1, OutstandingFinite
  <2>2. Cardinality(Outstanding) # 0
    BY <2>1, FS_EmptySet
  <2>. QED  BY <2>1, <2>2
<1>3. PICK n \in Nat \ {0}, r \in Nat \ {0}, f \in Int :
         /\ n = NumMb /\ r = RbMultiplier /\ NumCollect = n * r /\ f = fired_step - train_step
  BY <1>1, CollectSize
<1>4. Len(Line) = (f * n - c) * r
  <2>1. (f * n - c) * r = f * (n * r) - c * r /\ f * (n * r) \in Int /\ c * r \in Int
    OBVIOUS
  <2>2. Len(Line) + c * r = f * (n * r)
    BY <1>1, <1>2, <1>3
  <2>. QED  BY <1>1, <2>1, <2>2
<1>5. f * n - c \in Nat
  <2>1. PICK d \in Int : d = f * n - c
    OBVIOUS
  <2>2. ~ (d < 0)
    <3>1. ASSUME d < 0 PROVE FALSE
      <4>1. d + 1 <= 0 /\ d + 1 \in Int /\ 0 \in Int /\ r \in Int /\ r \in Nat
        BY <3>1
      <4>2. (d + 1) * r <= 0 * r /\ (d + 1) * r = d * r + r /\ d * r \in Int
        BY <4>1, Distribute
      <4>3. 0 * r = 0
        OBVIOUS
      <4>. QED  BY <1>1, <1>4, <2>1, <4>2, <4>3
    <3>. QED  BY <3>1
  <2>. QED  BY <2>1, <2>2
<1>6. Len(Line) + r <= f * NumCollect
  <2>1. 1 * r <= c * r /\ 1 * r = r /\ c * r \in Nat
    BY <1>2, Products
  <2>2. Len(Line) + c * r = f * NumCollect
    BY <1>1, <1>2, <1>3
  <2>. QED  BY <1>1, <2>1, <2>2
<1>. QED  BY <1>3, <1>4, <1>5, <1>6

\* The items of a finished dispatch fill the block behind Line.
LEMMA FinishesArrival ==
    ASSUME BaseInv, Arrival, NEW k \in DOMAIN inflight_tasks, Finishes(k),
           UNCHANGED <<fired_step, train_step>>
    PROVE  Arrival'
<1>0. /\ TypeInv /\ k \in Outstanding /\ Phase(k) = "running" /\ RbMultiplier \in Nat \ {0}
      /\ Outstanding' = Outstanding \ {k} /\ Grows(Line, Line', Item(k, FALSE), RbMultiplier)
      /\ train_step \in Nat /\ fired_step \in Nat
  BY ConstantsOK, StepTypes DEF BaseInv, Finishes, Outstanding
<1>1. PICK x \in QueuedRolloutBatch :
         x = Item(k, FALSE) /\ x.key = k /\ ~ x.error /\ x.weights = sampler_weights
  <2>1. inflight_tasks[k].weights = sampler_weights
    BY <1>0 DEF BaseInv, TaskInv
  <2>. QED  BY <1>0, <2>1, TaskTypes, FALSE \in BOOLEAN
<1>2. /\ Len(Line) \in Nat /\ Len(Line)' = Len(Line) + RbMultiplier
      /\ \A p \in 1 .. Len(Line) : Line'[p] = Line[p] /\ (Clean(p)' <=> Clean(p))
      /\ \A p \in Len(Line) + 1 .. Len(Line) + RbMultiplier :
            Line'[p] = x /\ (Clean(p)' => Clean(Len(Line)))
      /\ Clean(Len(Line))' => Clean(Len(Line))
      /\ \A p \in 1 .. Len(Line)' :
            p \in 1 .. Len(Line) \/ p \in Len(Line) + 1 .. Len(Line) + RbMultiplier
  BY <1>0, <1>1, GrownClean
<1>3. Cardinality(Outstanding)' = Cardinality(Outstanding) - 1
      /\ Cardinality(Outstanding) \in Nat
  BY <1>0, OutstandingFinite, FS_RemoveElement
<1>4. Balanced'
  <2>. SUFFICES ASSUME Clean(Len(Line))
                PROVE  Len(Line)' + Cardinality(Outstanding)' * RbMultiplier
                          = (fired_step - train_step) * NumCollect
    BY <1>2 DEF Balanced, NumCollect
  <2>1. Len(Line) + Cardinality(Outstanding) * RbMultiplier = (fired_step - train_step) * NumCollect
    BY DEF Arrival, Balanced
  <2>2. PICK c \in Nat, r \in Nat : c = Cardinality(Outstanding) /\ r = RbMultiplier
    BY <1>0, <1>3
  <2>3. (c - 1) * r = c * r - r /\ c * r \in Nat
    OBVIOUS
  <2>4. (Len(Line) + r) + (c - 1) * r = Len(Line) + c * r
    BY <1>2, <2>3
  <2>. QED  BY <1>2, <1>3, <2>1, <2>2, <2>4
<1>5. Guarded'
  <2>1. CASE SomeFailed
    <3>1. PICK j \in DOMAIN inflight_tasks : Phase(j) = "failed"
      BY <2>1 DEF SomeFailed
    <3>. QED  BY <1>0, <3>1 DEF Finishes, OthersKept, Guarded, SomeFailed, Phase
  <2>2. CASE Clean(Len(Line))
    <3>1. \A i \in 1 .. Len(Line)' : ~ Line'[i].error
      BY <1>1, <1>2, <2>2 DEF Clean
    <3>. QED  BY <3>1 DEF Guarded, Clean
  <2>. QED  BY <2>1, <2>2 DEF Arrival, Guarded
\* Where the new items are: behind every block of the old ones.
<1>6. ASSUME NEW p \in Len(Line) + 1 .. Len(Line) + RbMultiplier, Clean(p)'
      PROVE  /\ p <= (fired_step - train_step) * NumCollect
             /\ \A q \in Len(Line) + 1 .. Len(Line) + RbMultiplier : Block(q) = Block(p)
             /\ \A q \in 1 .. Len(Line) : Block(q) # Block(p)
  <2>1. Clean(Len(Line))
    BY <1>2, <1>6
  <2>2. PICK m \in Nat :
           /\ Len(Line) = m * RbMultiplier
           /\ Len(Line) + RbMultiplier <= (fired_step - train_step) * NumCollect
    BY <1>0, <2>1, WholeBlocks
  <2>3. (m + 1) * RbMultiplier = Len(Line) + RbMultiplier
    BY <1>0, <2>2, Products
  <2>4. ASSUME NEW q \in Len(Line) + 1 .. Len(Line) + RbMultiplier PROVE Block(q) = m
    <3>1. q \in Nat \ {0} /\ Len(Line) < q /\ q <= Len(Line) + RbMultiplier
      BY <1>0, <1>2
    <3>2. m * RbMultiplier < q /\ q <= (m + 1) * RbMultiplier
      BY <2>2, <2>3, <3>1
    <3>. QED  BY <3>1, <3>2, BlockIs
  <2>5. ASSUME NEW q \in 1 .. Len(Line) PROVE Block(q) # m
    <3>1. q \in Nat \ {0} /\ ~ (Len(Line) < q)
      BY <1>2
    <3>. QED  BY <2>2, <3>1, BlockIs
  <2>6. (fired_step - train_step) * NumCollect \in Int
    <3>1. fired_step - train_step \in Int /\ NumCollect \in Int
      BY <1>0, CollectSize
    <3>. QED  BY <3>1
  <2>7. p <= (fired_step - train_step) * NumCollect
    BY <1>0, <1>2, <2>2, <2>6
  <2>. QED  BY <2>4, <2>5, <2>7
<1>7. Grouped'
  <2>1. ASSUME NEW p \in 1 .. Len(Line) PROVE Line[p].key # k
    <3>1. CASE p \in 1 .. Len(batch)
      <4>1. Line[p] = batch[p] /\ ItemOK(batch[p])
        BY <1>0, <3>1, LineItems, QueuedParts DEF BaseInv, BatchItemsOK
      <4>. QED  BY <1>0, <4>1 DEF ItemOK
    <3>2. CASE p - Len(batch) \in 1 .. Len(ready_queue)
      <4>1. PICK i \in 1 .. Len(ready_queue) : p = Len(batch) + i
        <5>1. p = Len(batch) + (p - Len(batch))
          BY <1>0, <1>2, Queues
        <5>. QED  BY <3>2, <5>1
      <4>2. Line[p] = ready_queue[i] /\ ItemOK(ready_queue[i])
        BY <1>0, <4>1, LineItems, QueuedParts DEF BaseInv, QueueItemsOK
      <4>. QED  BY <1>0, <4>2 DEF ItemOK
    <3>. QED  BY <1>0, <3>1, <3>2, LineItems
  <2>2. ASSUME NEW p \in 1 .. Len(Line)', NEW q \in 1 .. Len(Line)', Clean(p)', Clean(q)'
        PROVE  Line'[p].key = Line'[q].key <=> Block(p) = Block(q)
    <3>1. CASE p \in 1 .. Len(Line) /\ q \in 1 .. Len(Line)
      BY <1>2, <2>2, <3>1 DEF Arrival, Grouped
    <3>2. CASE p \in Len(Line) + 1 .. Len(Line) + RbMultiplier /\ q \in 1 .. Len(Line)
      BY <1>1, <1>2, <1>6, <2>1, <2>2, <3>2
    <3>3. CASE q \in Len(Line) + 1 .. Len(Line) + RbMultiplier /\ p \in 1 .. Len(Line)
      BY <1>1, <1>2, <1>6, <2>1, <2>2, <3>3
    <3>4. CASE /\ p \in Len(Line) + 1 .. Len(Line) + RbMultiplier
               /\ q \in Len(Line) + 1 .. Len(Line) + RbMultiplier
      BY <1>1, <1>2, <1>6, <2>2, <3>4
    <3>. QED  BY <1>2, <3>1, <3>2, <3>3, <3>4
  <2>. QED  BY <2>2 DEF Grouped, Block
<1>8. Aged'
  <2>1. ASSUME NEW p \in 1 .. Len(Line)', Clean(p)'
        PROVE  p <= (Line'[p].weights + MaxStale + 1 - train_step) * NumCollect
    <3>1. CASE p \in 1 .. Len(Line)
      BY <1>2, <2>1, <3>1 DEF Arrival, Aged
    <3>2. CASE p \in Len(Line) + 1 .. Len(Line) + RbMultiplier
      <4>1. Line'[p].weights = sampler_weights
        BY <1>1, <1>2, <3>2
      <4>2. /\ fired_step <= fire_target /\ fire_target <= sampler_weights + MaxStale + 1
            /\ fire_target \in Nat /\ sampler_weights \in Nat /\ MaxStale \in Nat
        BY <1>0, TargetReached, StepTypes, ConstantsOK DEF BaseInv
      <4>3. PICK a \in Int, b \in Int :
               /\ a = fired_step - train_step /\ b = sampler_weights + MaxStale + 1 - train_step
        BY <1>0, <4>2
      <4>4. a <= b /\ NumCollect \in Nat /\ NumCollect \in Int
        BY <1>0, <4>2, <4>3, CollectSize
      <4>5. a * NumCollect <= b * NumCollect /\ a * NumCollect \in Int /\ b * NumCollect \in Int
        BY <4>4, Distribute
      <4>6. p <= a * NumCollect
        BY <1>6, <2>1, <3>2, <4>3
      <4>7. p <= b * NumCollect
        BY <1>2, <3>2, <4>5, <4>6
      <4>. QED  BY <4>1, <4>3, <4>7
    <3>. QED  BY <1>2, <3>1, <3>2
  <2>. QED  BY <2>1 DEF Aged, NumCollect
<1>. QED  BY <1>4, <1>5, <1>7, <1>8 DEF Arrival

\* An agent's exception puts an error in Line, which ends what is clean.
LEMMA RaisesArrival ==
    ASSUME BaseInv, Arrival, NEW k \in DOMAIN inflight_tasks, Raises(k),
           UNCHANGED <<fired_step, train_step>>
    PROVE  Arrival'
<1>1. PICK x \in QueuedRolloutBatch : x = Item(k, TRUE) /\ x.error
  BY TaskTypes, TRUE \in BOOLEAN DEF BaseInv
<1>2. /\ Len(Line) \in Nat
      /\ \A p \in 1 .. Len(Line) : Line'[p] = Line[p] /\ (Clean(p)' <=> Clean(p))
      /\ \A p \in Len(Line) + 1 .. Len(Line) + 1 : ~ Clean(p)'
      /\ ~ Clean(Len(Line))'
      /\ \A p \in 1 .. Len(Line)' :
            p \in 1 .. Len(Line) \/ p \in Len(Line) + 1 .. Len(Line) + 1
  <2>1. TypeInv /\ Grows(Line, Line', x, 1)
    <3>1. Grows(Line, Line', Item(k, TRUE), 1)
      BY DEF Raises
    <3>. QED  BY <1>1, <3>1 DEF BaseInv
  <2>2. PICK n \in Nat : n = 1
    OBVIOUS
  <2>3. Grows(Line, Line', x, n)
    BY <2>1, <2>2
  <2>4. /\ Len(Line) \in Nat
        /\ \A p \in 1 .. Len(Line) : Line'[p] = Line[p] /\ (Clean(p)' <=> Clean(p))
        /\ \A p \in Len(Line) + 1 .. Len(Line) + n : Clean(p)' => ~ x.error
        /\ n > 0 /\ x.error => ~ Clean(Len(Line))'
        /\ \A p \in 1 .. Len(Line)' : p \in 1 .. Len(Line) \/ p \in Len(Line) + 1 .. Len(Line) + n
    BY <2>1, <2>3, GrownClean
  <2>. QED  BY <1>1, <2>2, <2>4
<1>3. \A p \in 1 .. Len(Line)' :
         Clean(p)' => p \in 1 .. Len(Line) /\ Clean(p) /\ Line'[p] = Line[p]
  BY <1>2
<1>4. Balanced'
  BY <1>2 DEF Balanced
<1>5. Guarded'
  BY DEF Raises, OthersKept, Guarded, SomeFailed, Phase
<1>6. Grouped'
  BY <1>3 DEF Arrival, Grouped, Block
<1>7. Aged'
  BY <1>3 DEF Arrival, Aged, NumCollect
<1>. QED  BY <1>4, <1>5, <1>6, <1>7 DEF Arrival

LEMMA RolloutArrival ==
    ASSUME BaseInv, Arrival, RolloutSide PROVE Arrival'
<1>1. UNCHANGED <<train_step, fired_step>>
  BY RolloutFrame DEF loopVars
<1>2. CASE UNCHANGED <<inflight_tasks, Line, Outstanding>>
  <2>1. Clean(Len(Line)) \/ SomeFailed'
    BY <1>2 DEF Arrival, Guarded, SomeFailed, Phase
  <2>. QED  BY <1>1, <1>2, <2>1, SameArrival
<1>3. ASSUME NEW k \in DOMAIN inflight_tasks, Starts(k) PROVE Arrival'
  <2>1. SomeFailed => SomeFailed'
    <3>1. ASSUME NEW j \in DOMAIN inflight_tasks, Phase(j) = "failed" PROVE SomeFailed'
      BY <1>3, <3>1 DEF Starts, OthersKept, SomeFailed, Phase
    <3>. QED  BY <3>1 DEF SomeFailed
  <2>2. Clean(Len(Line)) \/ SomeFailed'
    BY <2>1 DEF Arrival, Guarded
  <2>. QED  BY <1>1, <1>3, <2>2, SameArrival DEF Starts
<1>. QED  BY <1>1, <1>2, <1>3, RolloutCases, FinishesArrival, RaisesArrival DEF BaseInv

\* Collecting only moves the border between the batch and the queue.
LEMMA CollectArrival ==
    ASSUME BaseInv, Arrival, ~ ordered, CollectItem \/ FinishCollect, pc' # "failed"
    PROVE  Arrival'
<1>1. /\ UNCHANGED <<train_step, fired_step, inflight_tasks, Outstanding>>
  BY CollectCases, FinishCases DEF BaseInv
<1>2. UNCHANGED Line
  <2>1. CASE CollectItem
    <3>1. /\ batch' = Append(batch, Head(ready_queue)) /\ ready_queue # <<>>
          /\ ready_queue' = Tail(ready_queue)
      BY <2>1, CollectCases DEF BaseInv, Rejects, Takes, Buffers
    <3>2. batch \in Seq(QueuedRolloutBatch) /\ ready_queue \in Seq(QueuedRolloutBatch)
      BY Queues DEF BaseInv
    <3>3. Append(batch, Head(ready_queue)) \o Tail(ready_queue) = batch \o ready_queue
      BY <3>1, <3>2, MoveHead
    <3>. QED  BY <3>1, <3>3 DEF Line
  <2>2. CASE FinishCollect
    BY <2>2, FinishCases DEF BaseInv, Line
  <2>. QED  BY <2>1, <2>2
<1>3. Clean(Len(Line)) \/ SomeFailed'
  BY <1>1 DEF Arrival, Guarded, SomeFailed, Phase
<1>. QED  BY <1>1, <1>2, <1>3, SameArrival

\* A trainer that passes the end of a window has met no failed task.
LEMMA WaitArrival ==
    ASSUME BaseInv, Arrival, WaitAllInflight, pc' # "failed"
    PROVE  Arrival'
<1>1. /\ UNCHANGED <<train_step, fired_step, batch, ready_queue>>
      /\ DOMAIN inflight_tasks' = {} /\ InflightIdle /\ ~ SomeFailed
  BY DEF WaitAllInflight, EmptyDict, SomeFailed, Phase
<1>2. Outstanding = {} /\ Outstanding' = {}
  BY <1>1 DEF InflightIdle, Outstanding, Phase
<1>. QED  BY <1>1, <1>2, SameArrival DEF Arrival, Guarded, Line

LEMMA EmptyArrival ==
    ASSUME Line = <<>>, Outstanding = {}, fired_step = train_step, train_step \in Nat
    PROVE  Arrival
<1>1. Len(Line) = 0 /\ Cardinality(Outstanding) = 0
  BY FS_EmptySet
<1>2. NumCollect \in Nat /\ RbMultiplier \in Nat /\ fired_step - train_step = 0
  BY CollectSize
<1>3. (fired_step - train_step) * NumCollect = 0 /\ Cardinality(Outstanding) * RbMultiplier = 0
  <2>1. \A n \in Nat : 0 * n = 0
    OBVIOUS
  <2>. QED  BY <1>1, <1>2, <2>1
<1>4. Balanced
  BY <1>1, <1>3 DEF Balanced
<1>. QED  BY <1>1, <1>4 DEF Arrival, Guarded, Grouped, Aged, Clean

LEMMA InitArrivalInv == Init => ArrivalInv
<1>. SUFFICES ASSUME Init PROVE Arrival
  BY DEF ArrivalInv
<1>1. /\ Line = <<>> /\ Outstanding = {} /\ fired_step = train_step /\ train_step \in Nat
  BY DEF Init, Line, Outstanding, EmptyDict
<1>. QED  BY <1>1, EmptyArrival

LEMMA NextArrivalInv == BaseInv /\ ArrivalInv /\ [Next]_vars => ArrivalInv'
<1>. SUFFICES ASSUME BaseInv, ArrivalInv, [Next]_vars, ~ ordered', pc' # "failed"
              PROVE  Arrival'
  BY DEF ArrivalInv
<1>1. CASE Restart
  <2>1. /\ Line' = <<>> /\ Outstanding' = {} /\ fired_step' = train_step'
    BY <1>1 DEF Restart, Line, Outstanding, EmptyDict
  <2>2. train_step' \in Nat
    BY <1>1, StepTypes DEF Restart, BaseInv
  <2>3. (Line = <<>> /\ Outstanding = {} /\ fired_step = train_step /\ train_step \in Nat)'
           => Arrival'
    BY EmptyArrival, PTL
  <2>. QED  BY <2>1, <2>2, <2>3
<1>2. CASE ~ Restart
  <2>1. UNCHANGED ordered /\ pc # "failed" /\ TypeInv
    BY <1>2, FireCases, CollectCases, FinishCases, RolloutFrame, NextCases
       DEF BeginStep, Train, SaveModel, SaveData, WaitAllInflight, UpdateWeights, saveFrame,
           settings, loopVars, BaseInv
  <2>2. Arrival /\ ~ ordered
    BY <2>1 DEF ArrivalInv
  <2>3. CASE BeginStep \/ SaveModel \/ SaveData \/ UpdateWeights
    <3>1. UNCHANGED <<train_step, fired_step, inflight_tasks, Line, Outstanding>>
      BY <2>3 DEF BeginStep, SaveModel, SaveData, UpdateWeights, saveFrame, rolloutVars, Line,
         Outstanding, Phase
    <3>2. Clean(Len(Line)) \/ SomeFailed'
      BY <2>2, <3>1 DEF Arrival, Guarded, SomeFailed, Phase
    <3>. QED  BY <2>2, <3>1, <3>2, SameArrival
  <2>4. CASE FireGenerationRequests
    BY <2>1, <2>2, <2>4, FireCases, FireArrival
  <2>. QED  BY <1>2, <2>2, <2>3, <2>4, NextCases, TrainArrival, RolloutArrival, CollectArrival,
               WaitArrival
<1>. QED  BY <1>1, <1>2

LEMMA ArrivalHolds == Spec => [](BaseInv /\ StepwiseInv /\ ArrivalInv)
<1>. DEFINE Inv == BaseInv /\ StepwiseInv /\ ArrivalInv
<1>1. Init => Inv
  BY InitBaseInv, InitStepwiseInv, InitArrivalInv
<1>2. Inv /\ [Next]_vars => Inv'
  BY NextBaseInv, NextStepwiseInv, NextArrivalInv
<1>. QED  BY <1>1, <1>2, PTL DEF Spec

----------------------------------------------------------------------------
\* What is trained is fresh.

FreshBatch == \A i \in 1 .. Len(batch) : train_step <= batch[i].weights + MaxStale

\* The item at the head of the queue is within the next step's places of Line.
LEMMA HeadIsFresh ==
    ASSUME BaseInv, Arrival, Len(batch) < NumCollect, ready_queue # <<>>,
           ~ Head(ready_queue).error
    PROVE  train_step <= Head(ready_queue).weights + MaxStale
<1>1. TypeInv /\ train_step \in Nat /\ MaxStale \in Nat
  BY StepTypes, ConstantsOK DEF BaseInv
<1>2. /\ Len(batch) \in Nat /\ 1 \in 1 .. Len(ready_queue) /\ Len(ready_queue) \in Nat
      /\ Head(ready_queue) = ready_queue[1] /\ Head(ready_queue) \in QueuedRolloutBatch
  BY <1>1, Queues, TailPlaces
<1>3. PICK p \in Nat \ {0} : p = Len(batch) + 1
  BY <1>2
<1>4. p \in 1 .. Len(Line) /\ Line[p] = Head(ready_queue)
  BY <1>1, <1>2, <1>3, LineItems
<1>5. Clean(p)
  <2>1. ASSUME NEW i \in 1 .. p PROVE ~ Line[i].error
    <3>1. CASE i \in 1 .. Len(batch)
      BY <1>1, <3>1, LineItems, QueuedParts DEF BaseInv, BatchItemsOK
    <3>2. CASE i = p
      BY <1>4, <3>2
    <3>. QED  BY <1>2, <1>3, <3>1, <3>2
  <2>. QED  BY <2>1 DEF Clean
<1>6. p <= (Head(ready_queue).weights + MaxStale + 1 - train_step) * NumCollect
  BY <1>4, <1>5 DEF Arrival, Aged
<1>7. PICK w \in Nat, d \in Int :
         w = Head(ready_queue).weights /\ d = w + MaxStale + 1 - train_step
  BY <1>1, <1>2 DEF QueuedRolloutBatch
<1>8. 0 < d
  <2>1. 0 * NumCollect = 0 /\ NumCollect \in Nat \ {0} /\ NumCollect \in Int /\ 0 \in Int
    BY CollectSize
  <2>2. d * NumCollect \in Int /\ (0 * NumCollect < d * NumCollect => 0 < d)
    BY <2>1, Distribute
  <2>. QED  BY <1>3, <1>6, <1>7, <2>1, <2>2
<1>. QED  BY <1>1, <1>7, <1>8

LEMMA NextFreshBatch ==
    BaseInv /\ StepwiseInv' /\ ArrivalInv /\ FreshBatch /\ [Next]_vars => FreshBatch'
<1>. SUFFICES ASSUME BaseInv, StepwiseInv', ArrivalInv, FreshBatch, [Next]_vars PROVE FreshBatch'
  OBVIOUS
<1>0. TypeInv
  BY DEF BaseInv
<1>1. CASE UNCHANGED <<batch, train_step>> \/ batch' = <<>>
  BY <1>1 DEF FreshBatch
<1>2. CASE CollectItem
  <2>1. UNCHANGED train_step /\ pc = "collect" /\ ready_queue # <<>>
    BY <1>0, <1>2, CollectCases
  <2>2. CASE Takes
    <3>1. train_step <= Head(ready_queue).weights + MaxStale
      BY <2>1, <2>2, HeadIsFresh DEF Takes, ArrivalInv
    <3>2. /\ batch \in Seq(QueuedRolloutBatch) /\ Head(ready_queue) \in QueuedRolloutBatch
          /\ batch' = Append(batch, Head(ready_queue))
      BY <1>0, <1>2, <2>2, Queues, CollectCases DEF Takes
    <3>3. PICK x \in QueuedRolloutBatch : x = Head(ready_queue)
      BY <3>2
    <3>4. /\ Len(batch') = Len(batch) + 1 /\ Len(batch) \in Nat
          /\ \A i \in 1 .. Len(batch) : batch'[i] = batch[i]
          /\ batch'[Len(batch) + 1] = x
      BY <3>2, <3>3
    <3>. QED  BY <2>1, <3>1, <3>3, <3>4 DEF FreshBatch
  <2>. QED  BY <1>0, <1>1, <1>2, <2>1, <2>2, CollectCases DEF Rejects, Buffers
<1>3. CASE FinishCollect
  <2>1. pc' = "train" /\ UNCHANGED <<train_step, ordered>> /\ (~ ordered => UNCHANGED batch)
    BY <1>0, <1>3, FinishCases DEF settings
  <2>2. CASE ordered
    <3>1. Stepwise'
      BY <2>1, <2>2 DEF StepwiseInv
    <3>. QED  BY <2>1, <3>1 DEF Stepwise, BatchInPlace, FreshBatch
  <2>. QED  BY <1>1, <2>1, <2>2
<1>4. CASE ~ (CollectItem \/ FinishCollect)
  <2>1. UNCHANGED <<batch, train_step>> \/ batch' = <<>>
    BY <1>0, <1>4, FireCases, RolloutFrame, NextCases DEF BeginStep, Train, SaveModel, SaveData,
       WaitAllInflight, UpdateWeights, Restart, saveFrame, rolloutVars, loopVars
  <2>. QED  BY <1>1, <2>1
<1>. QED  BY <1>2, <1>3, <1>4

LEMMA FreshHolds == Spec => [](BaseInv /\ FreshBatch)
<1>. DEFINE Inv == BaseInv /\ StepwiseInv /\ ArrivalInv /\ FreshBatch
<1>1. Init => FreshBatch
  BY DEF Init, FreshBatch
<1>2. Init => Inv
  BY <1>1, InitBaseInv, InitStepwiseInv, InitArrivalInv
<1>3. Inv /\ [Next]_vars => Inv'
  BY NextBaseInv, NextStepwiseInv, NextArrivalInv, NextFreshBatch
<1>. QED  BY <1>2, <1>3, PTL DEF Spec

\* StalenessBounded: without tail batching too, whatever order the agents finish
\* in and whichever way the collection takes their results, no sample is trained
\* more than rollout_max_staleness optimizer steps after the weights it came from.
THEOREM PrefetchIsFresh == Spec => []StalenessBounded
<1>1. ASSUME BaseInv, FreshBatch PROVE StalenessBounded
  <2>1. ASSUME NEW i \in DOMAIN batch PROVE train_step - batch[i].weights \in 0 .. MaxStale
    <3>1. i \in 1 .. Len(batch) /\ batch[i] \in QueuedRolloutBatch
      BY <1>1, <2>1, Queues DEF BaseInv
    <3>2. PICK w \in Nat : w = batch[i].weights
      BY <3>1 DEF QueuedRolloutBatch
    <3>3. train_step <= w + MaxStale /\ w <= train_step
      BY <1>1, <3>1, <3>2, QueuedParts DEF FreshBatch, BaseInv, BatchItemsOK, ItemOK
    <3>4. train_step \in Nat /\ MaxStale \in Nat
      BY <1>1, StepTypes, ConstantsOK DEF BaseInv
    <3>. QED  BY <3>2, <3>3, <3>4
  <2>. QED  BY <2>1 DEF StalenessBounded
<1>. QED  BY <1>1, FreshHolds, PTL

----------------------------------------------------------------------------
\* What is trained is whole groups.

LEMMA GroupSize ==
    ASSUME NEW i \in 1 .. NumCollect
    PROVE  Cardinality({j \in 1 .. NumCollect : Block(j) = Block(i)}) = RbMultiplier
<1>1. NumCollect \in Nat /\ NumMb \in Nat /\ RbMultiplier \in Nat \ {0}
      /\ NumCollect = NumMb * RbMultiplier
  BY CollectSize
<1>2. PICK g \in Nat : g = Block(i)
  BY <1>1, BlockType
<1>3. PICK x \in Nat : x = g * RbMultiplier /\ (g + 1) * RbMultiplier = x + RbMultiplier
  BY <1>1, Products
<1>4. x + RbMultiplier <= NumCollect
  <2>1. x < i /\ i <= NumCollect
    BY <1>1, <1>2, <1>3, BlockIs
  <2>2. g * RbMultiplier < NumMb * RbMultiplier /\ g \in Int /\ NumMb \in Int
    BY <1>1, <1>3, <2>1
  <2>3. g < NumMb
    BY <1>1, <2>2, Distribute
  <2>4. g + 1 <= NumMb /\ g + 1 \in Nat
    BY <1>1, <2>3
  <2>5. (g + 1) * RbMultiplier <= NumMb * RbMultiplier
    BY <1>1, <2>4, Products
  <2>. QED  BY <1>1, <1>3, <2>5
<1>5. {j \in 1 .. NumCollect : Block(j) = Block(i)} = x + 1 .. x + RbMultiplier
  <2>1. ASSUME NEW j \in 1 .. NumCollect, Block(j) = g PROVE j \in x + 1 .. x + RbMultiplier
    <3>1. x < j /\ j <= x + RbMultiplier
      BY <1>1, <1>3, <2>1, BlockIs
    <3>. QED  BY <1>1, <3>1
  <2>2. ASSUME NEW j \in x + 1 .. x + RbMultiplier PROVE j \in 1 .. NumCollect /\ Block(j) = g
    <3>1. j \in Nat \ {0} /\ x < j /\ j <= x + RbMultiplier /\ j \in 1 .. NumCollect
      BY <1>1, <1>4
    <3>. QED  BY <1>3, <3>1, BlockIs
  <2>. QED  BY <1>2, <2>1, <2>2
<1>6. Cardinality(x + 1 .. x + RbMultiplier) = RbMultiplier
  <2>1. x + 1 \in Int /\ x + RbMultiplier \in Int
    BY <1>1
  <2>2. Cardinality(x + 1 .. x + RbMultiplier) =
           IF x + 1 > x + RbMultiplier THEN 0 ELSE (x + RbMultiplier) - (x + 1) + 1
    BY <2>1, FS_Interval
  <2>. QED  BY <1>1, <2>2
<1>. QED  BY <1>5, <1>6

\* GroupsWhole: in both orders of collection a step trains the RbMultiplier
\* rollout batches of each of its microbatches, no fewer and no more: rewards are
\* normalized over whole groups.
THEOREM GroupsTrainTogether == Spec => []GroupsWhole
<1>1. ASSUME BaseInv, StepwiseInv, ArrivalInv, pc = "train", NEW i \in DOMAIN batch
      PROVE  Cardinality({j \in DOMAIN batch : batch[j].key = batch[i].key}) = RbMultiplier
  <2>1. TypeInv /\ DOMAIN batch = 1 .. NumCollect /\ Len(batch) = NumCollect
    BY <1>1, Queues DEF BaseInv, BatchInv
  <2>2. \A j \in 1 .. NumCollect : batch[j].key = batch[i].key <=> Block(j) = Block(i)
    <3>1. CASE ordered
      BY <1>1, <2>1, <3>1 DEF StepwiseInv, Stepwise, BatchInPlace
    <3>2. CASE ~ ordered
      <4>1. Len(batch) \in Nat /\ Len(ready_queue) \in Nat
        BY <2>1, Queues
      <4>2. ASSUME NEW j \in 1 .. Len(batch)
            PROVE  j \in 1 .. Len(Line) /\ Line[j] = batch[j] /\ Clean(j)
        <5>1. \A n \in 1 .. j : n \in 1 .. Len(batch) /\ ~ Line[n].error
          BY <1>1, <2>1, <4>1, LineItems, QueuedParts DEF BaseInv, BatchItemsOK
        <5>. QED  BY <2>1, <4>1, <5>1, LineItems DEF Clean
      <4>3. Grouped
        BY <1>1, <3>2 DEF ArrivalInv, Arrival
      <4>. QED  BY <2>1, <4>2, <4>3 DEF Grouped
    <3>. QED  BY <3>1, <3>2
  <2>3. {j \in DOMAIN batch : batch[j].key = batch[i].key}
           = {j \in 1 .. NumCollect : Block(j) = Block(i)}
    BY <2>1, <2>2
  <2>. QED  BY <2>1, <2>3, GroupSize
<1>2. BaseInv /\ StepwiseInv /\ ArrivalInv => GroupsWhole
  BY <1>1 DEF GroupsWhole
<1>. QED  BY <1>2, ArrivalHolds, PTL

----------------------------------------------------------------------------
\* A run that ends has nothing left.

\* A dispatch whose sampling attrs are cached is worked on, buffered, waiting in
\* the queue, or in the batch that is being collected.
Accounted(k) ==
    \/ k \in Outstanding \/ k \in DOMAIN ordered_ready
    \/ \E p \in 1 .. Len(ready_queue) : ready_queue[p].key = k
    \/ pc = "collect" /\ \E i \in 1 .. Len(batch) : batch[i].key = k
AttrInv == pc # "failed" => \A k \in attr_cache : Accounted(k)

\* A step that drops no attrs and takes nothing away.
LEMMA StillAccounted ==
    ASSUME AttrInv, pc # "failed", attr_cache' \subseteq attr_cache,
           Outstanding \subseteq Outstanding',
           UNCHANGED <<ready_queue, ordered_ready, batch>>, pc = "collect" => pc' = "collect"
    PROVE  AttrInv'
<1>1. ASSUME NEW k \in attr_cache' PROVE Accounted(k)'
  <2>1. Accounted(k)
    BY <1>1 DEF AttrInv
  <2>. QED  BY <2>1 DEF Accounted
<1>. QED  BY <1>1 DEF AttrInv

LEMMA RolloutAttrInv ==
    ASSUME BaseInv, AttrInv, RolloutSide, pc' # "failed" PROVE AttrInv'
<1>1. UNCHANGED <<pc, ordered_ready, batch, attr_cache>> /\ pc # "failed" /\ TypeInv
  BY RolloutFrame DEF loopVars, BaseInv
<1>2. CASE UNCHANGED ready_queue /\ Outstanding' = Outstanding
  BY <1>1, <1>2, StillAccounted
<1>3. ASSUME NEW j \in DOMAIN inflight_tasks, Finishes(j) \/ Raises(j) PROVE AttrInv'
  <2>1. PICK x \in QueuedRolloutBatch, n \in Nat :
           /\ x.key = j /\ n >= 1 /\ Grows(ready_queue, ready_queue', x, n)
           /\ Outstanding' = Outstanding \ {j}
    <3>1. CASE Finishes(j)
      <4>1. PICK x \in QueuedRolloutBatch : x = Item(j, FALSE) /\ x.key = j
        BY <1>1, TaskTypes, FALSE \in BOOLEAN
      <4>2. Grows(ready_queue, ready_queue', x, RbMultiplier) /\ Outstanding' = Outstanding \ {j}
        BY <3>1, <4>1 DEF Finishes
      <4>3. RbMultiplier \in Nat /\ RbMultiplier >= 1
        BY ConstantsOK
      <4>. QED  BY <4>1, <4>2, <4>3
    <3>2. CASE Raises(j)
      <4>1. PICK x \in QueuedRolloutBatch : x = Item(j, TRUE) /\ x.key = j
        BY <1>1, TaskTypes, TRUE \in BOOLEAN
      <4>2. Grows(ready_queue, ready_queue', x, 1) /\ Outstanding' = Outstanding \ {j}
        BY <3>2, <4>1 DEF Raises
      <4>3. 1 \in Nat /\ 1 >= 1
        OBVIOUS
      <4>. QED  BY <4>1, <4>2, <4>3
    <3>. QED  BY <1>3, <3>1, <3>2
  <2>2. /\ Len(ready_queue) \in Nat /\ Len(ready_queue') = Len(ready_queue) + n
        /\ \A p \in 1 .. Len(ready_queue) : ready_queue'[p] = ready_queue[p]
        /\ \A p \in Len(ready_queue) + 1 .. Len(ready_queue) + n : ready_queue'[p] = x
    BY <1>1, <2>1, Queues DEF Grows
  <2>3. \A p \in 1 .. Len(ready_queue) : p \in 1 .. Len(ready_queue')
    BY <2>2
  <2>4. Len(ready_queue) + 1 \in 1 .. Len(ready_queue') /\ ready_queue'[Len(ready_queue) + 1] = x
    BY <2>1, <2>2
  <2>5. ASSUME NEW k \in attr_cache' PROVE Accounted(k)'
    <3>1. Accounted(k)
      BY <1>1, <2>5 DEF AttrInv
    <3>2. CASE k = j
      BY <2>1, <2>4, <3>2 DEF Accounted
    <3>3. CASE k # j
      BY <1>1, <2>1, <2>2, <2>3, <3>1, <3>3 DEF Accounted
    <3>. QED  BY <3>2, <3>3
  <2>. QED  BY <2>5 DEF AttrInv
<1>. QED  BY <1>1, <1>2, <1>3, RolloutCases DEF Starts, BaseInv

LEMMA CollectAttrInv ==
    ASSUME BaseInv, AttrInv, CollectItem, pc' # "failed" PROVE AttrInv'
<1>1. /\ pc = "collect" /\ ready_queue # <<>> /\ ready_queue' = Tail(ready_queue)
      /\ UNCHANGED <<attr_cache, Outstanding>> /\ TypeInv
      /\ pc' = "collect"
      /\ Takes \/ Buffers(Head(ready_queue))
  BY CollectCases DEF BaseInv, Rejects, Takes, Buffers
<1>2. PICK x \in QueuedRolloutBatch : x = Head(ready_queue)
  BY <1>1, CollectCases
<1>3. /\ x = ready_queue[1] /\ Len(ready_queue) = Len(ready_queue') + 1
      /\ Len(ready_queue') \in Nat
      /\ \A i \in 1 .. Len(ready_queue') : ready_queue'[i] = ready_queue[i + 1]
  <2>1. ready_queue \in Seq(QueuedRolloutBatch)
    BY <1>1, Queues
  <2>. QED  BY <1>1, <1>2, <2>1, TailPlaces
<1>4. ASSUME NEW p \in 1 .. Len(ready_queue), p # 1
      PROVE  \E i \in 1 .. Len(ready_queue') : ready_queue'[i] = ready_queue[p]
  <2>1. PICK i \in 1 .. Len(ready_queue') : p = i + 1
    <3>1. p - 1 \in 1 .. Len(ready_queue') /\ p = (p - 1) + 1
      BY <1>3, <1>4
    <3>. QED  BY <3>1
  <2>. QED  BY <1>3, <2>1
\* The item that was taken is in the batch or in the buffer.
<1>5. /\ pc' = "collect" /\ DOMAIN ordered_ready \subseteq DOMAIN ordered_ready'
      /\ \A i \in 1 .. Len(batch) : i \in 1 .. Len(batch') /\ batch'[i] = batch[i]
      /\ x.key \in DOMAIN ordered_ready' \/ \E i \in 1 .. Len(batch') : batch'[i] = x
  <2>1. CASE Takes
    <3>1. /\ pc' = "collect" /\ UNCHANGED ordered_ready /\ batch' = Append(batch, x)
          /\ batch \in Seq(QueuedRolloutBatch)
      BY <1>1, <1>2, <2>1, Queues DEF Takes
    <3>2. /\ Len(batch') = Len(batch) + 1 /\ Len(batch) \in Nat
          /\ \A i \in 1 .. Len(batch) : batch'[i] = batch[i]
          /\ batch'[Len(batch) + 1] = x
      BY <3>1
    <3>3. Len(batch) + 1 \in 1 .. Len(batch') /\ \A i \in 1 .. Len(batch) : i \in 1 .. Len(batch')
      BY <3>2
    <3>. QED  BY <3>1, <3>2, <3>3
  <2>2. CASE Buffers(x)
    BY <2>2 DEF Buffers
  <2>. QED  BY <1>1, <1>2, <2>1, <2>2
<1>6. ASSUME NEW k \in attr_cache' PROVE Accounted(k)'
  <2>1. Accounted(k)
    BY <1>1, <1>6 DEF AttrInv
  <2>2. CASE x.key = k
    BY <1>5, <2>2 DEF Accounted
  <2>3. CASE \E p \in 1 .. Len(ready_queue) : ready_queue[p].key = k /\ x.key # k
    <3>1. PICK p \in 1 .. Len(ready_queue) : ready_queue[p].key = k /\ p # 1
      BY <1>3, <2>3
    <3>2. PICK i \in 1 .. Len(ready_queue') : ready_queue'[i] = ready_queue[p]
      BY <1>4, <3>1
    <3>. QED  BY <3>1, <3>2 DEF Accounted
  <2>4. CASE k \in Outstanding \/ k \in DOMAIN ordered_ready
    BY <1>1, <1>5, <2>4 DEF Accounted
  <2>5. CASE \E i \in 1 .. Len(batch) : batch[i].key = k
    <3>1. PICK i \in 1 .. Len(batch) : batch[i].key = k
      BY <2>5
    <3>2. i \in 1 .. Len(batch') /\ batch'[i].key = k
      BY <1>5, <3>1
    <3>. QED  BY <1>5, <3>2 DEF Accounted
  <2>. QED  BY <2>1, <2>2, <2>3, <2>4, <2>5 DEF Accounted
<1>. QED  BY <1>6 DEF AttrInv

\* The keys that finishing an ordered collection takes out of the buffer are the
\* keys of what it collected.
LEMMA StepCollected ==
    ASSUME BaseInv, ordered, pc = "collect", CollectionComplete, NEW k \in DOMAIN ordered_ready,
           k \in StepKeys(train_step)
    PROVE  \E i \in DOMAIN Collected : Collected[i].key = k
<1>1. TypeInv /\ NumMb \in Nat \ {0} /\ RbMultiplier \in Nat \ {0} /\ NumCollect \in Nat
      /\ NumCollect = NumMb * RbMultiplier
  BY CollectSize DEF BaseInv
<1>2. PICK m \in 0 .. NumMb - 1 : k = <<train_step, m>>
  BY DEF StepKeys
<1>3. PICK y \in Nat : y = m * RbMultiplier /\ (m + 1) * RbMultiplier = y + RbMultiplier
  <2>1. m \in Nat
    BY <1>1
  <2>. QED  BY <1>1, <2>1, Products
<1>4. y + RbMultiplier <= NumCollect
  <2>1. m + 1 <= NumMb /\ m + 1 \in Nat
    BY <1>1
  <2>2. (m + 1) * RbMultiplier <= NumMb * RbMultiplier
    BY <1>1, <2>1, Products
  <2>. QED  BY <1>1, <1>3, <2>2
<1>5. Block(y + 1) = m
  <2>1. y + 1 \in Nat \ {0} /\ m \in Nat /\ y < y + 1 /\ y + 1 <= y + RbMultiplier
    BY <1>1
  <2>. QED  BY <1>3, <2>1, BlockIs
<1>6. DOMAIN Collected = 1 .. NumCollect /\ Len(Collected) = NumCollect
  BY <1>1, CollectedItems, Queues
<1>7. PICK i \in 1 .. NumCollect : i = y + 1
  BY <1>1, <1>4
<1>8. \E n \in 1 .. Len(ordered_ready[k]) : Collected[i] = ordered_ready[k][n]
  <2>1. i \in 1 .. Len(Collected) /\ <<train_step, Block(i)>> = k
    BY <1>2, <1>5, <1>6, <1>7
  <2>. QED  BY <1>1, <2>1, CollectedFrom
<1>9. \A n \in 1 .. Len(ordered_ready[k]) : ordered_ready[k][n].key = k
  BY QueuedParts DEF BaseInv, BufferItemsOK
<1>. QED  BY <1>6, <1>8, <1>9

LEMMA FinishAttrInv ==
    ASSUME BaseInv, AttrInv, FinishCollect PROVE AttrInv'
<1>1. /\ pc = "collect" /\ pc' = "train" /\ CollectionComplete /\ batch' = Collected
      /\ UNCHANGED <<ready_queue, Outstanding>>
      /\ DOMAIN ordered_ready' = DOMAIN ordered_ready \ StepKeys(train_step)
      /\ attr_cache' = attr_cache \ {Collected[i].key : i \in DOMAIN Collected}
      /\ (~ ordered => Collected = batch) /\ TypeInv
  BY FinishCases DEF BaseInv
<1>2. ASSUME NEW k \in attr_cache' PROVE Accounted(k)'
  <2>1. /\ Accounted(k) /\ \A i \in DOMAIN Collected : Collected[i].key # k
    BY <1>1, <1>2 DEF AttrInv
  <2>2. CASE k \in Outstanding \/ \E p \in 1 .. Len(ready_queue) : ready_queue[p].key = k
    BY <1>1, <2>2 DEF Accounted
  <2>3. CASE k \in DOMAIN ordered_ready
    <3>1. ordered
      BY <2>3 DEF BaseInv, BatchInv
    <3>2. k \notin StepKeys(train_step)
      BY <1>1, <2>1, <2>3, <3>1, StepCollected
    <3>. QED  BY <1>1, <2>3, <3>2 DEF Accounted
  <2>4. CASE \E i \in 1 .. Len(batch) : batch[i].key = k
    <3>1. ~ ordered
      <4>1. ordered => Len(batch) = 0
        BY <1>1 DEF BaseInv, BatchInv
      <4>. QED  BY <2>4, <4>1
    <3>2. DOMAIN batch = 1 .. Len(batch)
      BY <1>1, Queues
    <3>. QED  BY <1>1, <2>1, <2>4, <3>1, <3>2
  <2>. QED  BY <2>1, <2>2, <2>3, <2>4 DEF Accounted
<1>. QED  BY <1>2 DEF AttrInv

LEMMA NextAttrInv == BaseInv /\ AttrInv /\ [Next]_vars => AttrInv'
<1>. SUFFICES ASSUME BaseInv, AttrInv, [Next]_vars, pc' # "failed" PROVE AttrInv'
  BY DEF AttrInv
<1>0. TypeInv
  BY DEF BaseInv
<1>1. CASE Restart
  BY <1>1 DEF Restart, AttrInv
<1>2. CASE BeginStep \/ SaveModel \/ SaveData \/ UpdateWeights \/ Train
  <2>1. /\ pc # "failed" /\ pc # "collect" /\ Outstanding' = Outstanding
        /\ UNCHANGED <<attr_cache, ready_queue, ordered_ready>>
    BY <1>2 DEF BeginStep, SaveModel, SaveData, UpdateWeights, Train, saveFrame, rolloutVars,
       Outstanding, Phase
  <2>2. ASSUME NEW k \in attr_cache' PROVE Accounted(k)'
    <3>1. Accounted(k)
      BY <2>1, <2>2 DEF AttrInv
    <3>. QED  BY <2>1, <3>1 DEF Accounted
  <2>. QED  BY <2>2 DEF AttrInv
<1>3. CASE WaitAllInflight
  <2>1. /\ pc = "drain" /\ UNCHANGED <<attr_cache, ready_queue, ordered_ready, batch>>
        /\ Outstanding = {}
    BY <1>3 DEF WaitAllInflight, InflightIdle, Outstanding, Phase
  <2>. QED  BY <2>1, StillAccounted
<1>4. CASE FireGenerationRequests
  <2>1. /\ FiresAll /\ pc = "fire" /\ UNCHANGED <<ready_queue, ordered_ready, batch>>
    BY <1>0, <1>4, FireCases
  <2>2. attr_cache' = attr_cache \cup Fired /\ Outstanding' = Outstanding \cup Fired
    <3>1. Outstanding \cap Fired = {}
      BY <1>0, FiredCount DEF Outstanding, BaseInv
    <3>. QED  BY <2>1, <3>1 DEF FiresAll, Outstanding, Phase
  <2>3. ASSUME NEW k \in attr_cache' PROVE Accounted(k)'
    <3>1. k \in Fired \/ Accounted(k)
      BY <2>1, <2>2, <2>3 DEF AttrInv
    <3>. QED  BY <2>1, <2>2, <3>1 DEF Accounted
  <2>. QED  BY <2>3 DEF AttrInv
<1>. QED  BY <1>1, <1>2, <1>3, <1>4, RolloutAttrInv, CollectAttrInv, FinishAttrInv, NextCases

\* NothingLeft: a run that ends has trained all that it fired: no item is left in
\* the queue, no step in the buffer and no sampling attrs in the cache.
THEOREM NothingIsLeft == Spec => []NothingLeft
<1>1. ASSUME BaseInv, StepwiseInv, ArrivalInv, AttrInv, pc = "done"
      PROVE  ready_queue = <<>> /\ DOMAIN ordered_ready = {} /\ attr_cache = {}
  <2>1. /\ TypeInv /\ train_step = TotalSteps /\ DOMAIN inflight_tasks = {} /\ batch = <<>>
        /\ Outstanding = {} /\ ~ SomeFailed /\ TotalSteps \in Nat
    BY <1>1, ConstantsOK DEF BaseInv, StepInv, TaskInv, BatchInv, Outstanding, SomeFailed
  <2>2. fired_step = train_step
    <3>1. fired_step \in 0 .. TotalSteps /\ train_step <= fired_step
      BY <1>1, <2>1 DEF BaseInv, StepInv, TypeInv, TypeOK, LoopTypeOK
    <3>. QED  BY <2>1, <3>1
  <2>3. ASSUME NEW k \in Dispatch PROVE ~ (TotalSteps <= k[1])
    BY <2>1 DEF Dispatch
  <2>4. ready_queue \in Seq(QueuedRolloutBatch) /\ Len(ready_queue) \in Nat
    BY <2>1, Queues
  <2>5. CASE ordered
    <3>1. Stepwise /\ Oldest = TotalSteps
      BY <1>1, <2>1, <2>5 DEF StepwiseInv, Oldest
    <3>2. DOMAIN ordered_ready = {}
      <4>1. ASSUME NEW k \in DOMAIN ordered_ready PROVE FALSE
        <5>1. k \in Dispatch /\ TotalSteps <= k[1]
          BY <2>1, <3>1, <4>1, Queues DEF Stepwise, StepsDue
        <5>. QED  BY <2>3, <5>1
      <4>. QED  BY <4>1
    <3>3. Len(ready_queue) = 0
      <4>1. ASSUME 1 \in 1 .. Len(ready_queue) PROVE FALSE
        <5>1. Due(ready_queue[1]) /\ ready_queue[1] \in QueuedRolloutBatch
          BY <2>1, <3>1, <4>1, Queues DEF Stepwise, QueueDue
        <5>2. ready_queue[1].key \in Dispatch /\ TotalSteps <= ready_queue[1].key[1]
          BY <3>1, <5>1 DEF Due, QueuedRolloutBatch
        <5>. QED  BY <2>3, <5>2
      <4>. QED  BY <2>4, <4>1
    <3>. QED  BY <1>1, <2>1, <2>4, <3>2, <3>3 DEF AttrInv, Accounted
  <2>6. CASE ~ ordered
    <3>1. DOMAIN ordered_ready = {}
      BY <1>1, <2>6 DEF BaseInv, BatchInv
    <3>2. /\ Len(Line) + Cardinality(Outstanding) * RbMultiplier
                = (fired_step - train_step) * NumCollect
      BY <1>1, <2>1, <2>6 DEF ArrivalInv, Arrival, Guarded, Balanced
    <3>3. Len(ready_queue) = 0
      <4>1. Cardinality(Outstanding) = 0 /\ fired_step - train_step = 0
        BY <2>1, <2>2, FS_EmptySet
      <4>2. \A n \in Nat : 0 * n = 0
        OBVIOUS
      <4>3. Len(Line) + 0 = 0 /\ Len(Line) \in Nat
        BY <2>1, <3>2, <4>1, <4>2, CollectSize, LineItems
      <4>4. Len(Line) = Len(batch) + Len(ready_queue) /\ Len(batch) \in Nat
        BY <2>1, LineItems, Queues
      <4>. QED  BY <2>4, <4>3, <4>4
    <3>. QED  BY <1>1, <2>1, <2>4, <3>1, <3>3 DEF AttrInv, Accounted
  <2>. QED  BY <2>5, <2>6
<1>. DEFINE Inv == BaseInv /\ StepwiseInv /\ ArrivalInv /\ AttrInv
<1>2. Init => AttrInv
  BY DEF Init, AttrInv
<1>3. Init => Inv
  BY <1>2, InitBaseInv, InitStepwiseInv, InitArrivalInv
<1>4. Inv /\ [Next]_vars => Inv'
  BY NextBaseInv, NextStepwiseInv, NextArrivalInv, NextAttrInv
<1>5. Inv => NothingLeft
  BY <1>1 DEF NothingLeft
<1>. QED  BY <1>3, <1>4, <1>5, PTL DEF Spec

----------------------------------------------------------------------------
\* Until the first relaunch no prompt is trained by two steps.

LEMMA SamePrompt ==
    ASSUME NEW a, NEW b, NEW u, NEW v, At(a, u) = At(b, v)
    PROVE  a = b /\ u = v
<1>1. \A e, i : At(e, i).epoch = e /\ At(e, i).at = i
  BY DEF At
<1>. QED  BY <1>1

\* Two dispatches never stand for the same prompt.
LEMMA ExpectedApart ==
    ASSUME NEW j \in Dispatch, NEW k \in Dispatch, ExpectedOf(j) = ExpectedOf(k)
    PROVE  j = k
<1>1. /\ j[1] \in Nat /\ k[1] \in Nat /\ j = <<j[1], j[2]>> /\ k = <<k[1], k[2]>>
      /\ j[2] \in 0 .. NumMb - 1 /\ k[2] \in 0 .. NumMb - 1
      /\ StepsPerEpoch \in Nat \ {0} /\ NumMb \in Nat \ {0}
  BY ConstantsOK DEF Dispatch
<1>2. PICK a \in Nat, b \in Nat, c \in Nat, d \in Nat :
         /\ a = j[1] \div StepsPerEpoch /\ b = j[1] % StepsPerEpoch
         /\ j[1] = a * StepsPerEpoch + b
         /\ c = k[1] \div StepsPerEpoch /\ d = k[1] % StepsPerEpoch
         /\ k[1] = c * StepsPerEpoch + d
  <2>1. ASSUME NEW s \in Nat
        PROVE  \E a \in Nat, b \in Nat :
                  /\ a = s \div StepsPerEpoch /\ b = s % StepsPerEpoch
                  /\ s = a * StepsPerEpoch + b
    <3>1. /\ s \div StepsPerEpoch \in Nat /\ s % StepsPerEpoch \in 0 .. StepsPerEpoch - 1
          /\ s = (s \div StepsPerEpoch) * StepsPerEpoch + (s % StepsPerEpoch)
      BY <1>1, Euclid
    <3>2. s % StepsPerEpoch \in Nat
      BY <1>1, <3>1
    <3>. QED  BY <3>1, <3>2
  <2>2. \E a \in Nat, b \in Nat : /\ a = j[1] \div StepsPerEpoch /\ b = j[1] % StepsPerEpoch
                                 /\ j[1] = a * StepsPerEpoch + b
    BY <1>1, <2>1
  <2>3. \E c \in Nat, d \in Nat : /\ c = k[1] \div StepsPerEpoch /\ d = k[1] % StepsPerEpoch
                                 /\ k[1] = c * StepsPerEpoch + d
    BY <1>1, <2>1
  <2>. QED  BY <2>2, <2>3
<1>3. a = c /\ b * NumMb + j[2] = d * NumMb + k[2]
  <2>1. /\ ExpectedOf(j) = [epoch |-> a, at |-> b * NumMb + j[2]]
        /\ ExpectedOf(k) = [epoch |-> c, at |-> d * NumMb + k[2]]
    BY <1>2 DEF ExpectedOf, Expected, At
  <2>. DEFINE u == b * NumMb + j[2]
              v == d * NumMb + k[2]
  <2>2. /\ ExpectedOf(j) = [epoch |-> a, at |-> u] /\ ExpectedOf(k) = [epoch |-> c, at |-> v]
    BY <2>1
  <2>. HIDE DEF u, v
  <2>3. At(a, u) = At(c, v)
    BY <2>2 DEF At
  <2>. QED  BY <2>3, SamePrompt DEF u, v
<1>4. b = d /\ j[2] = k[2]
  <2>1. b * NumMb \in Nat /\ d * NumMb \in Nat
    BY <1>1, Products
  <2>2. PICK x \in Nat : x = b * NumMb + j[2]
    BY <1>1, <2>1
  <2>3. x \div NumMb = b /\ x % NumMb = j[2]
    BY <1>1, <2>2, EuclidUnique
  <2>4. x = d * NumMb + k[2]
    BY <1>3, <2>2
  <2>5. x \div NumMb = d /\ x % NumMb = k[2]
    BY <1>1, <2>4, EuclidUnique
  <2>. QED  BY <2>3, <2>5
<1>. QED  BY <1>1, <1>2, <1>3, <1>4

\* What the collection takes is the prompt its dispatch stands for.
BatchRaw == InOrder => \A i \in 1 .. Len(batch) : batch[i].raw = ExpectedOf(batch[i].key)

LEMMA NextBatchRaw ==
    BaseInv /\ OrderInv /\ BatchRaw /\ [Next]_vars => BatchRaw'
<1>. SUFFICES ASSUME BaseInv, OrderInv, BatchRaw, [Next]_vars, InOrder'
              PROVE  \A i \in 1 .. Len(batch') : batch'[i].raw = ExpectedOf(batch'[i].key)
  BY DEF BatchRaw, ExpectedOf, Expected, At
<1>0. TypeInv
  BY DEF BaseInv
<1>1. CASE UNCHANGED <<batch, source, restarts>> \/ batch' = <<>>
  BY <1>1 DEF BatchRaw, InOrder
<1>2. CASE CollectItem
  <2>1. /\ UNCHANGED <<source, restarts>> /\ ready_queue # <<>>
    BY <1>0, <1>2, CollectCases DEF settings
  <2>2. InOrder /\ QueueOK
    BY <2>1 DEF InOrder, OrderInv, ItemsInPlace
  <2>3. CASE Takes
    <3>1. /\ batch \in Seq(QueuedRolloutBatch) /\ ready_queue \in Seq(QueuedRolloutBatch)
          /\ batch' = Append(batch, Head(ready_queue))
      BY <1>0, <2>3, Queues DEF Takes
    <3>2. PICK x \in QueuedRolloutBatch : x = Head(ready_queue) /\ x.raw = ExpectedOf(x.key)
      <4>1. /\ Head(ready_queue) = ready_queue[1] /\ Head(ready_queue) \in QueuedRolloutBatch
            /\ 1 \in DOMAIN ready_queue
        BY <2>1, <3>1, TailPlaces
      <4>. QED  BY <2>2, <4>1 DEF QueueOK
    <3>3. /\ Len(batch') = Len(batch) + 1 /\ Len(batch) \in Nat
          /\ \A i \in 1 .. Len(batch) : batch'[i] = batch[i]
          /\ batch'[Len(batch) + 1] = x
      BY <3>1, <3>2
    <3>. QED  BY <2>2, <3>2, <3>3 DEF BatchRaw
  <2>. QED  BY <1>0, <1>1, <1>2, <2>1, <2>3, CollectCases DEF Rejects, Buffers
<1>3. CASE FinishCollect
  <2>1. /\ UNCHANGED <<source, restarts>> /\ pc = "collect" /\ CollectionComplete
        /\ batch' = Collected /\ (~ ordered => UNCHANGED batch)
    BY <1>0, <1>3, FinishCases DEF settings
  <2>2. CASE ordered
    <3>1. BufferOK
      BY <2>1 DEF InOrder, OrderInv, ItemsInPlace
    <3>2. ASSUME NEW i \in 1 .. Len(Collected)
          PROVE  Collected[i].raw = ExpectedOf(Collected[i].key)
      <4>. DEFINE k == <<train_step, Block(i)>>
      <4>1. /\ k \in DOMAIN ordered_ready
            /\ \E n \in 1 .. Len(ordered_ready[k]) : Collected[i] = ordered_ready[k][n]
        BY <1>0, <2>1, <2>2, <3>2, CollectedFrom
      <4>. HIDE DEF k
      <4>2. PICK n \in 1 .. Len(ordered_ready[k]) : Collected[i] = ordered_ready[k][n]
        BY <4>1
      <4>3. ordered_ready[k][n].key = k
        BY <4>1, QueuedParts DEF BaseInv, BufferItemsOK
      <4>4. DOMAIN ordered_ready[k] = 1 .. Len(ordered_ready[k])
        BY <1>0, <4>1, Queues
      <4>. QED  BY <3>1, <4>1, <4>2, <4>3, <4>4 DEF BufferOK
    <3>. QED  BY <2>1, <3>2
  <2>. QED  BY <1>1, <2>1, <2>2
<1>4. CASE ~ (CollectItem \/ FinishCollect)
  <2>1. UNCHANGED <<batch, source, restarts>> \/ batch' = <<>>
    BY <1>0, <1>4, FireCases, RolloutFrame, NextCases DEF BeginStep, Train, SaveModel, SaveData,
       WaitAllInflight, UpdateWeights, Restart, saveFrame, rolloutVars, settings
  <2>. QED  BY <1>1, <2>1
<1>. QED  BY <1>2, <1>3, <1>4

\* A dispatch is live while its prompt may still come to be trained.
CleanQueue(p) == \A i \in 1 .. p : ~ ready_queue[i].error
Queued(k) == \E p \in 1 .. Len(ready_queue) : CleanQueue(p) /\ ready_queue[p].key = k
Batched(k) == \E i \in 1 .. Len(batch) : batch[i].key = k
Live(k) == k \in Outstanding \/ k \in DOMAIN ordered_ready \/ Queued(k) \/ Batched(k)

\* The taking of the head of the queue makes no dispatch live.
LEMMA CollectLive ==
    ASSUME BaseInv, CollectItem, pc' # "failed", NEW k, Live(k)'
    PROVE  Live(k)
<1>1. /\ ready_queue # <<>> /\ ready_queue' = Tail(ready_queue) /\ UNCHANGED Outstanding
      /\ TypeInv
      /\ Takes \/ Buffers(Head(ready_queue))
  BY CollectCases DEF BaseInv, Rejects
<1>2. PICK x \in QueuedRolloutBatch : x = Head(ready_queue)
  BY <1>1, CollectCases
<1>3. /\ x = ready_queue[1] /\ 1 \in 1 .. Len(ready_queue) /\ ~ x.error
      /\ Len(ready_queue') \in Nat
      /\ \A i \in 1 .. Len(ready_queue') :
            i + 1 \in 1 .. Len(ready_queue) /\ ready_queue'[i] = ready_queue[i + 1]
  <2>1. ready_queue \in Seq(QueuedRolloutBatch)
    BY <1>1, Queues
  <2>2. ~ x.error
    BY <1>1, <1>2 DEF Takes, Buffers
  <2>. QED  BY <1>1, <1>2, <2>1, <2>2, TailPlaces
<1>4. Queued(x.key)
  BY <1>3 DEF Queued, CleanQueue
<1>5. CASE Queued(k)'
  <2>1. PICK p \in 1 .. Len(ready_queue') : CleanQueue(p)' /\ ready_queue'[p].key = k
    BY <1>5 DEF Queued
  <2>2. ASSUME NEW i \in 1 .. p + 1 PROVE ~ ready_queue[i].error
    <3>1. CASE i = 1
      BY <1>3, <3>1
    <3>2. CASE i # 1
      <4>1. PICK m \in 1 .. p : i = m + 1
        <5>1. i - 1 \in 1 .. p /\ i = (i - 1) + 1
          BY <1>3, <3>2
        <5>. QED  BY <5>1
      <4>2. m \in 1 .. Len(ready_queue') /\ ready_queue'[m] = ready_queue[i]
        BY <1>3, <4>1
      <4>. QED  BY <2>1, <4>1, <4>2 DEF CleanQueue
    <3>. QED  BY <3>1, <3>2
  <2>3. p + 1 \in 1 .. Len(ready_queue) /\ ready_queue[p + 1].key = k
    BY <1>3, <2>1
  <2>. QED  BY <2>2, <2>3 DEF Live, Queued, CleanQueue
<1>6. CASE Takes
  <2>1. /\ batch' = Append(batch, x) /\ batch \in Seq(QueuedRolloutBatch)
        /\ UNCHANGED ordered_ready
    BY <1>1, <1>2, <1>6, Queues DEF Takes
  <2>2. /\ Len(batch') = Len(batch) + 1 /\ Len(batch) \in Nat
        /\ \A i \in 1 .. Len(batch) : batch'[i] = batch[i]
        /\ batch'[Len(batch) + 1] = x
    BY <2>1
  <2>3. ASSUME Batched(k)' PROVE Live(k)
    <3>1. PICK i \in 1 .. Len(batch') : batch'[i].key = k
      BY <2>3 DEF Batched
    <3>2. i \in 1 .. Len(batch) \/ i = Len(batch) + 1
      BY <2>2
    <3>. QED  BY <1>4, <2>2, <3>1, <3>2 DEF Batched, Live
  <2>. QED  BY <1>1, <1>5, <2>1, <2>3 DEF Live
<1>7. CASE Buffers(x)
  <2>1. UNCHANGED batch /\ DOMAIN ordered_ready' = DOMAIN ordered_ready \cup {x.key}
    BY <1>7 DEF Buffers
  <2>2. k \in DOMAIN ordered_ready' => Live(k)
    BY <1>4, <2>1 DEF Live
  <2>3. Batched(k)' => Live(k)
    BY <2>1 DEF Batched, Live
  <2>. QED  BY <1>1, <1>5, <2>2, <2>3 DEF Live
<1>. QED  BY <1>1, <1>2, <1>6, <1>7

LEMMA FinishLive ==
    ASSUME BaseInv, FinishCollect, NEW k, Live(k)'
    PROVE  Live(k)
<1>1. /\ pc = "collect" /\ CollectionComplete /\ batch' = Collected
      /\ UNCHANGED <<ready_queue, Outstanding>> /\ (~ ordered => UNCHANGED batch)
      /\ DOMAIN ordered_ready' \subseteq DOMAIN ordered_ready /\ TypeInv
  BY FinishCases DEF BaseInv
<1>2. Queued(k)' => Queued(k)
  BY <1>1 DEF Queued, CleanQueue
<1>3. ASSUME Batched(k)' PROVE Live(k)
  <2>1. CASE ~ ordered
    BY <1>1, <1>3, <2>1 DEF Batched, Live
  <2>2. CASE ordered
    <3>1. PICK i \in 1 .. Len(Collected) : Collected[i].key = k
      BY <1>1, <1>3 DEF Batched
    <3>. DEFINE j == <<train_step, Block(i)>>
    <3>2. /\ j \in DOMAIN ordered_ready
          /\ \E n \in 1 .. Len(ordered_ready[j]) : Collected[i] = ordered_ready[j][n]
      BY <1>1, <2>2, <3>1, CollectedFrom
    <3>. HIDE DEF j
    <3>3. \A n \in 1 .. Len(ordered_ready[j]) : ordered_ready[j][n].key = j
      BY <3>2, QueuedParts DEF BaseInv, BufferItemsOK
    <3>. QED  BY <3>1, <3>2, <3>3 DEF Live
  <2>. QED  BY <2>1, <2>2
<1>. QED  BY <1>1, <1>2, <1>3 DEF Live

LEMMA RolloutLive ==
    ASSUME BaseInv, RolloutSide, NEW k, Live(k)'
    PROVE  Live(k)
<1>1. UNCHANGED <<batch, ordered_ready>> /\ TypeInv
  BY RolloutFrame DEF BaseInv
<1>2. Batched(k)' => Batched(k)
  BY <1>1 DEF Batched
<1>3. CASE UNCHANGED ready_queue /\ Outstanding' = Outstanding
  BY <1>1, <1>2, <1>3 DEF Live, Queued, CleanQueue
<1>4. ASSUME NEW j \in DOMAIN inflight_tasks, Finishes(j) \/ Raises(j) PROVE Live(k)
  <2>1. j \in Outstanding /\ Outstanding' \subseteq Outstanding
    BY <1>4 DEF Finishes, Raises, Outstanding
  <2>2. PICK x \in QueuedRolloutBatch, n \in Nat :
           x.key = j /\ Grows(ready_queue, ready_queue', x, n)
    <3>1. CASE Finishes(j)
      <4>1. PICK x \in QueuedRolloutBatch : x = Item(j, FALSE) /\ x.key = j
        BY <1>1, TaskTypes, FALSE \in BOOLEAN
      <4>2. Grows(ready_queue, ready_queue', x, RbMultiplier) /\ RbMultiplier \in Nat
        BY <3>1, <4>1, ConstantsOK DEF Finishes
      <4>. QED  BY <4>1, <4>2
    <3>2. CASE Raises(j)
      <4>1. PICK x \in QueuedRolloutBatch : x = Item(j, TRUE) /\ x.key = j
        BY <1>1, TaskTypes, TRUE \in BOOLEAN
      <4>2. Grows(ready_queue, ready_queue', x, 1) /\ 1 \in Nat
        BY <3>2, <4>1 DEF Raises
      <4>. QED  BY <4>1, <4>2
    <3>. QED  BY <1>4, <3>1, <3>2
  <2>3. /\ Len(ready_queue) \in Nat /\ Len(ready_queue') = Len(ready_queue) + n
        /\ \A p \in 1 .. Len(ready_queue) : ready_queue'[p] = ready_queue[p]
        /\ \A p \in Len(ready_queue) + 1 .. Len(ready_queue) + n : ready_queue'[p] = x
    BY <1>1, <2>2, Queues DEF Grows
  <2>4. ASSUME Queued(k)' PROVE Live(k)
    <3>1. PICK p \in 1 .. Len(ready_queue') : CleanQueue(p)' /\ ready_queue'[p].key = k
      BY <2>4 DEF Queued
    <3>2. CASE p \in 1 .. Len(ready_queue)
      <4>1. \A i \in 1 .. p : i \in 1 .. Len(ready_queue)
        BY <2>3, <3>2
      <4>2. CleanQueue(p) /\ ready_queue[p].key = k
        BY <2>3, <3>1, <3>2, <4>1 DEF CleanQueue
      <4>. QED  BY <3>2, <4>2 DEF Live, Queued
    <3>3. CASE p \in Len(ready_queue) + 1 .. Len(ready_queue) + n
      BY <2>1, <2>2, <2>3, <3>1, <3>3 DEF Live
    <3>. QED  BY <2>3, <3>2, <3>3
  <2>. QED  BY <1>1, <1>2, <2>1, <2>4 DEF Live
<1>. QED  BY <1>1, <1>3, <1>4, RolloutCases DEF Starts, BaseInv

\* A dispatch that was fired and is not live is never live again.
LEMMA NeverLiveAgain ==
    ASSUME BaseInv, [Next]_vars, ~ Restart, pc' # "failed", NEW k \in Dispatch,
           k[1] < fired_step, ~ Live(k)
    PROVE  ~ Live(k)' /\ k[1] < fired_step'
<1>0. TypeInv /\ TaskInv /\ k[1] \in Nat /\ fired_step \in Nat
  BY StepTypes, ConstantsOK DEF BaseInv, Dispatch
<1>1. k[1] < fired_step' /\ k \notin Outstanding'
  <2>1. TypeInv' /\ Advances
    BY <1>0, NextTypeInv, StepAdvances
  <2>. QED  BY <1>0, <2>1, KeyStays DEF Live
<1>2. CASE BeginStep \/ SaveModel \/ SaveData \/ WaitAllInflight \/ UpdateWeights
           \/ FireGenerationRequests \/ Train
  <2>1. /\ UNCHANGED <<ready_queue, ordered_ready>>
        /\ UNCHANGED batch \/ batch' = <<>>
    BY <1>0, <1>2, FireCases DEF BeginStep, SaveModel, SaveData, WaitAllInflight, UpdateWeights,
       Train, saveFrame, rolloutVars
  <2>. QED  BY <1>1, <2>1 DEF Live, Queued, CleanQueue, Batched
<1>. QED  BY <1>1, <1>2, NextCases, CollectLive, FinishLive, RolloutLive

\* What has been trained came from dispatches that were fired and are not live.
TrainedGone ==
    restarts = 0 /\ pc # "failed" =>
        \A s \in 0 .. train_step - 1 : \A i \in DOMAIN trained_in[s] :
            \E k \in Dispatch :
                k[1] < fired_step /\ ~ Live(k) /\ trained_in[s][i] = ExpectedOf(k)
Distinct ==
    restarts = 0 =>
        \A s, t \in 0 .. train_step - 1 : s # t =>
            \A i \in DOMAIN trained_in[s], j \in DOMAIN trained_in[t] :
                trained_in[s][i] # trained_in[t][j]
OnceInv == TrainedGone /\ Distinct

\* Once the batch is trained, its dispatches are not live.
LEMMA TrainedNotLive ==
    ASSUME BaseInv, StepwiseInv, ArrivalInv, Train, NEW i \in 1 .. Len(batch),
           NEW k, k = batch[i].key
    PROVE  ~ Live(k)' /\ k \in Dispatch /\ k[1] < fired_step
<1>0. /\ pc = "train" /\ batch' = <<>> /\ TypeInv /\ train_step \in Nat
      /\ UNCHANGED <<ready_queue, ordered_ready, inflight_tasks>>
  BY StepTypes DEF Train, BaseInv
<1>1. PICK x \in QueuedRolloutBatch : x = batch[i] /\ x.key = k /\ ItemOK(x)
  BY <1>0, Queues, QueuedParts DEF BaseInv, BatchItemsOK
<1>2. k \in Dispatch /\ k[1] < fired_step /\ k \notin Outstanding
  BY <1>1 DEF QueuedRolloutBatch, ItemOK
<1>3. k \notin Outstanding' /\ ~ Batched(k)'
  BY <1>0, <1>2 DEF Outstanding, Phase, Batched
<1>4. CASE ordered
  <2>1. Stepwise /\ Oldest = train_step + 1
    BY <1>0, <1>4 DEF StepwiseInv, Oldest
  <2>2. k[1] = train_step
    BY <1>0, <1>1, <2>1 DEF Stepwise, BatchInPlace
  <2>3. ~ (Oldest <= k[1])
    BY <1>0, <2>1, <2>2
  <2>4. k \notin DOMAIN ordered_ready
    BY <2>1, <2>3 DEF Stepwise, StepsDue
  <2>5. \A p \in 1 .. Len(ready_queue) : ready_queue[p].key # k
    BY <2>1, <2>3 DEF Stepwise, QueueDue, Due
  <2>. QED  BY <1>0, <1>1, <1>2, <1>3, <2>4, <2>5 DEF Live, Queued
<1>5. CASE ~ ordered
  <2>1. k \notin DOMAIN ordered_ready
    BY <1>5 DEF BaseInv, BatchInv
  <2>2. /\ Grouped /\ Len(batch) = NumCollect /\ Len(ready_queue) \in Nat
        /\ NumCollect \in Nat \ {0} /\ NumMb \in Nat \ {0}
    BY <1>0, <1>5, Queues, CollectSize DEF ArrivalInv, Arrival, BaseInv, BatchInv
  <2>3. \A n \in 1 .. Len(batch) : ~ Line[n].error
    BY <1>0, LineItems, QueuedParts DEF BaseInv, BatchItemsOK
  <2>4. i \in 1 .. Len(Line) /\ Line[i] = x /\ Clean(i)
    <3>1. \A n \in 1 .. i : n \in 1 .. Len(batch)
      BY <2>2
    <3>. QED  BY <1>0, <1>1, <2>2, <2>3, <3>1, LineItems DEF Clean
  <2>5. ASSUME NEW p \in 1 .. Len(ready_queue), CleanQueue(p) PROVE ready_queue[p].key # k
    <3>1. PICK q \in Nat \ {0} : q = NumCollect + p
      BY <2>2
    <3>2. q \in 1 .. Len(Line) /\ Line[q] = ready_queue[p]
      BY <1>0, <2>2, <3>1, LineItems
    <3>3. ASSUME NEW n \in 1 .. q PROVE ~ Line[n].error
      <4>1. CASE n \in 1 .. Len(batch)
        BY <2>3, <4>1
      <4>2. CASE n \notin 1 .. Len(batch)
        <5>1. PICK m \in 1 .. p : n = Len(batch) + m
          <6>1. n - Len(batch) \in 1 .. p /\ n = Len(batch) + (n - Len(batch))
            BY <2>2, <3>1, <4>2
          <6>. QED  BY <6>1
        <5>2. Line[n] = ready_queue[m] /\ ~ ready_queue[m].error
          <6>1. m \in 1 .. Len(ready_queue)
            BY <2>2, <5>1
          <6>. QED  BY <1>0, <2>5, <5>1, <6>1, LineItems DEF CleanQueue
        <5>. QED  BY <5>2
      <4>. QED  BY <4>1, <4>2
    <3>4. Clean(q)
      BY <3>3 DEF Clean
    <3>5. Block(i) # Block(q)
      <4>1. i \in Nat \ {0} /\ i <= NumCollect
        BY <2>2
      <4>2. NumMb * RbMultiplier = NumCollect /\ NumMb \in Nat
        BY CollectSize
      <4>3. ~ (Block(i) >= NumMb)
        <5>1. PICK g \in Nat : g = Block(i)
          BY <4>1, BlockType
        <5>2. g * RbMultiplier < i
          BY <4>1, <5>1, BlockIs
        <5>3. g * RbMultiplier \in Nat /\ (NumMb <= g => NumMb * RbMultiplier <= g * RbMultiplier)
          BY <4>2, CollectSize, Products
        <5>. QED  BY <2>2, <4>1, <4>2, <5>1, <5>2, <5>3
      <4>4. Block(q) = Block(p) + NumMb /\ Block(p) \in Nat /\ Block(i) \in Nat
        <5>1. p \in Nat \ {0} /\ q = p + NumCollect
          BY <2>2, <3>1
        <5>. QED  BY <4>1, <5>1, BlockShift, BlockType
      <4>. QED  BY <4>2, <4>3, <4>4
    <3>. QED  BY <1>1, <2>2, <2>4, <3>2, <3>4, <3>5 DEF Grouped
  <2>6. ~ Queued(k)'
    BY <1>0, <2>5 DEF Queued, CleanQueue
  <2>. QED  BY <1>0, <1>1, <1>2, <1>3, <2>1, <2>6 DEF Live
<1>. QED  BY <1>4, <1>5

\* What the training of a step adds to the history.
LEMMA TrainedNext ==
    ASSUME BaseInv, Train
    PROVE  /\ train_step \in Nat /\ train_step' = train_step + 1 /\ UNCHANGED fired_step
           /\ \A s \in 0 .. train_step' - 1 : s \in 0 .. train_step - 1 \/ s = train_step
           /\ \A s \in 0 .. train_step - 1 : trained_in'[s] = trained_in[s]
           /\ DOMAIN trained_in'[train_step] = 1 .. Len(batch)
           /\ \A i \in 1 .. Len(batch) : trained_in'[train_step][i] = batch[i].raw
<1>1. /\ pc = "train" /\ train_step' = train_step + 1 /\ UNCHANGED fired_step
      /\ trained_in' = [trained_in EXCEPT ![train_step] = [i \in DOMAIN batch |-> batch[i].raw]]
      /\ TypeInv /\ train_step \in Nat
  BY StepTypes DEF Train, BaseInv
<1>2. /\ DOMAIN trained_in = 0 .. TotalSteps - 1 /\ train_step \in 0 .. TotalSteps - 1
  BY <1>1, ConstantsOK DEF TypeInv, TypeOK, LoopTypeOK, LoopInv
<1>3. DOMAIN batch = 1 .. Len(batch)
  BY <1>1, Queues
<1>4. trained_in'[train_step] = [i \in 1 .. Len(batch) |-> batch[i].raw]
  BY <1>1, <1>2, <1>3
<1>5. \A s \in 0 .. train_step - 1 : trained_in'[s] = trained_in[s]
  BY <1>1, <1>2
<1>6. \A s \in 0 .. train_step' - 1 : s \in 0 .. train_step - 1 \/ s = train_step
  BY <1>1
<1>. QED  BY <1>1, <1>4, <1>5, <1>6

LEMMA TrainOnceInv ==
    ASSUME BaseInv, StepwiseInv, ArrivalInv, BatchRaw, OnceInv, Train
    PROVE  OnceInv'
<1>. SUFFICES ASSUME restarts' = 0 PROVE OnceInv'
  BY DEF OnceInv, TrainedGone, Distinct
<1>0. /\ restarts = 0 /\ pc = "train" /\ pc' # "failed" /\ ~ Restart /\ InOrder
      /\ [Next]_vars
  BY DEF Train, AfterTrain, InOrder, Restart, Next, TrainerStep
<1>1. /\ train_step \in Nat /\ train_step' = train_step + 1 /\ UNCHANGED fired_step
      /\ \A s \in 0 .. train_step' - 1 : s \in 0 .. train_step - 1 \/ s = train_step
      /\ \A s \in 0 .. train_step - 1 : trained_in'[s] = trained_in[s]
      /\ DOMAIN trained_in'[train_step] = 1 .. Len(batch)
      /\ \A i \in 1 .. Len(batch) : trained_in'[train_step][i] = batch[i].raw
  BY TrainedNext
<1>2. ASSUME NEW i \in 1 .. Len(batch)
      PROVE  \E k \in Dispatch :
                /\ trained_in'[train_step][i] = ExpectedOf(k)
                /\ k[1] < fired_step /\ ~ Live(k)' /\ Live(k)
  <2>1. PICK k : k = batch[i].key
    OBVIOUS
  <2>2. ~ Live(k)' /\ k \in Dispatch /\ k[1] < fired_step
    BY <2>1, TrainedNotLive
  <2>3. trained_in'[train_step][i] = ExpectedOf(k) /\ Live(k)
    BY <1>0, <1>1, <2>1 DEF BatchRaw, Live, Batched
  <2>. QED  BY <2>2, <2>3
<1>3. ASSUME NEW s \in 0 .. train_step - 1, NEW i \in DOMAIN trained_in[s]
      PROVE  \E k \in Dispatch :
                /\ k[1] < fired_step /\ ~ Live(k) /\ ~ Live(k)'
                /\ trained_in[s][i] = ExpectedOf(k)
  <2>1. PICK k \in Dispatch :
           k[1] < fired_step /\ ~ Live(k) /\ trained_in[s][i] = ExpectedOf(k)
    BY <1>0, <1>3 DEF OnceInv, TrainedGone
  <2>2. ~ Live(k)'
    BY <1>0, <2>1, NeverLiveAgain
  <2>. QED  BY <2>1, <2>2
<1>4. TrainedGone'
  <2>1. ASSUME NEW s \in 0 .. train_step' - 1, NEW i \in DOMAIN trained_in'[s]
        PROVE  \E k \in Dispatch :
                  /\ k[1] < fired_step /\ ~ Live(k)' /\ trained_in'[s][i] = ExpectedOf(k)
    <3>1. CASE s \in 0 .. train_step - 1
      BY <1>1, <1>3, <2>1, <3>1
    <3>2. CASE s = train_step
      <4>1. i \in 1 .. Len(batch)
        BY <1>1, <2>1, <3>2
      <4>. QED  BY <1>2, <3>2, <4>1
    <3>. QED  BY <1>1, <3>1, <3>2
  <2>. QED  BY <1>1, <2>1 DEF TrainedGone, ExpectedOf, Expected, At
\* A prompt of this step is of a live dispatch, one of an earlier step is not.
<1>5. ASSUME NEW s \in 0 .. train_step - 1, NEW i \in DOMAIN trained_in[s],
             NEW j \in 1 .. Len(batch)
      PROVE  trained_in[s][i] # trained_in'[train_step][j]
  <2>1. PICK k \in Dispatch : ~ Live(k) /\ trained_in[s][i] = ExpectedOf(k)
    BY <1>3
  <2>2. PICK n \in Dispatch : trained_in'[train_step][j] = ExpectedOf(n) /\ Live(n)
    BY <1>2
  <2>3. n # k
    BY <2>1, <2>2
  <2>. QED  BY <2>1, <2>2, <2>3, ExpectedApart
<1>6. Distinct'
  <2>1. ASSUME NEW s \in 0 .. train_step' - 1, NEW t \in 0 .. train_step' - 1, s # t,
               NEW i \in DOMAIN trained_in'[s], NEW j \in DOMAIN trained_in'[t]
        PROVE  trained_in'[s][i] # trained_in'[t][j]
    <3>1. CASE s \in 0 .. train_step - 1 /\ t \in 0 .. train_step - 1
      BY <1>0, <1>1, <2>1, <3>1 DEF OnceInv, Distinct
    <3>2. CASE s \in 0 .. train_step - 1 /\ t = train_step
      <4>1. i \in DOMAIN trained_in[s] /\ j \in 1 .. Len(batch) /\ trained_in'[s] = trained_in[s]
        BY <1>1, <2>1, <3>2
      <4>. QED  BY <1>5, <3>2, <4>1
    <3>3. CASE s = train_step /\ t \in 0 .. train_step - 1
      <4>1. j \in DOMAIN trained_in[t] /\ i \in 1 .. Len(batch) /\ trained_in'[t] = trained_in[t]
        BY <1>1, <2>1, <3>3
      <4>. QED  BY <1>5, <3>3, <4>1
    <3>. QED  BY <1>1, <2>1, <3>1, <3>2, <3>3
  <2>. QED  BY <2>1 DEF Distinct
<1>. QED  BY <1>4, <1>6 DEF OnceInv

LEMMA NextOnceInv ==
    BaseInv /\ StepwiseInv /\ ArrivalInv /\ BatchRaw /\ OnceInv /\ [Next]_vars => OnceInv'
<1>. SUFFICES ASSUME BaseInv, StepwiseInv, ArrivalInv, BatchRaw, OnceInv, [Next]_vars
              PROVE  OnceInv'
  OBVIOUS
<1>0. TypeInv /\ restarts \in Nat
  BY StepTypes DEF BaseInv
<1>1. CASE Restart
  <2>1. restarts' # 0
    BY <1>0, <1>1 DEF Restart
  <2>. QED  BY <2>1 DEF OnceInv, TrainedGone, Distinct
<1>2. CASE ~ Restart /\ ~ Train
  <2>1. UNCHANGED <<trained_in, train_step, restarts>> /\ (pc' # "failed" => pc # "failed")
    BY <1>0, <1>2, FireCases, CollectCases, FinishCases, RolloutFrame, NextCases
       DEF BeginStep, SaveModel, SaveData, WaitAllInflight, UpdateWeights, saveFrame, learnerVars,
           loopVars
  <2>2. Distinct'
    BY <2>1 DEF OnceInv, Distinct
  <2>3. TrainedGone'
    <3>1. ASSUME restarts = 0, pc' # "failed", NEW s \in 0 .. train_step - 1,
                 NEW i \in DOMAIN trained_in[s]
          PROVE  \E k \in Dispatch :
                    /\ k[1] < fired_step' /\ ~ Live(k)' /\ trained_in[s][i] = ExpectedOf(k)
      <4>1. PICK k \in Dispatch :
               k[1] < fired_step /\ ~ Live(k) /\ trained_in[s][i] = ExpectedOf(k)
        BY <2>1, <3>1 DEF OnceInv, TrainedGone
      <4>. QED  BY <1>2, <3>1, <4>1, NeverLiveAgain
    <3>. QED  BY <2>1, <3>1 DEF TrainedGone, ExpectedOf, Expected, At
  <2>. QED  BY <2>2, <2>3 DEF OnceInv
<1>. QED  BY <1>1, <1>2, TrainOnceInv

\* EachPromptOnce: as long as no relaunch threw the prefetch away, no prompt is
\* trained by two steps, although in arrival order a step may train what was
\* fired for another one, and whatever the agents' exceptions.
THEOREM PromptsTrainOnce == Spec => []EachPromptOnce
<1>1. ASSUME Distinct, restarts = 0, NEW s \in 0 .. train_step - 1, NEW i \in DOMAIN trained_in[s]
      PROVE  TrainedBy(trained_in[s][i]) = {s}
  <2>1. s \in TrainedBy(trained_in[s][i])
    BY <1>1 DEF TrainedBy
  <2>2. ASSUME NEW t \in TrainedBy(trained_in[s][i]), t # s PROVE FALSE
    <3>1. t \in 0 .. train_step - 1
          /\ \E j \in DOMAIN trained_in[t] : trained_in[t][j] = trained_in[s][i]
      BY <2>2 DEF TrainedBy
    <3>. QED  BY <1>1, <2>2, <3>1 DEF Distinct
  <2>. QED  BY <2>1, <2>2
<1>2. Distinct => EachPromptOnce
  BY <1>1 DEF EachPromptOnce
<1>. DEFINE Inv == /\ BaseInv /\ StepwiseInv /\ ArrivalInv /\ OrderInv /\ BatchRaw /\ OnceInv
<1>3. Init => Inv
  <2>1. Init => BatchRaw
    BY DEF Init, BatchRaw
  <2>2. Init => OnceInv
    BY DEF Init, OnceInv, TrainedGone, Distinct
  <2>. QED  BY <2>1, <2>2, InitBaseInv, InitStepwiseInv, InitArrivalInv, InitOrderInv
<1>4. Inv /\ [Next]_vars => Inv'
  BY NextBaseInv, NextStepwiseInv, NextArrivalInv, NextOrderInv, NextBatchRaw, NextOnceInv
     DEF BaseInv
<1>5. Inv => EachPromptOnce
  BY <1>2 DEF OnceInv
<1>. QED  BY <1>3, <1>4, <1>5, PTL DEF Spec
=============================================================================
