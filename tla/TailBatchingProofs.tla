------------------------- MODULE TailBatchingProofs -------------------------
(***************************************************************************)
(* Proofs about TailBatching, for every value of its constants.            *)
(*   - Types, and the pause protocol: an abort only ever hits work that    *)
(*     the window refuses, it is never mistaken for a failure, and weights *)
(*     move only over an idle sampler.                                     *)
(*   - The windows: how many rollout batches a window collects, in which   *)
(*     order and how stale they are trained, what the sampling-attr cache  *)
(*     holds meanwhile, and what is on disk when the run ends.             *)
(*                                                                         *)
(* Most of the second part is said of one sequence, Line: the rollout      *)
(* batches the trainer has taken for its step, followed by the ready       *)
(* queue.  Taking an item leaves Line as it is, so what is true of a place *)
(* in Line when an item is put there stays true until a step is trained.   *)
(* TailBatchingPromptProofs goes on from here.                             *)
(***************************************************************************)
EXTENDS TailBatching, FiniteSetTheorems, TLAPS

\* The trainer is inside the loop body only while steps are left, and it opens
\* a window only to fire something.
StepsLeft ==
    /\ pc \in {"begin_step", "fire", "collect", "train"} => train_step < TotalSteps
    /\ pc \in {"begin_step", "fire"} => fired_step < fire_target

TypeInv == TypeOK /\ StepsLeft

LEMMA LesserNat ==
    ASSUME NEW a \in Nat, NEW b \in Nat
    PROVE  Lesser(a, b) \in Nat /\ Lesser(a, b) <= a /\ Lesser(a, b) <= b
BY DEF Lesser

LEMMA FireTargetRange ==
    ASSUME NEW s \in 0 .. TotalSteps
    PROVE  /\ FireTarget(s) \in 0 .. TotalSteps
           /\ s < TotalSteps => s < FireTarget(s)
BY TrainerWindowAssumption DEF FireTarget, Lesser, TrainerWindowAssumption

THEOREM InitTypeInv == Init => TypeInv
<1>. SUFFICES ASSUME Init PROVE TypeInv
  OBVIOUS
<1>. USE TrainerWindowAssumption, TailBatchingAssumption DEF TrainerWindowAssumption, TailBatchingAssumption
<1>1. FireTarget(0) \in 0 .. TotalSteps /\ 0 < FireTarget(0)
  BY FireTargetRange
<1>2. StepsLeft
  BY <1>1 DEF Init, StepsLeft
<1>3. TrainerTypeOK
  BY <1>1 DEF Init, TrainerTypeOK, TrainerPcs
<1>4. DataSourceTypeOK /\ QueueTypeOK
  BY DEF Init, DataSourceTypeOK, QueueTypeOK
<1>5. DispatchTypeOK
  BY DEF Init, DispatchTypeOK, EmptyDict, Agents
<1>6. WindowTypeOK /\ DiskTypeOK
  BY DEF Init, WindowTypeOK, DiskTypeOK, EmptyDict
<1>. QED  BY <1>2, <1>3, <1>4, <1>5, <1>6 DEF TypeInv, TypeOK

----------------------------------------------------------------------------
\* What the data of a step are made of.

LEMMA DispatchFinite ==
    ASSUME NEW S, S \subseteq Dispatch
    PROVE  IsFiniteSet(S) /\ Cardinality(S) \in Nat
<1>1. IsFiniteSet(0 .. TotalSteps - 1) /\ IsFiniteSet(0 .. OverFireMb - 1)
  BY TrainerWindowAssumption, TailBatchingAssumption, FS_Interval
  DEF TrainerWindowAssumption, TailBatchingAssumption
<1>2. IsFiniteSet(Dispatch)
  BY <1>1, FS_Product DEF Dispatch
<1>. QED  BY <1>2, FS_Subset, FS_CardinalityType

\* A set of dispatches is finite, and its members come one by one in its dict
\* order: j before k means that fewer of the set come before j.
LEMMA DictOrderLists ==
    ASSUME NEW S, S \subseteq Dispatch
    PROVE  DictOrder(S) \in Bijection(1 .. Cardinality(S), S)
<1>. DEFINE n == Cardinality(S)
            rank == [k \in S |-> Cardinality(Earlier(S, k))]
<1>1. IsFiniteSet(S) /\ n \in Nat
  BY DispatchFinite
<1>2. ASSUME NEW k \in S
      PROVE  /\ IsFiniteSet(Earlier(S, k)) /\ Cardinality(Earlier(S, k)) \in Nat
             /\ k \notin Earlier(S, k) /\ Earlier(S, k) \subseteq S
  <2>1. k[1] \in Nat /\ k[2] \in Nat
    BY DEF Dispatch
  <2>2. ~ Before(k, k)
    BY <2>1 DEF Before
  <2>3. k \notin Earlier(S, k) /\ Earlier(S, k) \subseteq S
    BY <2>2 DEF Earlier
  <2>. QED  BY <1>1, <2>3, FS_Subset, FS_CardinalityType
<1>3. ASSUME NEW j \in S, NEW k \in S, Before(j, k) PROVE rank[j] < rank[k]
  <2>1. Earlier(S, j) \cup {j} \subseteq Earlier(S, k)
    <3>1. ASSUME NEW i \in S, Before(i, j) PROVE Before(i, k)
      <4>1. /\ i[1] \in Nat /\ i[2] \in Nat /\ j[1] \in Nat /\ j[2] \in Nat
            /\ k[1] \in Nat /\ k[2] \in Nat
        BY DEF Dispatch
      <4>. QED  BY <1>3, <3>1, <4>1 DEF Before
    <3>. QED  BY <1>3, <3>1 DEF Earlier
  <2>2. Cardinality(Earlier(S, j) \cup {j}) = Cardinality(Earlier(S, j)) + 1
    BY <1>2, FS_AddElement
  <2>3. Cardinality(Earlier(S, j) \cup {j}) <= Cardinality(Earlier(S, k))
    BY <1>2, <2>1, FS_Subset
  <2>. QED  BY <1>2, <2>2, <2>3
<1>4. ASSUME NEW j \in S, NEW k \in S, j # k PROVE Before(j, k) \/ Before(k, j)
  <2>1. /\ j = <<j[1], j[2]>> /\ k = <<k[1], k[2]>>
        /\ j[1] \in Nat /\ j[2] \in Nat /\ k[1] \in Nat /\ k[2] \in Nat
    BY DEF Dispatch
  <2>. QED  BY <1>4, <2>1 DEF Before
<1>5. rank \in [S -> 0 .. n - 1]
  <2>. SUFFICES ASSUME NEW k \in S PROVE Cardinality(Earlier(S, k)) \in 0 .. n - 1
    OBVIOUS
  <2>1. Earlier(S, k) \subseteq S \ {k}
    BY <1>2
  <2>2. IsFiniteSet(S \ {k}) /\ Cardinality(S \ {k}) = n - 1
    BY <1>1, FS_RemoveElement
  <2>3. Cardinality(Earlier(S, k)) <= n - 1
    BY <2>1, <2>2, FS_Subset
  <2>. QED  BY <1>1, <1>2, <2>3
<1>6. rank \in Injection(S, 0 .. n - 1)
  <2>1. ASSUME NEW j \in S, NEW k \in S, rank[j] = rank[k] PROVE j = k
    <3>1. rank[j] \in Int /\ rank[k] \in Int
      BY <1>5
    <3>. HIDE DEF rank
    <3>. QED  BY <1>3, <1>4, <2>1, <3>1
  <2>. HIDE DEF rank
  <2>. QED  BY <1>5, <2>1 DEF Injection, IsInjective
<1>7. rank \in Surjection(S, 0 .. n - 1)
  <2>1. n - 1 \in Int
    BY <1>1
  <2>2. IsFiniteSet(0 .. n - 1) /\ Cardinality(0 .. n - 1) = IF 0 > n - 1 THEN 0 ELSE n - 1 - 0 + 1
    BY <2>1, FS_Interval
  <2>3. Cardinality(0 .. n - 1) = n
    BY <1>1, <2>2
  <2>. HIDE DEF rank, n
  <2>. QED  BY <1>6, <2>2, <2>3, FS_Injection DEF n
<1>8. ASSUME NEW i \in 1 .. n
      PROVE  DictOrder(S)[i] \in S /\ rank[DictOrder(S)[i]] = i - 1
  <2>1. i - 1 \in 0 .. n - 1
    BY <1>1
  <2>2. \E k \in S : rank[k] = i - 1
    <3>. HIDE DEF rank
    <3>. QED  BY <1>7, <2>1 DEF Surjection
  <2>3. \E k \in S : Cardinality(Earlier(S, k)) = i - 1
    BY <2>2
  <2>4. DictOrder(S)[i] = CHOOSE k \in S : Cardinality(Earlier(S, k)) = i - 1
    BY DEF DictOrder
  <2>5. DictOrder(S)[i] \in S /\ Cardinality(Earlier(S, DictOrder(S)[i])) = i - 1
    BY <2>3, <2>4
  <2>. QED  BY <2>5
<1>9. ASSUME NEW k \in S PROVE \E i \in 1 .. n : DictOrder(S)[i] = k
  <2>1. rank[k] \in 0 .. n - 1 /\ rank[k] + 1 \in 1 .. n /\ rank[k] + 1 - 1 = rank[k]
    <3>1. rank[k] \in 0 .. n - 1
      BY <1>5
    <3>. HIDE DEF rank
    <3>. QED  BY <1>1, <3>1
  <2>. DEFINE i == rank[k] + 1
  <2>2. DictOrder(S)[i] \in S /\ rank[DictOrder(S)[i]] = rank[k]
    <3>. HIDE DEF rank
    <3>. QED  BY <1>8, <2>1
  <2>3. DictOrder(S)[i] = k
    <3>. HIDE DEF rank
    <3>. QED  BY <1>6, <2>2 DEF Injection, IsInjective
  <2>. QED  BY <2>1, <2>3
<1>10. DictOrder(S) \in [1 .. n -> S]
  <2>1. DictOrder(S) = [i \in 1 .. n |-> DictOrder(S)[i]]
    BY DEF DictOrder
  <2>. QED  BY <1>8, <2>1
<1>11. ASSUME NEW i \in 1 .. n, NEW j \in 1 .. n, DictOrder(S)[i] = DictOrder(S)[j] PROVE i = j
  <2>1. i - 1 = j - 1
    BY <1>8, <1>11
  <2>. QED  BY <2>1
<1>. HIDE DEF n, rank
<1>12. DictOrder(S) \in Injection(1 .. n, S)
  BY <1>10, <1>11 DEF Injection, IsInjective
<1>13. DictOrder(S) \in Surjection(1 .. n, S)
  BY <1>9, <1>10 DEF Surjection
<1>. QED  BY <1>12, <1>13 DEF Bijection, n

LEMMA RawsOfType ==
    ASSUME DispatchTypeOK, NEW S \in SUBSET DOMAIN pending
    PROVE  RawsOf(DictOrder(S)) \in Seq(Nat)
<1>. DEFINE order == DictOrder(S)
<1>1. S \subseteq Dispatch
  BY DEF DispatchTypeOK
<1>2. Cardinality(S) \in Nat
  BY <1>1, DispatchFinite
<1>3. order \in [1 .. Cardinality(S) -> S]
  BY <1>1, DictOrderLists DEF Bijection, Injection
<1>. HIDE DEF order
<1>4. \A k \in S : pending[k].raw \in Nat
  BY DEF DispatchTypeOK, PendingMicrobatch
<1>5. RawsOf(order) \in [1 .. Cardinality(S) -> Nat]
  BY <1>3, <1>4 DEF RawsOf
<1>. QED  BY <1>2, <1>5 DEF order

LEMMA ItemType ==
    ASSUME DispatchTypeOK, NEW k \in DOMAIN inflight_tasks, NEW e \in BOOLEAN
    PROVE  Item(k, e) \in QueuedRolloutBatch
BY DEF DispatchTypeOK, Item, QueuedRolloutBatch, PendingMicrobatch, Task

\* Setting a field of a task keeps the table of tasks well typed.
LEMMA TaskUpdate ==
    ASSUME DispatchTypeOK, NEW k \in DOMAIN inflight_tasks, NEW t \in Task,
           inflight_tasks' = [inflight_tasks EXCEPT ![k] = t],
           UNCHANGED <<pending, attr_cache, next_fire_actor_idx>>
    PROVE  DispatchTypeOK'
BY DEF DispatchTypeOK

----------------------------------------------------------------------------
\* begin_step.

LEMMA BeginStepTypeInv == TypeInv /\ BeginStep => TypeInv'
<1>. SUFFICES ASSUME TypeInv, BeginStep PROVE TypeInv'
  OBVIOUS
<1>. USE TrainerWindowAssumption, TailBatchingAssumption DEF TrainerWindowAssumption, TailBatchingAssumption
<1>1. TrainerTypeOK' /\ StepsLeft'
  BY DEF TypeInv, TypeOK, TrainerTypeOK, StepsLeft, BeginStep, learnerVars, TrainerPcs
<1>2. DataSourceTypeOK'
  <2>. DEFINE raws == RawsOf(DictOrder(Discarded))
  <2>1. buffer' = IF Reuse THEN buffer \o raws ELSE buffer
    BY DEF BeginStep
  <2>2. raws \in Seq(Nat)
    BY RawsOfType DEF TypeInv, TypeOK, Discarded
  <2>3. buffer \in Seq(Nat) /\ total_dl_consumed \in Nat
    BY DEF TypeInv, TypeOK, DataSourceTypeOK
  <2>. HIDE DEF raws
  <2>4. buffer \o raws \in Seq(Nat)
    BY <2>2, <2>3
  <2>5. buffer' \in Seq(Nat)
    BY <2>1, <2>3, <2>4
  <2>6. UNCHANGED total_dl_consumed
    BY DEF BeginStep
  <2>. QED  BY <2>3, <2>5, <2>6 DEF DataSourceTypeOK
<1>3. DispatchTypeOK'
  BY DEF TypeInv, TypeOK, DispatchTypeOK, BeginStep, ReleaseDiscardedAttrs, EmptyDict, Task
<1>4. WindowTypeOK'
  <2>1. fire_target - fired_step \in Nat
    BY DEF TypeInv, TypeOK, TrainerTypeOK, StepsLeft, BeginStep
  <2>2. WindowTarget \in Nat
    BY <2>1 DEF WindowTarget
  <2>. QED  BY <2>2 DEF TypeInv, TypeOK, WindowTypeOK, BeginStep, ResetCollected
<1>5. QueueTypeOK' /\ DiskTypeOK'
  BY DEF TypeInv, TypeOK, QueueTypeOK, DiskTypeOK, BeginStep, diskVars, boundVars
<1>. QED  BY <1>1, <1>2, <1>3, <1>4, <1>5 DEF TypeInv, TypeOK
----------------------------------------------------------------------------
\* The arithmetic of one fire_generation_requests call.

LEMMA DivisionBounds ==
    ASSUME NEW a \in Nat, NEW b \in Nat \ {0}
    PROVE  /\ a \div b \in Nat
           /\ (a \div b) * b <= a
           /\ a < (a \div b + 1) * b
           /\ a % b \in 0 .. b - 1
OBVIOUS

LEMMA ProductMonotone ==
    ASSUME NEW a \in Nat, NEW b \in Nat, NEW n \in Nat, a <= b
    PROVE  a * n \in Nat /\ b * n \in Nat /\ a * n <= b * n
<1>1. PICK d \in Nat : b = a + d
  <2>1. b - a \in Nat /\ b = a + (b - a)
    OBVIOUS
  <2>. QED  BY <2>1
<1>2. b * n = a * n + d * n
  BY <1>1
<1>3. d * n \in Nat /\ a * n \in Nat
  OBVIOUS
<1>. QED  BY <1>2, <1>3

\* A call always advances, never past the target, and pops no more prompts
\* than the buffer holds.
LEMMA ChunkBounds ==
    ASSUME TypeInv, pc = "fire"
    PROVE  /\ ChunkEnd \in 0 .. fire_target /\ fired_step < ChunkEnd
           /\ BufferedSteps \in 0 .. ChunkEnd - fired_step
           /\ BufferedSteps * NumMb \in 0 .. Len(buffer)
           /\ FreshSteps \in Nat
<1>. USE TrainerWindowAssumption, TailBatchingAssumption DEF TrainerWindowAssumption, TailBatchingAssumption
<1>. DEFINE epochEnd == (fired_step \div StepsPerEpoch + 1) * StepsPerEpoch
            room == Len(buffer) \div NumMb
<1>1. /\ fired_step \in Nat /\ fire_target \in 0 .. TotalSteps /\ fired_step < fire_target
      /\ Len(buffer) \in Nat
  BY DEF TypeInv, TypeOK, TrainerTypeOK, DataSourceTypeOK, StepsLeft
<1>2. epochEnd \in Nat /\ fired_step < epochEnd
  BY <1>1, DivisionBounds
<1>3. ChunkEnd \in 0 .. fire_target /\ fired_step < ChunkEnd
  BY <1>1, <1>2 DEF ChunkEnd, Lesser
<1>4. room \in Nat /\ room * NumMb <= Len(buffer)
  BY <1>1, DivisionBounds
<1>5. ChunkEnd - fired_step \in Nat
  BY <1>1, <1>3
<1>6. BufferedSteps \in Nat /\ BufferedSteps <= ChunkEnd - fired_step /\ BufferedSteps <= room
  BY <1>4, <1>5 DEF BufferedSteps, Lesser
<1>7. BufferedSteps * NumMb \in Nat /\ BufferedSteps * NumMb <= Len(buffer)
  <2>. HIDE DEF room
  <2>1. /\ BufferedSteps * NumMb \in Nat /\ room * NumMb \in Nat
        /\ BufferedSteps * NumMb <= room * NumMb
    BY <1>4, <1>6, ProductMonotone
  <2>. QED  BY <2>1, <1>1, <1>4
<1>8. FreshSteps \in Nat
  BY <1>5, <1>6 DEF FreshSteps
<1>. QED  BY <1>1, <1>3, <1>5, <1>6, <1>7, <1>8

LEMMA PromptOfType ==
    ASSUME TypeInv, pc = "fire", NEW k \in Fired
    PROVE  DispatchedBefore(k) \in Nat /\ PromptOf(k) \in Nat
<1>. USE TrainerWindowAssumption, TailBatchingAssumption DEF TrainerWindowAssumption, TailBatchingAssumption
<1>. DEFINE j == k[1] - fired_step
<1>1. /\ ChunkEnd \in Nat /\ fired_step \in Nat /\ fired_step < ChunkEnd
      /\ BufferedSteps \in Nat /\ BufferedSteps * NumMb \in 0 .. Len(buffer)
      /\ buffer \in Seq(Nat) /\ total_dl_consumed \in Nat
  <2>1. buffer \in Seq(Nat) /\ total_dl_consumed \in Nat /\ fired_step \in Nat
    BY DEF TypeInv, TypeOK, TrainerTypeOK, DataSourceTypeOK
  <2>. QED  BY <2>1, ChunkBounds
<1>2. j \in Nat /\ k[2] \in Nat
  BY <1>1 DEF Fired, Dispatch
<1>3. CASE FromBuffer(k)
  <2>1. j + 1 \in Nat /\ j + 1 <= BufferedSteps /\ k[2] < NumMb
    BY SMTT(30), <1>1, <1>2, <1>3 DEF FromBuffer, Fired
  <2>2. (j + 1) * NumMb \in Nat /\ (j + 1) * NumMb <= BufferedSteps * NumMb
    BY <1>1, <2>1, ProductMonotone
  <2>3. (j + 1) * NumMb = j * NumMb + NumMb /\ j * NumMb \in Nat
    BY <1>2
  <2>4. DispatchedBefore(k) = j * NumMb + k[2]
    BY <1>3 DEF DispatchedBefore
  <2>5. DispatchedBefore(k) \in Nat /\ DispatchedBefore(k) < BufferedSteps * NumMb
    <3>1. j * NumMb + NumMb <= BufferedSteps * NumMb
      BY <2>2, <2>3
    <3>2. BufferedSteps * NumMb \in Nat
      BY <1>1
    <3>. DEFINE a == j * NumMb
    <3>3. a \in Nat /\ a + NumMb <= BufferedSteps * NumMb /\ DispatchedBefore(k) = a + k[2]
      BY <2>3, <2>4, <3>1
    <3>. HIDE DEF a
    <3>. QED  BY <1>2, <2>1, <3>2, <3>3
  <2>6. DispatchedBefore(k) + 1 \in 1 .. Len(buffer)
    <3>1. Len(buffer) \in Nat
      BY <1>1
    <3>2. BufferedSteps * NumMb \in Nat /\ BufferedSteps * NumMb <= Len(buffer)
      BY <1>1, <3>1
    <3>. QED  BY <2>5, <3>1, <3>2
  <2>7. buffer[DispatchedBefore(k) + 1] \in Nat
    BY <1>1, <2>6
  <2>. QED  BY <1>3, <2>5, <2>7 DEF PromptOf
<1>4. CASE ~ FromBuffer(k)
  <2>1. j - BufferedSteps \in Nat
    BY <1>1, <1>2, <1>4 DEF FromBuffer
  <2>2. (j - BufferedSteps) * OverFireMb \in Nat
    BY <2>1
  <2>3. DispatchedBefore(k)
          = BufferedSteps * NumMb + (j - BufferedSteps) * OverFireMb + k[2]
    BY <1>4 DEF DispatchedBefore
  <2>4. PromptOf(k) = total_dl_consumed + DispatchedBefore(k) - BufferedSteps * NumMb
    BY <1>4 DEF PromptOf
  <2>. DEFINE a == (j - BufferedSteps) * OverFireMb
             b == BufferedSteps * NumMb
  <2>5. a \in Nat /\ b \in Nat
    BY <1>1, <2>2
  <2>6. /\ DispatchedBefore(k) = b + a + k[2]
        /\ PromptOf(k) = total_dl_consumed + DispatchedBefore(k) - b
    BY <2>3, <2>4
  <2>. HIDE DEF a, b
  <2>7. k[2] \in Nat /\ total_dl_consumed \in Nat
    BY <1>1, <1>2
  <2>8. DispatchedBefore(k) \in Nat
    BY <2>5, <2>6, <2>7
  <2>9. PromptOf(k) = total_dl_consumed + a + k[2]
    BY <2>5, <2>6, <2>7
  <2>. QED  BY <2>5, <2>7, <2>8, <2>9
<1>. QED  BY <1>3, <1>4

LEMMA FireTypeInv == TypeInv /\ FireGenerationRequests => TypeInv'
<1>. SUFFICES ASSUME TypeInv, FireGenerationRequests PROVE TypeInv'
  OBVIOUS
<1>. USE TrainerWindowAssumption, TailBatchingAssumption DEF TrainerWindowAssumption, TailBatchingAssumption
<1>0. pc = "fire"
  BY DEF FireGenerationRequests
<1>1. /\ ChunkEnd \in 0 .. fire_target /\ fired_step < ChunkEnd
      /\ BufferedSteps \in Nat
      /\ BufferedSteps * NumMb \in 0 .. Len(buffer)
      /\ FreshSteps \in Nat
  BY <1>0, ChunkBounds DEF TypeInv, TypeOK, TrainerTypeOK
<1>2. TrainerTypeOK' /\ StepsLeft'
  BY <1>1 DEF TypeInv, TypeOK, TrainerTypeOK, StepsLeft, FireGenerationRequests,
              learnerVars, TrainerPcs
<1>3. DataSourceTypeOK'
  <2>1. buffer \in Seq(Nat) /\ total_dl_consumed \in Nat
    BY DEF TypeInv, TypeOK, DataSourceTypeOK
  <2>2. FreshSteps * OverFireMb \in Nat
    BY <1>1
  <2>3. SubSeq(buffer, BufferedSteps * NumMb + 1, Len(buffer)) \in Seq(Nat)
    BY <1>1, <2>1
  <2>. QED  BY <2>1, <2>2, <2>3 DEF DataSourceTypeOK, FireGenerationRequests
<1>4. DispatchTypeOK'
  <2>1. DispatchTypeOK
    BY DEF TypeInv, TypeOK
  <2>2. Fired \subseteq Dispatch
    BY DEF Fired
  <2>3. \A k \in Fired : [raw |-> PromptOf(k), rollout_consumed |-> FALSE,
                          train_consumed |-> FALSE] \in PendingMicrobatch
    BY <1>0, PromptOfType DEF PendingMicrobatch
  <2>4. \A k \in Fired : (next_fire_actor_idx + DispatchedBefore(k)) % NumAgents \in Agents
    <3>. SUFFICES ASSUME NEW k \in Fired
                  PROVE  (next_fire_actor_idx + DispatchedBefore(k)) % NumAgents \in Agents
      OBVIOUS
    <3>1. next_fire_actor_idx + DispatchedBefore(k) \in Nat
      BY <1>0, <2>1, PromptOfType DEF DispatchTypeOK, Agents
    <3>. QED  BY <3>1, DivisionBounds DEF Agents
  <2>5. \A k \in Fired :
           [phase |-> "created", turn |-> 1, weights |-> 0,
            agent |-> (next_fire_actor_idx + DispatchedBefore(k)) % NumAgents] \in Task
    BY <2>4 DEF Task
  <2>6. TotalFired \in Nat
    BY <1>1 DEF TotalFired
  <2>7. next_fire_actor_idx' \in Agents
    <3>1. next_fire_actor_idx + TotalFired \in Nat
      BY <2>1, <2>6 DEF DispatchTypeOK, Agents
    <3>2. next_fire_actor_idx' = (next_fire_actor_idx + TotalFired) % NumAgents
      BY DEF FireGenerationRequests
    <3>. QED  BY <3>1, <3>2, DivisionBounds DEF Agents
  <2>8. /\ DOMAIN pending' = DOMAIN pending \cup Fired
        /\ pending' \in [DOMAIN pending' -> PendingMicrobatch]
    BY <2>1, <2>3 DEF FireGenerationRequests, DispatchTypeOK
  <2>9. /\ DOMAIN inflight_tasks' = DOMAIN inflight_tasks \cup Fired
        /\ inflight_tasks' \in [DOMAIN inflight_tasks' -> Task]
    BY <2>1, <2>5 DEF FireGenerationRequests, DispatchTypeOK
  <2>10. attr_cache' = attr_cache \cup Fired
    BY DEF FireGenerationRequests
  <2>. QED  BY <2>1, <2>2, <2>7, <2>8, <2>9, <2>10 DEF DispatchTypeOK
<1>5. QueueTypeOK' /\ WindowTypeOK' /\ DiskTypeOK'
  BY DEF TypeInv, TypeOK, QueueTypeOK, WindowTypeOK, DiskTypeOK, FireGenerationRequests,
         windowVars, pauseVars, diskVars, boundVars
<1>. QED  BY <1>2, <1>3, <1>4, <1>5 DEF TypeInv, TypeOK
----------------------------------------------------------------------------
\* The tasks and the pause.

LEMMA TaskSubmitted ==
    ASSUME NEW t \in Task, NEW w \in Nat
    PROVE  [t EXCEPT !.phase = "engine", !.weights = w] \in Task
BY DEF Task

LEMMA TaskNextTurn ==
    ASSUME NEW t \in Task, t.turn < Turns
    PROVE  [t EXCEPT !.phase = "sent", !.turn = t.turn + 1] \in Task
<1>. DEFINE next == t.turn + 1
<1>1. next \in 1 .. Turns
  BY TailBatchingAssumption DEF Task, TailBatchingAssumption
<1>. HIDE DEF next
<1>2. [t EXCEPT !.phase = "sent", !.turn = next] \in Task
  BY <1>1 DEF Task
<1>. QED  BY <1>2 DEF next

LEMMA PendingRolledOut ==
    ASSUME NEW p \in PendingMicrobatch
    PROVE  /\ [p EXCEPT !.rollout_consumed = TRUE] \in PendingMicrobatch
           /\ [p EXCEPT !.train_consumed = TRUE] \in PendingMicrobatch
BY DEF PendingMicrobatch

LEMMA TaskTypeInv ==
    ASSUME TypeInv, NEW k \in DOMAIN inflight_tasks,
           StartTask(k) \/ EngineSubmit(k) \/ NextTurn(k) \/ Complete(k)
              \/ HandleAbort(k) \/ Fail(k)
    PROVE  TypeInv'
<1>. USE TrainerWindowAssumption, TailBatchingAssumption DEF TrainerWindowAssumption, TailBatchingAssumption
<1>. DEFINE t == inflight_tasks[k]
<1>1. /\ DispatchTypeOK /\ QueueTypeOK /\ WindowTypeOK /\ DiskTypeOK
      /\ TrainerTypeOK /\ DataSourceTypeOK /\ StepsLeft
  BY DEF TypeInv, TypeOK
<1>2. t \in Task
  BY <1>1 DEF DispatchTypeOK
<1>3. UNCHANGED taskFrame
  BY DEF StartTask, EngineSubmit, NextTurn, Complete, HandleAbort, Fail
<1>4. TrainerTypeOK' /\ DataSourceTypeOK' /\ StepsLeft'
  BY <1>1, <1>3 DEF TrainerTypeOK, DataSourceTypeOK, StepsLeft, taskFrame, trainerVars,
                    learnerVars, dataSourceVars
<1>5. CASE StartTask(k)
  <2>1. DispatchTypeOK'
    <3>1. PICK p \in {"done", "sent"} : inflight_tasks' = [inflight_tasks EXCEPT ![k].phase = p]
      BY <1>5 DEF StartTask, SetPhase
    <3>2. [t EXCEPT !.phase = p] \in Task
      BY <1>2, <3>1 DEF Task
    <3>. QED  BY <1>1, <1>3, <1>5, <3>1, <3>2 DEF DispatchTypeOK, StartTask, taskFrame
  <2>2. QueueTypeOK' /\ WindowTypeOK' /\ DiskTypeOK'
    BY <1>1, <1>3, <1>5 DEF QueueTypeOK, WindowTypeOK, DiskTypeOK, StartTask, taskFrame,
                            windowVars, pauseVars, diskVars
  <2>. QED  BY <1>4, <2>1, <2>2 DEF TypeInv, TypeOK
<1>6. CASE EngineSubmit(k)
  <2>1. DispatchTypeOK'
    <3>1. [t EXCEPT !.phase = "engine", !.weights = sampler_weights] \in Task
      <4>1. sampler_weights \in Nat
        BY <1>1 DEF TrainerTypeOK
      <4>. QED  BY <1>2, <4>1, TaskSubmitted
    <3>. QED  BY <1>1, <1>3, <1>6, <3>1 DEF DispatchTypeOK, EngineSubmit, taskFrame
  <2>2. QueueTypeOK' /\ WindowTypeOK' /\ DiskTypeOK'
    BY <1>1, <1>3, <1>6 DEF QueueTypeOK, WindowTypeOK, DiskTypeOK, EngineSubmit, taskFrame,
                            windowVars, pauseVars, diskVars
  <2>. QED  BY <1>4, <2>1, <2>2 DEF TypeInv, TypeOK
<1>7. CASE NextTurn(k)
  <2>1. DispatchTypeOK'
    <3>1. [t EXCEPT !.phase = "aborted"] \in Task
      BY <1>2 DEF Task
    <3>2. [t EXCEPT !.phase = "sent", !.turn = t.turn + 1] \in Task
      BY <1>2, <1>7, TaskNextTurn DEF NextTurn
    <3>3. PICK u \in Task : inflight_tasks' = [inflight_tasks EXCEPT ![k] = u]
      BY <1>7, <3>1, <3>2 DEF NextTurn
    <3>. QED  BY <1>1, <1>3, <1>7, <3>3, TaskUpdate DEF NextTurn, taskFrame
  <2>2. QueueTypeOK' /\ WindowTypeOK' /\ DiskTypeOK'
    BY <1>1, <1>3, <1>7 DEF QueueTypeOK, WindowTypeOK, DiskTypeOK, NextTurn, taskFrame,
                            windowVars, pauseVars, diskVars
  <2>. QED  BY <1>4, <2>1, <2>2 DEF TypeInv, TypeOK
<1>8. CASE Complete(k)
  <2>1. DispatchTypeOK'
    <3>1. [t EXCEPT !.phase = "done"] \in Task
      BY <1>2 DEF Task
    <3>2. inflight_tasks' = [inflight_tasks EXCEPT ![k] = [t EXCEPT !.phase = "done"]]
      BY <1>8 DEF Complete, SetPhase
    <3>3. /\ DOMAIN pending' = DOMAIN pending
          /\ pending' \in [DOMAIN pending -> PendingMicrobatch]
      <4>1. k \in DOMAIN pending /\ pending[k] \in PendingMicrobatch
        BY <1>1 DEF DispatchTypeOK
      <4>2. [pending[k] EXCEPT !.rollout_consumed = TRUE] \in PendingMicrobatch
        BY <4>1, PendingRolledOut
      <4>3. CASE TargetMet
        BY <1>1, <1>8, <4>3 DEF Complete, DispatchTypeOK
      <4>4. CASE ~ TargetMet
        <5>1. pending' = [pending EXCEPT ![k] = [pending[k] EXCEPT !.rollout_consumed = TRUE]]
          BY <1>8, <4>4 DEF Complete
        <5>. QED  BY <1>1, <4>2, <5>1 DEF DispatchTypeOK
      <4>. QED  BY <4>3, <4>4
    <3>. QED  BY <1>1, <1>3, <3>1, <3>2, <3>3 DEF DispatchTypeOK, taskFrame
  <2>2. QueueTypeOK'
    <3>1. Item(k, FALSE) \in QueuedRolloutBatch
      BY <1>1, ItemType
    <3>2. Enqueued(k) \in Seq(QueuedRolloutBatch)
      <4>. DEFINE item == Item(k, FALSE)
      <4>1. RbMultiplier \in Nat /\ Enqueued(k) = [i \in 1 .. RbMultiplier |-> item]
        BY DEF Enqueued
      <4>2. item \in QueuedRolloutBatch
        BY <3>1
      <4>. HIDE DEF item
      <4>. QED  BY <4>1, <4>2
    <3>3. ready_queue \in Seq(QueuedRolloutBatch) /\ batch \in Seq(QueuedRolloutBatch)
      BY <1>1 DEF QueueTypeOK
    <3>4. ready_queue \o Enqueued(k) \in Seq(QueuedRolloutBatch)
      BY <3>2, <3>3
    <3>5. ready_queue' = ready_queue \/ ready_queue' = ready_queue \o Enqueued(k)
      BY <1>8 DEF Complete
    <3>6. batch' = batch
      BY <1>3 DEF taskFrame
    <3>. QED  BY <3>3, <3>4, <3>5, <3>6 DEF QueueTypeOK
  <2>3. WindowTypeOK'
    <3>1. step_collected_rb' \in {step_collected_rb, step_collected_rb + RbMultiplier}
      BY <1>8 DEF Complete
    <3>2. step_collected_rb' \in Nat
      BY <1>1, <3>1 DEF WindowTypeOK
    <3>3. pause_task' \in BOOLEAN
      BY <1>1, <1>8 DEF WindowTypeOK, Complete
    <3>4. broadcast' \in {"idle", "agents"}
      BY <1>1, <1>8 DEF WindowTypeOK, Complete
    <3>5. UNCHANGED <<step_target_rb, paused_agents>>
      BY <1>8 DEF Complete
    <3>. QED  BY <1>1, <3>2, <3>3, <3>4, <3>5 DEF WindowTypeOK
  <2>4. DiskTypeOK'
    BY <1>1, <1>3, <1>8 DEF DiskTypeOK, Complete, taskFrame, diskVars
  <2>. QED  BY <1>4, <2>1, <2>2, <2>3, <2>4 DEF TypeInv, TypeOK
<1>9. CASE HandleAbort(k) \/ Fail(k)
  <2>1. DispatchTypeOK'
    <3>1. PICK p \in {"done", "failed"} : inflight_tasks' = [inflight_tasks EXCEPT ![k].phase = p]
      BY <1>9 DEF HandleAbort, Fail, SetPhase
    <3>2. [t EXCEPT !.phase = p] \in Task
      BY <1>2, <3>1 DEF Task
    <3>. QED  BY <1>1, <1>3, <1>9, <3>1, <3>2 DEF DispatchTypeOK, HandleAbort, Fail, taskFrame
  <2>2. QueueTypeOK'
    <3>1. Item(k, TRUE) \in QueuedRolloutBatch
      BY <1>1, ItemType
    <3>2. ready_queue \in Seq(QueuedRolloutBatch) /\ batch \in Seq(QueuedRolloutBatch)
      BY <1>1 DEF QueueTypeOK
    <3>3. Append(ready_queue, Item(k, TRUE)) \in Seq(QueuedRolloutBatch)
      <4>. DEFINE item == Item(k, TRUE)
      <4>1. item \in QueuedRolloutBatch
        BY <3>1
      <4>. HIDE DEF item
      <4>2. Append(ready_queue, item) \in Seq(QueuedRolloutBatch)
        BY <3>2, <4>1
      <4>. QED  BY <4>2 DEF item
    <3>4. ready_queue' = ready_queue \/ ready_queue' = Append(ready_queue, Item(k, TRUE))
      BY <1>9 DEF HandleAbort, Fail
    <3>5. batch' = batch
      BY <1>3 DEF taskFrame
    <3>. QED  BY <3>2, <3>3, <3>4, <3>5 DEF QueueTypeOK
  <2>3. WindowTypeOK'
    BY <1>1, <1>9 DEF WindowTypeOK, HandleAbort, Fail, windowVars, pauseVars
  <2>4. DiskTypeOK'
    <3>1. failures' \in 0 .. MaxFailures
      <4>1. failures \in 0 .. MaxFailures
        BY <1>1 DEF DiskTypeOK
      <4>2. failures' = failures \/ (failures < MaxFailures /\ failures' = failures + 1)
        BY <1>9 DEF HandleAbort, Fail
      <4>. QED  BY <4>1, <4>2
    <3>2. UNCHANGED <<diskVars, restarts>>
      BY <1>3 DEF taskFrame
    <3>. QED  BY <1>1, <3>1, <3>2 DEF DiskTypeOK, diskVars
  <2>. QED  BY <1>4, <2>1, <2>2, <2>3, <2>4 DEF TypeInv, TypeOK
<1>. QED  BY <1>5, <1>6, <1>7, <1>8, <1>9

LEMMA PauseTypeInv == TypeInv /\ PauseStep => TypeInv'
<1>. SUFFICES ASSUME TypeInv, PauseStep PROVE TypeInv'
  OBVIOUS
<1>1. /\ DispatchTypeOK /\ QueueTypeOK /\ WindowTypeOK /\ DiskTypeOK
      /\ TrainerTypeOK /\ DataSourceTypeOK /\ StepsLeft
  BY DEF TypeInv, TypeOK
<1>2. UNCHANGED pauseFrame
  BY DEF PauseStep, PauseGeneration, AbortAll
<1>3. /\ TrainerTypeOK' /\ DataSourceTypeOK' /\ StepsLeft'
      /\ QueueTypeOK' /\ DiskTypeOK'
  BY <1>1, <1>2 DEF TrainerTypeOK, DataSourceTypeOK, StepsLeft, QueueTypeOK, DiskTypeOK,
        pauseFrame, trainerVars, learnerVars, dataSourceVars, diskVars, boundVars
<1>4. WindowTypeOK'
  BY <1>1, <1>2 DEF WindowTypeOK, PauseStep, PauseGeneration, AbortAll, pauseFrame
<1>5. DispatchTypeOK'
  <2>1. CASE UNCHANGED inflight_tasks
    BY <1>1, <1>2, <2>1 DEF DispatchTypeOK, pauseFrame
  <2>2. CASE AbortAll
    <3>1. \A k \in DOMAIN inflight_tasks : [inflight_tasks[k] EXCEPT !.phase = "aborted"] \in Task
      BY <1>1 DEF DispatchTypeOK, Task
    <3>2. /\ DOMAIN inflight_tasks' = DOMAIN inflight_tasks
          /\ inflight_tasks' \in [DOMAIN inflight_tasks -> Task]
      BY <1>1, <2>2, <3>1 DEF AbortAll, DispatchTypeOK
    <3>. QED  BY <1>1, <1>2, <3>2 DEF DispatchTypeOK, pauseFrame
  <2>. QED  BY <2>1, <2>2 DEF PauseStep, PauseGeneration
<1>. QED  BY <1>3, <1>4, <1>5 DEF TypeInv, TypeOK
----------------------------------------------------------------------------
\* Collecting and training.

LEMMA CollectItemTypeInv == TypeInv /\ CollectItem => TypeInv'
<1>. SUFFICES ASSUME TypeInv, CollectItem PROVE TypeInv'
  OBVIOUS
<1>. DEFINE item == Head(ready_queue)
<1>1. /\ DispatchTypeOK /\ QueueTypeOK /\ WindowTypeOK /\ DiskTypeOK
      /\ TrainerTypeOK /\ DataSourceTypeOK /\ StepsLeft
  BY DEF TypeInv, TypeOK
<1>2. /\ pc = "collect" /\ pc' \in {"collect", "failed"}
      /\ UNCHANGED <<train_step, fired_step, fire_target, steps_since_update, learnerVars>>
  BY DEF CollectItem
<1>3. TrainerTypeOK' /\ StepsLeft'
  BY <1>1, <1>2 DEF TrainerTypeOK, StepsLeft, learnerVars, TrainerPcs
<1>4. DataSourceTypeOK' /\ WindowTypeOK' /\ DiskTypeOK'
  BY <1>1 DEF CollectItem, DataSourceTypeOK, WindowTypeOK, DiskTypeOK, dataSourceVars,
              windowVars, pauseVars, diskVars, boundVars
<1>5. QueueTypeOK'
  <2>1. /\ ready_queue \in Seq(QueuedRolloutBatch) /\ ready_queue # <<>>
        /\ batch \in Seq(QueuedRolloutBatch)
    BY <1>1 DEF QueueTypeOK, CollectItem
  <2>2. item \in QueuedRolloutBatch /\ Tail(ready_queue) \in Seq(QueuedRolloutBatch)
    BY <2>1
  <2>3. ready_queue' = Tail(ready_queue) /\ batch' \in {batch, Append(batch, item)}
    BY DEF CollectItem
  <2>. HIDE DEF item
  <2>4. Append(batch, item) \in Seq(QueuedRolloutBatch)
    BY <2>1, <2>2
  <2>. QED  BY <2>1, <2>2, <2>3, <2>4 DEF QueueTypeOK
<1>6. DispatchTypeOK'
  <2>1. \A k \in DOMAIN pending :
           [pending[k] EXCEPT !.train_consumed = TRUE] \in PendingMicrobatch
    BY <1>1, PendingRolledOut DEF DispatchTypeOK
  <2>2. \/ pending' = pending
        \/ pending' = [k \in DOMAIN pending |->
                         IF k = item.key
                         THEN [pending[k] EXCEPT !.train_consumed = TRUE]
                         ELSE pending[k]]
    BY DEF CollectItem
  <2>3. /\ DOMAIN pending' = DOMAIN pending
        /\ pending' \in [DOMAIN pending -> PendingMicrobatch]
    BY <1>1, <2>1, <2>2 DEF DispatchTypeOK
  <2>4. UNCHANGED <<inflight_tasks, attr_cache, next_fire_actor_idx>>
    BY DEF CollectItem
  <2>. QED  BY <1>1, <2>3, <2>4 DEF DispatchTypeOK
<1>. QED  BY <1>3, <1>4, <1>5, <1>6 DEF TypeInv, TypeOK

LEMMA FinishCollectTypeInv == TypeInv /\ FinishCollect => TypeInv'
<1>. SUFFICES ASSUME TypeInv, FinishCollect PROVE TypeInv'
  OBVIOUS
<1>1. TrainerTypeOK' /\ StepsLeft'
  BY DEF TypeInv, TypeOK, TrainerTypeOK, StepsLeft, FinishCollect, learnerVars, TrainerPcs
<1>2. DispatchTypeOK' /\ QueueTypeOK'
  BY DEF TypeInv, TypeOK, DispatchTypeOK, QueueTypeOK, FinishCollect
<1>3. DataSourceTypeOK' /\ WindowTypeOK' /\ DiskTypeOK'
  BY DEF TypeInv, TypeOK, FinishCollect, DataSourceTypeOK, WindowTypeOK, DiskTypeOK,
         dataSourceVars, windowVars, pauseVars, diskVars, boundVars
<1>. QED  BY <1>1, <1>2, <1>3 DEF TypeInv, TypeOK

LEMMA TrainTypeInv == TypeInv /\ Train => TypeInv'
<1>. SUFFICES ASSUME TypeInv, Train PROVE TypeInv'
  OBVIOUS
<1>. USE TrainerWindowAssumption, TailBatchingAssumption DEF TrainerWindowAssumption, TailBatchingAssumption
<1>1. /\ TrainerTypeOK /\ QueueTypeOK /\ StepsLeft
      /\ pc = "train" /\ train_step \in 0 .. TotalSteps - 1
  BY DEF TypeInv, TypeOK, TrainerTypeOK, StepsLeft, Train
<1>2. train_step' \in 0 .. TotalSteps /\ steps_since_update' \in Nat
  BY <1>1 DEF Train, TrainerTypeOK
<1>3. /\ pc' \in {"collect", "save_model", "drain"}
      /\ pc' = "collect" => train_step' < TotalSteps
  <2>1. train_step' = train_step + 1 /\ pc' = AfterTrain(train_step + 1, steps_since_update + 1)
    BY DEF Train
  <2>2. pc' \in {"collect", "save_model", "drain"}
    BY <2>1 DEF AfterTrain
  <2>3. pc' = "collect" => train_step + 1 # TotalSteps
    BY <2>1 DEF AfterTrain, AtBoundary
  <2>4. train_step + 1 \in 0 .. TotalSteps
    BY <1>2, <2>1
  <2>5. train_step + 1 # TotalSteps => train_step + 1 < TotalSteps
    BY <2>4
  <2>. QED  BY <2>1, <2>2, <2>3, <2>5
<1>4. trained_in' \in [0 .. TotalSteps - 1 -> SUBSET Nat]
  <2>1. \A i \in DOMAIN batch : batch[i].raw \in Nat
    <3>1. batch \in Seq(QueuedRolloutBatch)
      BY <1>1 DEF QueueTypeOK
    <3>2. \A i \in DOMAIN batch : batch[i] \in QueuedRolloutBatch
      BY <3>1
    <3>. QED  BY <3>2 DEF QueuedRolloutBatch
  <2>2. {batch[i].raw : i \in DOMAIN batch} \in SUBSET Nat
    BY <2>1
  <2>. QED  BY <1>1, <2>2 DEF Train, TrainerTypeOK
<1>5. UNCHANGED <<fired_step, fire_target, sampler_weights>>
  BY DEF Train
<1>6. TrainerTypeOK'
  BY <1>1, <1>2, <1>3, <1>4, <1>5 DEF TrainerTypeOK, TrainerPcs
<1>7. StepsLeft'
  BY <1>3 DEF StepsLeft
<1>8. DispatchTypeOK' /\ QueueTypeOK'
  BY DEF TypeInv, TypeOK, DispatchTypeOK, QueueTypeOK, Train
<1>9. DataSourceTypeOK' /\ WindowTypeOK' /\ DiskTypeOK'
  BY DEF TypeInv, TypeOK, Train, DataSourceTypeOK, WindowTypeOK, DiskTypeOK,
         dataSourceVars, windowVars, pauseVars, diskVars, boundVars
<1>. QED  BY <1>6, <1>7, <1>8, <1>9 DEF TypeInv, TypeOK
----------------------------------------------------------------------------
\* Saving, draining, updating, restarting.

LEMMA SaveModelTypeInv == TypeInv /\ SaveModel => TypeInv'
<1>. SUFFICES ASSUME TypeInv, SaveModel PROVE TypeInv'
  OBVIOUS
<1>1. TrainerTypeOK' /\ StepsLeft'
  BY DEF TypeInv, TypeOK, TrainerTypeOK, StepsLeft, SaveModel, learnerVars, TrainerPcs
<1>2. DispatchTypeOK' /\ QueueTypeOK' /\ DataSourceTypeOK' /\ WindowTypeOK'
  BY DEF TypeInv, TypeOK, DispatchTypeOK, QueueTypeOK, DataSourceTypeOK, WindowTypeOK,
         SaveModel, dataSourceVars, windowVars, pauseVars
<1>3. DiskTypeOK'
  BY DEF TypeInv, TypeOK, TrainerTypeOK, DiskTypeOK, SaveModel, boundVars
<1>. QED  BY <1>1, <1>2, <1>3 DEF TypeInv, TypeOK

LEMMA SaveDataTypeInv == TypeInv /\ SaveData => TypeInv'
<1>. SUFFICES ASSUME TypeInv, SaveData PROVE TypeInv'
  OBVIOUS
<1>1. TrainerTypeOK' /\ StepsLeft'
  BY DEF TypeInv, TypeOK, TrainerTypeOK, StepsLeft, SaveData, AfterSave, learnerVars,
         TrainerPcs
<1>2. DispatchTypeOK' /\ QueueTypeOK' /\ DataSourceTypeOK' /\ WindowTypeOK'
  BY DEF TypeInv, TypeOK, DispatchTypeOK, QueueTypeOK, DataSourceTypeOK, WindowTypeOK,
         SaveData, dataSourceVars, windowVars, pauseVars
<1>3. DiskTypeOK'
  <2>. DEFINE raws == RawsOf(DictOrder(Unconsumed))
              owed == IF Reuse THEN buffer \o raws ELSE <<>>
              entry == [total_dl_consumed |-> total_dl_consumed, buffer |-> owed]
  <2>1. ds_ckpt' = [s \in DOMAIN ds_ckpt \cup {train_step} |->
                      IF s = train_step THEN entry ELSE ds_ckpt[s]]
    BY DEF SaveData
  <2>2. raws \in Seq(Nat)
    BY RawsOfType DEF TypeInv, TypeOK, Unconsumed
  <2>3. buffer \in Seq(Nat) /\ total_dl_consumed \in Nat
    BY DEF TypeInv, TypeOK, DataSourceTypeOK
  <2>. HIDE DEF raws
  <2>4. owed \in Seq(Nat)
    BY <2>2, <2>3
  <2>. HIDE DEF owed
  <2>5. entry \in Snapshot
    BY <2>3, <2>4 DEF Snapshot
  <2>6. DiskTypeOK /\ train_step \in 0 .. TotalSteps
    BY DEF TypeInv, TypeOK, TrainerTypeOK
  <2>. HIDE DEF entry
  <2>7. /\ DOMAIN ds_ckpt' = DOMAIN ds_ckpt \cup {train_step}
        /\ ds_ckpt' \in [DOMAIN ds_ckpt \cup {train_step} -> Snapshot]
    BY <2>1, <2>5, <2>6 DEF DiskTypeOK
  <2>8. UNCHANGED <<model_ckpt, boundVars>>
    BY DEF SaveData
  <2>. QED  BY <2>6, <2>7, <2>8 DEF DiskTypeOK, boundVars
<1>. QED  BY <1>1, <1>2, <1>3 DEF TypeInv, TypeOK

LEMMA WaitAllInflightTypeInv == TypeInv /\ WaitAllInflight => TypeInv'
<1>. SUFFICES ASSUME TypeInv, WaitAllInflight PROVE TypeInv'
  OBVIOUS
<1>1. TrainerTypeOK' /\ StepsLeft'
  BY DEF TypeInv, TypeOK, TrainerTypeOK, StepsLeft, WaitAllInflight, learnerVars, TrainerPcs
<1>2. DispatchTypeOK'
  BY DEF TypeInv, TypeOK, DispatchTypeOK, WaitAllInflight, EmptyDict
<1>3. QueueTypeOK' /\ DataSourceTypeOK' /\ WindowTypeOK' /\ DiskTypeOK'
  BY DEF TypeInv, TypeOK, QueueTypeOK, DataSourceTypeOK, WindowTypeOK, DiskTypeOK,
         WaitAllInflight, dataSourceVars, windowVars, pauseVars, diskVars, boundVars
<1>. QED  BY <1>1, <1>2, <1>3 DEF TypeInv, TypeOK

LEMMA UpdateWeightsTypeInv == TypeInv /\ UpdateWeights => TypeInv'
<1>. SUFFICES ASSUME TypeInv, UpdateWeights PROVE TypeInv'
  OBVIOUS
<1>1. TrainerTypeOK /\ StepsLeft
  BY DEF TypeInv, TypeOK
<1>2. FireTarget(train_step) \in 0 .. TotalSteps
  BY <1>1, FireTargetRange DEF TrainerTypeOK
<1>3. fire_target' \in 0 .. TotalSteps
  BY <1>1, <1>2 DEF TrainerTypeOK, UpdateWeights
<1>4. /\ pc' \in TrainerPcs
      /\ pc' \in {"begin_step", "collect"} => train_step < TotalSteps
      /\ pc' = "begin_step" => fired_step < fire_target'
      /\ pc' \notin {"fire", "train"}
  BY DEF UpdateWeights, LoopTop, AfterLoop, TrainerPcs
<1>5. TrainerTypeOK'
  BY <1>1, <1>3, <1>4 DEF TrainerTypeOK, UpdateWeights, Pushed
<1>6. StepsLeft'
  BY <1>4 DEF StepsLeft, UpdateWeights
<1>7. DispatchTypeOK' /\ QueueTypeOK'
  BY DEF TypeInv, TypeOK, DispatchTypeOK, QueueTypeOK, UpdateWeights
<1>8. DataSourceTypeOK' /\ WindowTypeOK' /\ DiskTypeOK'
  BY DEF TypeInv, TypeOK, DataSourceTypeOK, WindowTypeOK, DiskTypeOK,
         UpdateWeights, dataSourceVars, windowVars, pauseVars, diskVars, boundVars
<1>. QED  BY <1>5, <1>6, <1>7, <1>8 DEF TypeInv, TypeOK

LEMMA RestartTypeInv == TypeInv /\ Restart => TypeInv'
<1>. SUFFICES ASSUME TypeInv, Restart PROVE TypeInv'
  OBVIOUS
<1>. USE TrainerWindowAssumption, TailBatchingAssumption DEF TrainerWindowAssumption, TailBatchingAssumption
<1>1. /\ TrainerTypeOK /\ StepsLeft /\ DiskTypeOK /\ DataSourceTypeOK
      /\ model_ckpt \in 0 .. TotalSteps
  BY DEF TypeInv, TypeOK, DiskTypeOK
<1>2. DispatchTypeOK' /\ QueueTypeOK' /\ WindowTypeOK'
  <2>1. DispatchTypeOK'
    BY DEF Restart, DispatchTypeOK, EmptyDict, Agents
  <2>2. QueueTypeOK'
    BY DEF Restart, QueueTypeOK
  <2>3. WindowTypeOK'
    BY DEF Restart, WindowTypeOK
  <2>. QED  BY <2>1, <2>2, <2>3
<1>3. DiskTypeOK'
  <2>1. restarts' \in 0 .. MaxRestarts
    <3>1. restarts \in 0 .. MaxRestarts /\ restarts < MaxRestarts /\ restarts' = restarts + 1
      BY <1>1 DEF DiskTypeOK, Restart
    <3>2. restarts \in Nat /\ MaxRestarts \in Nat
      BY <3>1
    <3>. QED  BY <3>1, <3>2
  <2>. QED  BY <1>1, <2>1 DEF DiskTypeOK, Restart, diskVars
<1>4. CASE Missing(model_ckpt)
  <2>1. TrainerTypeOK' /\ StepsLeft' /\ DataSourceTypeOK'
    BY <1>1, <1>4 DEF Restart, TrainerTypeOK, StepsLeft, DataSourceTypeOK, learnerVars,
                      dataSourceVars, TrainerPcs
  <2>. QED  BY <1>2, <1>3, <2>1 DEF TypeInv, TypeOK
<1>5. CASE ~ Missing(model_ckpt)
  <2>1. Loaded(model_ckpt).total_dl_consumed \in Nat /\ Loaded(model_ckpt).buffer \in Seq(Nat)
    <3>1. CASE model_ckpt = 0
      BY <3>1 DEF Loaded
    <3>2. CASE model_ckpt # 0
      <4>1. model_ckpt \in DOMAIN ds_ckpt
        BY <1>1, <1>5, <3>2 DEF Missing
      <4>2. ds_ckpt[model_ckpt] \in Snapshot
        BY <1>1, <4>1 DEF DiskTypeOK
      <4>. QED  BY <3>2, <4>2 DEF Loaded, Snapshot
    <3>. QED  BY <3>1, <3>2
  <2>2. DataSourceTypeOK'
    BY <1>5, <2>1 DEF Restart, DataSourceTypeOK
  <2>3. FireTarget(model_ckpt) \in 0 .. TotalSteps
    BY <1>1, FireTargetRange
  <2>4. trained_in' \in [0 .. TotalSteps - 1 -> SUBSET Nat]
    BY <1>1, <1>5 DEF Restart, TrainerTypeOK
  <2>5. /\ pc' = AfterBoot(model_ckpt) /\ train_step' = model_ckpt
        /\ fired_step' = model_ckpt /\ fire_target' = FireTarget(model_ckpt)
        /\ steps_since_update' = 0 /\ sampler_weights' = model_ckpt
    BY <1>5 DEF Restart
  <2>6. /\ pc' \in TrainerPcs
        /\ pc' \in {"begin_step", "collect"} => model_ckpt < TotalSteps
        /\ pc' = "begin_step" => model_ckpt < FireTarget(model_ckpt)
        /\ pc' \notin {"fire", "train"}
    <3>1. CASE model_ckpt < FireTarget(model_ckpt)
      BY <1>1, <2>3, <2>5, <3>1 DEF AfterBoot, TrainerPcs
    <3>2. CASE ~ (model_ckpt < FireTarget(model_ckpt))
      BY <2>5, <3>2 DEF AfterBoot, LoopTop, AfterLoop, TrainerPcs
    <3>. QED  BY <3>1, <3>2
  <2>7. TrainerTypeOK'
    BY <1>1, <2>3, <2>4, <2>5, <2>6 DEF TrainerTypeOK
  <2>8. StepsLeft'
    BY <2>5, <2>6 DEF StepsLeft
  <2>. QED  BY <1>2, <1>3, <2>2, <2>7, <2>8 DEF TypeInv, TypeOK
<1>. QED  BY <1>4, <1>5

----------------------------------------------------------------------------
\* The inductive invariant, and what it gives.

LEMMA StepTypeInv == TypeInv /\ [Next]_vars => TypeInv'
<1>. SUFFICES ASSUME TypeInv, [Next]_vars PROVE TypeInv'
  OBVIOUS
<1>1. CASE TrainerStep
  BY <1>1, BeginStepTypeInv, FireTypeInv, CollectItemTypeInv, FinishCollectTypeInv,
     TrainTypeInv, SaveModelTypeInv, SaveDataTypeInv, WaitAllInflightTypeInv,
     UpdateWeightsTypeInv DEF TrainerStep
<1>2. CASE TaskStep \/ AgentFailure
  BY <1>2, TaskTypeInv DEF TaskStep, AgentFailure
<1>3. CASE PauseStep
  BY <1>3, PauseTypeInv
<1>4. CASE Restart
  BY <1>4, RestartTypeInv
<1>5. CASE UNCHANGED vars
  BY <1>5 DEF TypeInv, TypeOK, TrainerTypeOK, DataSourceTypeOK, DispatchTypeOK, QueueTypeOK,
     WindowTypeOK, DiskTypeOK, StepsLeft, vars, trainerVars, learnerVars, dataSourceVars,
     windowVars, pauseVars, diskVars, boundVars
<1>. QED  BY <1>1, <1>2, <1>3, <1>4, <1>5 DEF Next, Terminated

\* Whatever the sizes, staleness, pool and number of crashes, every attribute
\* of the trainer, controller, agents and data source keeps its type: prompts
\* popped from the buffer exist (get_batch), agents are picked inside the pool
\* and no call fires past total_ppo_step.
THEOREM TypeCorrect == Spec => []TypeOK
<1>1. Init => TypeInv
  BY InitTypeInv
<1>2. TypeInv /\ [Next]_vars => TypeInv'
  BY StepTypeInv
<1>3. TypeInv => TypeOK
  BY DEF TypeInv
<1>. QED  BY <1>1, <1>2, <1>3, PTL DEF Spec

----------------------------------------------------------------------------
\* The pause protocol.  Its invariants are inductive relative to TypeInv.

Phase(k) == inflight_tasks[k].phase

\* A pause is under way only once the target of its window is met, and only a
\* pause sets the agents' flags or aborts a request.
PauseInv ==
    /\ pause_task => TargetMet
    /\ broadcast = "agents" => pause_task
    /\ paused_agents # {} => pause_task
    /\ \A k \in DOMAIN inflight_tasks : Phase(k) = "aborted" => pause_task

\* Every failed task and every error in the ready queue goes back to an
\* exception an agent raised.
FailInv ==
    /\ \A k \in DOMAIN inflight_tasks : Phase(k) = "failed" => failures > 0
    /\ \A i \in 1 .. Len(ready_queue) : ready_queue[i].error => failures > 0
    /\ FailsForCause

\* wait_all_inflight leaves no task behind for update_weights to race with.
UpdateIdle == pc = "update" => DOMAIN inflight_tasks = {}

----------------------------------------------------------------------------
\* The pause invariant.

LEMMA InitPauseInv == Init => PauseInv
BY DEF Init, PauseInv, EmptyDict

LEMMA WindowPauseInv ==
    ASSUME TypeInv, PauseInv, BeginStep \/ FireGenerationRequests
    PROVE  PauseInv'
<1>1. CASE BeginStep
  BY <1>1 DEF PauseInv, BeginStep, PauseSettled, Phase
<1>2. CASE FireGenerationRequests
  <2>1. UNCHANGED windowVars
    BY <1>2 DEF FireGenerationRequests
  <2>2. \A k \in DOMAIN inflight_tasks' :
           Phase(k)' = "aborted" => k \in DOMAIN inflight_tasks /\ Phase(k) = "aborted"
    BY <1>2 DEF FireGenerationRequests, Phase
  <2>. QED  BY <2>1, <2>2 DEF PauseInv, TargetMet, windowVars, pauseVars
<1>. QED  BY <1>1, <1>2

LEMMA TaskPauseInv ==
    ASSUME TypeInv, PauseInv, NEW k \in DOMAIN inflight_tasks,
           StartTask(k) \/ EngineSubmit(k) \/ NextTurn(k) \/ Complete(k)
              \/ HandleAbort(k) \/ Fail(k)
    PROVE  PauseInv'
<1>0. inflight_tasks \in [DOMAIN inflight_tasks -> Task]
  BY DEF TypeInv, TypeOK, DispatchTypeOK
<1>1. CASE NextTurn(k)
  <2>1. UNCHANGED windowVars
    BY <1>1 DEF NextTurn
  <2>2. /\ DOMAIN inflight_tasks' = DOMAIN inflight_tasks
        /\ \A j \in DOMAIN inflight_tasks :
              Phase(j)' = "aborted" => Phase(j) = "aborted" \/ paused_agents # {}
    BY <1>0, <1>1 DEF NextTurn, Phase, Task
  <2>. QED  BY <2>1, <2>2 DEF PauseInv, TargetMet, windowVars, pauseVars
<1>2. CASE ~ NextTurn(k)
  <2>1. /\ DOMAIN inflight_tasks' = DOMAIN inflight_tasks
        /\ \A j \in DOMAIN inflight_tasks : Phase(j)' = "aborted" => Phase(j) = "aborted"
    BY <1>0, <1>2 DEF StartTask, EngineSubmit, Complete, HandleAbort, Fail, SetPhase, Phase,
                      Task
  <2>2. CASE UNCHANGED windowVars
    BY <2>1, <2>2 DEF PauseInv, TargetMet, windowVars, pauseVars
  <2>3. CASE Complete(k) /\ ~ TargetMet
    <3>1. ~ pause_task /\ broadcast # "agents" /\ paused_agents = {}
      BY <2>3 DEF PauseInv
    <3>2. pause_task' => TargetMet'
      BY <2>3, <3>1 DEF Complete, WindowFull, TargetMet
    <3>3. broadcast' = "agents" => pause_task'
      BY <2>3, <3>1 DEF Complete
    <3>4. paused_agents' = {}
      BY <2>3, <3>1 DEF Complete
    <3>. QED  BY <2>1, <3>1, <3>2, <3>3, <3>4 DEF PauseInv
  <2>4. CASE Complete(k) /\ TargetMet
    BY <2>2, <2>4 DEF Complete, windowVars, pauseVars
  <2>. QED  BY <1>2, <2>2, <2>3, <2>4 DEF StartTask, EngineSubmit, HandleAbort, Fail
<1>. QED  BY <1>1, <1>2

LEMMA PauseStepPauseInv ==
    ASSUME TypeInv, PauseInv, PauseStep
    PROVE  PauseInv'
<1>1. broadcast = "agents" /\ UNCHANGED pauseFrame
  BY DEF PauseStep, PauseGeneration, AbortAll
<1>2. pause_task' /\ TargetMet'
  BY <1>1 DEF PauseInv, TargetMet, pauseFrame
<1>. QED  BY <1>2 DEF PauseInv

LEMMA TrainerPauseInv ==
    ASSUME TypeInv, PauseInv,
           CollectItem \/ FinishCollect \/ Train \/ SaveModel \/ SaveData
              \/ WaitAllInflight \/ UpdateWeights
    PROVE  PauseInv'
<1>1. UNCHANGED windowVars
  BY DEF CollectItem, FinishCollect, Train, SaveModel, SaveData, WaitAllInflight, UpdateWeights
<1>2. inflight_tasks' = inflight_tasks \/ DOMAIN inflight_tasks' = {}
  BY DEF CollectItem, FinishCollect, Train, SaveModel, SaveData, WaitAllInflight, UpdateWeights,
         EmptyDict
<1>. QED  BY <1>1, <1>2 DEF PauseInv, TargetMet, Phase, windowVars, pauseVars

LEMMA StepPauseInv == TypeInv /\ PauseInv /\ [Next]_vars => PauseInv'
<1>. SUFFICES ASSUME TypeInv, PauseInv, [Next]_vars PROVE PauseInv'
  OBVIOUS
<1>1. CASE TrainerStep
  BY <1>1, WindowPauseInv, TrainerPauseInv DEF TrainerStep
<1>2. CASE TaskStep \/ AgentFailure
  BY <1>2, TaskPauseInv DEF TaskStep, AgentFailure
<1>3. CASE PauseStep
  BY <1>3, PauseStepPauseInv
<1>4. CASE Restart
  BY <1>4 DEF Restart, PauseInv, EmptyDict
<1>5. CASE UNCHANGED vars
  BY <1>5 DEF PauseInv, TargetMet, Phase, vars, windowVars, pauseVars
<1>. QED  BY <1>1, <1>2, <1>3, <1>4, <1>5 DEF Next, Terminated

----------------------------------------------------------------------------
\* The failure invariant.

LEMMA InitFailInv == Init => FailInv
BY DEF Init, FailInv, FailsForCause, EmptyDict

LEMMA TaskFailInv ==
    ASSUME TypeInv, PauseInv, FailInv, NEW k \in DOMAIN inflight_tasks,
           StartTask(k) \/ EngineSubmit(k) \/ NextTurn(k) \/ Complete(k)
              \/ HandleAbort(k) \/ Fail(k)
    PROVE  FailInv'
<1>1. /\ inflight_tasks \in [DOMAIN inflight_tasks -> Task]
      /\ ready_queue \in Seq(QueuedRolloutBatch) /\ failures \in Nat
  BY DEF TypeInv, TypeOK, DispatchTypeOK, QueueTypeOK, DiskTypeOK
<1>2. UNCHANGED <<pc, model_ckpt, ds_ckpt>>
  BY DEF StartTask, EngineSubmit, NextTurn, Complete, HandleAbort, Fail, taskFrame,
         trainerVars, diskVars
<1>3. CASE Fail(k)
  <2>1. failures' > 0
    BY <1>1, <1>3 DEF Fail
  <2>. QED  BY <1>2, <2>1 DEF FailInv, FailsForCause
<1>4. CASE ~ Fail(k)
  <2>1. UNCHANGED failures
    BY <1>4 DEF StartTask, EngineSubmit, NextTurn, Complete, HandleAbort
  <2>2. FailsForCause'
    BY <1>2, <2>1 DEF FailInv, FailsForCause, Missing
  <2>3. /\ DOMAIN inflight_tasks' = DOMAIN inflight_tasks
        /\ \A j \in DOMAIN inflight_tasks : Phase(j)' = "failed" => Phase(j) = "failed"
    BY <1>1, <1>4 DEF StartTask, EngineSubmit, NextTurn, Complete, HandleAbort, SetPhase,
                      Phase, Task, PauseInv
  <2>4. \A i \in 1 .. Len(ready_queue') :
           ready_queue'[i].error => failures > 0
    <3>1. CASE UNCHANGED ready_queue
      BY <3>1 DEF FailInv
    <3>2. CASE ready_queue' = ready_queue \o Enqueued(k)
      <4>1. RbMultiplier \in Nat /\ Enqueued(k) = [i \in 1 .. RbMultiplier |-> Item(k, FALSE)]
        BY TailBatchingAssumption DEF TailBatchingAssumption, Enqueued
      <4>. DEFINE item == Item(k, FALSE)
                  enq == [i \in 1 .. RbMultiplier |-> item]
      <4>2. ~ item.error
        BY DEF Item
      <4>3. item \in QueuedRolloutBatch
        BY ItemType DEF TypeInv, TypeOK
      <4>. HIDE DEF item
      <4>4. enq \in Seq(QueuedRolloutBatch) /\ Len(enq) = RbMultiplier
        BY <4>1, <4>3
      <4>5. \A i \in 1 .. RbMultiplier : ~ enq[i].error
        BY <4>2
      <4>6. ready_queue' = ready_queue \o enq
        BY <3>2, <4>1 DEF item
      <4>. HIDE DEF enq
      <4>7. \A i \in 1 .. Len(ready_queue \o enq) :
               \/ i \in 1 .. Len(ready_queue) /\ (ready_queue \o enq)[i] = ready_queue[i]
               \/ /\ i - Len(ready_queue) \in 1 .. RbMultiplier
                  /\ (ready_queue \o enq)[i] = enq[i - Len(ready_queue)]
        BY <1>1, <4>1, <4>4
      <4>. QED  BY <4>5, <4>6, <4>7 DEF FailInv
    <3>. QED  BY <1>4, <3>1, <3>2
              DEF StartTask, EngineSubmit, NextTurn, Complete, HandleAbort, PauseInv, Phase
  <2>. QED  BY <2>1, <2>2, <2>3, <2>4 DEF FailInv
<1>. QED  BY <1>3, <1>4

LEMMA TrainerFailInv ==
    ASSUME TypeInv, FailInv, TrainerStep
    PROVE  FailInv'
<1>1. /\ ready_queue \in Seq(QueuedRolloutBatch) /\ UNCHANGED failures
  BY DEF TypeInv, TypeOK, QueueTypeOK, TrainerStep, BeginStep, FireGenerationRequests,
         CollectItem, FinishCollect, Train, SaveModel, SaveData, WaitAllInflight,
         UpdateWeights, boundVars
<1>2. \A k \in DOMAIN inflight_tasks' :
         Phase(k)' = "failed" => k \in DOMAIN inflight_tasks /\ Phase(k) = "failed"
  <2>1. CASE FireGenerationRequests
    BY <2>1 DEF FireGenerationRequests, Phase
  <2>2. CASE ~ FireGenerationRequests
    <3>1. inflight_tasks' = inflight_tasks \/ DOMAIN inflight_tasks' = {}
      BY <2>2 DEF TrainerStep, BeginStep, CollectItem, FinishCollect, Train, SaveModel,
                  SaveData, WaitAllInflight, UpdateWeights, EmptyDict
    <3>. QED  BY <3>1 DEF Phase
  <2>. QED  BY <2>1, <2>2
<1>3. \A i \in 1 .. Len(ready_queue') : ready_queue'[i].error => failures > 0
  <2>1. CASE CollectItem
    <3>1. ready_queue # <<>> /\ ready_queue' = Tail(ready_queue)
      BY <2>1 DEF CollectItem
    <3>2. \A i \in 1 .. Len(ready_queue') :
             i + 1 \in 1 .. Len(ready_queue) /\ ready_queue'[i] = ready_queue[i + 1]
      BY <1>1, <3>1
    <3>. QED  BY <3>2 DEF FailInv
  <2>2. CASE ~ CollectItem
    <3>1. UNCHANGED ready_queue
      BY <2>2 DEF TrainerStep, BeginStep, FireGenerationRequests, FinishCollect, Train,
                  SaveModel, SaveData, WaitAllInflight, UpdateWeights
    <3>. QED  BY <3>1 DEF FailInv
  <2>. QED  BY <2>1, <2>2
<1>4. pc' = "failed" => failures > 0
  <2>. SUFFICES ASSUME pc' = "failed" PROVE failures > 0
    OBVIOUS
  <2>1. CollectItem \/ WaitAllInflight
    BY DEF TrainerStep, BeginStep, FireGenerationRequests, FinishCollect, Train, AfterTrain,
           SaveModel, SaveData, AfterSave, UpdateWeights, LoopTop, AfterLoop
  <2>2. CASE CollectItem
    <3>1. 1 \in 1 .. Len(ready_queue) /\ Head(ready_queue) = ready_queue[1]
      BY <1>1, <2>2 DEF CollectItem
    <3>2. Head(ready_queue).error
      BY <2>2 DEF CollectItem
    <3>. QED  BY <3>1, <3>2 DEF FailInv
  <2>3. CASE WaitAllInflight
    BY <2>3 DEF WaitAllInflight, FailInv, Phase
  <2>. QED  BY <2>1, <2>2, <2>3
<1>. QED  BY <1>1, <1>2, <1>3, <1>4 DEF FailInv, FailsForCause

LEMMA StepFailInv == TypeInv /\ PauseInv /\ FailInv /\ [Next]_vars => FailInv'
<1>. SUFFICES ASSUME TypeInv, PauseInv, FailInv, [Next]_vars PROVE FailInv'
  OBVIOUS
<1>1. CASE TrainerStep
  BY <1>1, TrainerFailInv
<1>2. CASE TaskStep \/ AgentFailure
  BY <1>2, TaskFailInv DEF TaskStep, AgentFailure
<1>3. CASE PauseStep
  <2>1. UNCHANGED <<ready_queue, failures, pc, model_ckpt, ds_ckpt>>
    BY <1>3 DEF PauseStep, PauseGeneration, AbortAll, pauseFrame, trainerVars, boundVars, diskVars
  <2>2. \A k \in DOMAIN inflight_tasks' :
           Phase(k)' = "failed" => k \in DOMAIN inflight_tasks /\ Phase(k) = "failed"
    <3>1. inflight_tasks \in [DOMAIN inflight_tasks -> Task]
      BY DEF TypeInv, TypeOK, DispatchTypeOK
    <3>. QED  BY <1>3, <3>1 DEF PauseStep, PauseGeneration, AbortAll, Phase, Task
  <2>. QED  BY <2>1, <2>2 DEF FailInv, FailsForCause, Missing
<1>4. CASE Restart
  <2>1. UNCHANGED <<failures, model_ckpt, ds_ckpt>>
    BY <1>4 DEF Restart, diskVars
  <2>2. pc' = "failed" => Missing(model_ckpt)
    BY <1>4 DEF Restart, AfterBoot, LoopTop, AfterLoop
  <2>3. DOMAIN inflight_tasks' = {} /\ ready_queue' = <<>>
    BY <1>4 DEF Restart, EmptyDict
  <2>. QED  BY <2>1, <2>2, <2>3 DEF FailInv, FailsForCause, Missing
<1>5. CASE UNCHANGED vars
  BY <1>5 DEF FailInv, FailsForCause, Missing, Phase, vars, trainerVars, diskVars, boundVars
<1>. QED  BY <1>1, <1>2, <1>3, <1>4, <1>5 DEF Next, Terminated

----------------------------------------------------------------------------
\* The idle sampler.

LEMMA InitUpdateIdle == Init => UpdateIdle
BY DEF Init, UpdateIdle

LEMMA StepUpdateIdle == UpdateIdle /\ [Next]_vars => UpdateIdle'
<1>. SUFFICES ASSUME UpdateIdle, [Next]_vars, pc' = "update"
              PROVE  DOMAIN inflight_tasks' = {}
  BY DEF UpdateIdle
<1>1. CASE TrainerStep
  <2>1. WaitAllInflight
    BY <1>1 DEF TrainerStep, BeginStep, FireGenerationRequests, CollectItem, FinishCollect,
         Train, AfterTrain, SaveModel, SaveData, AfterSave, UpdateWeights, LoopTop, AfterLoop
  <2>. QED  BY <2>1 DEF WaitAllInflight, EmptyDict
<1>2. CASE TaskStep \/ AgentFailure \/ PauseStep
  <2>1. UNCHANGED pc /\ DOMAIN inflight_tasks' = DOMAIN inflight_tasks
    BY <1>2 DEF TaskStep, AgentFailure, PauseStep, StartTask, EngineSubmit, NextTurn, Complete,
         HandleAbort, Fail, SetPhase, PauseGeneration, AbortAll, taskFrame, pauseFrame,
         trainerVars
  <2>. QED  BY <2>1 DEF UpdateIdle
<1>3. CASE Restart
  BY <1>3 DEF Restart, EmptyDict
<1>4. CASE UNCHANGED vars
  BY <1>4 DEF UpdateIdle, vars, trainerVars
<1>. QED  BY <1>1, <1>2, <1>3, <1>4 DEF Next, Terminated
----------------------------------------------------------------------------
\* What follows for every behaviour.

LEMMA SafetyInductive == Spec => [](TypeInv /\ PauseInv /\ FailInv /\ UpdateIdle)
<1>. DEFINE Inv == TypeInv /\ PauseInv /\ FailInv /\ UpdateIdle
<1>1. Init => Inv
  BY InitTypeInv, InitPauseInv, InitFailInv, InitUpdateIdle
<1>2. Inv /\ [Next]_vars => Inv'
  BY StepTypeInv, StepPauseInv, StepFailInv, StepUpdateIdle
<1>. QED  BY <1>1, <1>2, PTL DEF Spec

\* The trainer fails only if an agent raised or a checkpoint was torn: a
\* GenerationAborted of a pause is never queued as an error by
\* dispatch_single_item_to_agent nor raised by wait_all_inflight.
THEOREM AbortsAreNotFailures == Spec => []FailsForCause
<1>1. TypeInv /\ PauseInv /\ FailInv /\ UpdateIdle => FailsForCause
  BY DEF FailInv
<1>. QED  BY <1>1, SafetyInductive, PTL

\* _broadcast_pause reaches only requests whose result the window would
\* refuse: no task of a later window, none counted by its own.
THEOREM PausesHitExcess == Spec => AbortsOnlyExcess
<1>. DEFINE Excess == \A k \in DOMAIN inflight_tasks \cap DOMAIN inflight_tasks' :
                         inflight_tasks'[k].phase = "aborted" => TargetMet
<1>1. TypeInv /\ PauseInv /\ [Next]_vars => [Excess]_vars
  <2>. SUFFICES ASSUME TypeInv, PauseInv, [Next]_vars,
                       NEW k \in DOMAIN inflight_tasks, k \in DOMAIN inflight_tasks',
                       inflight_tasks'[k].phase = "aborted"
                PROVE  TargetMet
    OBVIOUS
  <2>1. inflight_tasks \in [DOMAIN inflight_tasks -> Task]
    BY DEF TypeInv, TypeOK, DispatchTypeOK
  <2>2. CASE Phase(k) = "aborted"
    BY <2>2 DEF PauseInv
  <2>3. CASE Phase(k) # "aborted"
    <3>1. CASE TrainerStep
      <4>1. inflight_tasks' = inflight_tasks \/ DOMAIN inflight_tasks' = {}
               \/ FireGenerationRequests
        BY <3>1 DEF TrainerStep, BeginStep, CollectItem, FinishCollect, Train, SaveModel,
                    SaveData, WaitAllInflight, UpdateWeights, EmptyDict
      <4>2. ~ FireGenerationRequests
        BY <2>3 DEF FireGenerationRequests, Phase
      <4>. QED  BY <2>3, <4>1, <4>2 DEF Phase
    <3>2. CASE TaskStep \/ AgentFailure
      <4>1. paused_agents # {}
        <5>1. PICK j \in DOMAIN inflight_tasks :
                 StartTask(j) \/ EngineSubmit(j) \/ NextTurn(j) \/ Complete(j)
                    \/ HandleAbort(j) \/ Fail(j)
          BY <3>2 DEF TaskStep, AgentFailure
        <5>2. CASE NextTurn(j)
          BY <2>1, <2>3, <5>2 DEF NextTurn, Phase, Task
        <5>3. CASE ~ NextTurn(j)
          BY <2>1, <2>3, <5>1, <5>3 DEF StartTask, EngineSubmit, Complete, HandleAbort, Fail,
             SetPhase, Phase, Task
        <5>. QED  BY <5>2, <5>3
      <4>. QED  BY <4>1 DEF PauseInv
    <3>3. CASE PauseStep
      BY <3>3 DEF PauseStep, PauseGeneration, AbortAll, PauseInv
    <3>4. CASE Restart
      BY <3>4 DEF Restart, EmptyDict
    <3>5. CASE UNCHANGED vars
      BY <2>3, <3>5 DEF Phase, vars
    <3>. QED  BY <3>1, <3>2, <3>3, <3>4, <3>5 DEF Next, Terminated
  <2>. QED  BY <2>2, <2>3
<1>. QED  BY <1>1, SafetyInductive, PTL DEF Spec, AbortsOnlyExcess

\* update_weights never runs under a generation or beside a request on its
\* way to the engine: no sample mixes two policies.
THEOREM WeightsMoveWhenIdle == Spec => IdleAtUpdate
<1>1. UpdateIdle /\ [Next]_vars =>
        [sampler_weights' # sampler_weights =>
           \A k \in DOMAIN inflight_tasks' :
              inflight_tasks'[k].phase \in {"done", "failed"}]_vars
  <2>. SUFFICES ASSUME UpdateIdle, [Next]_vars, sampler_weights' # sampler_weights
                PROVE  DOMAIN inflight_tasks' = {}
    OBVIOUS
  <2>1. UpdateWeights \/ Restart
    BY DEF Next, Terminated, TrainerStep, TaskStep, AgentFailure, PauseStep, BeginStep,
       FireGenerationRequests, CollectItem, FinishCollect, Train, SaveModel, SaveData,
       WaitAllInflight, StartTask, EngineSubmit, NextTurn, Complete, HandleAbort, Fail,
       PauseGeneration, AbortAll, taskFrame, pauseFrame, learnerVars, vars
  <2>. QED  BY <2>1 DEF UpdateWeights, Restart, UpdateIdle, EmptyDict
<1>. QED  BY <1>1, SafetyInductive, PTL DEF Spec, IdleAtUpdate

----------------------------------------------------------------------------
\* The invariants.

Line == batch \o ready_queue
Clean(p) == \A i \in 1 .. p : ~ Line[i].error
Unbroken == pc # "failed" /\ Clean(Len(Line))
Accepted == {k \in DOMAIN pending : pending[k].rollout_consumed}

\* The sampler has the weights of the step the window began with, everything
\* up to the window's target is fired before the trainer collects, and a
\* window ends after WindowSize steps at the latest.
LoopInv ==
    /\ sampler_weights + steps_since_update = train_step
    /\ steps_since_update <= WindowSize
    /\ fire_target = FireTarget(sampler_weights)
    /\ fired_step <= fire_target
    /\ pc \in {"collect", "train"} => steps_since_update < WindowSize
    /\ pc \in {"begin_step", "fire"} => steps_since_update = 0 /\ train_step <= fired_step
    /\ pc \notin {"begin_step", "fire", "failed"} => fired_step = fire_target

\* How far the checkpoint of a step that is due has got.
SaveInv ==
    /\ pc \in {"save_data", "final_data"} => model_ckpt = train_step
    /\ pc \in {"drain", "update"} /\ SaveDue(train_step) =>
          model_ckpt = train_step /\ train_step \in DOMAIN ds_ckpt
    /\ pc \in {"final_model", "final_data", "done"} => train_step = TotalSteps
    /\ FinalStepSaved

\* What collect_rollout_step has taken.
BatchInv ==
    /\ Len(batch) <= NumCollect
    /\ pc = "train" => Len(batch) = NumCollect
    /\ pc \notin {"collect", "train", "failed"} => batch = <<>>
    /\ \A i \in 1 .. Len(batch) : ~ batch[i].error

\* Keys are fired once, and a rollout batch in line belongs to a microbatch the
\* window accepted or to one of an earlier window.
KeyInv ==
    /\ \A k \in DOMAIN pending : k[1] < fired_step
    /\ \A p \in 1 .. Len(Line) :
          /\ Line[p].key[1] < fired_step
          /\ ~ Line[p].error /\ Line[p].key \in DOMAIN pending => Line[p].key \in Accepted

\* A task that ended well was accepted, unless the target was met before; one
\* that ended badly keeps wait_all_inflight from going on.
TaskInv ==
    /\ \A k \in DOMAIN inflight_tasks : Phase(k) # "done" => k \notin Accepted
    /\ \A k \in DOMAIN inflight_tasks : Phase(k) = "done" => k \in Accepted \/ TargetMet
    /\ DOMAIN inflight_tasks = DOMAIN pending \/ TargetMet \/ pc = "failed"
    /\ pc \in {"update", "begin_step", "final_model", "final_data", "done"} =>
          DOMAIN inflight_tasks = {}
    /\ \/ pc = "failed" \/ Clean(Len(Line))
       \/ \E k \in DOMAIN inflight_tasks : Phase(k) = "failed"

\* The window's two counters: every accepted microbatch is counted once, the
\* count never passes the target, and enough has been or will be fired.
CountInv ==
    /\ step_collected_rb = Cardinality(Accepted) * RbMultiplier
    /\ \E m \in Nat : step_target_rb = m * RbMultiplier
    /\ step_collected_rb <= step_target_rb
    /\ step_target_rb <=
          (Cardinality(DOMAIN pending) + (fire_target - fired_step) * NumMb) * RbMultiplier

----------------------------------------------------------------------------
\* Constants, and what the steps of the rollout side leave alone.

LEMMA Constants ==
    /\ TotalSteps \in Nat \ {0} /\ StepsPerEpoch \in Nat \ {0}
    /\ MaxStale \in Nat /\ SaveInterval \in Nat \ {0}
    /\ NumMb \in Nat \ {0} /\ OverFireMb \in Nat /\ OverFireMb > NumMb
    /\ RbMultiplier \in Nat \ {0} /\ NumAgents \in Nat \ {0}
    /\ WindowSize \in Nat \ {0} /\ WindowSize <= MaxStale + 1 /\ MaxStale <= WindowSize
BY TrainerWindowAssumption, TailBatchingAssumption
   DEF TrainerWindowAssumption, TailBatchingAssumption, WindowSize

RolloutSide == TaskStep \/ AgentFailure \/ PauseStep \/ UNCHANGED vars

LEMMA RolloutFrame ==
    ASSUME RolloutSide
    PROVE  /\ UNCHANGED <<pc, train_step, fired_step, fire_target, steps_since_update>>
           /\ UNCHANGED <<learnerVars, dataSourceVars, diskVars, batch, attr_cache>>
           /\ UNCHANGED <<step_target_rb, restarts>>
<1>1. CASE TaskStep \/ AgentFailure
  <2>1. PICK k \in DOMAIN inflight_tasks :
           StartTask(k) \/ EngineSubmit(k) \/ NextTurn(k) \/ Complete(k)
              \/ HandleAbort(k) \/ Fail(k)
    BY <1>1 DEF TaskStep, AgentFailure
  <2>2. UNCHANGED taskFrame /\ UNCHANGED step_target_rb
    BY <2>1 DEF StartTask, EngineSubmit, NextTurn, Complete, HandleAbort, Fail, windowVars
  <2>. QED  BY <2>2 DEF taskFrame, trainerVars
<1>2. CASE PauseStep
  BY <1>2 DEF PauseStep, PauseGeneration, AbortAll, pauseFrame, trainerVars, boundVars
<1>3. CASE UNCHANGED vars
  BY <1>3 DEF vars, trainerVars, boundVars, windowVars
<1>. QED  BY <1>1, <1>2, <1>3 DEF RolloutSide

\* Every step is one of the trainer's, a restart, or on the rollout side.
LEMMA NextCases ==
    ASSUME [Next]_vars
    PROVE  \/ BeginStep \/ FireGenerationRequests \/ CollectItem \/ FinishCollect
           \/ Train \/ SaveModel \/ SaveData \/ WaitAllInflight \/ UpdateWeights
           \/ Restart \/ RolloutSide
BY DEF Next, TrainerStep, Terminated, RolloutSide

LEMMA FireTargetValues ==
    ASSUME NEW s \in 0 .. TotalSteps
    PROVE  /\ FireTarget(s) \in Nat /\ FireTarget(s) <= TotalSteps
           /\ FireTarget(s) <= s + MaxStale + 1 /\ s <= FireTarget(s)
           /\ s < TotalSteps => s < FireTarget(s)
           /\ FireTarget(s) < s + MaxStale + 1 => FireTarget(s) = TotalSteps
           /\ \A r \in 0 .. s : FireTarget(r) <= FireTarget(s)
BY Constants DEF FireTarget, Lesser

----------------------------------------------------------------------------
\* The loop's counters.

LEMMA InitLoopInv == Init => LoopInv
<1>1. FireTarget(0) \in Nat
  BY FireTargetValues, Constants
<1>. QED  BY <1>1, Constants DEF Init, LoopInv

LEMMA FireLoopInv == TypeInv /\ LoopInv /\ FireGenerationRequests => LoopInv'
<1>. SUFFICES ASSUME TypeInv, LoopInv, FireGenerationRequests PROVE LoopInv'
  OBVIOUS
<1>1. /\ pc = "fire" /\ fired_step' = ChunkEnd
      /\ UNCHANGED <<train_step, fire_target, steps_since_update, sampler_weights>>
      /\ pc' = IF ChunkEnd = fire_target THEN "collect" ELSE "fire"
  BY DEF FireGenerationRequests, learnerVars
<1>2. /\ fired_step \in Nat /\ train_step \in Nat /\ fire_target \in Nat
      /\ ChunkEnd \in Nat /\ fired_step < ChunkEnd /\ ChunkEnd <= fire_target
  <2>1. fired_step \in Nat /\ train_step \in Nat /\ fire_target \in Nat
    BY DEF TypeInv, TypeOK, TrainerTypeOK
  <2>2. ChunkEnd \in 0 .. fire_target /\ fired_step < ChunkEnd
    BY <1>1, ChunkBounds
  <2>. QED  BY <2>1, <2>2
<1>3. fired_step' <= fire_target' /\ (pc' = "fire" => train_step' <= fired_step')
  BY <1>1, <1>2 DEF LoopInv
<1>. QED  BY <1>1, <1>3, Constants DEF LoopInv

LEMMA TrainLoopInv == TypeInv /\ LoopInv /\ Train => LoopInv'
<1>. SUFFICES ASSUME TypeInv, LoopInv, Train PROVE LoopInv'
  OBVIOUS
<1>1. /\ pc = "train" /\ train_step' = train_step + 1
      /\ steps_since_update' = steps_since_update + 1
      /\ pc' = AfterTrain(train_step + 1, steps_since_update + 1)
      /\ UNCHANGED <<fired_step, fire_target, sampler_weights>>
  BY DEF Train
<1>2. /\ train_step \in Nat /\ steps_since_update \in Nat /\ sampler_weights \in Nat
      /\ steps_since_update < WindowSize /\ fired_step = fire_target
  BY <1>1 DEF TypeInv, TypeOK, TrainerTypeOK, LoopInv
<1>3. /\ pc' \in {"collect", "save_model", "drain"}
      /\ pc' = "collect" => ~ (steps_since_update + 1 >= WindowSize)
  BY <1>1 DEF AfterTrain, AtBoundary
<1>4. /\ sampler_weights + steps_since_update + 1 = train_step + 1
      /\ steps_since_update + 1 <= WindowSize
      /\ pc' = "collect" => steps_since_update + 1 < WindowSize
  BY <1>2, <1>3, Constants DEF LoopInv
<1>. QED  BY <1>1, <1>2, <1>3, <1>4 DEF LoopInv

\* A window covers at least the steps up to its end: the next one begins no
\* further than it fired.
LEMMA TargetReached ==
    ASSUME TypeInv, LoopInv
    PROVE  /\ train_step <= fire_target /\ FireTarget(train_step) >= fire_target
           /\ pc \in {"collect", "train"} => train_step < fire_target
<1>1. /\ train_step \in 0 .. TotalSteps /\ sampler_weights \in 0 .. TotalSteps
      /\ steps_since_update \in Nat
      /\ pc \in {"collect", "train"} => train_step < TotalSteps
  BY DEF TypeInv, TypeOK, TrainerTypeOK, StepsLeft
<1>2. /\ sampler_weights + steps_since_update = train_step
      /\ steps_since_update <= WindowSize /\ fire_target = FireTarget(sampler_weights)
      /\ pc \in {"collect", "train"} => steps_since_update < WindowSize
  BY DEF LoopInv
<1>3. fire_target = sampler_weights + MaxStale + 1 \/ fire_target = TotalSteps
  BY <1>1, <1>2, Constants DEF FireTarget, Lesser
<1>4. sampler_weights \in 0 .. train_step
  BY <1>1, <1>2
<1>5. fire_target <= FireTarget(train_step)
  BY <1>1, <1>2, <1>4, FireTargetValues
<1>. QED  BY <1>1, <1>2, <1>3, <1>5, Constants

LEMMA UpdateLoopInv == TypeInv /\ LoopInv /\ UpdateWeights => LoopInv'
<1>. SUFFICES ASSUME TypeInv, LoopInv, UpdateWeights PROVE LoopInv'
  OBVIOUS
<1>1. /\ pc = "update" /\ sampler_weights' = train_step /\ steps_since_update' = 0
      /\ fire_target' = IF train_step < TotalSteps THEN FireTarget(train_step)
                        ELSE fire_target
      /\ pc' = IF train_step < TotalSteps /\ fired_step < FireTarget(train_step)
               THEN "begin_step" ELSE LoopTop(train_step)
      /\ UNCHANGED <<train_step, fired_step>>
  BY DEF UpdateWeights, Pushed
<1>2. /\ train_step \in 0 .. TotalSteps /\ fired_step \in Nat /\ fire_target \in 0 .. TotalSteps
  BY DEF TypeInv, TypeOK, TrainerTypeOK
<1>3. fired_step = fire_target
  BY <1>1 DEF LoopInv
<1>4. train_step <= fire_target /\ FireTarget(train_step) >= fire_target
  BY TargetReached
<1>5. FireTarget(train_step) \in Nat /\ FireTarget(train_step) <= TotalSteps
  BY <1>2, FireTargetValues
<1>6. fire_target' = FireTarget(train_step)
  <2>1. ASSUME ~ (train_step < TotalSteps) PROVE fire_target = FireTarget(train_step)
    BY <1>2, <1>4, <1>5, <2>1, Constants
  <2>. QED  BY <1>1, <2>1
<1>7. fired_step' <= fire_target'
  BY <1>1, <1>2, <1>3, <1>4, <1>5, <1>6
<1>8. pc' # "begin_step" => fired_step' = fire_target'
  <2>1. CASE train_step < TotalSteps
    BY <1>1, <1>2, <1>3, <1>4, <1>5, <1>6, <2>1
  <2>2. CASE ~ (train_step < TotalSteps)
    BY <1>1, <1>3, <2>2
  <2>. QED  BY <2>1, <2>2
<1>9. pc' \notin {"train", "fire"} /\ train_step <= fired_step
  BY <1>1, <1>3, <1>4 DEF LoopTop, AfterLoop
<1>10. train_step + 0 = train_step /\ 0 <= WindowSize /\ 0 < WindowSize
  BY <1>2, Constants
<1>. QED  BY <1>1, <1>6, <1>7, <1>8, <1>9, <1>10 DEF LoopInv

LEMMA RestartLoopInv == TypeInv /\ LoopInv /\ Restart => LoopInv'
<1>. SUFFICES ASSUME TypeInv, LoopInv, Restart PROVE LoopInv'
  OBVIOUS
<1>1. model_ckpt \in 0 .. TotalSteps
  BY DEF TypeInv, TypeOK, DiskTypeOK
<1>2. CASE Missing(model_ckpt)
  BY <1>2 DEF Restart, LoopInv, learnerVars
<1>3. CASE ~ Missing(model_ckpt)
  <2>1. /\ pc' = AfterBoot(model_ckpt) /\ train_step' = model_ckpt
        /\ fired_step' = model_ckpt /\ fire_target' = FireTarget(model_ckpt)
        /\ steps_since_update' = 0 /\ sampler_weights' = model_ckpt
    BY <1>3 DEF Restart
  <2>2. /\ FireTarget(model_ckpt) \in Nat /\ model_ckpt <= FireTarget(model_ckpt)
        /\ model_ckpt \in Nat
    BY <1>1, FireTargetValues
  <2>3. pc' # "begin_step" => model_ckpt = FireTarget(model_ckpt)
    BY <2>1, <2>2 DEF AfterBoot
  <2>4. pc' \notin {"train", "fire"}
    BY <2>1 DEF AfterBoot, LoopTop, AfterLoop
  <2>. QED  BY <2>1, <2>2, <2>3, <2>4, Constants DEF LoopInv
<1>. QED  BY <1>2, <1>3

LEMMA StepLoopInv == TypeInv /\ LoopInv /\ [Next]_vars => LoopInv'
<1>. SUFFICES ASSUME TypeInv, LoopInv, [Next]_vars PROVE LoopInv'
  OBVIOUS
<1>1. CASE BeginStep
  BY <1>1 DEF BeginStep, LoopInv, learnerVars
<1>2. CASE CollectItem \/ FinishCollect
  BY <1>2 DEF CollectItem, FinishCollect, LoopInv, learnerVars
<1>3. CASE SaveModel \/ SaveData \/ WaitAllInflight
  BY <1>3 DEF SaveModel, SaveData, AfterSave, WaitAllInflight, LoopInv, learnerVars
<1>4. CASE RolloutSide
  <2>1. /\ UNCHANGED <<pc, train_step, fired_step, fire_target, steps_since_update>>
        /\ UNCHANGED sampler_weights
    BY <1>4, RolloutFrame DEF learnerVars
  <2>. QED  BY <2>1 DEF LoopInv
<1>. QED  BY <1>1, <1>2, <1>3, <1>4, FireLoopInv, TrainLoopInv, UpdateLoopInv,
             RestartLoopInv, NextCases

----------------------------------------------------------------------------
\* What a run leaves on disk.

LEMMA InitSaveInv == Init => SaveInv
BY DEF Init, SaveInv, FinalStepSaved

LEMMA StepSaveInv == TypeInv /\ SaveInv /\ [Next]_vars => SaveInv'
<1>. SUFFICES ASSUME TypeInv, SaveInv, [Next]_vars PROVE SaveInv'
  OBVIOUS
<1>1. train_step \in 0 .. TotalSteps /\ model_ckpt \in 0 .. TotalSteps
  BY DEF TypeInv, TypeOK, TrainerTypeOK, DiskTypeOK
<1>2. CASE BeginStep \/ FireGenerationRequests \/ CollectItem \/ FinishCollect
  BY <1>2 DEF BeginStep, FireGenerationRequests, CollectItem, FinishCollect, SaveInv,
              FinalStepSaved
<1>3. CASE Train
  <2>1. /\ train_step' = train_step + 1 /\ UNCHANGED diskVars
        /\ pc' \in {"collect", "save_model", "drain"}
        /\ pc' = "drain" => ~ SaveDue(train_step')
    BY <1>3 DEF Train, AfterTrain
  <2>. QED  BY <2>1 DEF SaveInv, FinalStepSaved, SaveDue
<1>4. CASE SaveModel
  BY <1>4 DEF SaveModel, SaveInv, FinalStepSaved
<1>5. CASE SaveData
  <2>1. /\ UNCHANGED <<train_step, model_ckpt>> /\ train_step \in DOMAIN ds_ckpt'
        /\ model_ckpt = train_step
        /\ \/ pc = "save_data" /\ pc' = "drain"
           \/ pc = "final_data" /\ pc' = "done"
    BY <1>5 DEF SaveData, AfterSave, SaveInv
  <2>. QED  BY <2>1 DEF SaveInv, FinalStepSaved
<1>6. CASE WaitAllInflight
  BY <1>6 DEF WaitAllInflight, SaveInv, FinalStepSaved, SaveDue, diskVars
<1>7. CASE UpdateWeights
  <2>1. /\ pc = "update" /\ UNCHANGED <<train_step, model_ckpt, ds_ckpt>>
        /\ \/ pc' \in {"begin_step", "collect"}
           \/ ~ (train_step < TotalSteps) /\ pc' = AfterLoop(train_step)
    BY <1>7 DEF UpdateWeights, LoopTop, diskVars
  <2>2. pc' \notin {"begin_step", "collect"} => train_step = TotalSteps
    BY <1>1, <2>1, Constants
  <2>3. pc' \in {"begin_step", "collect", "final_model", "done"}
    BY <2>1 DEF AfterLoop
  <2>4. pc' = "done" => train_step % SaveInterval = 0
    BY <2>1 DEF AfterLoop
  <2>. QED  BY <2>1, <2>2, <2>3, <2>4 DEF SaveInv, FinalStepSaved, SaveDue
<1>8. CASE Restart
  <2>1. UNCHANGED <<model_ckpt, ds_ckpt>>
    BY <1>8 DEF Restart, diskVars
  <2>2. CASE Missing(model_ckpt)
    BY <1>8, <2>1, <2>2 DEF Restart, SaveInv, FinalStepSaved
  <2>3. CASE ~ Missing(model_ckpt)
    <3>1. pc' = AfterBoot(model_ckpt) /\ train_step' = model_ckpt
      BY <1>8, <2>3 DEF Restart
    <3>2. pc' \in {"begin_step", "collect", "final_model", "done"}
      BY <3>1 DEF AfterBoot, LoopTop, AfterLoop
    <3>3. pc' \in {"final_model", "done"} => model_ckpt = TotalSteps
      <4>1. pc' \in {"final_model", "done"} => ~ (model_ckpt < TotalSteps)
        BY <3>1 DEF AfterBoot, LoopTop
      <4>. QED  BY <1>1, <4>1, Constants
    <3>4. model_ckpt = TotalSteps => TotalSteps \in DOMAIN ds_ckpt
      BY <2>3, Constants DEF Missing
    <3>. QED  BY <2>1, <3>1, <3>2, <3>3, <3>4 DEF SaveInv, FinalStepSaved
  <2>. QED  BY <2>2, <2>3
<1>9. CASE RolloutSide
  <2>1. UNCHANGED <<pc, train_step, model_ckpt, ds_ckpt>>
    BY <1>9, RolloutFrame DEF diskVars
  <2>. QED  BY <2>1 DEF SaveInv, FinalStepSaved, SaveDue
<1>. QED  BY <1>2, <1>3, <1>4, <1>5, <1>6, <1>7, <1>8, <1>9, NextCases

\* A run that ends has written both files of its last step, whatever
\* save_interval and the window size are, and however often it was relaunched:
\* the save of a boundary precedes its drain, and the save after the loop runs
\* exactly when the last step was not due.
THEOREM LastStepIsSaved == Spec => []FinalStepSaved
<1>. DEFINE Inv == TypeInv /\ SaveInv
<1>1. Init => Inv
  BY InitTypeInv, InitSaveInv
<1>2. Inv /\ [Next]_vars => Inv'
  BY StepTypeInv, StepSaveInv
<1>3. Inv => FinalStepSaved
  BY DEF SaveInv
<1>. QED  BY <1>1, <1>2, <1>3, PTL DEF Spec

----------------------------------------------------------------------------
\* How a step moves Line.

LEMMA Concatenation ==
    ASSUME NEW S, NEW s \in Seq(S), NEW t \in Seq(S)
    PROVE  /\ s \o t \in Seq(S) /\ Len(s \o t) = Len(s) + Len(t)
           /\ Len(s) \in Nat /\ Len(t) \in Nat
           /\ \A i \in 1 .. Len(s) : (s \o t)[i] = s[i]
           /\ \A i \in 1 .. Len(t) : (s \o t)[Len(s) + i] = t[i]
           /\ \A i \in 1 .. Len(s) + Len(t) :
                 i \in 1 .. Len(s) \/ i - Len(s) \in 1 .. Len(t)
OBVIOUS

LEMMA SameSequence ==
    ASSUME NEW S, NEW s \in Seq(S), NEW t \in Seq(S), Len(s) = Len(t),
           \A i \in 1 .. Len(s) : s[i] = t[i]
    PROVE  s = t
OBVIOUS

LEMMA OneItem ==
    ASSUME NEW S, NEW s \in Seq(S), NEW x \in S
    PROVE  /\ <<x>> \in Seq(S) /\ Len(<<x>>) = 1 /\ \A i \in 1 .. 1 : <<x>>[i] = x
           /\ Append(s, x) = s \o <<x>>
<1>1. <<x>> \in Seq(S) /\ Len(<<x>>) = 1 /\ \A i \in 1 .. 1 : <<x>>[i] = x
  OBVIOUS
<1>2. /\ Append(s, x) \in Seq(S) /\ s \o <<x>> \in Seq(S)
      /\ Len(Append(s, x)) = Len(s \o <<x>>)
      /\ \A i \in 1 .. Len(Append(s, x)) : Append(s, x)[i] = (s \o <<x>>)[i]
  BY <1>1
<1>. QED  BY <1>1, <1>2, SameSequence

\* Taking the head of the second sequence to the end of the first.
LEMMA MoveHead ==
    ASSUME NEW S, NEW b \in Seq(S), NEW q \in Seq(S), q # <<>>
    PROVE  Append(b, Head(q)) \o Tail(q) = b \o q
<1>. DEFINE c == Append(b, Head(q))
            r == Tail(q)
<1>1. /\ c \in Seq(S) /\ Len(c) = Len(b) + 1 /\ r \in Seq(S) /\ Len(r) = Len(q) - 1
      /\ Len(q) \in Nat \ {0} /\ Len(b) \in Nat
      /\ \A i \in 1 .. Len(b) : c[i] = b[i]
      /\ c[Len(b) + 1] = q[1]
      /\ \A i \in 1 .. Len(r) : r[i] = q[i + 1]
  OBVIOUS
<1>. HIDE DEF c, r
<1>2. \A i \in 1 .. Len(b) + Len(q) : (c \o r)[i] = (b \o q)[i]
  <2>. SUFFICES ASSUME NEW i \in 1 .. Len(b) + Len(q) PROVE (c \o r)[i] = (b \o q)[i]
    OBVIOUS
  <2>1. CASE i <= Len(b)
    BY <1>1, <2>1, Concatenation
  <2>2. CASE i = Len(b) + 1
    BY <1>1, <2>2, Concatenation
  <2>3. CASE i > Len(b) + 1
    <3>1. PICK j \in 1 .. Len(r) : i = Len(c) + j
      <4>1. i - Len(c) \in 1 .. Len(r) /\ i = Len(c) + (i - Len(c))
        BY <1>1, <2>3
      <4>. QED  BY <4>1
    <3>2. (c \o r)[i] = q[j + 1]
      BY <1>1, <3>1, Concatenation
    <3>3. (b \o q)[i] = q[j + 1]
      <4>1. j + 1 \in 1 .. Len(q) /\ i = Len(b) + (j + 1)
        BY <1>1, <3>1
      <4>. QED  BY <4>1, Concatenation
    <3>. QED  BY <3>2, <3>3
  <2>. QED  BY <1>1, <2>1, <2>2, <2>3
<1>3. /\ c \o r \in Seq(S) /\ b \o q \in Seq(S)
      /\ Len(c \o r) = Len(b) + Len(q) /\ Len(b \o q) = Len(b) + Len(q)
  <2>1. c \o r \in Seq(S) /\ Len(c \o r) = Len(c) + Len(r)
    <3>1. c \in Seq(S) /\ r \in Seq(S)
      BY <1>1
    <3>. QED  BY <3>1, Concatenation
  <2>2. b \o q \in Seq(S) /\ Len(b \o q) = Len(b) + Len(q)
    BY Concatenation
  <2>. QED  BY <1>1, <2>1, <2>2
<1>4. c \o r = b \o q
  BY <1>2, <1>3, SameSequence
<1>. QED  BY <1>4 DEF c, r

LEMMA LineItems ==
    ASSUME TypeInv
    PROVE  /\ batch \in Seq(QueuedRolloutBatch) /\ ready_queue \in Seq(QueuedRolloutBatch)
           /\ Line \in Seq(QueuedRolloutBatch)
           /\ Len(batch) \in Nat /\ Len(ready_queue) \in Nat /\ Len(Line) \in Nat
           /\ Len(Line) = Len(batch) + Len(ready_queue)
           /\ \A i \in 1 .. Len(batch) : Line[i] = batch[i]
           /\ \A i \in 1 .. Len(ready_queue) : Line[Len(batch) + i] = ready_queue[i]
           /\ \A p \in 1 .. Len(Line) :
                 p \in 1 .. Len(batch) \/ p - Len(batch) \in 1 .. Len(ready_queue)
<1>1. batch \in Seq(QueuedRolloutBatch) /\ ready_queue \in Seq(QueuedRolloutBatch)
  BY DEF TypeInv, TypeOK, QueueTypeOK
<1>. QED  BY <1>1, Concatenation DEF Line

\* n items of task k join the end of Line.
Joins(k, n, e) ==
    /\ Len(Line') = Len(Line) + n
    /\ \A p \in 1 .. Len(Line) : Line'[p] = Line[p]
    /\ \A p \in Len(Line) + 1 .. Len(Line) + n : Line'[p] = Item(k, e)

\* A trained step leaves the front of Line.
Shifts ==
    /\ Len(Line') \in Nat /\ Len(Line) = Len(Line') + NumCollect
    /\ \A p \in 1 .. Len(Line') : Line'[p] = Line[NumCollect + p]

\* The collector stops at an error: what remains in Line was there before.
Breaks ==
    /\ pc' = "failed"
    /\ \A p \in 1 .. Len(Line') : \E q \in 1 .. Len(Line) : Line'[p] = Line[q]

LEMMA JoinsQueue ==
    ASSUME TypeInv, NEW k, NEW e, NEW n \in Nat, NEW items \in Seq(QueuedRolloutBatch),
           Len(items) = n, \A i \in 1 .. n : items[i] = Item(k, e),
           ready_queue' = ready_queue \o items, UNCHANGED batch
    PROVE  Joins(k, n, e)
<1>1. /\ batch \in Seq(QueuedRolloutBatch) /\ ready_queue \in Seq(QueuedRolloutBatch)
      /\ Line \in Seq(QueuedRolloutBatch)
  BY LineItems
<1>2. Line' = Line \o items
  <2>1. /\ batch \o (ready_queue \o items) \in Seq(QueuedRolloutBatch)
        /\ Line \o items \in Seq(QueuedRolloutBatch)
        /\ Len(batch \o (ready_queue \o items)) = Len(Line \o items)
    BY <1>1 DEF Line
  <2>2. \A i \in 1 .. Len(Line \o items) :
           (batch \o (ready_queue \o items))[i] = (Line \o items)[i]
    BY <1>1 DEF Line
  <2>3. batch \o (ready_queue \o items) = Line \o items
    BY <2>1, <2>2, SameSequence
  <2>. QED  BY <2>3 DEF Line
<1>3. /\ Len(Line') = Len(Line) + n /\ Len(Line) \in Nat
      /\ \A p \in 1 .. Len(Line) : Line'[p] = Line[p]
      /\ \A i \in 1 .. n : Line'[Len(Line) + i] = items[i]
  <2>1. /\ Len(Line \o items) = Len(Line) + Len(items) /\ Len(Line) \in Nat
        /\ \A p \in 1 .. Len(Line) : (Line \o items)[p] = Line[p]
        /\ \A i \in 1 .. Len(items) : (Line \o items)[Len(Line) + i] = items[i]
    <3>1. Line \in Seq(QueuedRolloutBatch) /\ items \in Seq(QueuedRolloutBatch)
      BY <1>1
    <3>. QED  BY <3>1, Concatenation
  <2>. QED  BY <1>2, <2>1
<1>4. ASSUME NEW p \in Len(Line) + 1 .. Len(Line) + n PROVE Line'[p] = Item(k, e)
  <2>1. p - Len(Line) \in 1 .. n /\ p = Len(Line) + (p - Len(Line))
    BY <1>3
  <2>. QED  BY <1>3, <2>1
<1>. QED  BY <1>3, <1>4 DEF Joins

----------------------------------------------------------------------------
\* What a step on the rollout side does to the window.

OthersKept(k) ==
    /\ DOMAIN inflight_tasks' = DOMAIN inflight_tasks
    /\ \A j \in DOMAIN inflight_tasks \ {k} : inflight_tasks'[j] = inflight_tasks[j]

\* The task goes on, or ends because its window needs it no more.
Proceeds(k) ==
    /\ Phase(k) \notin {"done", "failed"} /\ Phase(k)' \notin {"done", "failed"}
    /\ UNCHANGED <<pending, ready_queue, step_collected_rb>>
Refuses(k) ==
    /\ Phase(k) \notin {"done", "failed"} /\ Phase(k)' = "done" /\ TargetMet
    /\ UNCHANGED <<pending, ready_queue, step_collected_rb>>

\* Its microbatch is counted, or its exception is queued.
Accepts(k) ==
    /\ Phase(k) = "engine" /\ Phase(k)' = "done" /\ ~ TargetMet
    /\ pending' = [pending EXCEPT ![k].rollout_consumed = TRUE]
    /\ step_collected_rb' = step_collected_rb + RbMultiplier
    /\ Joins(k, RbMultiplier, FALSE)
Raises(k) ==
    /\ Phase(k) \notin {"done", "failed"} /\ Phase(k)' = "failed"
    /\ UNCHANGED <<pending, step_collected_rb>>
    /\ Joins(k, 1, TRUE)

LEMMA TaskCases ==
    ASSUME TypeInv, PauseInv, NEW k \in DOMAIN inflight_tasks,
           StartTask(k) \/ EngineSubmit(k) \/ NextTurn(k) \/ Complete(k)
              \/ HandleAbort(k) \/ Fail(k)
    PROVE  OthersKept(k) /\ (Proceeds(k) \/ Refuses(k) \/ Accepts(k) \/ Raises(k))
<1>1. /\ inflight_tasks \in [DOMAIN inflight_tasks -> Task] /\ RbMultiplier \in Nat
      /\ UNCHANGED batch
  <2>1. UNCHANGED batch
    BY DEF StartTask, EngineSubmit, NextTurn, Complete, HandleAbort, Fail, taskFrame
  <2>. QED  BY <2>1, Constants DEF TypeInv, TypeOK, DispatchTypeOK
<1>2. CASE StartTask(k) \/ EngineSubmit(k)
  BY <1>1, <1>2 DEF StartTask, EngineSubmit, SetPhase, OthersKept, Proceeds, Refuses, Phase,
                    windowVars, Task
<1>3. CASE NextTurn(k)
  <2>. DEFINE t == inflight_tasks[k]
  <2>1. /\ t.phase = "engine" /\ UNCHANGED <<pending, ready_queue, step_collected_rb>>
        /\ inflight_tasks' =
             [inflight_tasks EXCEPT
                ![k] = IF t.agent \in paused_agents
                       THEN [t EXCEPT !.phase = "aborted"]
                       ELSE [t EXCEPT !.phase = "sent", !.turn = t.turn + 1]]
    BY <1>3 DEF NextTurn, windowVars
  <2>2. t \in Task
    BY <1>1
  <2>3. [t EXCEPT !.phase = "aborted"].phase = "aborted"
    BY <2>2 DEF Task
  <2>4. [t EXCEPT !.phase = "sent", !.turn = t.turn + 1].phase = "sent"
    BY <2>2 DEF Task
  <2>5. OthersKept(k) /\ Phase(k)' \in {"aborted", "sent"}
    BY <1>1, <2>1, <2>3, <2>4 DEF OthersKept, Phase
  <2>. QED  BY <2>1, <2>5 DEF Proceeds, Phase
<1>4. CASE Complete(k)
  <2>1. OthersKept(k) /\ Phase(k) = "engine" /\ Phase(k)' = "done"
    BY <1>1, <1>4 DEF Complete, SetPhase, OthersKept, Phase, Task
  <2>2. CASE TargetMet
    BY <1>4, <2>1, <2>2 DEF Complete, Refuses
  <2>3. CASE ~ TargetMet
    <3>1. Item(k, FALSE) \in QueuedRolloutBatch
      BY ItemType DEF TypeInv, TypeOK
    <3>2. /\ Enqueued(k) \in Seq(QueuedRolloutBatch) /\ Len(Enqueued(k)) = RbMultiplier
          /\ \A i \in 1 .. RbMultiplier : Enqueued(k)[i] = Item(k, FALSE)
      <4>. DEFINE x == Item(k, FALSE)
                  items == [i \in 1 .. RbMultiplier |-> x]
      <4>1. Enqueued(k) = items
        BY DEF Enqueued
      <4>2. x \in QueuedRolloutBatch
        BY <3>1
      <4>. HIDE DEF x
      <4>3. /\ items \in Seq(QueuedRolloutBatch) /\ Len(items) = RbMultiplier
            /\ \A i \in 1 .. RbMultiplier : items[i] = x
        BY <1>1, <4>2
      <4>. HIDE DEF items
      <4>. QED  BY <4>1, <4>3 DEF x
    <3>3. Joins(k, RbMultiplier, FALSE)
      BY <1>1, <1>4, <2>3, <3>2, JoinsQueue DEF Complete
    <3>. QED  BY <1>4, <2>1, <2>3, <3>3 DEF Complete, Accepts
  <2>. QED  BY <2>1, <2>2, <2>3
<1>5. CASE HandleAbort(k)
  <2>1. pause_task /\ TargetMet
    BY <1>5 DEF PauseInv, HandleAbort, Phase
  <2>2. SetPhase(k, "done") /\ UNCHANGED <<ready_queue, pending, windowVars>>
    BY <1>5, <2>1 DEF HandleAbort
  <2>. QED  BY <1>1, <1>5, <2>1, <2>2 DEF HandleAbort, SetPhase, OthersKept, Refuses, Phase,
                                          windowVars, Task
<1>6. CASE Fail(k)
  <2>1. OthersKept(k) /\ Phase(k) \in {"sent", "engine"} /\ Phase(k)' = "failed"
    BY <1>1, <1>6 DEF Fail, SetPhase, OthersKept, Phase, Task
  <2>2. Item(k, TRUE) \in QueuedRolloutBatch
    BY ItemType DEF TypeInv, TypeOK
  <2>3. /\ <<Item(k, TRUE)>> \in Seq(QueuedRolloutBatch) /\ Len(<<Item(k, TRUE)>>) = 1
        /\ \A i \in 1 .. 1 : <<Item(k, TRUE)>>[i] = Item(k, TRUE)
    BY <2>2, LineItems, OneItem
  <2>4. ready_queue' = ready_queue \o <<Item(k, TRUE)>>
    <3>1. ready_queue \in Seq(QueuedRolloutBatch)
      BY LineItems
    <3>2. ready_queue' = Append(ready_queue, Item(k, TRUE))
      BY <1>6 DEF Fail
    <3>. QED  BY <2>2, <3>1, <3>2, OneItem
  <2>5. Joins(k, 1, TRUE)
    BY <1>1, <2>3, <2>4, JoinsQueue
  <2>. QED  BY <1>6, <2>1, <2>5 DEF Fail, Raises, windowVars
<1>. QED  BY <1>2, <1>3, <1>4, <1>5, <1>6

\* A pause turns requests on the engine to aborted ones and does no more.
Aborts ==
    /\ DOMAIN inflight_tasks' = DOMAIN inflight_tasks
    /\ \A k \in DOMAIN inflight_tasks :
          \/ inflight_tasks'[k] = inflight_tasks[k]
          \/ /\ Phase(k) = "engine" /\ Phase(k)' = "aborted"
             /\ inflight_tasks'[k].weights = inflight_tasks[k].weights
    /\ UNCHANGED <<pending, ready_queue, step_collected_rb>>

LEMMA RolloutCases ==
    ASSUME TypeInv, PauseInv, RolloutSide
    PROVE  \/ Aborts
           \/ \E k \in DOMAIN inflight_tasks :
                 /\ OthersKept(k)
                 /\ StartTask(k) \/ EngineSubmit(k) \/ NextTurn(k) \/ Complete(k)
                      \/ HandleAbort(k) \/ Fail(k)
                 /\ Proceeds(k) \/ Refuses(k) \/ Accepts(k) \/ Raises(k)
<1>1. CASE TaskStep \/ AgentFailure
  <2>1. PICK k \in DOMAIN inflight_tasks :
           StartTask(k) \/ EngineSubmit(k) \/ NextTurn(k) \/ Complete(k)
              \/ HandleAbort(k) \/ Fail(k)
    BY <1>1 DEF TaskStep, AgentFailure
  <2>. QED  BY <2>1, TaskCases
<1>2. CASE PauseStep
  <2>1. UNCHANGED <<pending, ready_queue, step_collected_rb>>
    BY <1>2 DEF PauseStep, PauseGeneration, AbortAll, pauseFrame
  <2>2. CASE AbortAll
    <3>1. inflight_tasks \in [DOMAIN inflight_tasks -> Task]
      BY DEF TypeInv, TypeOK, DispatchTypeOK
    <3>. QED  BY <2>1, <2>2, <3>1 DEF AbortAll, Aborts, Phase, Task
  <2>3. CASE ~ AbortAll
    BY <1>2, <2>1, <2>3 DEF PauseStep, PauseGeneration, Aborts
  <2>. QED  BY <2>2, <2>3
<1>3. CASE UNCHANGED vars
  BY <1>3 DEF vars, Aborts, windowVars
<1>. QED  BY <1>1, <1>2, <1>3 DEF RolloutSide

----------------------------------------------------------------------------
\* How a step of the trainer moves Line.

LEMMA CollectLine ==
    ASSUME TypeInv, CollectItem
    PROVE  IF pc' = "failed" THEN Breaks /\ UNCHANGED batch ELSE Line' = Line
<1>1. /\ batch \in Seq(QueuedRolloutBatch) /\ ready_queue \in Seq(QueuedRolloutBatch)
      /\ ready_queue # <<>> /\ ready_queue' = Tail(ready_queue) /\ pc = "collect"
  BY LineItems DEF CollectItem
<1>2. CASE Head(ready_queue).error
  <2>1. pc' = "failed" /\ UNCHANGED batch
    BY <1>2 DEF CollectItem
  <2>2. ASSUME NEW p \in 1 .. Len(Line') PROVE \E q \in 1 .. Len(Line) : Line'[p] = Line[q]
    <3>1. /\ Tail(ready_queue) \in Seq(QueuedRolloutBatch)
          /\ Len(ready_queue) = Len(Tail(ready_queue)) + 1
          /\ Len(Tail(ready_queue)) \in Nat
          /\ \A i \in 1 .. Len(Tail(ready_queue)) :
                i + 1 \in 1 .. Len(ready_queue) /\ Tail(ready_queue)[i] = ready_queue[i + 1]
      BY <1>1
    <3>2. Line' = batch \o Tail(ready_queue)
      BY <1>1, <2>1 DEF Line
    <3>3. p \in 1 .. Len(batch) \/ p - Len(batch) \in 1 .. Len(Tail(ready_queue))
      BY <1>1, <3>1, <3>2, Concatenation
    <3>4. CASE p \in 1 .. Len(batch)
      <4>1. Line'[p] = batch[p]
        BY <1>1, <3>1, <3>2, <3>4, Concatenation
      <4>2. Line[p] = batch[p] /\ p \in 1 .. Len(Line)
        BY <3>4, LineItems
      <4>. QED  BY <4>1, <4>2
    <3>5. CASE p - Len(batch) \in 1 .. Len(Tail(ready_queue))
      <4>1. PICK i \in 1 .. Len(Tail(ready_queue)) : i = p - Len(batch)
        BY <3>5
      <4>2. p = Len(batch) + i
        BY <4>1, LineItems
      <4>3. Line'[p] = Tail(ready_queue)[i]
        BY <1>1, <3>1, <3>2, <4>2, Concatenation
      <4>4. i + 1 \in 1 .. Len(ready_queue) /\ Line'[p] = ready_queue[i + 1]
        BY <3>1, <4>3
      <4>5. Line[Len(batch) + (i + 1)] = ready_queue[i + 1]
        BY <4>4, LineItems
      <4>6. Len(batch) + (i + 1) \in 1 .. Len(Line)
        BY <4>4, LineItems
      <4>. QED  BY <4>4, <4>5, <4>6
    <3>. QED  BY <3>3, <3>4, <3>5
  <2>. QED  BY <2>1, <2>2 DEF Breaks
<1>3. CASE ~ Head(ready_queue).error
  <2>1. pc' = "collect" /\ batch' = Append(batch, Head(ready_queue))
    BY <1>1, <1>3 DEF CollectItem
  <2>2. Line' = Line
    BY <1>1, <2>1, MoveHead DEF Line
  <2>. QED  BY <2>1, <2>2
<1>. QED  BY <1>2, <1>3

LEMMA TrainLine ==
    ASSUME TypeInv, BatchInv, Train
    PROVE  Shifts
<1>1. /\ Len(batch) = NumCollect /\ batch' = <<>> /\ UNCHANGED ready_queue
  BY DEF Train, BatchInv
<1>2. Line' = ready_queue
  <2>1. ready_queue \in Seq(QueuedRolloutBatch)
    BY LineItems
  <2>. QED  BY <1>1, <2>1 DEF Line
<1>. QED  BY <1>1, <1>2, LineItems DEF Shifts

LEMMA TrainerLine ==
    ASSUME BeginStep \/ FireGenerationRequests \/ FinishCollect \/ SaveModel \/ SaveData
              \/ WaitAllInflight \/ UpdateWeights
    PROVE  UNCHANGED <<batch, ready_queue, Line>>
BY DEF BeginStep, FireGenerationRequests, FinishCollect, SaveModel, SaveData,
       WaitAllInflight, UpdateWeights, Line

LEMMA RestartLine ==
    ASSUME Restart
    PROVE  batch' = <<>> /\ Line' = <<>> /\ Len(Line') = 0
BY DEF Restart, Line

LEMMA RolloutLine ==
    ASSUME TypeInv, PauseInv, RolloutSide,
           ~ \E k \in DOMAIN inflight_tasks : Accepts(k) \/ Raises(k)
    PROVE  Line' = Line
<1>1. UNCHANGED ready_queue
  BY RolloutCases DEF Aborts, Proceeds, Refuses
<1>. QED  BY <1>1, RolloutFrame DEF Line

----------------------------------------------------------------------------
\* The batch under collection.

LEMMA StepBatchInv == TypeInv /\ BatchInv /\ [Next]_vars => BatchInv'
<1>. SUFFICES ASSUME TypeInv, BatchInv, [Next]_vars PROVE BatchInv'
  OBVIOUS
<1>1. batch \in Seq(QueuedRolloutBatch) /\ NumCollect \in Nat
  BY LineItems, Constants DEF NumCollect
<1>2. CASE CollectItem
  <2>1. pc = "collect" /\ pc' \in {"collect", "failed"} /\ Len(batch) < NumCollect
    BY <1>2 DEF CollectItem
  <2>2. CASE UNCHANGED batch
    BY <2>1, <2>2 DEF BatchInv
  <2>3. CASE ~ UNCHANGED batch
    <3>. DEFINE item == Head(ready_queue)
    <3>1. ~ item.error /\ batch' = Append(batch, item) /\ ready_queue # <<>>
      BY <1>2, <2>3 DEF CollectItem
    <3>2. item \in QueuedRolloutBatch
      BY <3>1, LineItems
    <3>. HIDE DEF item
    <3>3. /\ Len(batch') = Len(batch) + 1 /\ Len(batch) \in Nat
          /\ \A i \in 1 .. Len(batch) : batch'[i] = batch[i]
          /\ batch'[Len(batch) + 1] = item
      BY <1>1, <3>1, <3>2
    <3>4. Len(batch') <= NumCollect
      BY <1>1, <2>1, <3>3
    <3>5. \A i \in 1 .. Len(batch') : ~ batch'[i].error
      BY <3>1, <3>3 DEF BatchInv
    <3>. QED  BY <2>1, <3>4, <3>5 DEF BatchInv
  <2>. QED  BY <2>2, <2>3
<1>3. CASE FinishCollect
  BY <1>3 DEF FinishCollect, BatchInv
<1>4. CASE Train \/ Restart
  <2>1. batch' = <<>> /\ pc' # "train"
    BY <1>4 DEF Train, AfterTrain, Restart, AfterBoot, LoopTop, AfterLoop
  <2>. QED  BY <1>1, <2>1 DEF BatchInv
<1>5. CASE BeginStep \/ FireGenerationRequests \/ SaveModel \/ SaveData \/ WaitAllInflight
              \/ UpdateWeights
  <2>1. UNCHANGED batch /\ pc \notin {"collect", "train", "failed"} /\ pc' # "train"
    BY <1>5 DEF BeginStep, FireGenerationRequests, SaveModel, SaveData, AfterSave,
         WaitAllInflight, UpdateWeights, LoopTop, AfterLoop
  <2>. QED  BY <2>1 DEF BatchInv
<1>6. CASE RolloutSide
  <2>1. UNCHANGED <<pc, batch>>
    BY <1>6, RolloutFrame
  <2>. QED  BY <2>1 DEF BatchInv
<1>. QED  BY <1>2, <1>3, <1>4, <1>5, <1>6, NextCases

----------------------------------------------------------------------------
\* The table of pending microbatches.

LEMMA PendingTypes ==
    ASSUME TypeInv
    PROVE  /\ DOMAIN pending \subseteq Dispatch /\ DOMAIN inflight_tasks \subseteq DOMAIN pending
           /\ pending \in [DOMAIN pending -> PendingMicrobatch]
           /\ inflight_tasks \in [DOMAIN inflight_tasks -> Task]
           /\ Accepted \subseteq DOMAIN pending
           /\ IsFiniteSet(DOMAIN pending) /\ Cardinality(DOMAIN pending) \in Nat
           /\ IsFiniteSet(Accepted) /\ Cardinality(Accepted) \in Nat
<1>1. /\ DOMAIN pending \subseteq Dispatch /\ DOMAIN inflight_tasks \subseteq DOMAIN pending
      /\ pending \in [DOMAIN pending -> PendingMicrobatch]
      /\ inflight_tasks \in [DOMAIN inflight_tasks -> Task]
  BY DEF TypeInv, TypeOK, DispatchTypeOK
<1>2. Accepted \subseteq DOMAIN pending
  BY DEF Accepted
<1>3. Accepted \subseteq Dispatch
  BY <1>1, <1>2
<1>. QED  BY <1>1, <1>2, <1>3, DispatchFinite

LEMMA FirePending ==
    ASSUME TypeInv, KeyInv, FireGenerationRequests
    PROVE  /\ DOMAIN pending' = DOMAIN pending \cup Fired /\ Accepted' = Accepted
           /\ DOMAIN inflight_tasks' = DOMAIN inflight_tasks \cup Fired
           /\ \A k \in DOMAIN inflight_tasks : inflight_tasks'[k] = inflight_tasks[k]
           /\ \A k \in Fired : /\ Phase(k)' = "created" /\ inflight_tasks'[k].weights = 0
                              /\ ~ pending'[k].rollout_consumed
           /\ \A k \in Fired : k \notin DOMAIN pending /\ fired_step <= k[1] /\ k[1] < ChunkEnd
           /\ fired_step \in Nat /\ ChunkEnd \in Nat /\ fired_step < ChunkEnd
           /\ fired_step' = ChunkEnd
<1>1. pc = "fire" /\ fired_step' = ChunkEnd
  BY DEF FireGenerationRequests
<1>2. fired_step \in Nat /\ ChunkEnd \in Nat /\ fired_step < ChunkEnd
  <2>1. fired_step \in Nat /\ fire_target \in Nat
    BY DEF TypeInv, TypeOK, TrainerTypeOK
  <2>2. ChunkEnd \in 0 .. fire_target /\ fired_step < ChunkEnd
    BY <1>1, ChunkBounds
  <2>. QED  BY <2>1, <2>2
<1>3. \A k \in Fired : k \notin DOMAIN pending /\ fired_step <= k[1] /\ k[1] < ChunkEnd
  BY <1>2, PendingTypes DEF Fired, KeyInv, Dispatch
<1>4. /\ DOMAIN pending' = DOMAIN pending \cup Fired
      /\ \A k \in DOMAIN pending \cup Fired :
            pending'[k] = IF k \in Fired
                          THEN [raw |-> PromptOf(k), rollout_consumed |-> FALSE,
                                train_consumed |-> FALSE]
                          ELSE pending[k]
  BY DEF FireGenerationRequests
<1>5. ASSUME NEW k \in Fired PROVE ~ pending'[k].rollout_consumed
  <2>. DEFINE r == PromptOf(k)
  <2>1. pending'[k] = [raw |-> r, rollout_consumed |-> FALSE, train_consumed |-> FALSE]
    BY <1>4
  <2>. HIDE DEF r
  <2>. QED  BY <2>1
<1>6. Accepted' = Accepted
  BY <1>3, <1>4, <1>5 DEF Accepted
<1>7. /\ DOMAIN inflight_tasks' = DOMAIN inflight_tasks \cup Fired
      /\ \A k \in Fired : Phase(k)' = "created" /\ inflight_tasks'[k].weights = 0
      /\ \A k \in DOMAIN inflight_tasks \ Fired : inflight_tasks'[k] = inflight_tasks[k]
  BY DEF FireGenerationRequests, Phase
<1>8. \A k \in DOMAIN inflight_tasks : inflight_tasks'[k] = inflight_tasks[k]
  BY <1>3, <1>7, PendingTypes
<1>. QED  BY <1>1, <1>2, <1>3, <1>4, <1>5, <1>6, <1>7, <1>8

LEMMA AcceptPending ==
    ASSUME TypeInv, NEW k \in DOMAIN inflight_tasks, Accepts(k)
    PROVE  /\ DOMAIN pending' = DOMAIN pending /\ k \in DOMAIN pending
           /\ Accepted' = Accepted \cup {k}
BY PendingTypes DEF Accepts, Accepted, PendingMicrobatch

LEMMA PendingKept ==
    ASSUME TypeInv, PauseInv, [Next]_vars,
           ~ BeginStep, ~ FireGenerationRequests, ~ Restart,
           ~ \E k \in DOMAIN inflight_tasks : Accepts(k)
    PROVE  DOMAIN pending' = DOMAIN pending /\ Accepted' = Accepted
<1>1. CASE CollectItem
  <2>1. pending \in [DOMAIN pending -> PendingMicrobatch]
    BY PendingTypes
  <2>2. \/ pending' = pending
        \/ pending' = [k \in DOMAIN pending |->
                         IF k = Head(ready_queue).key
                         THEN [pending[k] EXCEPT !.train_consumed = TRUE]
                         ELSE pending[k]]
    BY <1>1 DEF CollectItem
  <2>3. /\ DOMAIN pending' = DOMAIN pending
        /\ \A k \in DOMAIN pending :
              pending'[k].rollout_consumed = pending[k].rollout_consumed
    BY <2>1, <2>2 DEF PendingMicrobatch
  <2>. QED  BY <2>3 DEF Accepted
<1>2. CASE RolloutSide
  <2>1. UNCHANGED pending
    BY <1>2, RolloutCases DEF Aborts, Proceeds, Refuses, Raises
  <2>. QED  BY <2>1 DEF Accepted
<1>3. CASE FinishCollect \/ Train \/ SaveModel \/ SaveData \/ WaitAllInflight \/ UpdateWeights
  BY <1>3 DEF FinishCollect, Train, SaveModel, SaveData, WaitAllInflight, UpdateWeights,
              Accepted
<1>. QED  BY <1>1, <1>2, <1>3, NextCases

----------------------------------------------------------------------------
\* Keys.

LEMMA KeysStay ==
    ASSUME KeyInv, UNCHANGED fired_step, DOMAIN pending' = DOMAIN pending, Accepted' = Accepted,
           \A p \in 1 .. Len(Line') : \E q \in 1 .. Len(Line) : Line'[p] = Line[q]
    PROVE  KeyInv'
BY DEF KeyInv

LEMMA JoinKeys ==
    ASSUME TypeInv, PauseInv, KeyInv, RolloutSide, NEW k \in DOMAIN inflight_tasks,
           Accepts(k) \/ Raises(k)
    PROVE  KeyInv'
<1>1. /\ UNCHANGED fired_step /\ Len(Line) \in Nat /\ k \in DOMAIN pending /\ k[1] < fired_step
      /\ RbMultiplier \in Nat
  BY RolloutFrame, LineItems, PendingTypes, Constants DEF KeyInv
<1>2. /\ DOMAIN pending' = DOMAIN pending
      /\ Accepted \subseteq Accepted'
      /\ Accepts(k) => k \in Accepted'
  <2>1. CASE Accepts(k)
    BY <2>1, AcceptPending
  <2>2. CASE Raises(k)
    BY <2>2 DEF Raises, Accepts, Accepted
  <2>. QED  BY <2>1, <2>2
<1>3. ASSUME NEW p \in 1 .. Len(Line')
      PROVE  \/ p \in 1 .. Len(Line) /\ Line'[p] = Line[p]
             \/ Line'[p].key = k /\ (Raises(k) => Line'[p].error)
  <2>1. PICK n \in Nat, e \in BOOLEAN : Joins(k, n, e) /\ (Raises(k) => e)
    <3>1. CASE Accepts(k)
      BY <1>1, <3>1 DEF Accepts, Raises, Phase
    <3>2. CASE Raises(k)
      BY <3>2 DEF Raises
    <3>. QED  BY <3>1, <3>2
  <2>2. p \in 1 .. Len(Line) \/ p \in Len(Line) + 1 .. Len(Line) + n
    BY <1>1, <2>1 DEF Joins
  <2>3. Item(k, e).key = k /\ Item(k, e).error = e
    BY DEF Item
  <2>. QED  BY <2>1, <2>2, <2>3 DEF Joins
<1>. QED  BY <1>1, <1>2, <1>3 DEF KeyInv

LEMMA StepKeyInv == TypeInv /\ PauseInv /\ BatchInv /\ KeyInv /\ [Next]_vars => KeyInv'
<1>. SUFFICES ASSUME TypeInv, PauseInv, BatchInv, KeyInv, [Next]_vars PROVE KeyInv'
  OBVIOUS
<1>1. CASE BeginStep
  <2>1. DOMAIN pending' = {} /\ UNCHANGED <<fired_step, Line>>
    BY <1>1, TrainerLine DEF BeginStep, EmptyDict
  <2>. QED  BY <2>1 DEF KeyInv
<1>2. CASE FireGenerationRequests
  <2>1. Line' = Line
    BY <1>2, TrainerLine
  <2>2. ASSUME NEW k \in DOMAIN pending' PROVE k[1] < fired_step'
    <3>1. CASE k \in Fired
      BY <1>2, <3>1, FirePending
    <3>2. CASE k \in DOMAIN pending
      <4>1. k[1] < fired_step /\ k[1] \in Nat
        BY <3>2, PendingTypes DEF KeyInv, Dispatch
      <4>. QED  BY <1>2, <4>1, FirePending
    <3>. QED  BY <1>2, <3>1, <3>2, FirePending
  <2>3. ASSUME NEW p \in 1 .. Len(Line)
        PROVE  /\ Line[p].key[1] < fired_step'
               /\ ~ Line[p].error /\ Line[p].key \in DOMAIN pending' => Line[p].key \in Accepted'
    <3>1. Line[p].key[1] < fired_step /\ Line[p].key[1] \in Nat
      <4>1. Line[p] \in QueuedRolloutBatch
        BY LineItems
      <4>2. Line[p].key \in Dispatch
        BY <4>1 DEF QueuedRolloutBatch
      <4>. QED  BY <4>2 DEF KeyInv, Dispatch
    <3>2. Line[p].key \notin Fired
      BY <1>2, <3>1, FirePending
    <3>. QED  BY <1>2, <3>1, <3>2, FirePending DEF KeyInv
  <2>. QED  BY <2>1, <2>2, <2>3 DEF KeyInv
<1>3. CASE Restart
  <2>1. DOMAIN pending' = {} /\ Len(Line') = 0
    BY <1>3, RestartLine DEF Restart, EmptyDict
  <2>. QED  BY <2>1 DEF KeyInv
<1>4. CASE RolloutSide /\ \E k \in DOMAIN inflight_tasks : Accepts(k) \/ Raises(k)
  BY <1>4, JoinKeys
<1>5. CASE /\ ~ BeginStep /\ ~ FireGenerationRequests /\ ~ Restart
           /\ RolloutSide => ~ \E k \in DOMAIN inflight_tasks : Accepts(k) \/ Raises(k)
  <2>1. ASSUME ~ RolloutSide, NEW k \in DOMAIN inflight_tasks PROVE ~ Accepts(k)
    <3>1. UNCHANGED step_collected_rb
      BY <1>5, <2>1, NextCases DEF CollectItem, FinishCollect, Train, SaveModel, SaveData,
         WaitAllInflight, UpdateWeights, windowVars
    <3>2. step_collected_rb \in Nat /\ RbMultiplier \in Nat \ {0}
      BY Constants DEF TypeInv, TypeOK, WindowTypeOK
    <3>3. Accepts(k) => step_collected_rb' = step_collected_rb + RbMultiplier
      BY DEF Accepts
    <3>. QED  BY <3>1, <3>2, <3>3
  <2>2. DOMAIN pending' = DOMAIN pending /\ Accepted' = Accepted
    BY <1>5, <2>1, PendingKept
  <2>3. UNCHANGED fired_step
    BY <1>5, RolloutFrame, NextCases DEF CollectItem, FinishCollect, Train, SaveModel, SaveData,
       WaitAllInflight, UpdateWeights
  <2>4. \A p \in 1 .. Len(Line') : \E q \in 1 .. Len(Line) : Line'[p] = Line[q]
    <3>1. CASE CollectItem
      BY <3>1, CollectLine DEF Breaks
    <3>2. CASE Train
      <4>1. Len(Line) \in Nat /\ NumCollect \in Nat
        BY LineItems, Constants DEF NumCollect
      <4>. QED  BY <3>2, <4>1, TrainLine DEF Shifts
    <3>3. CASE RolloutSide
      BY <1>5, <3>3, RolloutLine
    <3>. QED  BY <1>5, <3>1, <3>2, <3>3, TrainerLine, NextCases
  <2>. QED  BY <2>2, <2>3, <2>4, KeysStay
<1>. QED  BY <1>1, <1>2, <1>3, <1>4, <1>5

----------------------------------------------------------------------------
\* The window's counters.

LEMMA Distribute ==
    ASSUME NEW a \in Int, NEW b \in Int, NEW n \in Int
    PROVE  /\ a * n \in Int /\ (a + b) * n = a * n + b * n /\ (a - b) * n = a * n - b * n
           /\ (a + 1) * n = a * n + n
           /\ n \in Nat /\ a <= b => a * n <= b * n
           /\ n \in Nat \ {0} /\ a * n < b * n => a < b
<1>1. /\ a * n \in Int /\ b * n \in Int /\ (a + b) * n = a * n + b * n
      /\ (a - b) * n = a * n - b * n /\ (a + 1) * n = a * n + n
  OBVIOUS
<1>2. ASSUME NEW x \in Int, NEW y \in Int, n \in Nat, x <= y PROVE x * n <= y * n
  <2>1. PICK d \in Nat : y = x + d
    <3>1. y - x \in Nat /\ y = x + (y - x)
      BY <1>2
    <3>. QED  BY <3>1
  <2>2. y * n = x * n + d * n /\ d * n \in Nat /\ x * n \in Int
    BY <1>2, <2>1
  <2>. QED  BY <2>2
<1>3. ASSUME n \in Nat, a * n < b * n PROVE a < b
  <2>1. ~ (b <= a)
    BY <1>1, <1>2, <1>3
  <2>. QED  BY <2>1
<1>. QED  BY <1>1, <1>2, <1>3

\* A call fires at least NumMb microbatches for each of its steps.
LEMMA EnoughFired ==
    ASSUME TypeInv, KeyInv, FireGenerationRequests
    PROVE  /\ Cardinality(DOMAIN pending') >=
                Cardinality(DOMAIN pending) + (ChunkEnd - fired_step) * NumMb
           /\ Cardinality(DOMAIN pending') \in Nat
<1>. DEFINE steps == fired_step .. ChunkEnd - 1
            mbs == 0 .. NumMb - 1
<1>1. /\ fired_step \in Nat /\ ChunkEnd \in Nat /\ fired_step < ChunkEnd
      /\ ChunkEnd <= TotalSteps
  <2>1. ChunkEnd \in 0 .. fire_target /\ fire_target \in 0 .. TotalSteps
    BY ChunkBounds DEF FireGenerationRequests, TypeInv, TypeOK, TrainerTypeOK
  <2>. QED  BY <2>1, FirePending, Constants
<1>2. /\ IsFiniteSet(steps) /\ Cardinality(steps) = ChunkEnd - fired_step
      /\ IsFiniteSet(mbs) /\ Cardinality(mbs) = NumMb
  <2>1. ChunkEnd - 1 \in Int /\ NumMb - 1 \in Int /\ fired_step \in Int
    BY <1>1, Constants
  <2>2. IsFiniteSet(steps) /\ Cardinality(steps) = ChunkEnd - 1 - fired_step + 1
    BY <1>1, <2>1, FS_Interval
  <2>3. IsFiniteSet(mbs) /\ Cardinality(mbs) = NumMb - 1 - 0 + 1
    BY <2>1, Constants, FS_Interval
  <2>. QED  BY <1>1, <2>2, <2>3, Constants
<1>3. IsFiniteSet(steps \X mbs) /\ Cardinality(steps \X mbs) = (ChunkEnd - fired_step) * NumMb
  <2>. HIDE DEF steps, mbs
  <2>. QED  BY <1>2, FS_Product
<1>4. steps \X mbs \subseteq Fired
  <2>. SUFFICES ASSUME NEW k \in steps \X mbs PROVE k \in Fired
    OBVIOUS
  <2>1. k[1] \in steps /\ k[2] \in mbs /\ k = <<k[1], k[2]>>
    OBVIOUS
  <2>2. k[1] \in 0 .. TotalSteps - 1 /\ k[2] \in 0 .. OverFireMb - 1 /\ k[2] < NumMb
    BY <1>1, <2>1, Constants
  <2>3. k \in Dispatch
    BY <2>1, <2>2 DEF Dispatch
  <2>. QED  BY <2>1, <2>2, <2>3 DEF Fired
<1>5. IsFiniteSet(Fired) /\ Cardinality(Fired) \in Nat
  <2>1. Fired \subseteq Dispatch
    BY DEF Fired
  <2>. QED  BY <2>1, DispatchFinite
<1>6. Cardinality(steps \X mbs) <= Cardinality(Fired)
  <2>. HIDE DEF steps, mbs
  <2>. QED  BY <1>4, <1>5, FS_Subset
<1>7. /\ DOMAIN pending' = DOMAIN pending \cup Fired
      /\ DOMAIN pending \cap Fired = {}
  BY FirePending
<1>8. /\ IsFiniteSet(DOMAIN pending) /\ Cardinality(DOMAIN pending) \in Nat
  BY PendingTypes
<1>9. Cardinality(DOMAIN pending') = Cardinality(DOMAIN pending) + Cardinality(Fired)
  <2>1. Cardinality(DOMAIN pending \cap Fired) = 0
    BY <1>7, FS_EmptySet
  <2>2. Cardinality(DOMAIN pending \cup Fired)
          = Cardinality(DOMAIN pending) + Cardinality(Fired)
              - Cardinality(DOMAIN pending \cap Fired)
    BY <1>5, <1>8, FS_Union
  <2>. QED  BY <1>5, <1>7, <1>8, <2>1, <2>2
<1>10. (ChunkEnd - fired_step) * NumMb \in Int
  BY <1>1, Constants
<1>. QED  BY <1>3, <1>5, <1>6, <1>8, <1>9, <1>10

LEMMA CountTypes ==
    ASSUME TypeInv, LoopInv
    PROVE  /\ step_target_rb \in Nat /\ step_collected_rb \in Nat
           /\ fire_target \in Nat /\ fired_step \in Nat /\ fire_target - fired_step \in Nat
           /\ (fire_target - fired_step) * NumMb \in Nat
           /\ train_step \in Nat /\ fire_target <= TotalSteps
           /\ NumCollect \in Nat \ {0}
<1>1. /\ step_target_rb \in Nat /\ step_collected_rb \in Nat /\ train_step \in Nat
      /\ fire_target \in Nat /\ fired_step \in Nat /\ fire_target <= TotalSteps
  BY DEF TypeInv, TypeOK, WindowTypeOK, TrainerTypeOK
<1>2. fire_target - fired_step \in Nat
  BY <1>1 DEF LoopInv
<1>3. \A x \in Nat : x * NumMb \in Nat
  BY Constants
<1>4. NumCollect \in Nat \ {0}
  BY Constants DEF NumCollect
<1>. QED  BY <1>1, <1>2, <1>3, <1>4

LEMMA InitCountInv == Init => CountInv
<1>. SUFFICES ASSUME Init PROVE CountInv
  OBVIOUS
<1>1. TypeInv /\ LoopInv
  BY InitTypeInv, InitLoopInv
<1>2. /\ DOMAIN pending = {} /\ Accepted = {} /\ step_target_rb = 0 /\ step_collected_rb = 0
  BY DEF Init, EmptyDict, Accepted
<1>3. Cardinality({}) = 0
  BY FS_EmptySet
<1>4. /\ 0 = 0 * RbMultiplier /\ 0 <= 0
      /\ \A x \in Nat : 0 <= (0 + x) * RbMultiplier
  BY Constants
<1>5. (fire_target - fired_step) * NumMb \in Nat
  BY <1>1, CountTypes
<1>. QED  BY <1>2, <1>3, <1>4, <1>5 DEF CountInv

\* Only an acceptance counts, and begin_step starts over.
LEMMA CountersKept ==
    ASSUME TypeInv, PauseInv, [Next]_vars,
           ~ BeginStep, ~ Restart, ~ \E k \in DOMAIN inflight_tasks : Accepts(k)
    PROVE  UNCHANGED <<step_collected_rb, step_target_rb>>
<1>1. CASE RolloutSide
  BY <1>1, RolloutCases, RolloutFrame DEF Aborts, Proceeds, Refuses, Raises
<1>2. CASE ~ RolloutSide
  BY <1>2, NextCases DEF FireGenerationRequests, CollectItem, FinishCollect, Train, SaveModel,
     SaveData, WaitAllInflight, UpdateWeights, windowVars
<1>. QED  BY <1>1, <1>2

\* A task is accepted by no step of the trainer.
LEMMA AcceptIsRollout ==
    ASSUME TypeInv, [Next]_vars, NEW k \in DOMAIN inflight_tasks, Accepts(k), ~ BeginStep,
           ~ Restart
    PROVE  RolloutSide
<1>. SUFFICES ASSUME ~ RolloutSide PROVE FALSE
  OBVIOUS
<1>1. UNCHANGED step_collected_rb
  BY NextCases DEF FireGenerationRequests, CollectItem, FinishCollect, Train, SaveModel,
     SaveData, WaitAllInflight, UpdateWeights, windowVars
<1>2. step_collected_rb \in Nat /\ RbMultiplier \in Nat \ {0}
  BY Constants DEF TypeInv, TypeOK, WindowTypeOK
<1>3. step_collected_rb' = step_collected_rb + RbMultiplier
  BY DEF Accepts
<1>. QED  BY <1>1, <1>2, <1>3

LEMMA AcceptCountInv ==
    ASSUME TypeInv, LoopInv, TaskInv, CountInv, RolloutSide,
           NEW k \in DOMAIN inflight_tasks, Accepts(k)
    PROVE  CountInv'
<1>. DEFINE n == Cardinality(Accepted)
<1>1. /\ UNCHANGED <<fired_step, fire_target, step_target_rb>>
      /\ DOMAIN pending' = DOMAIN pending /\ Accepted' = Accepted \cup {k}
      /\ step_collected_rb' = step_collected_rb + RbMultiplier
      /\ step_collected_rb < step_target_rb
  <2>1. UNCHANGED <<fired_step, fire_target, step_target_rb>>
    BY RolloutFrame
  <2>2. step_collected_rb' = step_collected_rb + RbMultiplier /\ ~ TargetMet
    BY DEF Accepts
  <2>3. step_collected_rb < step_target_rb
    BY <2>2, CountTypes DEF TargetMet
  <2>. QED  BY <2>1, <2>2, <2>3, AcceptPending
<1>2. Cardinality(Accepted') = n + 1
  <2>1. k \notin Accepted
    BY DEF TaskInv, Accepts
  <2>2. IsFiniteSet(Accepted)
    BY PendingTypes
  <2>. QED  BY <1>1, <2>1, <2>2, FS_AddElement
<1>3. n \in Nat /\ RbMultiplier \in Nat \ {0} /\ step_collected_rb = n * RbMultiplier
  BY PendingTypes, Constants DEF CountInv
<1>4. PICK m \in Nat : step_target_rb = m * RbMultiplier
  BY DEF CountInv
<1>. HIDE DEF n
<1>5. (n + 1) * RbMultiplier = n * RbMultiplier + RbMultiplier
  BY <1>3, Distribute
<1>6. step_collected_rb' = (n + 1) * RbMultiplier
  BY <1>1, <1>3, <1>5
<1>7. n + 1 <= m
  <2>1. n * RbMultiplier < m * RbMultiplier
    BY <1>1, <1>3, <1>4
  <2>2. n < m
    BY <1>3, <1>4, <2>1, Distribute
  <2>. QED  BY <1>3, <1>4, <2>2
<1>8. (n + 1) * RbMultiplier <= m * RbMultiplier
  BY <1>3, <1>4, <1>7, Distribute
<1>9. step_collected_rb' <= step_target_rb'
  BY <1>1, <1>4, <1>6, <1>8
<1>. QED  BY <1>1, <1>2, <1>6, <1>9 DEF CountInv

LEMMA BeginCountInv ==
    ASSUME TypeInv, LoopInv, BeginStep
    PROVE  CountInv'
<1>1. /\ pending' = EmptyDict /\ step_collected_rb' = 0
      /\ step_target_rb' = (fire_target - fired_step) * NumMb * RbMultiplier
      /\ UNCHANGED <<fire_target, fired_step>>
  BY DEF BeginStep, ResetCollected, WindowTarget
<1>2. DOMAIN pending' = {} /\ Accepted' = {} /\ Cardinality({}) = 0
  BY <1>1, FS_EmptySet DEF EmptyDict, Accepted
<1>3. PICK m \in Nat : m = (fire_target - fired_step) * NumMb
  BY CountTypes
<1>4. /\ step_target_rb' = m * RbMultiplier /\ m * RbMultiplier \in Nat
      /\ 0 = 0 * RbMultiplier /\ (0 + m) * RbMultiplier = m * RbMultiplier
  BY <1>1, <1>3, Constants
<1>5. step_collected_rb' <= step_target_rb'
  BY <1>1, <1>4
<1>. QED  BY <1>1, <1>2, <1>3, <1>4, <1>5 DEF CountInv

LEMMA FireCountInv ==
    ASSUME TypeInv, LoopInv, KeyInv, CountInv, FireGenerationRequests
    PROVE  CountInv'
<1>1. /\ UNCHANGED <<fire_target, step_target_rb, step_collected_rb>>
      /\ fired_step' = ChunkEnd /\ Accepted' = Accepted
      /\ fired_step \in Nat /\ ChunkEnd \in Nat /\ fire_target \in Nat
  BY FirePending, CountTypes DEF FireGenerationRequests, windowVars
<1>. DEFINE c == Cardinality(DOMAIN pending)
            d == Cardinality(DOMAIN pending')
            before == (fire_target - fired_step) * NumMb
            after == (fire_target - ChunkEnd) * NumMb
            chunk == (ChunkEnd - fired_step) * NumMb
<1>2. c \in Nat /\ d \in Nat /\ d >= c + chunk
  BY EnoughFired, PendingTypes
<1>3. before \in Int /\ after \in Int /\ chunk \in Int /\ before = after + chunk
  <2>1. /\ fire_target - ChunkEnd \in Int /\ ChunkEnd - fired_step \in Int /\ NumMb \in Int
        /\ fire_target - fired_step = (fire_target - ChunkEnd) + (ChunkEnd - fired_step)
    BY <1>1, Constants
  <2>2. /\ ((fire_target - ChunkEnd) + (ChunkEnd - fired_step)) * NumMb = after + chunk
        /\ after \in Int /\ chunk \in Int
    BY <2>1, Distribute
  <2>. QED  BY <2>1, <2>2
<1>4. step_target_rb <= (c + before) * RbMultiplier
  BY DEF CountInv
<1>. HIDE DEF c, d, before, after, chunk
<1>5. c + before <= d + after /\ c + before \in Int /\ d + after \in Int
  BY <1>2, <1>3
<1>6. /\ (c + before) * RbMultiplier <= (d + after) * RbMultiplier
      /\ (c + before) * RbMultiplier \in Int /\ (d + after) * RbMultiplier \in Int
  BY <1>5, Distribute, Constants
<1>7. step_target_rb' <= (d + after) * RbMultiplier
  BY <1>1, <1>4, <1>6, CountTypes
<1>8. step_target_rb' <=
        (Cardinality(DOMAIN pending)' + (fire_target' - fired_step') * NumMb) * RbMultiplier
  BY <1>1, <1>7 DEF d, after
<1>. QED  BY <1>1, <1>8 DEF CountInv

LEMMA StepCountInv ==
    /\ TypeInv /\ PauseInv /\ LoopInv /\ KeyInv /\ TaskInv /\ CountInv
    /\ [Next]_vars
    => CountInv'
<1>. SUFFICES ASSUME TypeInv, PauseInv, LoopInv, KeyInv, TaskInv, CountInv, [Next]_vars
              PROVE  CountInv'
  OBVIOUS
<1>0. TypeInv' /\ LoopInv'
  BY StepTypeInv, StepLoopInv
<1>1. CASE BeginStep
  BY <1>1, BeginCountInv
<1>2. CASE FireGenerationRequests
  BY <1>2, FireCountInv
<1>3. CASE Restart
  <2>1. /\ DOMAIN pending' = {} /\ Accepted' = {} /\ Cardinality({}) = 0
        /\ step_target_rb' = 0 /\ step_collected_rb' = 0
    BY <1>3, FS_EmptySet DEF Restart, EmptyDict, Accepted
  <2>2. (fire_target' - fired_step') * NumMb \in Nat
    <3>1. fire_target' \in Nat /\ fired_step' \in Nat /\ fired_step' <= fire_target'
      BY <1>0 DEF TypeInv, TypeOK, TrainerTypeOK, LoopInv
    <3>2. \A a, b \in Nat : a <= b => b - a \in Nat
      OBVIOUS
    <3>4. fire_target' - fired_step' \in Nat
      BY <3>1, <3>2
    <3>3. \A x \in Nat : x * NumMb \in Nat
      BY Constants
    <3>. QED  BY <3>3, <3>4
  <2>3. 0 = 0 * RbMultiplier /\ 0 <= 0 /\ \A x \in Nat : 0 <= (0 + x) * RbMultiplier
    BY Constants
  <2>. QED  BY <2>1, <2>2, <2>3 DEF CountInv
<1>4. CASE /\ ~ BeginStep /\ ~ FireGenerationRequests /\ ~ Restart
           /\ \E k \in DOMAIN inflight_tasks : Accepts(k)
  BY <1>4, AcceptIsRollout, AcceptCountInv
<1>5. CASE /\ ~ BeginStep /\ ~ FireGenerationRequests /\ ~ Restart
           /\ ~ \E k \in DOMAIN inflight_tasks : Accepts(k)
  <2>1. /\ UNCHANGED <<step_collected_rb, step_target_rb>>
        /\ DOMAIN pending' = DOMAIN pending /\ Accepted' = Accepted
    BY <1>5, CountersKept, PendingKept
  <2>2. CASE UpdateWeights
    <3>1. /\ UNCHANGED fired_step
          /\ fire_target' \in Nat /\ fire_target <= fire_target'
      <4>1. FireTarget(train_step) >= fire_target
        BY TargetReached
      <4>2. fire_target' \in {fire_target, FireTarget(train_step)}
        BY <2>2 DEF UpdateWeights
      <4>3. fire_target' \in Nat
        BY <1>0 DEF TypeInv, TypeOK, TrainerTypeOK
      <4>4. fire_target <= fire_target'
        BY <4>1, <4>2, CountTypes
      <4>. QED  BY <2>2, <4>3, <4>4 DEF UpdateWeights
    <3>. DEFINE c == Cardinality(DOMAIN pending)
                before == (fire_target - fired_step) * NumMb
                after == (fire_target' - fired_step) * NumMb
    <3>2. before \in Int /\ after \in Int /\ before <= after
      <4>1. /\ fire_target - fired_step \in Int /\ fire_target' - fired_step \in Int
            /\ fire_target - fired_step <= fire_target' - fired_step
        BY <3>1, CountTypes
      <4>. QED  BY <4>1, Distribute, Constants
    <3>3. c \in Nat
      BY PendingTypes
    <3>4. step_target_rb <= (c + before) * RbMultiplier
      BY DEF CountInv
    <3>. HIDE DEF c, before, after
    <3>5. c + before \in Int /\ c + after \in Int /\ c + before <= c + after
      BY <3>2, <3>3
    <3>6. /\ (c + before) * RbMultiplier \in Int /\ (c + after) * RbMultiplier \in Int
          /\ (c + before) * RbMultiplier <= (c + after) * RbMultiplier
      BY <3>5, Distribute, Constants
    <3>7. step_target_rb' <= (c + after) * RbMultiplier
      BY <2>1, <3>4, <3>6, CountTypes
    <3>8. step_target_rb' <=
            (Cardinality(DOMAIN pending)' + (fire_target' - fired_step') * NumMb)
               * RbMultiplier
      BY <2>1, <3>1, <3>7 DEF c, after
    <3>. QED  BY <2>1, <3>8 DEF CountInv
  <2>3. CASE ~ UpdateWeights
    <3>1. UNCHANGED <<fire_target, fired_step>>
      <4>1. CASE RolloutSide
        BY <4>1, RolloutFrame
      <4>2. CASE ~ RolloutSide
        BY <1>5, <2>3, <4>2, NextCases DEF CollectItem, FinishCollect, Train, SaveModel,
           SaveData, WaitAllInflight
      <4>. QED  BY <4>1, <4>2
    <3>. QED  BY <2>1, <3>1 DEF CountInv
  <2>. QED  BY <2>2, <2>3
<1>. QED  BY <1>1, <1>2, <1>3, <1>4, <1>5

----------------------------------------------------------------------------
\* Tasks.

LEMMA InitRest == Init => BatchInv /\ KeyInv /\ TaskInv
<1>. SUFFICES ASSUME Init PROVE BatchInv /\ KeyInv /\ TaskInv
  OBVIOUS
<1>1. /\ batch = <<>> /\ Len(batch) = 0 /\ Line = <<>> /\ Len(Line) = 0
      /\ DOMAIN pending = {} /\ DOMAIN inflight_tasks = {} /\ pc = "begin_step"
  BY DEF Init, Line, EmptyDict
<1>2. NumCollect \in Nat
  BY Constants DEF NumCollect
<1>. QED  BY <1>1, <1>2 DEF BatchInv, KeyInv, TaskInv, Clean

\* When every task of a window has ended and none failed, the window has
\* collected its target: nothing counted is still to come.
LEMMA DoneMeetsTarget ==
    ASSUME TypeInv, LoopInv, TaskInv, CountInv, pc \in {"collect", "drain"},
           \A k \in DOMAIN inflight_tasks : Phase(k) = "done"
    PROVE  TargetMet
<1>. SUFFICES ASSUME ~ TargetMet PROVE FALSE
  OBVIOUS
<1>1. DOMAIN inflight_tasks = DOMAIN pending
  BY DEF TaskInv
<1>2. Accepted = DOMAIN pending
  BY <1>1, PendingTypes DEF TaskInv
<1>3. fire_target - fired_step = 0
  BY CountTypes DEF LoopInv
<1>4. (fire_target - fired_step) * NumMb = 0
  BY <1>3, Constants
<1>. DEFINE n == Cardinality(Accepted)
<1>5. n \in Nat /\ step_collected_rb = n * RbMultiplier
  BY PendingTypes DEF CountInv
<1>6. step_target_rb <= (n + 0) * RbMultiplier
  BY <1>2, <1>4 DEF CountInv
<1>. HIDE DEF n
<1>7. n + 0 = n
  BY <1>5
<1>. QED  BY <1>5, <1>6, <1>7, CountTypes DEF TargetMet

LEMMA RolloutTaskInv ==
    ASSUME TypeInv, PauseInv, LoopInv, TaskInv, RolloutSide
    PROVE  TaskInv'
<1>1. UNCHANGED <<pc, step_target_rb>>
  BY RolloutFrame
<1>2. step_collected_rb \in Nat /\ step_target_rb \in Nat /\ RbMultiplier \in Nat
      /\ Len(Line) \in Nat
  BY CountTypes, Constants, LineItems
<1>3. CASE Aborts
  <2>1. /\ DOMAIN inflight_tasks' = DOMAIN inflight_tasks
        /\ \A k \in DOMAIN inflight_tasks :
              Phase(k)' = Phase(k) \/ (Phase(k) = "engine" /\ Phase(k)' = "aborted")
        /\ UNCHANGED <<pending, Line, step_collected_rb>>
    BY <1>3, RolloutFrame DEF Aborts, Phase, Line
  <2>. QED  BY <1>1, <2>1 DEF TaskInv, Accepted, TargetMet, Clean
<1>4. ASSUME NEW k \in DOMAIN inflight_tasks, OthersKept(k),
             Proceeds(k) \/ Refuses(k) \/ Accepts(k) \/ Raises(k)
      PROVE  TaskInv'
  <2>1. /\ DOMAIN inflight_tasks' = DOMAIN inflight_tasks
        /\ \A j \in DOMAIN inflight_tasks \ {k} : Phase(j)' = Phase(j)
    BY <1>4 DEF OthersKept, Phase
  <2>2. CASE Proceeds(k) \/ Refuses(k)
    <3>1. UNCHANGED <<pending, Line, step_collected_rb>>
      BY <2>2, RolloutFrame DEF Proceeds, Refuses, Line
    <3>2. Accepted' = Accepted /\ TargetMet' = TargetMet
          /\ \A p : Clean(p)' = Clean(p)
      BY <1>1, <3>1 DEF Accepted, TargetMet, Clean
    <3>3. /\ Phase(k) \notin {"done", "failed"}
          /\ Phase(k)' # "done" \/ TargetMet
      BY <2>2 DEF Proceeds, Refuses
    <3>. QED  BY <1>1, <2>1, <3>1, <3>2, <3>3 DEF TaskInv
  <2>3. CASE Accepts(k)
    <3>1. DOMAIN pending' = DOMAIN pending /\ Accepted' = Accepted \cup {k}
      BY <2>3, AcceptPending
    <3>2. Phase(k) = "engine" /\ Phase(k)' = "done" /\ ~ TargetMet
      BY <2>3 DEF Accepts
    <3>3. Clean(Len(Line)) => Clean(Len(Line))'
      <4>. SUFFICES ASSUME Clean(Len(Line)), NEW p \in 1 .. Len(Line)'
                    PROVE  ~ Line'[p].error
        BY DEF Clean
      <4>1. p \in 1 .. Len(Line) \/ p \in Len(Line) + 1 .. Len(Line) + RbMultiplier
        BY <1>2, <2>3 DEF Accepts, Joins
      <4>2. ~ Item(k, FALSE).error
        BY DEF Item
      <4>. QED  BY <2>3, <4>1, <4>2 DEF Accepts, Joins, Clean
    <3>. QED  BY <1>1, <2>1, <3>1, <3>2, <3>3 DEF TaskInv
  <2>4. CASE Raises(k)
    <3>1. /\ Phase(k) \notin {"done", "failed"} /\ Phase(k)' = "failed"
          /\ Accepted' = Accepted /\ TargetMet' = TargetMet
          /\ DOMAIN pending' = DOMAIN pending
      BY <1>1, <2>4 DEF Raises, Accepted, TargetMet
    <3>. QED  BY <1>1, <2>1, <3>1 DEF TaskInv
  <2>. QED  BY <1>4, <2>2, <2>3, <2>4
<1>. QED  BY <1>3, <1>4, RolloutCases

LEMMA StepTaskInv ==
    /\ TypeInv /\ PauseInv /\ LoopInv /\ BatchInv /\ KeyInv /\ TaskInv /\ CountInv
    /\ [Next]_vars
    => TaskInv'
<1>. SUFFICES ASSUME TypeInv, PauseInv, LoopInv, BatchInv, KeyInv, TaskInv, CountInv,
                     [Next]_vars
              PROVE  TaskInv'
  OBVIOUS
<1>1. CASE BeginStep
  <2>1. /\ DOMAIN inflight_tasks = {} /\ UNCHANGED <<inflight_tasks, Line>>
        /\ DOMAIN pending' = {} /\ pc = "begin_step" /\ pc' = "fire"
    BY <1>1, TrainerLine DEF BeginStep, EmptyDict
  <2>2. Clean(Len(Line))
    BY <2>1 DEF TaskInv
  <2>. QED  BY <2>1, <2>2 DEF TaskInv, Clean
<1>2. CASE FireGenerationRequests
  <2>1. /\ UNCHANGED <<Line, step_target_rb, step_collected_rb>>
        /\ pc = "fire" /\ pc' \in {"fire", "collect"}
    BY <1>2, TrainerLine DEF FireGenerationRequests, windowVars
  <2>2. \A k \in DOMAIN inflight_tasks : Phase(k)' = Phase(k) /\ k \notin Fired
    BY <1>2, FirePending, PendingTypes DEF Phase
  <2>3. \A k \in Fired : Phase(k)' = "created" /\ k \notin Accepted
    BY <1>2, FirePending DEF Accepted
  <2>. QED  BY <1>2, <2>1, <2>2, <2>3, FirePending DEF TaskInv, Clean, TargetMet
<1>3. CASE Restart
  <2>1. DOMAIN pending' = {} /\ DOMAIN inflight_tasks' = {} /\ Len(Line') = 0
    BY <1>3, RestartLine DEF Restart, EmptyDict
  <2>. QED  BY <2>1 DEF TaskInv, Clean
<1>4. CASE RolloutSide
  BY <1>4, RolloutTaskInv
<1>5. CASE WaitAllInflight
  <2>1. /\ pc = "drain" /\ InflightIdle /\ DOMAIN inflight_tasks' = {}
        /\ pc' = IF \E k \in DOMAIN inflight_tasks : Phase(k) = "failed"
                 THEN "failed" ELSE "update"
        /\ UNCHANGED <<Line, windowVars>>
    BY <1>5, TrainerLine DEF WaitAllInflight, EmptyDict, Phase
  <2>2. CASE pc' = "failed"
    BY <2>1, <2>2 DEF TaskInv
  <2>3. CASE pc' # "failed"
    <3>1. \A k \in DOMAIN inflight_tasks : Phase(k) = "done"
      BY <2>1, <2>3 DEF InflightIdle, Phase
    <3>2. TargetMet
      BY <2>1, <3>1, DoneMeetsTarget
    <3>3. TargetMet'
      BY <2>1, <3>2 DEF TargetMet, windowVars
    <3>4. Clean(Len(Line)) /\ Clean(Len(Line))'
      BY <2>1, <3>1 DEF TaskInv, Clean
    <3>. QED  BY <2>1, <3>3, <3>4 DEF TaskInv
  <2>. QED  BY <2>2, <2>3
<1>6. CASE /\ ~ BeginStep /\ ~ FireGenerationRequests /\ ~ Restart
           /\ CollectItem \/ FinishCollect \/ Train \/ SaveModel \/ SaveData \/ UpdateWeights
  <2>1. /\ UNCHANGED <<step_target_rb, step_collected_rb, inflight_tasks>> /\ pc # "failed"
        /\ pc' \in {"update", "begin_step", "final_model", "final_data", "done"} =>
              pc \in {"update", "final_model", "final_data"}
    BY <1>6 DEF CollectItem, FinishCollect, Train, AfterTrain, SaveModel, SaveData, AfterSave,
         UpdateWeights, windowVars
  <2>2. \A k \in DOMAIN inflight_tasks : ~ Accepts(k)
    BY <2>1 DEF Accepts, Phase
  <2>3. DOMAIN pending' = DOMAIN pending /\ Accepted' = Accepted
    BY <1>6, <2>2, PendingKept
  <2>4. pc' = "failed" \/ (Clean(Len(Line)) => Clean(Len(Line))')
    <3>1. CASE CollectItem
      BY <3>1, CollectLine DEF Clean
    <3>2. CASE Train
      <4>1. Len(Line) \in Nat /\ NumCollect \in Nat
        BY LineItems, Constants DEF NumCollect
      <4>. QED  BY <3>2, <4>1, TrainLine DEF Shifts, Clean
    <3>. QED  BY <1>6, <3>1, <3>2, TrainerLine DEF Clean
  <2>. QED  BY <2>1, <2>3, <2>4 DEF TaskInv, TargetMet, Phase
<1>. QED  BY <1>1, <1>2, <1>3, <1>4, <1>5, <1>6, NextCases

----------------------------------------------------------------------------
\* The balance of a window: what is in line and what is still to be collected
\* are together the steps up to the window's target.

ToTrain == (fire_target - train_step) * NumCollect
StillDue == step_target_rb - step_collected_rb

BalanceInv == Unbroken =>
    /\ pc = "begin_step" => Len(Line) = (fired_step - train_step) * NumCollect
    /\ pc \in {"fire", "collect", "train", "save_model", "save_data", "drain", "update"} =>
          Len(Line) + StillDue = ToTrain
    /\ pc = "update" => TargetMet

\* A failed task has an error in line for the collector to find.
ErrorInv ==
    (\E k \in DOMAIN inflight_tasks : Phase(k) = "failed") =>
        pc = "failed" \/ ~ Clean(Len(Line))

WindowInv == /\ TypeInv /\ PauseInv /\ UpdateIdle
             /\ LoopInv /\ BatchInv /\ KeyInv /\ TaskInv /\ CountInv

LEMMA WindowInductive == Spec => []WindowInv
<1>1. Init => WindowInv
  BY InitTypeInv, InitPauseInv, InitUpdateIdle, InitLoopInv, InitRest, InitCountInv DEF WindowInv
<1>2. WindowInv /\ [Next]_vars => WindowInv'
  BY StepTypeInv, StepPauseInv, StepUpdateIdle, StepLoopInv, StepBatchInv, StepKeyInv,
     StepTaskInv, StepCountInv DEF WindowInv
<1>. QED  BY <1>1, <1>2, PTL DEF Spec

LEMMA BalanceTypes ==
    ASSUME WindowInv
    PROVE  /\ Len(Line) \in Nat /\ StillDue \in Nat /\ ToTrain \in Nat
           /\ fire_target \in Nat /\ fired_step \in Nat /\ train_step \in Nat
           /\ step_target_rb \in Nat /\ step_collected_rb \in Nat
           /\ NumCollect \in Nat \ {0}
<1>1. /\ Len(Line) \in Nat /\ fire_target \in Nat /\ fired_step \in Nat /\ train_step \in Nat
      /\ step_target_rb \in Nat /\ step_collected_rb \in Nat /\ NumCollect \in Nat \ {0}
  BY LineItems, CountTypes DEF WindowInv
<1>2. StillDue \in Nat
  BY <1>1 DEF WindowInv, CountInv, StillDue
<1>3. fire_target - train_step \in Nat
  BY <1>1, TargetReached DEF WindowInv
<1>4. \A x \in Nat : x * NumCollect \in Nat
  BY <1>1
<1>. QED  BY <1>1, <1>2, <1>3, <1>4 DEF ToTrain

\* What a step of the rollout side adds to Line it takes from what is due.
LEMMA RolloutBalance ==
    ASSUME WindowInv, BalanceInv, RolloutSide
    PROVE  BalanceInv'
<1>. SUFFICES ASSUME Unbroken' PROVE BalanceInv'
  BY DEF BalanceInv
<1>0. /\ TypeInv /\ PauseInv
      /\ UNCHANGED <<pc, train_step, fired_step, fire_target, step_target_rb>>
  BY RolloutFrame DEF WindowInv
<1>1. ASSUME NEW k \in DOMAIN inflight_tasks, Raises(k) PROVE FALSE
  <2>. DEFINE n == Len(Line)
  <2>1. n \in Nat /\ Len(Line') = n + 1
    BY <1>1, BalanceTypes DEF Raises, Joins
  <2>2. \A p \in n + 1 .. n + 1 : Line'[p] = Item(k, TRUE)
    BY <1>1 DEF Raises, Joins
  <2>. HIDE DEF n
  <2>4. n + 1 \in n + 1 .. n + 1 /\ n + 1 \in 1 .. n + 1
    BY <2>1
  <2>5. \A p \in 1 .. n + 1 : ~ Line'[p].error
    BY <2>1 DEF Unbroken, Clean
  <2>3. Item(k, TRUE).error
    BY DEF Item
  <2>. QED  BY <2>2, <2>3, <2>4, <2>5
<1>2. CASE \E k \in DOMAIN inflight_tasks : Accepts(k)
  <2>1. PICK k \in DOMAIN inflight_tasks : Accepts(k)
    BY <1>2
  <2>2. /\ Len(Line') = Len(Line) + RbMultiplier /\ RbMultiplier \in Nat
        /\ \A p \in 1 .. Len(Line) : Line'[p] = Line[p]
        /\ step_collected_rb' = step_collected_rb + RbMultiplier
    BY <2>1, Constants DEF Accepts, Joins
  <2>3. Unbroken
    BY SMTT(30), <1>0, <2>2, BalanceTypes DEF Unbroken, Clean
  <2>4. Len(Line') + StillDue' = Len(Line) + StillDue
    <3>1. PICK l \in Int, m \in Int, t \in Int, s \in Int :
             l = Len(Line) /\ m = RbMultiplier /\ t = step_target_rb /\ s = step_collected_rb
      BY <2>2, BalanceTypes
    <3>2. Len(Line') = l + m /\ step_collected_rb' = s + m /\ step_target_rb' = t
      BY <1>0, <2>2, <3>1
    <3>. QED  BY <3>1, <3>2 DEF StillDue
  <2>5. pc \notin {"begin_step", "update"}
    BY DEF WindowInv, TaskInv
  <2>. QED  BY <1>0, <2>3, <2>4, <2>5 DEF BalanceInv, ToTrain
<1>3. CASE ~ \E k \in DOMAIN inflight_tasks : Accepts(k)
  <2>1. Line' = Line
    BY <1>0, <1>1, <1>3, RolloutLine
  <2>2. UNCHANGED step_collected_rb
    BY <1>0, <1>1, <1>3, RolloutCases DEF Aborts, Proceeds, Refuses
  <2>3. Unbroken
    BY <1>0, <2>1 DEF Unbroken, Clean
  <2>. QED  BY <1>0, <2>1, <2>2, <2>3 DEF BalanceInv, ToTrain, StillDue, TargetMet
<1>. QED  BY <1>2, <1>3

\* The step that is trained holds no error: what is clean after it was clean
\* before.
LEMMA TrainCleanTo ==
    ASSUME WindowInv, Train, NEW p \in 0 .. Len(Line'), Clean(p)'
    PROVE  Clean(p + NumCollect)
<1>1. /\ Len(Line') \in Nat /\ Len(Line) = Len(Line') + NumCollect
      /\ \A q \in 1 .. Len(Line') : Line'[q] = Line[NumCollect + q]
      /\ pc = "train"
  BY TrainLine DEF WindowInv, Shifts, Train
<1>2. p + NumCollect \in 1 .. Len(Line) /\ p \in Nat
  BY <1>1, BalanceTypes
<1>. SUFFICES ASSUME NEW q \in 1 .. p + NumCollect PROVE ~ Line[q].error
  BY DEF Clean
<1>3. CASE q <= NumCollect
  <2>1. Len(batch) = NumCollect
    BY <1>1 DEF WindowInv, BatchInv
  <2>2. q \in 1 .. Len(batch)
    BY <1>2, <1>3, <2>1, BalanceTypes
  <2>. QED  BY <2>2, LineItems DEF WindowInv, BatchInv
<1>4. CASE ~ (q <= NumCollect)
  <2>. DEFINE n == Len(Line')
  <2>0. n \in Nat /\ p \in 0 .. n /\ NumCollect \in Nat
    BY <1>1, BalanceTypes
  <2>1. q - NumCollect \in 1 .. p /\ NumCollect + (q - NumCollect) = q
        /\ q - NumCollect \in 1 .. Len(Line')
    <3>. HIDE DEF n
    <3>1. \A x, m, c \in Nat : \A y \in 1 .. x + c :
             x \in 0 .. m /\ ~ (y <= c) =>
                y - c \in 1 .. x /\ c + (y - c) = y /\ y - c \in 1 .. m
      OBVIOUS
    <3>2. q - NumCollect \in 1 .. p /\ NumCollect + (q - NumCollect) = q
          /\ q - NumCollect \in 1 .. n
      BY <1>2, <1>4, <2>0, <3>1
    <3>. QED  BY <3>2 DEF n
  <2>2. ~ Line'[q - NumCollect].error
    BY <2>1 DEF Clean
  <2>. QED  BY <1>1, <2>1, <2>2
<1>. QED  BY <1>3, <1>4

LEMMA TrainClean ==
    ASSUME WindowInv, Train, Clean(Len(Line))'
    PROVE  Clean(Len(Line))
<1>1. Len(Line') \in Nat /\ Len(Line) = Len(Line') + NumCollect
  BY TrainLine DEF WindowInv, Shifts
<1>2. Clean(Len(Line') + NumCollect)
  BY <1>1, TrainCleanTo
<1>. QED  BY <1>1, <1>2

LEMMA TrainBalance ==
    ASSUME WindowInv, BalanceInv, Train
    PROVE  BalanceInv'
<1>. SUFFICES ASSUME Unbroken' PROVE BalanceInv'
  BY DEF BalanceInv
<1>1. /\ pc = "train" /\ train_step' = train_step + 1
      /\ pc' \in {"collect", "save_model", "drain"}
      /\ UNCHANGED <<fire_target, fired_step, step_target_rb, step_collected_rb>>
  BY DEF Train, AfterTrain, windowVars
<1>2. /\ Len(Line') \in Nat /\ Len(Line) = Len(Line') + NumCollect
      /\ \A p \in 1 .. Len(Line') : Line'[p] = Line[NumCollect + p]
  BY TrainLine DEF WindowInv, Shifts
<1>3. Unbroken
  BY <1>1, TrainClean DEF Unbroken
<1>4. Len(Line) + StillDue = ToTrain
  BY <1>1, <1>3 DEF BalanceInv
<1>5. ToTrain = ToTrain' + NumCollect /\ ToTrain' \in Int
  <2>. DEFINE a == fire_target - (train_step + 1)
  <2>1. a \in Int /\ fire_target - train_step = a + 1
    BY BalanceTypes
  <2>2. ToTrain = (a + 1) * NumCollect /\ ToTrain' = a * NumCollect
    BY <1>1, <2>1, Constants DEF ToTrain, NumCollect
  <2>. HIDE DEF a
  <2>. QED  BY SMTT(30), <2>1, <2>2, Distribute, BalanceTypes
<1>6. StillDue' = StillDue
  BY <1>1 DEF StillDue
<1>7. \A l, m, d, t, u, c \in Int :
         m = l + c /\ m + d = t /\ t = u + c => l + d = u
  OBVIOUS
<1>8. Len(Line') + StillDue = ToTrain'
  <2>1. /\ Len(Line') \in Int /\ Len(Line) \in Int /\ StillDue \in Int /\ ToTrain \in Int
        /\ NumCollect \in Int
    BY <1>2, BalanceTypes
  <2>. QED  BY <1>2, <1>4, <1>5, <1>7, <2>1
<1>. QED  BY <1>1, <1>6, <1>8 DEF BalanceInv

LEMMA WindowBalance ==
    ASSUME WindowInv, BalanceInv, BeginStep \/ UpdateWeights
    PROVE  BalanceInv'
<1>. SUFFICES ASSUME Unbroken' PROVE BalanceInv'
  BY DEF BalanceInv
<1>0. UNCHANGED <<Line, train_step, fired_step>> /\ pc # "failed"
  BY TrainerLine DEF BeginStep, UpdateWeights
<1>1. Unbroken
  BY <1>0 DEF Unbroken, Clean
<1>2. CASE BeginStep
  <2>1. /\ pc = "begin_step" /\ pc' = "fire" /\ UNCHANGED fire_target
        /\ step_target_rb' = (fire_target - fired_step) * NumMb * RbMultiplier
        /\ step_collected_rb' = 0
    BY <1>2 DEF BeginStep, WindowTarget, ResetCollected
  <2>. DEFINE a == fire_target - fired_step
              b == fired_step - train_step
  <2>2. a \in Int /\ b \in Int /\ fire_target - train_step = a + b
    BY BalanceTypes
  <2>3. /\ Len(Line) = b * NumCollect /\ ToTrain = (a + b) * NumCollect
        /\ step_target_rb' = a * NumMb * RbMultiplier
    BY <1>1, <2>1, <2>2 DEF BalanceInv, ToTrain
  <2>. HIDE DEF a, b
  <2>4. a * NumMb * RbMultiplier = a * NumCollect
    BY <2>2, Constants DEF NumCollect
  <2>5. (a + b) * NumCollect = a * NumCollect + b * NumCollect /\ a * NumCollect \in Int
        /\ b * NumCollect \in Int
    BY <2>2, Distribute, BalanceTypes
  <2>6. Len(Line) + (step_target_rb' - 0) = ToTrain
    BY <2>3, <2>4, <2>5
  <2>. QED  BY <1>0, <2>1, <2>6 DEF BalanceInv, ToTrain, StillDue
<1>3. CASE UpdateWeights
  <2>1. /\ pc = "update" /\ pc' \in {"begin_step", "collect", "final_model", "done"}
        /\ UNCHANGED <<step_target_rb, step_collected_rb>>
    BY <1>3 DEF UpdateWeights, LoopTop, AfterLoop, windowVars
  <2>2. LoopInv'
    BY <1>3, StepLoopInv DEF WindowInv, Next, TrainerStep
  <2>3. fired_step = fire_target /\ (pc' # "begin_step" => fired_step' = fire_target')
    BY <2>1, <2>2 DEF WindowInv, LoopInv
  <2>4. Len(Line) + StillDue = ToTrain
    BY <1>1, <2>1 DEF BalanceInv
  <2>5. CASE pc' = "begin_step"
    <3>1. StillDue = 0
      <4>1. TargetMet
        BY <1>1, <2>1 DEF BalanceInv
      <4>2. step_collected_rb <= step_target_rb
        BY DEF WindowInv, CountInv
      <4>. QED  BY <4>1, <4>2, BalanceTypes DEF StillDue, TargetMet
    <3>2. Len(Line) = (fired_step - train_step) * NumCollect
      BY <2>3, <2>4, <3>1, BalanceTypes DEF ToTrain
    <3>. QED  BY <1>0, <2>5, <3>2 DEF BalanceInv
  <2>6. CASE pc' # "begin_step"
    <3>1. fire_target' = fire_target
      BY <1>0, <2>3, <2>6
    <3>. QED  BY <1>0, <2>1, <2>4, <2>6, <3>1 DEF BalanceInv, ToTrain, StillDue
  <2>. QED  BY <2>5, <2>6
<1>. QED  BY <1>2, <1>3

LEMMA StepBalanceInv == WindowInv /\ BalanceInv /\ [Next]_vars => BalanceInv'
<1>. SUFFICES ASSUME WindowInv, BalanceInv, [Next]_vars PROVE BalanceInv'
  OBVIOUS
<1>1. CASE CollectItem
  <2>1. CASE pc' = "failed"
    BY <2>1 DEF BalanceInv, Unbroken
  <2>2. CASE pc' # "failed"
    <3>1. /\ UNCHANGED <<Line, train_step, fire_target, step_target_rb, step_collected_rb>>
          /\ pc = "collect" /\ pc' = "collect"
      BY <1>1, <2>2, CollectLine DEF CollectItem, WindowInv, windowVars
    <3>. QED  BY <3>1 DEF BalanceInv, Unbroken, Clean, ToTrain, StillDue
  <2>. QED  BY <2>1, <2>2
<1>2. CASE FireGenerationRequests \/ FinishCollect \/ SaveModel \/ SaveData
  <2>1. /\ UNCHANGED <<Line, train_step, fire_target, step_target_rb, step_collected_rb>>
        /\ pc # "failed" /\ pc' \notin {"begin_step", "update"}
    BY <1>2, TrainerLine DEF FireGenerationRequests, FinishCollect, SaveModel, SaveData,
       AfterSave, windowVars
  <2>2. pc' \in {"collect", "fire", "train", "save_model", "save_data", "drain"} =>
          pc \in {"collect", "fire", "train", "save_model", "save_data", "drain"}
    BY <1>2 DEF FireGenerationRequests, FinishCollect, SaveModel, SaveData, AfterSave
  <2>. QED  BY <2>1, <2>2 DEF BalanceInv, Unbroken, Clean, ToTrain, StillDue
<1>3. CASE WaitAllInflight
  <2>1. /\ UNCHANGED <<Line, train_step, fire_target, step_target_rb, step_collected_rb>>
        /\ pc = "drain" /\ pc' \in {"failed", "update"}
    BY <1>3, TrainerLine DEF WaitAllInflight, windowVars
  <2>2. ASSUME pc' = "update" PROVE TargetMet
    <3>1. \A k \in DOMAIN inflight_tasks : Phase(k) = "done"
      BY <1>3, <2>2 DEF WaitAllInflight, InflightIdle, Phase
    <3>. QED  BY <2>1, <3>1, DoneMeetsTarget DEF WindowInv
  <2>. QED  BY <2>1, <2>2 DEF BalanceInv, Unbroken, Clean, ToTrain, StillDue, TargetMet
<1>4. CASE Restart
  <2>1. /\ Len(Line') = 0 /\ step_target_rb' = 0 /\ step_collected_rb' = 0
        /\ pc' \in {"failed", "begin_step", "collect", "final_model", "done"}
    BY <1>4, RestartLine DEF Restart, AfterBoot, LoopTop, AfterLoop
  <2>2. CASE pc' \in {"failed", "final_model", "done"}
    BY <2>2 DEF BalanceInv, Unbroken
  <2>3. CASE pc' \in {"begin_step", "collect"}
    <3>1. /\ ~ Missing(model_ckpt) /\ pc' = AfterBoot(model_ckpt)
          /\ train_step' = model_ckpt /\ fired_step' = model_ckpt
          /\ fire_target' = FireTarget(model_ckpt)
      BY <1>4, <2>3 DEF Restart
    <3>2. model_ckpt \in Nat /\ model_ckpt \in 0 .. TotalSteps
      BY DEF WindowInv, TypeInv, TypeOK, DiskTypeOK
    <3>3. pc' = "collect" => fire_target' = model_ckpt
      BY <3>1, <3>2, FireTargetValues DEF AfterBoot
    <3>4. (model_ckpt - model_ckpt) * NumCollect = 0 /\ 0 + (0 - 0) = 0
      BY <3>2, BalanceTypes
    <3>. QED  BY <2>1, <2>3, <3>1, <3>3, <3>4 DEF BalanceInv, ToTrain, StillDue
  <2>. QED  BY <2>1, <2>2, <2>3
<1>. QED  BY <1>1, <1>2, <1>3, <1>4, WindowBalance, TrainBalance, RolloutBalance, NextCases

LEMMA InitBalanceInv == Init => BalanceInv
<1>. SUFFICES ASSUME Init PROVE BalanceInv
  OBVIOUS
<1>1. /\ pc = "begin_step" /\ Len(Line) = 0 /\ fired_step = 0 /\ train_step = 0
  BY DEF Init, Line
<1>2. (0 - 0) * NumCollect = 0
  BY Constants DEF NumCollect
<1>. QED  BY <1>1, <1>2 DEF BalanceInv

LEMMA BalanceInductive == Spec => [](WindowInv /\ BalanceInv)
<1>1. Spec => []BalanceInv
  <2>1. WindowInv /\ BalanceInv /\ [Next]_vars => BalanceInv'
    BY StepBalanceInv
  <2>. QED  BY <2>1, InitBalanceInv, WindowInductive, PTL DEF Spec
<1>. QED  BY <1>1, WindowInductive, PTL

\* At the end of a window the ready queue holds exactly the steps the pipeline
\* has prefetched: begin_step's target, _try_accept_completed_microbatch, the
\* pause and the drain never lose a counted microbatch nor let one too many in.
THEOREM WindowsAreExact == Spec => []WindowExact
<1>1. WindowInv /\ BalanceInv => WindowExact
  <2>. SUFFICES ASSUME WindowInv, BalanceInv, pc \in {"update", "begin_step"}
                PROVE  Len(ready_queue) = (fired_step - train_step) * NumCollect
    BY DEF WindowExact
  <2>1. DOMAIN inflight_tasks = {} /\ Unbroken
    BY DEF WindowInv, TaskInv, Unbroken
  <2>2. Len(Line) = Len(ready_queue)
    <3>1. Len(batch) = 0
      BY DEF WindowInv, BatchInv
    <3>. QED  BY <3>1, LineItems DEF WindowInv
  <2>3. CASE pc = "begin_step"
    BY <2>1, <2>2, <2>3 DEF BalanceInv
  <2>4. CASE pc = "update"
    <3>1. Len(Line) + StillDue = ToTrain /\ TargetMet
      BY <2>1, <2>4 DEF BalanceInv
    <3>2. StillDue = 0
      <4>1. step_collected_rb <= step_target_rb
        BY DEF WindowInv, CountInv
      <4>. QED  BY <3>1, <4>1, BalanceTypes DEF StillDue, TargetMet
    <3>3. fired_step = fire_target
      BY <2>4 DEF WindowInv, LoopInv
    <3>. QED  BY <2>2, <3>1, <3>2, <3>3, BalanceTypes DEF ToTrain
  <2>. QED  BY <2>3, <2>4
<1>. QED  BY <1>1, BalanceInductive, PTL

----------------------------------------------------------------------------
\* What the collector waits for.

\* While the collector waits for an empty queue, somebody still works.
NeverStarved ==
    pc = "collect" /\ ready_queue = <<>> /\ Len(batch) < NumCollect =>
        \E k \in DOMAIN inflight_tasks : Phase(k) \notin {"done", "failed"}

LEMMA StepErrorInv == WindowInv /\ ErrorInv /\ [Next]_vars => ErrorInv'
<1>. SUFFICES ASSUME WindowInv, ErrorInv, [Next]_vars PROVE ErrorInv'
  OBVIOUS
<1>0. TypeInv /\ PauseInv /\ KeyInv
  BY DEF WindowInv
<1>1. CASE CollectItem
  <2>1. UNCHANGED inflight_tasks
    BY <1>1 DEF CollectItem
  <2>2. pc' = "failed" \/ (UNCHANGED Line /\ pc # "failed")
    BY <1>0, <1>1, CollectLine DEF CollectItem
  <2>. QED  BY <2>1, <2>2 DEF ErrorInv, Clean, Phase
<1>2. CASE Train
  <2>1. UNCHANGED inflight_tasks /\ pc # "failed"
    BY <1>2 DEF Train
  <2>. QED  BY <1>2, <2>1, TrainClean DEF ErrorInv, Phase
<1>3. CASE FireGenerationRequests
  <2>1. UNCHANGED Line /\ pc # "failed"
    BY <1>3, TrainerLine DEF FireGenerationRequests
  <2>2. \A k \in DOMAIN inflight_tasks' :
           Phase(k)' = "failed" => k \in DOMAIN inflight_tasks /\ Phase(k) = "failed"
    BY <1>0, <1>3, FirePending DEF Phase
  <2>. QED  BY <2>1, <2>2 DEF ErrorInv, Clean
<1>4. CASE BeginStep \/ FinishCollect \/ SaveModel \/ SaveData \/ UpdateWeights
  <2>1. UNCHANGED <<Line, inflight_tasks>> /\ pc # "failed"
    BY <1>4, TrainerLine DEF BeginStep, FinishCollect, SaveModel, SaveData, UpdateWeights
  <2>. QED  BY <2>1 DEF ErrorInv, Clean, Phase
<1>5. CASE WaitAllInflight \/ Restart
  <2>1. DOMAIN inflight_tasks' = {}
    BY <1>5 DEF WaitAllInflight, Restart, EmptyDict
  <2>. QED  BY <2>1 DEF ErrorInv
<1>6. CASE RolloutSide
  <2>1. UNCHANGED pc
    BY <1>6, RolloutFrame
  <2>2. CASE Aborts
    <3>1. UNCHANGED Line
      BY <1>6, <2>2, RolloutFrame DEF Aborts, Line
    <3>2. /\ DOMAIN inflight_tasks' = DOMAIN inflight_tasks
          /\ \A k \in DOMAIN inflight_tasks : Phase(k)' = "failed" => Phase(k) = "failed"
      BY <2>2 DEF Aborts, Phase
    <3>. QED  BY <2>1, <3>1, <3>2 DEF ErrorInv, Clean
  <2>3. ASSUME NEW k \in DOMAIN inflight_tasks, OthersKept(k),
               Proceeds(k) \/ Refuses(k) \/ Accepts(k) \/ Raises(k)
        PROVE  ErrorInv'
    <3>. DEFINE n == Len(Line)
    <3>0. n \in Nat /\ RbMultiplier \in Nat
      BY BalanceTypes, Constants
    <3>1. CASE Raises(k)
      <4>1. Len(Line') = n + 1 /\ \A p \in n + 1 .. n + 1 : Line'[p] = Item(k, TRUE)
        BY <3>1 DEF Raises, Joins
      <4>2. Item(k, TRUE).error
        BY DEF Item
      <4>. HIDE DEF n
      <4>3. n + 1 \in 1 .. n + 1 /\ n + 1 \in n + 1 .. n + 1
        BY <3>0
      <4>4. ~ Clean(Len(Line))'
        BY <4>1, <4>2, <4>3 DEF Clean
      <4>. QED  BY <4>4 DEF ErrorInv
    <3>2. CASE ~ Raises(k)
      <4>1. /\ DOMAIN inflight_tasks' = DOMAIN inflight_tasks
            /\ \A j \in DOMAIN inflight_tasks : Phase(j)' = "failed" => Phase(j) = "failed"
        BY <2>3, <3>2 DEF OthersKept, Phase, Proceeds, Refuses, Accepts
      <4>2. Clean(Len(Line))' => Clean(Len(Line))
        <5>1. CASE Accepts(k)
          <6>1. Len(Line') = n + RbMultiplier /\ \A p \in 1 .. n : Line'[p] = Line[p]
            BY <5>1 DEF Accepts, Joins
          <6>. HIDE DEF n
          <6>2. \A p \in 1 .. n : p \in 1 .. n + RbMultiplier
            BY <3>0
          <6>. QED  BY <6>1, <6>2 DEF Clean, n
        <5>2. CASE ~ Accepts(k)
          <6>1. UNCHANGED <<ready_queue, batch>>
            BY <1>6, <2>3, <3>2, <5>2, RolloutFrame DEF Proceeds, Refuses
          <6>. QED  BY <6>1 DEF Line, Clean
        <5>. QED  BY <5>1, <5>2
      <4>. QED  BY <2>1, <4>1, <4>2 DEF ErrorInv
    <3>. QED  BY <3>1, <3>2
  <2>. QED  BY <1>0, <1>6, <2>2, <2>3, RolloutCases
<1>. QED  BY <1>1, <1>2, <1>3, <1>4, <1>5, <1>6, NextCases

\* collect_rollout_step never waits for a rollout batch nobody produces: with
\* the queue empty and its step incomplete, an agent still holds a task of the
\* window, for when all have ended either an error is queued or all that the
\* window owes is.
THEOREM CollectorIsServed == Spec => []NeverStarved
<1>1. WindowInv /\ BalanceInv /\ ErrorInv => NeverStarved
  <2>. SUFFICES ASSUME WindowInv, BalanceInv, ErrorInv,
                       pc = "collect", ready_queue = <<>>, Len(batch) < NumCollect,
                       \A k \in DOMAIN inflight_tasks : Phase(k) \in {"done", "failed"}
                PROVE  FALSE
    BY DEF NeverStarved
  <2>1. /\ Len(Line) = Len(batch)
        /\ \A p \in 1 .. Len(Line) : Line[p] = batch[p]
    BY LineItems DEF WindowInv
  <2>2. Clean(Len(Line)) /\ Unbroken
    BY <2>1 DEF WindowInv, BatchInv, Clean, Unbroken
  <2>3. \A k \in DOMAIN inflight_tasks : Phase(k) = "done"
    BY <2>2 DEF ErrorInv
  <2>4. StillDue <= 0
    <3>1. TargetMet
      BY <2>3, DoneMeetsTarget DEF WindowInv
    <3>. QED  BY <3>1, BalanceTypes DEF StillDue, TargetMet
  <2>5. Len(Line) + StillDue = (fire_target - train_step) * NumCollect
    BY <2>2 DEF BalanceInv, ToTrain
  <2>6. fire_target - train_step \in Int /\ 1 <= fire_target - train_step
    BY BalanceTypes, TargetReached DEF WindowInv
  <2>7. 1 * NumCollect <= (fire_target - train_step) * NumCollect /\ 1 * NumCollect = NumCollect
    <3>. DEFINE a == fire_target - train_step
    <3>1. a \in Int /\ 1 <= a
      BY <2>6
    <3>. HIDE DEF a
    <3>2. 1 * NumCollect <= a * NumCollect /\ 1 * NumCollect = NumCollect
      BY <3>1, BalanceTypes, Distribute
    <3>. QED  BY <3>2 DEF a
  <2>8. (fire_target - train_step) * NumCollect \in Int
    BY BalanceTypes DEF ToTrain
  <2>. QED  BY <2>1, <2>4, <2>5, <2>7, <2>8, BalanceTypes
<1>2. Init => ErrorInv
  BY DEF Init, ErrorInv, EmptyDict
<1>3. Spec => []ErrorInv
  BY <1>2, StepErrorInv, WindowInductive, PTL DEF Spec
<1>. QED  BY <1>1, <1>3, BalanceInductive, PTL

----------------------------------------------------------------------------
\* The age of what is trained.

\* A request on the engine runs on the weights the sampler has now; no weights
\* are newer than the trainer.
WeightInv ==
    /\ \A k \in DOMAIN inflight_tasks :
          /\ Phase(k) = "engine" => inflight_tasks[k].weights = sampler_weights
          /\ inflight_tasks[k].weights <= train_step
    /\ \A p \in 1 .. Len(Line) : Line[p].weights <= train_step

\* A place in Line is trained before its weights get too old.
InTime(p) == p <= (Line[p].weights + MaxStale + 1 - train_step) * NumCollect
FreshInv ==
    /\ pc # "failed" => \A p \in 1 .. Len(Line) : Clean(p) => InTime(p)
    /\ \A i \in DOMAIN batch : train_step - batch[i].weights <= MaxStale

LEMMA SamplerBehind ==
    ASSUME WindowInv
    PROVE  /\ sampler_weights \in Nat /\ sampler_weights <= train_step /\ train_step \in Nat
           /\ fire_target <= sampler_weights + MaxStale + 1
<1>1. /\ sampler_weights \in 0 .. TotalSteps /\ train_step \in Nat /\ steps_since_update \in Nat
  BY DEF WindowInv, TypeInv, TypeOK, TrainerTypeOK
<1>2. sampler_weights + steps_since_update = train_step /\ fire_target = FireTarget(sampler_weights)
  BY DEF WindowInv, LoopInv
<1>. QED  BY <1>1, <1>2, FireTargetValues

\* Only the engine gives a task its weights, the sampler's.
LEMMA TaskWeights ==
    ASSUME TypeInv, NEW k \in DOMAIN inflight_tasks,
           StartTask(k) \/ EngineSubmit(k) \/ NextTurn(k) \/ Complete(k)
              \/ HandleAbort(k) \/ Fail(k)
    PROVE  \/ inflight_tasks'[k].weights = sampler_weights
           \/ inflight_tasks'[k].weights = inflight_tasks[k].weights /\ Phase(k)' # "engine"
<1>1. inflight_tasks \in [DOMAIN inflight_tasks -> Task]
  BY PendingTypes
<1>2. CASE StartTask(k) \/ EngineSubmit(k) \/ Complete(k) \/ HandleAbort(k) \/ Fail(k)
  BY <1>1, <1>2 DEF StartTask, EngineSubmit, Complete, HandleAbort, Fail, SetPhase, Phase, Task
<1>3. CASE NextTurn(k)
  <2>. DEFINE t == inflight_tasks[k]
  <2>1. inflight_tasks' =
           [inflight_tasks EXCEPT
              ![k] = IF t.agent \in paused_agents
                     THEN [t EXCEPT !.phase = "aborted"]
                     ELSE [t EXCEPT !.phase = "sent", !.turn = t.turn + 1]]
    BY <1>3 DEF NextTurn
  <2>2. t \in Task
    BY <1>1
  <2>3. /\ [t EXCEPT !.phase = "aborted"].phase = "aborted"
        /\ [t EXCEPT !.phase = "aborted"].weights = t.weights
    BY <2>2 DEF Task
  <2>4. /\ [t EXCEPT !.phase = "sent", !.turn = t.turn + 1].phase = "sent"
        /\ [t EXCEPT !.phase = "sent", !.turn = t.turn + 1].weights = t.weights
    BY <2>2 DEF Task
  <2>. QED  BY <1>1, <2>1, <2>3, <2>4 DEF Phase
<1>. QED  BY <1>2, <1>3

LEMMA JoinWeights ==
    ASSUME WindowInv, WeightInv, NEW k \in DOMAIN inflight_tasks, NEW n \in Nat, NEW e,
           Joins(k, n, e), UNCHANGED train_step
    PROVE  \A p \in 1 .. Len(Line') : Line'[p].weights <= train_step'
<1>. SUFFICES ASSUME NEW p \in 1 .. Len(Line') PROVE Line'[p].weights <= train_step
  OBVIOUS
<1>1. p \in 1 .. Len(Line) \/ p \in Len(Line) + 1 .. Len(Line) + n
  BY BalanceTypes DEF Joins
<1>2. Item(k, e).weights <= train_step
  BY DEF Item, WeightInv
<1>. QED  BY <1>1, <1>2 DEF Joins, WeightInv

LEMMA StepWeightInv == WindowInv /\ WeightInv /\ [Next]_vars => WeightInv'
<1>. SUFFICES ASSUME WindowInv, WeightInv, [Next]_vars PROVE WeightInv'
  OBVIOUS
<1>0. TypeInv /\ PauseInv /\ KeyInv /\ TaskInv
  BY DEF WindowInv
<1>1. ASSUME UNCHANGED <<inflight_tasks, sampler_weights, train_step>>,
             \A p \in 1 .. Len(Line') : \E q \in 1 .. Len(Line) : Line'[p] = Line[q]
      PROVE  WeightInv'
  BY <1>1 DEF WeightInv, Phase
<1>2. CASE CollectItem
  <2>1. UNCHANGED <<inflight_tasks, sampler_weights, train_step>>
    BY <1>2 DEF CollectItem, learnerVars
  <2>. QED  BY <1>0, <1>1, <1>2, <2>1, CollectLine DEF Breaks
<1>3. CASE BeginStep \/ FinishCollect \/ SaveModel \/ SaveData
  <2>1. UNCHANGED <<inflight_tasks, sampler_weights, train_step>>
    BY <1>3 DEF BeginStep, FinishCollect, SaveModel, SaveData, learnerVars
  <2>. QED  BY <1>1, <1>3, <2>1, TrainerLine
<1>4. CASE FireGenerationRequests
  <2>1. UNCHANGED <<sampler_weights, train_step, Line>>
    BY <1>4, TrainerLine DEF FireGenerationRequests, learnerVars
  <2>2. \A k \in Fired : Phase(k)' # "engine" /\ inflight_tasks'[k].weights <= train_step
    BY <1>0, <1>4, FirePending, SamplerBehind
  <2>. QED  BY <1>0, <1>4, <2>1, <2>2, FirePending DEF WeightInv, Phase
<1>5. CASE Train
  <2>1. UNCHANGED <<inflight_tasks, sampler_weights>> /\ train_step' = train_step + 1
    BY <1>5 DEF Train
  <2>2. ASSUME NEW w \in Nat, w <= train_step PROVE w <= train_step'
    BY <2>1, <2>2, SamplerBehind
  <2>3. \A k \in DOMAIN inflight_tasks : inflight_tasks[k].weights <= train_step'
    BY <1>0, <2>2, PendingTypes DEF WeightInv, Task
  <2>4. \A p \in 1 .. Len(Line) : Line[p].weights <= train_step'
    <3>. SUFFICES ASSUME NEW p \in 1 .. Len(Line) PROVE Line[p].weights <= train_step'
      OBVIOUS
    <3>1. Line[p] \in QueuedRolloutBatch
      BY <1>0, LineItems
    <3>2. Line[p].weights \in Nat /\ Line[p].weights <= train_step
      BY <3>1 DEF WeightInv, QueuedRolloutBatch
    <3>. QED  BY <2>2, <3>2
  <2>5. \A p \in 1 .. Len(Line') : \E q \in 1 .. Len(Line) : Line'[p] = Line[q]
    <3>1. Len(Line) \in Nat /\ NumCollect \in Nat
      BY BalanceTypes
    <3>2. Shifts
      BY <1>5, TrainLine DEF WindowInv
    <3>. QED  BY <3>1, <3>2 DEF Shifts
  <2>. QED  BY <2>1, <2>3, <2>4, <2>5 DEF WeightInv, Phase
<1>6. CASE WaitAllInflight \/ UpdateWeights
  <2>1. DOMAIN inflight_tasks' = {} /\ UNCHANGED <<Line, train_step>>
    BY <1>6, TrainerLine DEF WaitAllInflight, UpdateWeights, EmptyDict, WindowInv, UpdateIdle
  <2>. QED  BY <2>1 DEF WeightInv
<1>7. CASE Restart
  <2>1. DOMAIN inflight_tasks' = {} /\ Len(Line') = 0
    BY <1>7, RestartLine DEF Restart, EmptyDict
  <2>. QED  BY <2>1 DEF WeightInv
<1>8. CASE RolloutSide
  <2>1. UNCHANGED <<sampler_weights, train_step>>
    BY <1>8, RolloutFrame DEF learnerVars
  <2>2. CASE Aborts
    <3>1. UNCHANGED Line
      BY <1>8, <2>2, RolloutFrame DEF Aborts, Line
    <3>. QED  BY <2>1, <2>2, <3>1 DEF Aborts, WeightInv, Phase
  <2>3. ASSUME NEW k \in DOMAIN inflight_tasks, OthersKept(k),
               StartTask(k) \/ EngineSubmit(k) \/ NextTurn(k) \/ Complete(k)
                  \/ HandleAbort(k) \/ Fail(k),
               Proceeds(k) \/ Refuses(k) \/ Accepts(k) \/ Raises(k)
        PROVE  WeightInv'
    <3>1. \A j \in DOMAIN inflight_tasks' :
             /\ Phase(j)' = "engine" => inflight_tasks'[j].weights = sampler_weights
             /\ inflight_tasks'[j].weights <= train_step
      BY <1>0, <2>3, TaskWeights, SamplerBehind DEF OthersKept, WeightInv, Phase
    <3>2. \A p \in 1 .. Len(Line') : Line'[p].weights <= train_step'
      <4>1. CASE Accepts(k) \/ Raises(k)
        BY <2>1, <4>1, JoinWeights, Constants DEF Accepts, Raises
      <4>2. CASE Proceeds(k) \/ Refuses(k)
        <5>1. UNCHANGED Line
          BY <1>8, <4>2, RolloutFrame DEF Proceeds, Refuses, Line
        <5>. QED  BY <2>1, <5>1 DEF WeightInv
      <4>. QED  BY <2>3, <4>1, <4>2
    <3>. QED  BY <2>1, <3>1, <3>2 DEF WeightInv
  <2>. QED  BY <1>0, <1>8, <2>2, <2>3, RolloutCases
<1>. QED  BY <1>2, <1>3, <1>4, <1>5, <1>6, <1>7, <1>8, NextCases

\* What is accepted is trained within the bound: its place in Line is at most
\* the one where the window's last step ends.
LEMMA AcceptsFresh ==
    ASSUME WindowInv, BalanceInv, WeightInv, FreshInv, RolloutSide,
           NEW k \in DOMAIN inflight_tasks, Accepts(k), pc # "failed",
           NEW p \in 1 .. Len(Line'), Clean(p)'
    PROVE  InTime(p)'
<1>0. /\ TypeInv /\ UNCHANGED <<pc, train_step, fire_target, step_target_rb>>
      /\ CountInv' /\ pc \in TrainerPcs
  <2>1. CountInv'
    BY StepCountInv DEF WindowInv, RolloutSide, Next
  <2>. QED  BY <2>1, RolloutFrame DEF WindowInv, TypeInv, TypeOK, TrainerTypeOK
<1>1. /\ Len(Line') = Len(Line) + RbMultiplier /\ RbMultiplier \in Nat /\ Len(Line) \in Nat
      /\ \A q \in 1 .. Len(Line) : Line'[q] = Line[q]
      /\ \A q \in Len(Line) + 1 .. Len(Line) + RbMultiplier : Line'[q] = Item(k, FALSE)
  BY Constants, BalanceTypes DEF Accepts, Joins
<1>2. CASE p \in 1 .. Len(Line)
  <2>1. Clean(p) /\ Line'[p] = Line[p]
    <3>1. \A q \in 1 .. p : q \in 1 .. Len(Line)
      BY <1>1, <1>2
    <3>. QED  BY <1>1, <1>2, <3>1 DEF Clean
  <2>. QED  BY <1>0, <1>2, <2>1 DEF FreshInv, InTime
<1>3. CASE p \notin 1 .. Len(Line)
  <2>1. p \in Len(Line) + 1 .. Len(Line) + RbMultiplier /\ p \in Nat
    BY <1>1, <1>3
  <2>2. Line'[p].weights = sampler_weights
    <3>1. Line'[p] = Item(k, FALSE)
      BY <1>1, <2>1
    <3>. QED  BY <3>1 DEF Item, Accepts, WeightInv
  <2>3. Unbroken
    <3>1. \A q \in 1 .. Len(Line) : q \in 1 .. p
      BY <1>1, <2>1
    <3>. QED  BY <1>1, <3>1 DEF Unbroken, Clean
  <2>4. Len(Line) + StillDue = ToTrain
    <3>1. pc \notin {"begin_step", "final_model", "final_data", "done"}
      BY DEF WindowInv, TaskInv
    <3>. QED  BY <1>0, <2>3, <3>1 DEF BalanceInv, TrainerPcs
  <2>5. p <= ToTrain
    <3>1. step_collected_rb + RbMultiplier <= step_target_rb
      BY <1>0 DEF CountInv, Accepts
    <3>2. RbMultiplier <= StillDue
      BY <1>1, <3>1, BalanceTypes DEF StillDue
    <3>. QED  BY <1>1, <2>1, <2>4, <3>2, BalanceTypes
  <2>6. ToTrain <= (sampler_weights + MaxStale + 1 - train_step) * NumCollect
    <3>1. /\ fire_target \in Int /\ train_step \in Int /\ sampler_weights \in Int
          /\ MaxStale \in Int /\ fire_target <= sampler_weights + MaxStale + 1
      BY SamplerBehind, BalanceTypes, Constants
    <3>2. \A f, t, s \in Int : f <= s => f - t \in Int /\ s - t \in Int /\ f - t <= s - t
      OBVIOUS
    <3>3. /\ fire_target - train_step \in Int
          /\ sampler_weights + MaxStale + 1 - train_step \in Int
          /\ fire_target - train_step <= sampler_weights + MaxStale + 1 - train_step
      <4>1. sampler_weights + MaxStale + 1 \in Int
        BY <3>1
      <4>. QED  BY <3>1, <3>2, <4>1
    <3>4. NumCollect \in Nat /\ NumCollect \in Int
      BY BalanceTypes
    <3>. QED  BY <3>3, <3>4, Distribute DEF ToTrain
  <2>7. (sampler_weights + MaxStale + 1 - train_step) * NumCollect \in Int
    <3>1. sampler_weights + MaxStale + 1 - train_step \in Int
      BY SamplerBehind, Constants
    <3>. QED  BY <3>1, Distribute, BalanceTypes
  <2>8. p <= (sampler_weights + MaxStale + 1 - train_step) * NumCollect
    BY <2>1, <2>5, <2>6, <2>7, BalanceTypes
  <2>. QED  BY <1>0, <2>2, <2>8, Constants DEF InTime, NumCollect
<1>. QED  BY <1>2, <1>3

LEMMA TrainFresh ==
    ASSUME WindowInv, FreshInv, Train, NEW p \in 1 .. Len(Line'), Clean(p)'
    PROVE  InTime(p)'
<1>1. /\ Len(Line') \in Nat /\ Len(Line) = Len(Line') + NumCollect
      /\ \A q \in 1 .. Len(Line') : Line'[q] = Line[NumCollect + q]
      /\ pc = "train" /\ train_step' = train_step + 1
  BY TrainLine DEF WindowInv, Shifts, Train
<1>2. p + NumCollect \in 1 .. Len(Line) /\ Line'[p] = Line[NumCollect + p] /\ p \in Nat
      /\ NumCollect + p = p + NumCollect
  BY SMTT(30), <1>1, BalanceTypes
<1>3. Clean(p + NumCollect)
  BY TrainCleanTo
<1>. DEFINE w == Line[p + NumCollect].weights
            a == w + MaxStale + 1 - (train_step + 1)
<1>4. w \in Nat /\ a \in Int /\ w + MaxStale + 1 - train_step = a + 1
  <2>1. Line[p + NumCollect] \in QueuedRolloutBatch
    BY <1>2, LineItems DEF WindowInv
  <2>2. w \in Nat
    BY <2>1 DEF QueuedRolloutBatch
  <2>. HIDE DEF w
  <2>. QED  BY SMTT(30), <2>2, BalanceTypes, Constants
<1>5. p + NumCollect <= (w + MaxStale + 1 - train_step) * NumCollect
  BY <1>1, <1>2, <1>3 DEF FreshInv, InTime
<1>6. InTime(p)' <=> p <= a * NumCollect
  BY <1>1, <1>2 DEF InTime, NumCollect
<1>7. p + NumCollect <= (a + 1) * NumCollect
  BY <1>4, <1>5
<1>. HIDE DEF a
<1>8. (a + 1) * NumCollect = a * NumCollect + NumCollect /\ a * NumCollect \in Int
  <2>1. a \in Int /\ NumCollect \in Int
    BY <1>4, BalanceTypes
  <2>. QED  BY <2>1, Distribute
<1>. QED  BY <1>2, <1>6, <1>7, <1>8, BalanceTypes

LEMMA StepFreshInv ==
    WindowInv /\ BalanceInv /\ WeightInv /\ FreshInv /\ [Next]_vars => FreshInv'
<1>. SUFFICES ASSUME WindowInv, BalanceInv, WeightInv, FreshInv, [Next]_vars PROVE FreshInv'
  OBVIOUS
<1>0. TypeInv /\ PauseInv
  BY DEF WindowInv
<1>1. \A p \in 1 .. Len(Line') : pc' # "failed" /\ Clean(p)' => InTime(p)'
  <2>1. CASE CollectItem
    <3>1. pc' = "failed" \/ (UNCHANGED <<Line, train_step>> /\ pc # "failed")
      BY <1>0, <2>1, CollectLine DEF CollectItem
    <3>. QED  BY <3>1 DEF FreshInv, Clean, InTime
  <2>2. CASE BeginStep \/ FireGenerationRequests \/ FinishCollect \/ SaveModel \/ SaveData
                \/ WaitAllInflight \/ UpdateWeights
    <3>1. UNCHANGED <<Line, train_step>> /\ pc # "failed"
      BY <2>2, TrainerLine DEF BeginStep, FireGenerationRequests, FinishCollect, SaveModel,
         SaveData, WaitAllInflight, UpdateWeights
    <3>. QED  BY <3>1 DEF FreshInv, Clean, InTime
  <2>3. CASE Train
    BY <2>3, TrainFresh
  <2>4. CASE Restart
    BY <2>4, RestartLine
  <2>5. CASE RolloutSide
    <3>1. UNCHANGED <<pc, train_step>>
      BY <2>5, RolloutFrame
    <3>2. CASE \E k \in DOMAIN inflight_tasks : Accepts(k)
      BY <2>5, <3>1, <3>2, AcceptsFresh
    <3>3. CASE \E k \in DOMAIN inflight_tasks : Raises(k)
      <4>1. PICK k \in DOMAIN inflight_tasks : Raises(k)
        BY <3>3
      <4>. DEFINE n == Len(Line)
      <4>2. /\ Len(Line') = n + 1 /\ n \in Nat /\ \A p \in 1 .. n : Line'[p] = Line[p]
            /\ \A p \in n + 1 .. n + 1 : Line'[p] = Item(k, TRUE)
        BY <4>1, BalanceTypes DEF Raises, Joins
      <4>3. Item(k, TRUE).error
        BY DEF Item
      <4>. SUFFICES ASSUME NEW p \in 1 .. Len(Line'), pc' # "failed", Clean(p)'
                    PROVE  InTime(p)'
        OBVIOUS
      <4>. HIDE DEF n
      <4>4. p \in 1 .. n
        <5>1. p # n + 1
          <6>1. p = n + 1 => n + 1 \in 1 .. p /\ n + 1 \in n + 1 .. n + 1
            BY <4>2
          <6>. QED  BY <4>2, <4>3, <6>1 DEF Clean
        <5>. QED  BY <4>2, <5>1
      <4>5. \A q \in 1 .. p : q \in 1 .. n
        BY <4>2, <4>4
      <4>6. Clean(p) /\ Line'[p] = Line[p]
        BY <4>2, <4>4, <4>5 DEF Clean
      <4>. QED  BY <3>1, <4>4, <4>6 DEF FreshInv, InTime, n
    <3>4. CASE ~ \E k \in DOMAIN inflight_tasks : Accepts(k) \/ Raises(k)
      <4>1. UNCHANGED Line
        BY <1>0, <2>5, <3>4, RolloutLine
      <4>. QED  BY <3>1, <4>1 DEF FreshInv, Clean, InTime
    <3>. QED  BY <3>2, <3>3, <3>4
  <2>. QED  BY <2>1, <2>2, <2>3, <2>4, <2>5, NextCases
<1>2. \A i \in DOMAIN batch' : train_step' - batch'[i].weights <= MaxStale
  <2>. SUFFICES ASSUME NEW i \in DOMAIN batch' PROVE train_step' - batch'[i].weights <= MaxStale
    OBVIOUS
  <2>1. TypeInv' /\ BatchInv'
    BY StepTypeInv, StepBatchInv DEF WindowInv
  <2>2. /\ batch' \in Seq(QueuedRolloutBatch) /\ Len(batch') \in Nat /\ i \in 1 .. Len(batch')
        /\ batch'[i] \in QueuedRolloutBatch
    BY <2>1 DEF TypeInv, TypeOK, QueueTypeOK
  <2>3. CASE UNCHANGED <<batch, train_step>>
    BY <2>3 DEF FreshInv
  <2>4. CASE ~ UNCHANGED <<batch, train_step>>
    <3>1. pc' # "failed"
      <4>1. CASE CollectItem
        BY <2>4, <4>1, <1>0, CollectLine DEF CollectItem
      <4>2. CASE Restart
        BY <2>2, <4>2, RestartLine
      <4>3. CASE Train
        BY <4>3 DEF Train, AfterTrain
      <4>. QED  BY <2>4, <4>1, <4>2, <4>3, RolloutFrame, TrainerLine, NextCases
                DEF BeginStep, FireGenerationRequests, FinishCollect, SaveModel, SaveData,
                    WaitAllInflight, UpdateWeights
    <3>2. i \in 1 .. Len(Line') /\ Line'[i] = batch'[i] /\ \A j \in 1 .. i : Line'[j] = batch'[j]
      <4>1. ready_queue' \in Seq(QueuedRolloutBatch)
        BY <2>1 DEF TypeInv, TypeOK, QueueTypeOK
      <4>2. /\ Len(Line') = Len(batch') + Len(ready_queue') /\ Len(ready_queue') \in Nat
            /\ \A j \in 1 .. Len(batch') : Line'[j] = batch'[j]
        BY <2>2, <4>1, Concatenation DEF Line
      <4>3. \A j \in 1 .. i : j \in 1 .. Len(batch')
        BY <2>2
      <4>. QED  BY <2>2, <4>2, <4>3
    <3>3. Clean(i)'
      BY <2>1, <2>2, <3>2 DEF Clean, BatchInv
    <3>4. i <= (batch'[i].weights + MaxStale + 1 - train_step') * NumCollect
      BY <1>1, <3>1, <3>2, <3>3 DEF InTime, NumCollect
    <3>5. PICK w \in Nat, t \in Nat : w = batch'[i].weights /\ t = train_step'
      BY <2>1, <2>2 DEF QueuedRolloutBatch, TypeInv, TypeOK, TrainerTypeOK
    <3>. DEFINE a == w + MaxStale + 1 - t
    <3>6. i <= a * NumCollect /\ i \in Nat /\ 1 <= i
      BY <2>2, <3>4, <3>5
    <3>7. a \in Int /\ (1 <= a => t - w <= MaxStale)
      BY <3>5, Constants
    <3>8. 1 <= a
      <4>. HIDE DEF a
      <4>1. a <= 0 => a * NumCollect <= 0 * NumCollect
        BY <3>7, Distribute, BalanceTypes
      <4>2. 0 * NumCollect = 0 /\ a * NumCollect \in Int
        BY <3>7, Distribute, BalanceTypes
      <4>. QED  BY <3>6, <3>7, <4>1, <4>2
    <3>. QED  BY <3>5, <3>7, <3>8
  <2>. QED  BY <2>3, <2>4
<1>. QED  BY <1>1, <1>2 DEF FreshInv

\* Nothing is trained more than rollout_max_staleness steps after the weights
\* that generated it: the sampler is at most a window behind, and a window
\* never collects beyond the staleness its steps allow.
THEOREM StalenessHolds == Spec => []StalenessBounded
<1>1. Init => WeightInv /\ FreshInv
  <2>. SUFFICES ASSUME Init PROVE WeightInv /\ FreshInv
    OBVIOUS
  <2>1. DOMAIN inflight_tasks = {} /\ Len(Line) = 0 /\ DOMAIN batch = {}
    BY DEF Init, Line, EmptyDict
  <2>. QED  BY <2>1 DEF WeightInv, FreshInv
<1>2. Spec => []WeightInv
  BY <1>1, StepWeightInv, WindowInductive, PTL DEF Spec
<1>3. Spec => []FreshInv
  BY <1>1, <1>2, StepFreshInv, BalanceInductive, PTL DEF Spec
<1>4. WindowInv /\ WeightInv /\ FreshInv => StalenessBounded
  <2>. SUFFICES ASSUME WindowInv, WeightInv, FreshInv PROVE StalenessBounded
    OBVIOUS
  <2>1. ASSUME NEW i \in DOMAIN batch PROVE batch[i].weights <= train_step
    <3>1. i \in 1 .. Len(batch) /\ i \in 1 .. Len(Line) /\ Line[i] = batch[i]
      BY LineItems DEF WindowInv
    <3>. QED  BY <3>1 DEF WeightInv
  <2>. QED  BY <2>1 DEF FreshInv, StalenessBounded
<1>. QED  BY <1>2, <1>3, <1>4, WindowInductive, PTL

----------------------------------------------------------------------------
\* The sampling-attr cache.

\* Rollout batches of one microbatch stand together: a key is never both in
\* the batch of one step and in that of a later one.
SameGroup(p, q) ==
    \E g \in Nat : /\ g * RbMultiplier < p /\ p <= (g + 1) * RbMultiplier
                   /\ g * RbMultiplier < q /\ q <= (g + 1) * RbMultiplier
Together(p, q) ==
    Clean(p) /\ ~ Line[q].error /\ Line[p].key = Line[q].key => SameGroup(p, q)
GroupInv == pc # "failed" => \A q \in 1 .. Len(Line) : \A p \in 1 .. q : Together(p, q)

\* A line without errors is made of whole microbatches.
LEMMA WholeGroups ==
    ASSUME WindowInv, BalanceInv, Unbroken,
           pc \in {"fire", "collect", "train", "save_model", "save_data", "drain", "update"}
    PROVE  \E g \in Nat : Len(Line) = g * RbMultiplier
<1>1. PICK m \in Nat : step_target_rb = m * RbMultiplier
  BY DEF WindowInv, CountInv
<1>. DEFINE n == Cardinality(Accepted)
            s == fire_target - train_step
<1>2. n \in Nat /\ step_collected_rb = n * RbMultiplier
  BY PendingTypes DEF WindowInv, CountInv
<1>3. s \in Int /\ ToTrain = s * NumCollect
  BY BalanceTypes DEF ToTrain
<1>. HIDE DEF n, s
<1>4. s * NumMb \in Int /\ s * NumCollect = (s * NumMb) * RbMultiplier
  BY <1>3, Constants DEF NumCollect
<1>5. Len(Line) + StillDue = ToTrain
  BY DEF BalanceInv
<1>. DEFINE d == m - n
            t == s * NumMb
            g == t - d
<1>6. d \in Int /\ t \in Int /\ g \in Int
  BY <1>1, <1>2, <1>4
<1>7. StillDue = d * RbMultiplier
  BY <1>1, <1>2, Distribute, Constants DEF StillDue
<1>8. ToTrain = t * RbMultiplier
  BY <1>3, <1>4
<1>. HIDE DEF d, t
<1>9. g * RbMultiplier = t * RbMultiplier - d * RbMultiplier /\ g * RbMultiplier \in Int
  BY <1>6, Distribute, Constants
<1>10. Len(Line) = g * RbMultiplier
  BY SMTT(30), <1>5, <1>7, <1>8, <1>9, BalanceTypes
<1>11. g \in Nat
  <2>. HIDE DEF g
  <2>1. g < 0 => (g + 1) * RbMultiplier <= 0 * RbMultiplier
    BY <1>6, Distribute, Constants
  <2>2. (g + 1) * RbMultiplier = g * RbMultiplier + RbMultiplier /\ 0 * RbMultiplier = 0
    BY <1>6, Distribute, Constants
  <2>. QED  BY <1>6, <1>9, <1>10, <2>1, <2>2, BalanceTypes, Constants
<1>. QED  BY <1>10, <1>11

LEMMA AcceptsGroup ==
    ASSUME WindowInv, BalanceInv, GroupInv, RolloutSide,
           NEW k \in DOMAIN inflight_tasks, Accepts(k), pc # "failed",
           NEW q \in 1 .. Len(Line'), NEW p \in 1 .. q
    PROVE  Together(p, q)'
<1>. SUFFICES ASSUME Clean(p)', ~ Line'[q].error, Line'[p].key = Line'[q].key
              PROVE  SameGroup(p, q)
  BY DEF Together, SameGroup
<1>. DEFINE n == Len(Line)
<1>1. /\ Len(Line') = n + RbMultiplier /\ RbMultiplier \in Nat \ {0} /\ n \in Nat
      /\ \A i \in 1 .. n : Line'[i] = Line[i]
      /\ \A i \in n + 1 .. n + RbMultiplier : Line'[i] = Item(k, FALSE)
      /\ k \in DOMAIN pending /\ k \notin Accepted /\ Item(k, FALSE).key = k
  BY Constants, BalanceTypes, PendingTypes
     DEF Accepts, Joins, Item, WindowInv, TaskInv
<1>2. p \in Nat /\ q \in Nat /\ p <= q /\ q <= n + RbMultiplier /\ 1 <= p
  BY <1>1
<1>. HIDE DEF n
<1>3. \A i \in 1 .. p : i \in 1 .. n => ~ Line[i].error
  <2>1. \A i \in 1 .. p : ~ Line'[i].error
    BY DEF Clean
  <2>. QED  BY <1>1, <2>1
<1>4. CASE q <= n
  <2>1. q \in 1 .. n /\ p \in 1 .. n /\ \A i \in 1 .. p : i \in 1 .. n
    BY <1>1, <1>2, <1>4
  <2>2. Line'[q] = Line[q] /\ Line'[p] = Line[p] /\ Clean(p)
    BY <1>1, <1>3, <2>1 DEF Clean
  <2>. QED  BY <2>1, <2>2 DEF GroupInv, Together, n
<1>5. CASE q > n /\ p <= n
  <2>1. q \in n + 1 .. n + RbMultiplier /\ p \in 1 .. n /\ p \in 1 .. p
    BY <1>1, <1>2, <1>5
  <2>2. Line[p].key = k /\ ~ Line[p].error
    BY <1>1, <1>3, <2>1
  <2>. QED  BY <1>1, <2>1, <2>2 DEF WindowInv, KeyInv, n
<1>6. CASE p > n
  <2>1. \A i \in 1 .. n : i \in 1 .. p
    BY <1>1, <1>2, <1>6
  <2>2. Unbroken
    BY <1>3, <2>1 DEF Unbroken, Clean, n
  <2>3. pc \in {"fire", "collect", "train", "save_model", "save_data", "drain", "update"}
    <3>1. pc \notin {"begin_step", "final_model", "final_data", "done"}
      BY DEF WindowInv, TaskInv
    <3>. QED  BY <3>1 DEF WindowInv, TypeInv, TypeOK, TrainerTypeOK, TrainerPcs
  <2>4. PICK g \in Nat : n = g * RbMultiplier
    BY <2>2, <2>3, WholeGroups DEF n
  <2>5. (g + 1) * RbMultiplier = n + RbMultiplier
    BY <1>1, <2>4, Distribute
  <2>6. n < p /\ n < q /\ p <= n + RbMultiplier /\ q <= n + RbMultiplier
    BY <1>1, <1>2, <1>6
  <2>7. /\ g * RbMultiplier < p /\ p <= (g + 1) * RbMultiplier
        /\ g * RbMultiplier < q /\ q <= (g + 1) * RbMultiplier
    BY <2>4, <2>5, <2>6
  <2>. QED  BY <2>7 DEF SameGroup
<1>. QED  BY <1>1, <1>2, <1>4, <1>5, <1>6

LEMMA TrainGroup ==
    ASSUME WindowInv, GroupInv, Train, NEW q \in 1 .. Len(Line'), NEW p \in 1 .. q
    PROVE  Together(p, q)'
<1>. SUFFICES ASSUME Clean(p)', ~ Line'[q].error, Line'[p].key = Line'[q].key
              PROVE  SameGroup(p, q)
  BY DEF Together, SameGroup
<1>. DEFINE c == NumCollect
<1>1. /\ Len(Line') \in Nat /\ Len(Line) = Len(Line') + c /\ c \in Nat
      /\ \A i \in 1 .. Len(Line') : Line'[i] = Line[c + i]
      /\ pc = "train" /\ c = NumMb * RbMultiplier
  BY TrainLine, BalanceTypes DEF WindowInv, Shifts, Train, NumCollect
<1>2. p \in Nat /\ q \in Nat /\ 1 <= p /\ p <= q /\ p \in 1 .. Len(Line')
  BY <1>1
<1>3. Clean(p + c)
  BY <1>2, TrainCleanTo
<1>. HIDE DEF c
<1>4. /\ q + c \in 1 .. Len(Line) /\ p + c \in 1 .. q + c /\ c + p = p + c /\ c + q = q + c
  <2>1. p \in 1 .. Len(Line') /\ q \in 1 .. Len(Line') /\ Len(Line') \in Nat
    BY <1>1, <1>2
  <2>2. q + c \in 1 .. Len(Line) /\ p + c \in 1 .. q + c /\ c + p = p + c /\ c + q = q + c
    <3>. DEFINE l == Len(Line')
    <3>1. p \in 1 .. l /\ q \in 1 .. l /\ l \in Nat /\ c \in Nat /\ p <= q /\ Len(Line) = l + c
      BY <1>1, <1>2, <2>1
    <3>. HIDE DEF l
    <3>. QED  BY <3>1
  <2>. QED  BY <2>2
<1>5. Line'[p] = Line[p + c] /\ Line'[q] = Line[q + c]
  BY <1>1, <1>2, <1>4
<1>6. SameGroup(p + c, q + c)
  BY <1>1, <1>3, <1>4, <1>5 DEF GroupInv, Together
<1>7. PICK g \in Nat : /\ g * RbMultiplier < p + c /\ p + c <= (g + 1) * RbMultiplier
                       /\ g * RbMultiplier < q + c /\ q + c <= (g + 1) * RbMultiplier
  BY <1>6 DEF SameGroup
<1>8. NumMb < g + 1
  <2>1. NumMb * RbMultiplier < (g + 1) * RbMultiplier
    <3>1. (g + 1) * RbMultiplier \in Int
      BY <1>7, Distribute, Constants
    <3>. QED  BY <1>1, <1>2, <1>7, <3>1
  <2>. QED  BY <2>1, <1>7, Distribute, Constants
<1>. DEFINE h == g - NumMb
<1>9. h \in Nat /\ g = h + NumMb /\ g + 1 = (h + 1) + NumMb
  BY <1>7, <1>8, Constants
<1>. HIDE DEF h
<1>10. /\ g * RbMultiplier = h * RbMultiplier + c
       /\ (g + 1) * RbMultiplier = (h + 1) * RbMultiplier + c
       /\ h * RbMultiplier \in Int /\ (h + 1) * RbMultiplier \in Int
  BY <1>1, <1>9, Distribute, Constants
<1>11. /\ h * RbMultiplier < p /\ p <= (h + 1) * RbMultiplier
       /\ h * RbMultiplier < q /\ q <= (h + 1) * RbMultiplier
  <2>. DEFINE x == h * RbMultiplier
              y == (h + 1) * RbMultiplier
  <2>1. /\ x + c < p + c /\ p + c <= y + c /\ x + c < q + c /\ q + c <= y + c
        /\ x \in Int /\ y \in Int
    BY <1>7, <1>10
  <2>. HIDE DEF x, y
  <2>2. x < p /\ p <= y /\ x < q /\ q <= y
    BY <1>1, <1>2, <2>1
  <2>. QED  BY <2>2 DEF x, y
<1>. QED  BY <1>9, <1>11 DEF SameGroup

LEMMA StepGroupInv == WindowInv /\ BalanceInv /\ GroupInv /\ [Next]_vars => GroupInv'
<1>. SUFFICES ASSUME WindowInv, BalanceInv, GroupInv, [Next]_vars, pc' # "failed",
                     NEW q \in 1 .. Len(Line'), NEW p \in 1 .. q
              PROVE  Together(p, q)'
  BY DEF GroupInv
<1>0. TypeInv /\ PauseInv
  BY DEF WindowInv
<1>1. ASSUME UNCHANGED Line, pc # "failed" PROVE Together(p, q)'
  BY <1>1 DEF GroupInv, Together, Clean, SameGroup
<1>2. CASE CollectItem
  BY <1>0, <1>1, <1>2, CollectLine DEF CollectItem
<1>3. CASE BeginStep \/ FireGenerationRequests \/ FinishCollect \/ SaveModel \/ SaveData
              \/ WaitAllInflight \/ UpdateWeights
  <2>1. UNCHANGED Line /\ pc # "failed"
    BY <1>3, TrainerLine DEF BeginStep, FireGenerationRequests, FinishCollect, SaveModel,
       SaveData, WaitAllInflight, UpdateWeights
  <2>. QED  BY <1>1, <2>1
<1>4. CASE Restart
  BY <1>4, RestartLine
<1>5. CASE RolloutSide
  <2>1. UNCHANGED pc
    BY <1>5, RolloutFrame
  <2>2. CASE \E k \in DOMAIN inflight_tasks : Accepts(k)
    BY <1>5, <2>1, <2>2, AcceptsGroup
  <2>3. CASE \E k \in DOMAIN inflight_tasks : Raises(k)
    <3>1. PICK k \in DOMAIN inflight_tasks : Raises(k)
      BY <2>3
    <3>. DEFINE n == Len(Line)
    <3>2. /\ Len(Line') = n + 1 /\ n \in Nat /\ \A i \in 1 .. n : Line'[i] = Line[i]
          /\ \A i \in n + 1 .. n + 1 : Line'[i] = Item(k, TRUE)
      BY <3>1, BalanceTypes DEF Raises, Joins
    <3>3. Item(k, TRUE).error
      BY DEF Item
    <3>. HIDE DEF n
    <3>4. CASE q \in n + 1 .. n + 1
      BY <3>2, <3>3, <3>4 DEF Together
    <3>5. CASE q \notin n + 1 .. n + 1
      <4>1. q \in 1 .. n /\ p \in 1 .. n /\ \A i \in 1 .. p : i \in 1 .. n
        BY <3>2, <3>5
      <4>2. Line'[q] = Line[q] /\ Line'[p] = Line[p] /\ (Clean(p)' => Clean(p))
        BY <3>2, <4>1 DEF Clean
      <4>. QED  BY <2>1, <4>1, <4>2 DEF GroupInv, Together, SameGroup, n
    <3>. QED  BY <3>4, <3>5
  <2>4. CASE ~ \E k \in DOMAIN inflight_tasks : Accepts(k) \/ Raises(k)
    BY <1>0, <1>1, <1>5, <2>1, <2>4, RolloutLine
  <2>. QED  BY <2>2, <2>3, <2>4
<1>. QED  BY <1>2, <1>3, <1>4, <1>5, TrainGroup, NextCases

\* The keys of the queue, by their places in line.
KeyIn(r, x) == \E i \in DOMAIN r : ~ r[i].error /\ r[i].key = x
KeyAfter(n, l, x) == \E p \in n + 1 .. Len(l) : ~ l[p].error /\ l[p].key = x

LEMMA QueuedAt ==
    ASSUME NEW b \in Seq(QueuedRolloutBatch), NEW r \in Seq(QueuedRolloutBatch), NEW x
    PROVE  KeyIn(r, x) <=> KeyAfter(Len(b), b \o r, x)
<1>. DEFINE l == b \o r
<1>1. Len(b) \in Nat /\ Len(r) \in Nat /\ DOMAIN r = 1 .. Len(r) /\ Len(l) = Len(b) + Len(r)
  OBVIOUS
<1>2. \A i \in 1 .. Len(r) : l[Len(b) + i] = r[i]
  BY Concatenation
<1>. HIDE DEF l
<1>3. ASSUME NEW i \in DOMAIN r, ~ r[i].error, r[i].key = x
      PROVE  \E p \in Len(b) + 1 .. Len(l) : ~ l[p].error /\ l[p].key = x
  <2>1. Len(b) + i \in Len(b) + 1 .. Len(b) + Len(r)
    BY <1>1
  <2>. QED  BY <1>1, <1>2, <1>3, <2>1
<1>4. ASSUME NEW p \in Len(b) + 1 .. Len(l), ~ l[p].error, l[p].key = x
      PROVE  \E i \in DOMAIN r : ~ r[i].error /\ r[i].key = x
  <2>1. p - Len(b) \in 1 .. Len(r) /\ Len(b) + (p - Len(b)) = p
    BY <1>1
  <2>. QED  BY <1>1, <1>2, <1>4, <2>1
<1>. QED  BY <1>3, <1>4 DEF KeyIn, KeyAfter, l

LEMMA QueuedPlaces ==
    ASSUME TypeInv
    PROVE  \A x : x \in QueuedKeys <=>
              \E p \in Len(batch) + 1 .. Len(Line) : ~ Line[p].error /\ Line[p].key = x
<1>1. \A x : x \in QueuedKeys <=> KeyIn(ready_queue, x)
  BY DEF QueuedKeys, KeyIn
<1>2. \A x : KeyIn(ready_queue, x) <=> KeyAfter(Len(batch), batch \o ready_queue, x)
  BY LineItems, QueuedAt
<1>3. batch \o ready_queue = Line
  BY DEF Line
<1>. QED  BY <1>1, <1>2, <1>3 DEF KeyAfter

LEMMA QueuedPlacesNext ==
    ASSUME TypeInv'
    PROVE  \A x : x \in QueuedKeys' <=>
              \E p \in Len(batch') + 1 .. Len(Line') : ~ Line'[p].error /\ Line'[p].key = x
<1>1. \A x : x \in QueuedKeys' <=> KeyIn(ready_queue', x)
  BY DEF QueuedKeys, KeyIn
<1>2. batch' \in Seq(QueuedRolloutBatch) /\ ready_queue' \in Seq(QueuedRolloutBatch)
  BY DEF TypeInv, TypeOK, QueueTypeOK
<1>3. \A x : KeyIn(ready_queue', x) <=> KeyAfter(Len(batch'), batch' \o ready_queue', x)
  BY <1>2, QueuedAt
<1>4. batch' \o ready_queue' = Line'
  BY DEF Line
<1>. QED  BY <1>1, <1>3, <1>4 DEF KeyAfter

LineKeys == {k \in Dispatch : \E p \in 1 .. Len(Line) : ~ Line[p].error /\ Line[p].key = k}

LineSplits == LineKeys = QueuedKeys \cup CollectedKeys

LEMMA LineKeysSplit == TypeInv /\ BatchInv => LineSplits
<1>. SUFFICES ASSUME TypeInv, BatchInv PROVE LineKeys = QueuedKeys \cup CollectedKeys
  BY DEF LineSplits
<1>1. /\ batch \in Seq(QueuedRolloutBatch) /\ ready_queue \in Seq(QueuedRolloutBatch)
      /\ Len(batch) \in Nat /\ Len(ready_queue) \in Nat
      /\ Len(Line) = Len(batch) + Len(ready_queue)
      /\ \A i \in 1 .. Len(batch) : Line[i] = batch[i] /\ ~ batch[i].error
      /\ \A p \in 1 .. Len(Line) : Line[p] \in QueuedRolloutBatch
  BY LineItems DEF BatchInv
<1>2. \A x : x \in QueuedKeys <=> \E p \in Len(batch) + 1 .. Len(Line) :
                                     ~ Line[p].error /\ Line[p].key = x
  BY QueuedPlaces
<1>3. \A x : x \in CollectedKeys <=> \E p \in 1 .. Len(batch) : Line[p].key = x
  BY <1>1 DEF CollectedKeys
<1>4. \A p \in 1 .. Len(Line) : p \in 1 .. Len(batch) \/ p \in Len(batch) + 1 .. Len(Line)
  BY <1>1
<1>5. /\ \A p \in 1 .. Len(batch) : p \in 1 .. Len(Line)
      /\ \A p \in Len(batch) + 1 .. Len(Line) : p \in 1 .. Len(Line)
  BY <1>1
<1>6. \A p \in 1 .. Len(Line) : Line[p].key \in Dispatch
  BY <1>1 DEF QueuedRolloutBatch
<1>7. QueuedKeys \subseteq Dispatch /\ CollectedKeys \subseteq Dispatch
  <2>1. QueuedKeys \subseteq Dispatch
    BY <1>2, <1>5, <1>6
  <2>2. CollectedKeys \subseteq Dispatch
    BY <1>3, <1>5, <1>6
  <2>. QED  BY <2>1, <2>2
<1>8. ASSUME NEW x \in Dispatch PROVE x \in LineKeys <=> x \in QueuedKeys \cup CollectedKeys
  BY <1>1, <1>2, <1>3, <1>4, <1>5 DEF LineKeys
<1>. QED  BY <1>7, <1>8 DEF LineKeys

LEMMA LineKeysSplitNext == TypeInv' /\ BatchInv' => LineSplits'
BY LineKeysSplit, PTL

\* What begin_step discards is not in line.
LEMMA DiscardedKeys ==
    ASSUME WindowInv
    PROVE  /\ Discarded = DOMAIN pending \ Accepted
           /\ Discarded \cap LineKeys = {}
BY DEF Discarded, Accepted, LineKeys, WindowInv, KeyInv

\* A microbatch is collected whole: none of its items stays in the queue.
LEMMA CollectedWhole ==
    ASSUME WindowInv, GroupInv, pc # "failed", Len(batch) = NumCollect
    PROVE  QueuedKeys \cap CollectedKeys = {}
<1>. SUFFICES ASSUME NEW x \in QueuedKeys, x \in CollectedKeys PROVE FALSE
  OBVIOUS
<1>1. /\ batch \in Seq(QueuedRolloutBatch) /\ ready_queue \in Seq(QueuedRolloutBatch)
      /\ Len(batch) \in Nat /\ Len(ready_queue) \in Nat
      /\ Len(Line) = Len(batch) + Len(ready_queue)
      /\ \A i \in 1 .. Len(batch) : Line[i] = batch[i] /\ ~ batch[i].error
  BY LineItems DEF WindowInv, BatchInv
<1>2. PICK q \in Len(batch) + 1 .. Len(Line) : ~ Line[q].error /\ Line[q].key = x
  BY QueuedPlaces DEF WindowInv
<1>3. PICK p \in 1 .. Len(batch) : Line[p].key = x
  BY <1>1 DEF CollectedKeys
<1>4. p \in 1 .. q /\ q \in 1 .. Len(Line) /\ \A i \in 1 .. p : i \in 1 .. Len(batch)
  BY <1>1, <1>2, <1>3
<1>5. SameGroup(p, q)
  BY <1>1, <1>2, <1>3, <1>4 DEF GroupInv, Together, Clean
<1>6. PICK g \in Nat : g * RbMultiplier < p /\ q <= (g + 1) * RbMultiplier
  BY <1>5 DEF SameGroup
<1>7. g * RbMultiplier \in Int /\ (g + 1) * RbMultiplier \in Int /\ NumMb * RbMultiplier \in Int
      /\ NumMb * RbMultiplier = Len(batch)
  BY <1>6, Distribute, Constants DEF NumCollect
<1>8. g < NumMb
  <2>1. g * RbMultiplier < NumMb * RbMultiplier
    BY <1>1, <1>3, <1>6, <1>7
  <2>. QED  BY <2>1, <1>6, Distribute, Constants
<1>9. (g + 1) * RbMultiplier <= NumMb * RbMultiplier
  <2>1. g + 1 <= NumMb
    BY <1>6, <1>8, Constants
  <2>. QED  BY <2>1, <1>6, Distribute, Constants
<1>. QED  BY <1>1, <1>2, <1>6, <1>7, <1>9

LEMMA RolloutAttr ==
    ASSUME WindowInv, AttrCacheExact, RolloutSide
    PROVE  AttrCacheExact'
<1>0. /\ TypeInv /\ PauseInv /\ UNCHANGED <<pc, batch, attr_cache>>
      /\ batch \in Seq(QueuedRolloutBatch) /\ ready_queue \in Seq(QueuedRolloutBatch)
      /\ Len(batch) \in Nat /\ Len(Line) \in Nat
      /\ Len(Line) = Len(batch) + Len(ready_queue)
  BY RolloutFrame, LineItems DEF WindowInv
<1>1. TypeInv'
  BY StepTypeInv DEF WindowInv, RolloutSide, Next
<1>2. \A x : x \in QueuedKeys <=> \E p \in Len(batch) + 1 .. Len(Line) :
                                     ~ Line[p].error /\ Line[p].key = x
  BY <1>0, QueuedPlaces
<1>3. \A x : x \in QueuedKeys' <=> \E p \in Len(batch) + 1 .. Len(Line') :
                                      ~ Line'[p].error /\ Line'[p].key = x
  BY <1>0, <1>1, QueuedPlacesNext
<1>4. CollectedKeys' = CollectedKeys
  BY <1>0 DEF CollectedKeys
<1>5. Discarded = DOMAIN pending \ Accepted /\ Discarded' = DOMAIN pending' \ Accepted'
  BY DEF Discarded, Accepted
<1>6. ASSUME NEW k \in DOMAIN inflight_tasks, Accepts(k) PROVE AttrCacheExact'
  <2>1. /\ DOMAIN pending' = DOMAIN pending /\ k \in DOMAIN pending /\ k \notin Accepted
        /\ Accepted' = Accepted \cup {k}
    BY <1>0, <1>6, AcceptPending DEF WindowInv, TaskInv, Accepts
  <2>. DEFINE n == Len(Line)
             b == Len(batch)
  <2>2. /\ Len(Line') = n + RbMultiplier /\ RbMultiplier \in Nat \ {0}
        /\ \A p \in 1 .. n : Line'[p] = Line[p]
        /\ \A p \in n + 1 .. n + RbMultiplier : Line'[p] = Item(k, FALSE)
        /\ Item(k, FALSE).key = k /\ ~ Item(k, FALSE).error
    BY <1>6, Constants DEF Accepts, Joins, Item
  <2>7. n \in Nat /\ b \in Nat /\ b <= n
    BY <1>0
  <2>3. \A x : x \in QueuedKeys <=> \E p \in b + 1 .. n : ~ Line[p].error /\ Line[p].key = x
    BY <1>2
  <2>4. \A x : x \in QueuedKeys' <=> \E p \in b + 1 .. n + RbMultiplier :
                                        ~ Line'[p].error /\ Line'[p].key = x
    BY <1>3, <2>2
  <2>. HIDE DEF n, b
  <2>5. /\ \A p \in b + 1 .. n + RbMultiplier :
              (p \in b + 1 .. n /\ p \in 1 .. n) \/ p \in n + 1 .. n + RbMultiplier
        /\ \A p \in b + 1 .. n : p \in b + 1 .. n + RbMultiplier /\ p \in 1 .. n
        /\ n + 1 \in b + 1 .. n + RbMultiplier /\ n + 1 \in n + 1 .. n + RbMultiplier
    BY <2>2, <2>7
  <2>6. \A x : x \in QueuedKeys' <=> x \in QueuedKeys \/ x = k
    <3>1. ASSUME NEW x, x \in QueuedKeys' PROVE x \in QueuedKeys \/ x = k
      <4>1. PICK p \in b + 1 .. n + RbMultiplier : ~ Line'[p].error /\ Line'[p].key = x
        BY <2>4, <3>1
      <4>. QED  BY <2>2, <2>3, <2>5, <4>1
    <3>2. ASSUME NEW x, x \in QueuedKeys PROVE x \in QueuedKeys'
      <4>1. PICK p \in b + 1 .. n : ~ Line[p].error /\ Line[p].key = x
        BY <2>3, <3>2
      <4>. QED  BY <2>2, <2>4, <2>5, <4>1
    <3>3. k \in QueuedKeys'
      <4>1. ~ Line'[n + 1].error /\ Line'[n + 1].key = k
        BY <2>2, <2>5
      <4>. QED  BY <2>4, <2>5, <4>1
    <3>. QED  BY <3>1, <3>2, <3>3
  <2>. QED  BY <1>0, <1>4, <1>5, <2>1, <2>6 DEF AttrCacheExact
<1>7. ASSUME NEW k \in DOMAIN inflight_tasks, Raises(k) PROVE AttrCacheExact'
  <2>1. DOMAIN pending' = DOMAIN pending /\ Accepted' = Accepted
    BY <1>7 DEF Raises, Accepted
  <2>. DEFINE n == Len(Line)
             b == Len(batch)
  <2>2. /\ Len(Line') = n + 1
        /\ n \in Nat /\ b \in Nat /\ b <= n
        /\ \A p \in 1 .. n : Line'[p] = Line[p]
        /\ \A p \in n + 1 .. n + 1 : Line'[p] = Item(k, TRUE)
        /\ Item(k, TRUE).error
    BY <1>0, <1>7 DEF Raises, Joins, Item
  <2>3. \A x : x \in QueuedKeys <=> \E p \in b + 1 .. n : ~ Line[p].error /\ Line[p].key = x
    BY <1>2
  <2>4. \A x : x \in QueuedKeys' <=> \E p \in b + 1 .. n + 1 :
                                        ~ Line'[p].error /\ Line'[p].key = x
    BY <1>3, <2>2
  <2>. HIDE DEF n, b
  <2>5. /\ \A p \in b + 1 .. n + 1 :
              (p \in b + 1 .. n /\ p \in 1 .. n) \/ p \in n + 1 .. n + 1
        /\ \A p \in b + 1 .. n : p \in b + 1 .. n + 1 /\ p \in 1 .. n
    BY <2>2
  <2>6. \A x : x \in QueuedKeys' <=> x \in QueuedKeys
    <3>1. ASSUME NEW x, x \in QueuedKeys' PROVE x \in QueuedKeys
      <4>1. PICK p \in b + 1 .. n + 1 : ~ Line'[p].error /\ Line'[p].key = x
        BY <2>4, <3>1
      <4>. QED  BY <2>2, <2>3, <2>5, <4>1
    <3>2. ASSUME NEW x, x \in QueuedKeys PROVE x \in QueuedKeys'
      <4>1. PICK p \in b + 1 .. n : ~ Line[p].error /\ Line[p].key = x
        BY <2>3, <3>2
      <4>. QED  BY <2>2, <2>4, <2>5, <4>1
    <3>. QED  BY <3>1, <3>2
  <2>. QED  BY <1>0, <1>4, <1>5, <2>1, <2>6 DEF AttrCacheExact
<1>8. CASE ~ \E k \in DOMAIN inflight_tasks : Accepts(k) \/ Raises(k)
  <2>1. UNCHANGED <<pending, ready_queue>>
    BY <1>0, <1>8, RolloutCases DEF Aborts, Proceeds, Refuses
  <2>. QED  BY <1>0, <2>1 DEF AttrCacheExact, Discarded, QueuedKeys, CollectedKeys
<1>. QED  BY <1>6, <1>7, <1>8

LEMMA StepAttr == WindowInv /\ GroupInv /\ AttrCacheExact /\ [Next]_vars => AttrCacheExact'
<1>. SUFFICES ASSUME WindowInv, GroupInv, AttrCacheExact, [Next]_vars PROVE AttrCacheExact'
  OBVIOUS
<1>0. /\ TypeInv /\ PauseInv /\ KeyInv /\ BatchInv
      /\ ready_queue \in Seq(QueuedRolloutBatch)
  BY LineItems DEF WindowInv
<1>1. /\ Discarded = DOMAIN pending \ Accepted /\ Discarded' = DOMAIN pending' \ Accepted'
      /\ Discarded \cap LineKeys = {} /\ LineKeys = QueuedKeys \cup CollectedKeys
  BY <1>0, DiscardedKeys, LineKeysSplit DEF Discarded, Accepted, LineSplits
<1>2. CASE BeginStep
  <2>1. /\ attr_cache' = attr_cache \ Discarded /\ DOMAIN pending' = {}
        /\ UNCHANGED <<ready_queue, batch>> /\ pc = "begin_step" /\ pc' = "fire"
    BY <1>2 DEF BeginStep, ReleaseDiscardedAttrs, EmptyDict
  <2>2. QueuedKeys' = QueuedKeys /\ CollectedKeys' = CollectedKeys
    BY <2>1 DEF QueuedKeys, CollectedKeys
  <2>. QED  BY <1>1, <2>1, <2>2 DEF AttrCacheExact
<1>3. CASE FireGenerationRequests
  <2>1. /\ attr_cache' = attr_cache \cup Fired
        /\ UNCHANGED <<ready_queue, batch>> /\ pc = "fire" /\ pc' # "train"
    BY <1>3 DEF FireGenerationRequests
  <2>2. QueuedKeys' = QueuedKeys /\ CollectedKeys' = CollectedKeys
    BY <2>1 DEF QueuedKeys, CollectedKeys
  <2>3. Discarded' = Discarded \cup Fired
    BY <1>0, <1>1, <1>3, FirePending DEF Accepted
  <2>. QED  BY <2>1, <2>2, <2>3 DEF AttrCacheExact
<1>4. CASE CollectItem
  <2>1. ~ BeginStep /\ ~ FireGenerationRequests /\ UNCHANGED <<attr_cache, inflight_tasks>>
    BY <1>4 DEF CollectItem, BeginStep, FireGenerationRequests
  <2>2. Discarded' = Discarded
    <3>1. CASE Restart
      BY <1>0, <1>4, <3>1 DEF CollectItem, Restart, boundVars, TypeInv, TypeOK, DiskTypeOK
    <3>2. CASE ~ Restart
      <4>1. \A k \in DOMAIN inflight_tasks : ~ Accepts(k)
        BY <2>1 DEF Accepts, Phase
      <4>. QED  BY <1>0, <1>1, <2>1, <3>2, <4>1, PendingKept
    <3>. QED  BY <3>1, <3>2
  <2>3. CASE pc' # "failed"
    <3>1. UNCHANGED Line /\ pc = "collect" /\ pc' = "collect"
      BY <1>0, <1>4, <2>3, CollectLine DEF CollectItem
    <3>2. TypeInv' /\ BatchInv'
      BY <1>0, StepTypeInv, StepBatchInv
    <3>3. LineKeys' = LineKeys
      BY <3>1 DEF LineKeys
    <3>4. LineKeys' = QueuedKeys' \cup CollectedKeys'
      BY <3>2, LineKeysSplitNext DEF LineSplits
    <3>. QED  BY <1>1, <2>1, <2>2, <3>1, <3>3, <3>4 DEF AttrCacheExact
  <2>4. CASE pc' = "failed"
    <3>1. /\ UNCHANGED batch /\ ready_queue' = Tail(ready_queue) /\ ready_queue # <<>>
          /\ pc = "collect" /\ Head(ready_queue).error
      BY <1>4, <2>4 DEF CollectItem
    <3>2. QueuedKeys' = QueuedKeys
      <4>1. /\ Len(ready_queue) \in Nat \ {0} /\ DOMAIN ready_queue = 1 .. Len(ready_queue)
            /\ ready_queue[1].error
            /\ DOMAIN ready_queue' = 1 .. Len(ready_queue) - 1
            /\ \A i \in 1 .. Len(ready_queue) - 1 : ready_queue'[i] = ready_queue[i + 1]
        BY <1>0, <3>1
      <4>2. \A i \in 1 .. Len(ready_queue) - 1 : i + 1 \in 1 .. Len(ready_queue)
        BY <4>1
      <4>3. \A i \in 1 .. Len(ready_queue) :
               i = 1 \/ \E j \in 1 .. Len(ready_queue) - 1 : i = j + 1
        <5>. SUFFICES ASSUME NEW i \in 1 .. Len(ready_queue), i # 1
                      PROVE  \E j \in 1 .. Len(ready_queue) - 1 : i = j + 1
          OBVIOUS
        <5>1. i - 1 \in 1 .. Len(ready_queue) - 1 /\ i = (i - 1) + 1
          BY <4>1
        <5>. QED  BY <5>1
      <4>4. \A x : KeyIn(ready_queue', x) <=> KeyIn(ready_queue, x)
        <5>1. ASSUME NEW x, KeyIn(ready_queue', x) PROVE KeyIn(ready_queue, x)
          <6>1. PICK j \in 1 .. Len(ready_queue) - 1 :
                   ~ ready_queue'[j].error /\ ready_queue'[j].key = x
            BY <4>1, <5>1 DEF KeyIn
          <6>. QED  BY <4>1, <4>2, <6>1 DEF KeyIn
        <5>2. ASSUME NEW x, KeyIn(ready_queue, x) PROVE KeyIn(ready_queue', x)
          <6>1. PICK i \in 1 .. Len(ready_queue) :
                   ~ ready_queue[i].error /\ ready_queue[i].key = x
            BY <4>1, <5>2 DEF KeyIn
          <6>2. PICK j \in 1 .. Len(ready_queue) - 1 : i = j + 1
            BY <4>1, <4>3, <6>1
          <6>. QED  BY <4>1, <6>1, <6>2 DEF KeyIn
        <5>. QED  BY <5>1, <5>2
      <4>5. /\ \A x : x \in QueuedKeys <=> KeyIn(ready_queue, x)
            /\ \A x : x \in QueuedKeys' <=> KeyIn(ready_queue', x)
        BY DEF QueuedKeys, KeyIn
      <4>6. \A x : x \in QueuedKeys' <=> x \in QueuedKeys
        BY <4>4, <4>5
      <4>. QED  BY <4>6 DEF QueuedKeys
    <3>3. CollectedKeys' = CollectedKeys
      BY <3>1 DEF CollectedKeys
    <3>. QED  BY <2>1, <2>2, <2>4, <3>1, <3>2, <3>3 DEF AttrCacheExact
  <2>. QED  BY <2>3, <2>4
<1>5. CASE FinishCollect
  <2>1. /\ attr_cache' = attr_cache \ CollectedKeys /\ pc = "collect" /\ pc' = "train"
        /\ Len(batch) = NumCollect /\ UNCHANGED <<pending, ready_queue, batch>>
    BY <1>5 DEF FinishCollect
  <2>2. QueuedKeys \cap CollectedKeys = {} /\ Discarded \cap CollectedKeys = {}
    BY <1>1, <2>1, CollectedWhole
  <2>3. QueuedKeys' = QueuedKeys /\ Discarded' = Discarded
    BY <2>1 DEF QueuedKeys, Discarded
  <2>. QED  BY <2>1, <2>2, <2>3 DEF AttrCacheExact
<1>6. CASE Train
  <2>1. /\ UNCHANGED <<attr_cache, pending, ready_queue>> /\ pc = "train" /\ pc' # "train"
        /\ batch' = <<>>
    BY <1>6 DEF Train, AfterTrain
  <2>2. QueuedKeys' = QueuedKeys /\ Discarded' = Discarded /\ CollectedKeys' = {}
    BY <2>1 DEF QueuedKeys, Discarded, CollectedKeys
  <2>. QED  BY <2>1, <2>2 DEF AttrCacheExact
<1>7. CASE SaveModel \/ SaveData \/ WaitAllInflight \/ UpdateWeights
  <2>1. UNCHANGED <<attr_cache, pending, ready_queue, batch>> /\ pc # "train" /\ pc' # "train"
    BY <1>7 DEF SaveModel, SaveData, AfterSave, WaitAllInflight, UpdateWeights, LoopTop, AfterLoop
  <2>. QED  BY <2>1 DEF AttrCacheExact, Discarded, QueuedKeys, CollectedKeys
<1>8. CASE Restart
  <2>1. attr_cache' = {} /\ DOMAIN pending' = {} /\ ready_queue' = <<>> /\ batch' = <<>>
    BY <1>8 DEF Restart, EmptyDict
  <2>2. QueuedKeys' = {} /\ CollectedKeys' = {} /\ Discarded' = {}
    BY <2>1 DEF QueuedKeys, CollectedKeys, Discarded
  <2>. QED  BY <2>1, <2>2 DEF AttrCacheExact
<1>. QED  BY <1>2, <1>3, <1>4, <1>5, <1>6, <1>7, <1>8, RolloutAttr, NextCases

\* The sampling-attr cache never leaks nor drops an entry: begin_step releases
\* only what no item in line belongs to, and finalize_rollout_batches never
\* takes the attrs of a microbatch of which the queue still holds a part.
THEOREM AttrsAreExact == Spec => []AttrCacheExact
<1>1. Init => GroupInv /\ AttrCacheExact
  <2>. SUFFICES ASSUME Init PROVE GroupInv /\ AttrCacheExact
    OBVIOUS
  <2>1. /\ Len(Line) = 0 /\ attr_cache = {} /\ DOMAIN pending = {}
        /\ ready_queue = <<>> /\ batch = <<>>
    BY DEF Init, Line, EmptyDict
  <2>. QED  BY <2>1 DEF GroupInv, AttrCacheExact, Discarded, QueuedKeys, CollectedKeys
<1>2. Spec => []GroupInv
  BY <1>1, StepGroupInv, BalanceInductive, PTL DEF Spec
<1>. QED  BY <1>1, <1>2, StepAttr, WindowInductive, PTL DEF Spec
=============================================================================
