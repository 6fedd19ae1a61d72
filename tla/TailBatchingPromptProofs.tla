---------------------- MODULE TailBatchingPromptProofs ----------------------
(***************************************************************************)
(* The prompts of TailBatching, for every value of its constants: a run    *)
(* that reuses its unused prompts keeps the prompt ledger and reads only   *)
(* so far ahead.                                                           *)
(*                                                                         *)
(* The argument follows the prompts.  What is read and not yet trained is  *)
(* in the buffer, or some dispatch holds it: one that waits for its        *)
(* rollout, or one with rollout batches in Line.  Every prompt has one     *)
(* holder (HeldInv, SplitInv), and only four steps move one: begin_step    *)
(* from the waiting dispatches to the buffer, a fire call from the buffer  *)
(* and the dataloader to new dispatches, a trained step out of Line, a     *)
(* relaunch back to what the checkpoint recorded (DiskInv).                *)
(***************************************************************************)
EXTENDS TailBatchingProofs, SequenceTheorems

----------------------------------------------------------------------------
\* Where the prompts are.  A prompt that is read and not yet trained is in the
\* buffer, or a dispatch holds it: one that is not rolled out yet, or one that
\* has rollout batches in line.

Places == {p \in 1 .. Len(Line) : ~ Line[p].error}
Waiting == {<<k, pending[k].raw>> : k \in Discarded}
InLine == {<<Line[p].key, Line[p].raw>> : p \in Places}
Held == Waiting \cup InLine
HeldPrompts == {h[2] : h \in Held}
Buffered == ToSet(buffer)
TrainedBefore(s) == UNION {trained_in[r] : r \in 0 .. s - 1}
BufferOf(s) == ToSet(ds_ckpt[s].buffer)
ReadBy(s) == 0 .. ds_ckpt[s].total_dl_consumed - 1

\* The trainer saves, drains and updates at the end of a window, and a window
\* begins at most one step behind what is fired.
LeadInv ==
    /\ pc \in {"save_model", "save_data", "drain", "update"} =>
          AtBoundary(train_step, steps_since_update) /\ steps_since_update > 0
    /\ pc = "begin_step" => fired_step <= train_step + 1

\* Only the first step of a window trains rollout batches of an earlier one;
\* the others are of a dispatch of this window, with its prompt.
CarryInv == pc # "failed" => \A p \in Places :
    IF Line[p].key \in DOMAIN pending
    THEN Line[p].raw = pending[Line[p].key].raw
    ELSE /\ pc \in {"begin_step", "fire", "collect", "train"}
         /\ steps_since_update = 0 /\ p <= NumCollect

LEMMA StepLeadInv == TypeInv /\ LoopInv /\ LeadInv /\ [Next]_vars => LeadInv'
<1>. SUFFICES ASSUME TypeInv, LoopInv, LeadInv, [Next]_vars PROVE LeadInv'
  OBVIOUS
<1>1. CASE BeginStep \/ FireGenerationRequests \/ CollectItem \/ FinishCollect
  <2>1. pc' \in {"fire", "collect", "train", "failed"}
    BY <1>1 DEF BeginStep, FireGenerationRequests, CollectItem, FinishCollect
  <2>. QED  BY <2>1 DEF LeadInv
<1>2. CASE Train
  <2>1. /\ train_step' = train_step + 1 /\ steps_since_update' = steps_since_update + 1
        /\ pc' = AfterTrain(train_step + 1, steps_since_update + 1)
    BY <1>2 DEF Train
  <2>2. steps_since_update \in Nat
    BY DEF TypeInv, TypeOK, TrainerTypeOK
  <2>. QED  BY <2>1, <2>2 DEF LeadInv, AfterTrain
<1>3. CASE SaveModel \/ SaveData \/ WaitAllInflight
  <2>1. UNCHANGED <<train_step, steps_since_update>>
    BY <1>3 DEF SaveModel, SaveData, WaitAllInflight
  <2>2. /\ pc' # "begin_step"
        /\ pc' \in {"save_model", "save_data", "drain", "update"} =>
              pc \in {"save_model", "save_data", "drain", "update"}
    BY <1>3 DEF SaveModel, SaveData, AfterSave, WaitAllInflight
  <2>. QED  BY <2>1, <2>2 DEF LeadInv, AtBoundary
<1>4. CASE UpdateWeights
  <2>1. /\ pc = "update" /\ pc' \in {"begin_step", "collect", "final_model", "done"}
        /\ UNCHANGED <<fired_step, train_step>>
    BY <1>4 DEF UpdateWeights, LoopTop, AfterLoop
  <2>2. /\ steps_since_update >= WindowSize \/ train_step = TotalSteps
        /\ fired_step = FireTarget(sampler_weights)
        /\ sampler_weights + steps_since_update = train_step
    BY <2>1 DEF LeadInv, LoopInv, AtBoundary
  <2>3. /\ sampler_weights \in 0 .. TotalSteps /\ train_step \in 0 .. TotalSteps
        /\ steps_since_update \in Nat /\ fired_step \in Nat
    BY DEF TypeInv, TypeOK, TrainerTypeOK
  <2>4. fired_step <= sampler_weights + MaxStale + 1 /\ fired_step <= TotalSteps
    BY <2>2, <2>3, FireTargetValues
  <2>5. fired_step <= train_step + 1
    BY <2>2, <2>3, <2>4, Constants
  <2>. QED  BY <2>1, <2>5 DEF LeadInv
<1>5. CASE Restart
  <2>1. pc' \in {"failed", "begin_step", "collect", "final_model", "done"}
    BY <1>5 DEF Restart, AfterBoot, LoopTop, AfterLoop
  <2>2. pc' = "begin_step" => fired_step' = train_step' /\ fired_step' \in Nat
    BY <1>5 DEF Restart, TypeInv, TypeOK, DiskTypeOK
  <2>. QED  BY <2>1, <2>2 DEF LeadInv
<1>6. CASE RolloutSide
  <2>1. UNCHANGED <<pc, train_step, fired_step, steps_since_update>>
    BY <1>6, RolloutFrame
  <2>. QED  BY <2>1 DEF LeadInv, AtBoundary
<1>. QED  BY <1>1, <1>2, <1>3, <1>4, <1>5, <1>6, NextCases

\* The items of a dispatch join the line with its prompt.
LEMMA ItemFields ==
    ASSUME NEW k, NEW e
    PROVE  /\ Item(k, e).key = k /\ Item(k, e).error = e /\ Item(k, e).raw = pending[k].raw
BY DEF Item

\* When a window begins, all that is in line is left from the one before, and
\* it is no more than one step trains.
LEMMA BeginLine ==
    ASSUME WindowInv, BalanceInv, LeadInv, pc = "begin_step"
    PROVE  /\ Unbroken /\ fired_step - train_step \in 0 .. 1
           /\ Len(Line) = (fired_step - train_step) * NumCollect /\ Len(Line) <= NumCollect
<1>1. Unbroken
  BY DEF WindowInv, TaskInv, Unbroken
<1>2. /\ Len(Line) = (fired_step - train_step) * NumCollect
      /\ train_step <= fired_step /\ fired_step <= train_step + 1
      /\ train_step \in Nat /\ fired_step \in Nat /\ NumCollect \in Nat
  BY <1>1, BalanceTypes DEF BalanceInv, LeadInv, WindowInv, LoopInv
<1>3. fired_step - train_step = 0 \/ fired_step - train_step = 1
  BY <1>2
<1>4. 0 * NumCollect = 0 /\ 1 * NumCollect = NumCollect
  BY <1>2
<1>. QED  BY <1>1, <1>2, <1>3, <1>4

LEMMA StepCarryInv == WindowInv /\ BalanceInv /\ LeadInv /\ CarryInv /\ [Next]_vars => CarryInv'
<1>. SUFFICES ASSUME WindowInv, BalanceInv, LeadInv, CarryInv, [Next]_vars, pc' # "failed",
                     NEW p \in Places'
              PROVE  IF Line'[p].key \in DOMAIN pending'
                     THEN Line'[p].raw = pending'[Line'[p].key].raw
                     ELSE /\ pc' \in {"begin_step", "fire", "collect", "train"}
                          /\ steps_since_update' = 0 /\ p <= NumCollect
  BY DEF CarryInv
<1>0. /\ TypeInv /\ PauseInv /\ Len(Line) \in Nat /\ NumCollect \in Nat
      /\ p \in 1 .. Len(Line') /\ ~ Line'[p].error
  BY BalanceTypes DEF WindowInv, Places
<1>1. CASE BeginStep
  <2>1. pc = "begin_step" /\ pc' = "fire" /\ DOMAIN pending' = {} /\ UNCHANGED steps_since_update
    BY <1>1 DEF BeginStep, EmptyDict
  <2>2. Line' = Line
    BY <1>1, TrainerLine
  <2>3. steps_since_update = 0 /\ Len(Line) <= NumCollect
    BY <2>1, BeginLine DEF WindowInv, LoopInv
  <2>. QED  BY <1>0, <2>1, <2>2, <2>3
<1>2. CASE FireGenerationRequests
  <2>1. Line' = Line /\ pc = "fire" /\ pc' \in {"fire", "collect"} /\ UNCHANGED steps_since_update
    BY <1>2, TrainerLine DEF FireGenerationRequests
  <2>2. p \in Places /\ p \in 1 .. Len(Line)
    BY <2>1 DEF Places
  <2>3. Line[p].key \notin Fired
    <3>1. Line[p].key[1] < fired_step
      BY <2>2 DEF WindowInv, KeyInv
    <3>2. \A k \in Fired : k \in Dispatch /\ fired_step <= k[1] /\ fired_step \in Nat
      BY <1>2, FirePending DEF WindowInv, Fired
    <3>3. \A k \in Dispatch : k[1] \in Nat
      BY DEF Dispatch
    <3>. QED  BY <3>1, <3>2, <3>3
  <2>4. DOMAIN pending' = DOMAIN pending \cup Fired
    BY <1>2, FirePending DEF WindowInv
  <2>5. \A k \in DOMAIN pending \ Fired : pending'[k] = pending[k]
    BY <1>2 DEF FireGenerationRequests
  <2>. QED  BY <2>1, <2>2, <2>3, <2>4, <2>5 DEF CarryInv
<1>3. CASE CollectItem
  <2>1. Line' = Line /\ pc = "collect" /\ pc' = "collect" /\ UNCHANGED steps_since_update
    BY <1>0, <1>3, CollectLine DEF CollectItem
  <2>2. p \in Places
    BY <2>1 DEF Places
  <2>3. /\ DOMAIN pending' = DOMAIN pending
        /\ \A k \in DOMAIN pending : pending'[k].raw = pending[k].raw
    <3>1. \A k \in DOMAIN pending : pending[k] \in PendingMicrobatch
      BY <1>0, PendingTypes
    <3>. QED  BY <1>3, <2>1, <3>1 DEF CollectItem, PendingMicrobatch
  <2>. QED  BY <2>1, <2>2, <2>3 DEF CarryInv
<1>4. CASE FinishCollect \/ SaveModel \/ SaveData \/ WaitAllInflight \/ UpdateWeights
  <2>1. Line' = Line /\ UNCHANGED pending
    BY <1>4, TrainerLine DEF FinishCollect, SaveModel, SaveData, WaitAllInflight, UpdateWeights, Line
  <2>2. p \in Places
    BY <2>1 DEF Places
  <2>3. /\ pc # "failed" /\ pc \notin {"begin_step", "fire", "train"}
        /\ pc = "collect" => pc' = "train" /\ UNCHANGED steps_since_update
    BY <1>4 DEF FinishCollect, SaveModel, SaveData, WaitAllInflight, UpdateWeights
  <2>. QED  BY <2>1, <2>2, <2>3 DEF CarryInv
<1>5. CASE Train
  <2>1. Shifts /\ pc = "train" /\ UNCHANGED pending
    BY <1>5, TrainLine DEF WindowInv, Train
  <2>. DEFINE q == NumCollect + p
  <2>2. q \in 1 .. Len(Line) /\ Line'[p] = Line[q] /\ ~ (q <= NumCollect)
    <3>1. Len(Line') \in Nat /\ Len(Line) = Len(Line') + NumCollect /\ Line'[p] = Line[q]
      BY <1>0, <2>1 DEF Shifts
    <3>. QED  BY <1>0, <3>1
  <2>3. q \in Places
    BY <1>0, <2>2 DEF Places
  <2>. HIDE DEF q
  <2>. QED  BY <2>1, <2>2, <2>3 DEF CarryInv
<1>6. CASE Restart
  BY <1>0, <1>6, RestartLine
<1>7. CASE RolloutSide
  <2>1. UNCHANGED <<pc, steps_since_update>>
    BY <1>7, RolloutFrame
  <2>2. /\ DOMAIN pending' = DOMAIN pending
        /\ \A k \in DOMAIN pending : pending'[k].raw = pending[k].raw
    <3>1. \A k \in DOMAIN pending : pending[k] \in PendingMicrobatch
      BY <1>0, PendingTypes
    <3>2. CASE UNCHANGED pending
      BY <3>2
    <3>3. CASE \E k \in DOMAIN inflight_tasks : Accepts(k)
      BY <3>1, <3>3 DEF Accepts, PendingMicrobatch
    <3>. QED  BY <1>0, <1>7, <3>2, <3>3, RolloutCases DEF Aborts, Proceeds, Refuses, Raises
  <2>3. CASE Line' = Line
    BY <2>1, <2>2, <2>3 DEF CarryInv, Places
  <2>4. CASE \E k \in DOMAIN inflight_tasks : Accepts(k) \/ Raises(k)
    <3>1. PICK k \in DOMAIN inflight_tasks : Accepts(k) \/ Raises(k)
      BY <2>4
    <3>2. /\ \A i \in 1 .. Len(Line) : Line'[i] = Line[i]
          /\ \A i \in 1 .. Len(Line') : i \notin 1 .. Len(Line) => \E e : Line'[i] = Item(k, e)
      <4>1. RbMultiplier \in Nat
        BY Constants
      <4>2. \E n \in Nat, e \in BOOLEAN : Joins(k, n, e)
        BY <3>1, <4>1 DEF Accepts, Raises
      <4>. QED  BY <1>0, <4>2 DEF Joins
    <3>3. CASE p \in 1 .. Len(Line)
      BY <1>0, <2>1, <2>2, <3>2, <3>3 DEF CarryInv, Places
    <3>4. CASE p \notin 1 .. Len(Line)
      <4>1. PICK e : Line'[p] = Item(k, e)
        BY <1>0, <3>2, <3>4
      <4>2. Line'[p].key = k /\ Line'[p].raw = pending[k].raw
        BY <4>1, ItemFields
      <4>3. k \in DOMAIN pending
        BY <1>0, PendingTypes
      <4>. QED  BY <2>2, <4>2, <4>3
    <3>. QED  BY <3>3, <3>4
  <2>. QED  BY <1>0, <1>7, <2>3, <2>4, RolloutLine
<1>. QED  BY <1>1, <1>2, <1>3, <1>4, <1>5, <1>6, <1>7, NextCases

----------------------------------------------------------------------------
\* A group of the line is of one microbatch.

OneKey(p, q) == Clean(q) /\ SameGroup(p, q) => Line[p].key = Line[q].key
BlockInv == pc # "failed" => \A q \in 1 .. Len(Line) : \A p \in 1 .. q : OneKey(p, q)

LEMMA AcceptsBlock ==
    ASSUME WindowInv, BalanceInv, BlockInv, RolloutSide,
           NEW k \in DOMAIN inflight_tasks, Accepts(k), pc # "failed",
           NEW q \in 1 .. Len(Line'), NEW p \in 1 .. q
    PROVE  OneKey(p, q)'
<1>. SUFFICES ASSUME Clean(q)', SameGroup(p, q) PROVE Line'[p].key = Line'[q].key
  BY DEF OneKey, SameGroup
<1>. DEFINE n == Len(Line)
<1>1. /\ Len(Line') = n + RbMultiplier /\ RbMultiplier \in Nat \ {0} /\ n \in Nat
      /\ \A i \in 1 .. n : Line'[i] = Line[i]
      /\ \A i \in n + 1 .. n + RbMultiplier : Line'[i] = Item(k, FALSE)
      /\ Item(k, FALSE).key = k
  BY Constants, BalanceTypes, ItemFields DEF Accepts, Joins
<1>2. p \in Nat /\ q \in Nat /\ p <= q /\ q <= n + RbMultiplier /\ 1 <= p
  BY <1>1
<1>. HIDE DEF n
<1>3. \A i \in 1 .. q : i \in 1 .. n => ~ Line[i].error
  <2>1. \A i \in 1 .. q : ~ Line'[i].error
    BY DEF Clean
  <2>. QED  BY <1>1, <2>1
<1>4. CASE q <= n
  <2>1. q \in 1 .. n /\ p \in 1 .. n /\ \A i \in 1 .. q : i \in 1 .. n
    BY <1>1, <1>2, <1>4
  <2>2. Line'[q] = Line[q] /\ Line'[p] = Line[p] /\ Clean(q)
    BY <1>1, <1>3, <2>1 DEF Clean
  <2>. QED  BY <2>1, <2>2 DEF BlockInv, OneKey, n
<1>5. CASE q > n
  <2>1. \A i \in 1 .. n : i \in 1 .. q
    BY <1>1, <1>2, <1>5
  <2>2. Unbroken
    BY <1>3, <2>1 DEF Unbroken, Clean, n
  <2>3. pc \in {"fire", "collect", "train", "save_model", "save_data", "drain", "update"}
    <3>1. pc \notin {"begin_step", "final_model", "final_data", "done"}
      BY DEF WindowInv, TaskInv
    <3>. QED  BY <3>1 DEF WindowInv, TypeInv, TypeOK, TrainerTypeOK, TrainerPcs
  <2>4. PICK g \in Nat : n = g * RbMultiplier
    BY <2>2, <2>3, WholeGroups DEF n
  <2>5. PICK h \in Nat : /\ h * RbMultiplier < p /\ p <= (h + 1) * RbMultiplier
                         /\ h * RbMultiplier < q /\ q <= (h + 1) * RbMultiplier
    BY DEF SameGroup
  <2>6. g < h + 1
    <3>1. g * RbMultiplier < (h + 1) * RbMultiplier
      <4>1. (h + 1) * RbMultiplier \in Int
        BY <2>5, Distribute, Constants
      <4>. QED  BY <1>1, <1>2, <1>5, <2>4, <2>5, <4>1
    <3>. QED  BY <2>4, <2>5, <3>1, Distribute, Constants
  <2>7. g * RbMultiplier <= h * RbMultiplier
    BY <2>4, <2>5, <2>6, Distribute, Constants
  <2>8. p > n
    <3>1. h * RbMultiplier \in Int
      BY <2>5, Distribute, Constants
    <3>. QED  BY <1>1, <1>2, <2>4, <2>5, <2>7, <3>1
  <2>9. p \in n + 1 .. n + RbMultiplier /\ q \in n + 1 .. n + RbMultiplier
    BY <1>1, <1>2, <1>5, <2>8
  <2>. QED  BY <1>1, <2>9
<1>. QED  BY <1>1, <1>2, <1>4, <1>5

LEMMA TrainBlock ==
    ASSUME WindowInv, BlockInv, Train, NEW q \in 1 .. Len(Line'), NEW p \in 1 .. q
    PROVE  OneKey(p, q)'
<1>. SUFFICES ASSUME Clean(q)', SameGroup(p, q) PROVE Line'[p].key = Line'[q].key
  BY DEF OneKey, SameGroup
<1>. DEFINE c == NumCollect
            l == Len(Line')
<1>1. /\ l \in Nat /\ Len(Line) = l + c /\ c \in Nat
      /\ \A i \in 1 .. l : Line'[i] = Line[c + i]
      /\ pc = "train" /\ c = NumMb * RbMultiplier
  BY TrainLine, BalanceTypes DEF WindowInv, Shifts, Train, NumCollect
<1>2. q \in 0 .. l /\ q \in 1 .. l /\ p \in 1 .. q
  BY <1>1
<1>3. Clean(q + c)
  BY <1>2, TrainCleanTo
<1>. HIDE DEF c, l
<1>4. /\ q + c \in 1 .. Len(Line) /\ p + c \in 1 .. q + c /\ c + p = p + c /\ c + q = q + c
      /\ p \in 1 .. l
  BY <1>1, <1>2
<1>5. Line'[p] = Line[p + c] /\ Line'[q] = Line[q + c]
  BY <1>1, <1>2, <1>4
<1>6. PICK h \in Nat : /\ h * RbMultiplier < p /\ p <= (h + 1) * RbMultiplier
                       /\ h * RbMultiplier < q /\ q <= (h + 1) * RbMultiplier
  BY DEF SameGroup
<1>. DEFINE g == h + NumMb
            x == h * RbMultiplier
            y == (h + 1) * RbMultiplier
<1>7. g \in Nat /\ g + 1 = (h + 1) + NumMb
  BY <1>6, Constants
<1>8. g * RbMultiplier = x + c
  BY <1>1, <1>6, Distribute, Constants
<1>9. (g + 1) * RbMultiplier = y + c
  BY <1>1, <1>6, <1>7, Distribute, Constants
<1>10. x \in Int /\ y \in Int /\ x < p /\ p <= y /\ x < q /\ q <= y
  BY <1>6, Distribute, Constants
<1>. HIDE DEF g, x, y
<1>11. x + c < p + c /\ p + c <= y + c /\ x + c < q + c /\ q + c <= y + c
  BY <1>1, <1>2, <1>10
<1>12. SameGroup(p + c, q + c)
  BY <1>7, <1>8, <1>9, <1>11 DEF SameGroup
<1>. QED  BY <1>1, <1>3, <1>4, <1>5, <1>12 DEF BlockInv, OneKey

LEMMA StepBlockInv == WindowInv /\ BalanceInv /\ BlockInv /\ [Next]_vars => BlockInv'
<1>. SUFFICES ASSUME WindowInv, BalanceInv, BlockInv, [Next]_vars, pc' # "failed",
                     NEW q \in 1 .. Len(Line'), NEW p \in 1 .. q
              PROVE  OneKey(p, q)'
  BY DEF BlockInv
<1>0. TypeInv /\ PauseInv
  BY DEF WindowInv
<1>1. ASSUME UNCHANGED Line, pc # "failed" PROVE OneKey(p, q)'
  BY <1>1 DEF BlockInv, OneKey, Clean, SameGroup
<1>2. CASE CollectItem
  BY <1>0, <1>1, <1>2, CollectLine DEF CollectItem
<1>3. CASE BeginStep \/ FireGenerationRequests \/ FinishCollect \/ SaveModel \/ SaveData
              \/ WaitAllInflight \/ UpdateWeights
  <2>1. UNCHANGED Line /\ pc # "failed"
    BY <1>3, TrainerLine DEF BeginStep, FireGenerationRequests, FinishCollect, SaveModel,
       SaveData, WaitAllInflight, UpdateWeights
  <2>. QED  BY <1>1, <2>1
<1>4. CASE Restart
  BY <1>4, RestartLine
<1>5. CASE RolloutSide
  <2>1. UNCHANGED pc
    BY <1>5, RolloutFrame
  <2>2. CASE \E k \in DOMAIN inflight_tasks : Accepts(k)
    BY <1>5, <2>1, <2>2, AcceptsBlock
  <2>3. CASE \E k \in DOMAIN inflight_tasks : Raises(k)
    <3>1. PICK k \in DOMAIN inflight_tasks : Raises(k)
      BY <2>3
    <3>. DEFINE n == Len(Line)
    <3>2. /\ Len(Line') = n + 1 /\ n \in Nat /\ \A i \in 1 .. n : Line'[i] = Line[i]
          /\ \A i \in n + 1 .. n + 1 : Line'[i] = Item(k, TRUE)
      BY <3>1, BalanceTypes DEF Raises, Joins
    <3>3. Item(k, TRUE).error
      BY ItemFields
    <3>. HIDE DEF n
    <3>4. CASE q \in n + 1 .. n + 1
      <4>1. Line'[q] = Item(k, TRUE)
        BY <3>2, <3>4
      <4>2. q \in 1 .. q
        BY <3>2
      <4>3. ~ Clean(q)'
        BY <3>3, <4>1, <4>2 DEF Clean
      <4>. QED  BY <4>3 DEF OneKey
    <3>5. CASE q \notin n + 1 .. n + 1
      <4>1. q \in 1 .. n /\ p \in 1 .. n /\ \A i \in 1 .. q : i \in 1 .. n
        BY <3>2, <3>5
      <4>2. Line'[q] = Line[q] /\ Line'[p] = Line[p] /\ (Clean(q)' => Clean(q))
        BY <3>2, <4>1 DEF Clean
      <4>. QED  BY <2>1, <4>1, <4>2 DEF BlockInv, OneKey, SameGroup, n
    <3>. QED  BY <3>4, <3>5
  <2>4. CASE ~ \E k \in DOMAIN inflight_tasks : Accepts(k) \/ Raises(k)
    BY <1>0, <1>1, <1>5, <2>1, <2>4, RolloutLine
  <2>. QED  BY <2>2, <2>3, <2>4
<1>. QED  BY <1>2, <1>3, <1>4, <1>5, TrainBlock, NextCases

\* The first item of the line's group g, and what the first m groups are about:
\* m microbatches.
Leader(g) == g * RbMultiplier + 1
Firsts(m) == {Line[i].key : i \in 1 .. m * RbMultiplier}

LEMMA GroupLeaders ==
    ASSUME WindowInv, GroupInv, BlockInv, pc # "failed", NEW m \in Nat,
           m * RbMultiplier <= Len(Line), Clean(m * RbMultiplier)
    PROVE  /\ \A g \in 0 .. m - 1 : Leader(g) \in 1 .. m * RbMultiplier
           /\ \A i \in 1 .. m * RbMultiplier :
                 \E g \in 0 .. m - 1 : Line[Leader(g)].key = Line[i].key
           /\ \A g, h \in 0 .. m - 1 : Line[Leader(g)].key = Line[Leader(h)].key => g = h
<1>. DEFINE r == RbMultiplier
            n == m * r
<1>0. r \in Nat \ {0} /\ n \in Nat /\ Len(Line) \in Nat /\ n <= Len(Line)
      /\ \A a \in Nat : a * r \in Nat
  <2>1. \A a \in Nat : a * r \in Nat
    BY Constants
  <2>. QED  BY <2>1, BalanceTypes, Constants
<1>1. ASSUME NEW g \in 0 .. m - 1
      PROVE  Leader(g) \in 1 .. n /\ g \in Nat /\ Leader(g) = g * r + 1
  <2>1. g \in Nat /\ g + 1 <= m
    OBVIOUS
  <2>2. (g + 1) * r <= m * r /\ (g + 1) * r = g * r + r /\ g * r \in Nat
    BY <1>0, <2>1, Distribute
  <2>. DEFINE x == g * r
  <2>3. x + r <= n /\ x \in Nat
    BY <2>2
  <2>. HIDE DEF n, x
  <2>4. x + 1 \in 1 .. n
    BY <1>0, <2>3
  <2>. QED  BY <2>1, <2>4 DEF Leader, x
<1>2. ASSUME NEW i \in 1 .. n
      PROVE  \E g \in 0 .. m - 1 : Line[Leader(g)].key = Line[i].key
  <2>. DEFINE g == (i - 1) \div r
              x == g * r
              y == (g + 1) * r
  <2>1. i - 1 \in Nat /\ i \in Nat
    BY <1>0
  <2>2. g \in Nat /\ x <= i - 1 /\ i - 1 < y
    BY <1>0, <2>1, DivisionBounds
  <2>. HIDE DEF g
  <2>3. x \in Nat /\ y \in Nat
    BY <1>0, <2>2
  <2>4. g < m
    <3>1. g * r < m * r
      BY <1>0, <2>1, <2>2, <2>3
    <3>. QED  BY <1>0, <2>2, <3>1, Distribute
  <2>5. g \in 0 .. m - 1
    BY <2>2, <2>4
  <2>6. Leader(g) \in 1 .. i /\ i \in 1 .. Len(Line) /\ \A j \in 1 .. i : j \in 1 .. n
    <3>1. Leader(g) = x + 1
      BY DEF Leader
    <3>. HIDE DEF n, x
    <3>. QED  BY <1>0, <2>1, <2>2, <2>3, <3>1
  <2>7. Clean(i)
    BY <2>6 DEF Clean
  <2>8. SameGroup(Leader(g), i)
    <3>1. Leader(g) = x + 1 /\ x < x + 1 /\ x + 1 <= y /\ x < i /\ i <= y
      <4>1. Leader(g) = x + 1
        BY DEF Leader
      <4>. HIDE DEF x, y
      <4>. QED  BY <2>1, <2>2, <2>3, <4>1
    <3>. QED  BY <2>2, <3>1 DEF SameGroup
  <2>9. Line[Leader(g)].key = Line[i].key
    BY <2>6, <2>7, <2>8 DEF BlockInv, OneKey
  <2>. QED  BY <2>5, <2>9
<1>3. ASSUME NEW g \in 0 .. m - 1, NEW h \in 0 .. m - 1, g <= h,
             Line[Leader(g)].key = Line[Leader(h)].key
      PROVE  g = h
  <2>. DEFINE p == Leader(g)
              q == Leader(h)
  <2>1. /\ p \in 1 .. n /\ q \in 1 .. n /\ p = g * r + 1 /\ q = h * r + 1
        /\ g \in Nat /\ h \in Nat
    BY <1>1
  <2>2. p <= q
    <3>1. g * r <= h * r /\ g * r \in Nat /\ h * r \in Nat
      BY <1>0, <1>3, <2>1, Distribute
    <3>. QED  BY <2>1, <3>1
  <2>. HIDE DEF p, q
  <2>3. /\ p \in 1 .. q /\ q \in 1 .. Len(Line) /\ q \in 1 .. n
        /\ \A j \in 1 .. p : j \in 1 .. n
    <3>. HIDE DEF n
    <3>. QED  BY <1>0, <2>1, <2>2
  <2>4. Clean(p) /\ ~ Line[q].error /\ Line[p].key = Line[q].key
    BY <1>3, <2>3 DEF Clean, p, q
  <2>5. SameGroup(p, q)
    BY <2>3, <2>4 DEF GroupInv, Together
  <2>6. PICK f \in Nat : f * r < p /\ q <= (f + 1) * r
    BY <2>5 DEF SameGroup
  <2>7. f * r \in Nat /\ (f + 1) * r \in Nat /\ g * r \in Nat /\ h * r \in Nat
        /\ (g + 1) * r = g * r + r
    BY <1>0, <2>1, <2>6, Distribute
  <2>8. f < g + 1
    <3>1. f * r < (g + 1) * r
      BY <1>0, <2>1, <2>6, <2>7
    <3>. QED  BY <1>0, <2>1, <2>6, <3>1, Distribute
  <2>9. h < f + 1
    <3>1. h * r < (f + 1) * r
      BY <1>0, <2>1, <2>6, <2>7
    <3>. QED  BY <1>0, <2>1, <2>6, <3>1, Distribute
  <2>. QED  BY <1>3, <2>1, <2>6, <2>8, <2>9
<1>4. ASSUME NEW g \in 0 .. m - 1, NEW h \in 0 .. m - 1,
             Line[Leader(g)].key = Line[Leader(h)].key
      PROVE  g = h
  <2>1. g <= h \/ h <= g
    OBVIOUS
  <2>. QED  BY <1>3, <1>4, <2>1
<1>. QED  BY <1>1, <1>2, <1>4

LEMMA FirstsCounted ==
    ASSUME WindowInv, GroupInv, BlockInv, pc # "failed", NEW m \in Nat,
           m * RbMultiplier <= Len(Line), Clean(m * RbMultiplier)
    PROVE  IsFiniteSet(Firsts(m)) /\ Cardinality(Firsts(m)) = m
<1>. DEFINE G == 0 .. m - 1
            f == [g \in G |-> Line[Leader(g)].key]
<1>1. IsFiniteSet(G) /\ Cardinality(G) = m
  <2>1. m - 1 \in Int
    OBVIOUS
  <2>2. IsFiniteSet(G) /\ Cardinality(G) = IF 0 > m - 1 THEN 0 ELSE m - 1 - 0 + 1
    BY <2>1, FS_Interval
  <2>. QED  BY <2>2
<1>2. f \in [G -> Firsts(m)]
  BY GroupLeaders DEF Firsts
<1>3. f \in Surjection(G, Firsts(m))
  <2>1. \A k \in Firsts(m) : \E g \in G : f[g] = k
    BY GroupLeaders DEF Firsts
  <2>. QED  BY <1>2, <2>1 DEF Surjection
<1>4. f \in Injection(G, Firsts(m))
  <2>1. \A g, h \in G : f[g] = f[h] => g = h
    BY GroupLeaders
  <2>. QED  BY <1>2, <2>1 DEF Injection, IsInjective
<1>. HIDE DEF G, f
<1>. QED  BY <1>1, <1>3, <1>4, FS_Surjection

----------------------------------------------------------------------------
\* Lists of prompts.

LEMMA Appended ==
    ASSUME NEW s \in Seq(Nat), NEW t \in Seq(Nat)
    PROVE  /\ s \o t \in Seq(Nat) /\ ToSet(s \o t) = ToSet(s) \cup ToSet(t)
           /\ IsInjective(s) /\ IsInjective(t) /\ ToSet(s) \cap ToSet(t) = {} =>
                 IsInjective(s \o t)
<1>. DEFINE u == s \o t
<1>1. /\ u \in Seq(Nat) /\ Len(u) = Len(s) + Len(t) /\ Len(s) \in Nat /\ Len(t) \in Nat
      /\ \A i \in 1 .. Len(s) : u[i] = s[i]
      /\ \A i \in 1 .. Len(t) : u[Len(s) + i] = t[i]
      /\ \A i \in 1 .. Len(s) + Len(t) : i \in 1 .. Len(s) \/ i - Len(s) \in 1 .. Len(t)
      /\ DOMAIN u = 1 .. Len(u) /\ DOMAIN s = 1 .. Len(s) /\ DOMAIN t = 1 .. Len(t)
  <2>1. u \in Seq(Nat)
    BY Concatenation
  <2>2. DOMAIN u = 1 .. Len(u) /\ DOMAIN s = 1 .. Len(s) /\ DOMAIN t = 1 .. Len(t)
    <3>. HIDE DEF u
    <3>. QED  BY <2>1
  <2>. QED  BY <2>2, Concatenation
<1>. HIDE DEF u
<1>2. \A i \in 1 .. Len(u) :
         \/ i \in 1 .. Len(s) /\ u[i] = s[i]
         \/ \E j \in 1 .. Len(t) : i = Len(s) + j /\ u[i] = t[j]
  <2>. SUFFICES ASSUME NEW i \in 1 .. Len(u), i \notin 1 .. Len(s)
                PROVE  \E j \in 1 .. Len(t) : i = Len(s) + j /\ u[i] = t[j]
    BY <1>1
  <2>1. i - Len(s) \in 1 .. Len(t) /\ i = Len(s) + (i - Len(s))
    BY <1>1
  <2>. QED  BY <1>1, <2>1
<1>3. /\ \A i \in 1 .. Len(s) : i \in 1 .. Len(u)
      /\ \A j \in 1 .. Len(t) : Len(s) + j \in 1 .. Len(u)
  BY <1>1
<1>4. /\ \A x : x \in ToSet(u) <=> \E i \in 1 .. Len(u) : u[i] = x
      /\ \A x : x \in ToSet(s) <=> \E i \in 1 .. Len(s) : s[i] = x
      /\ \A x : x \in ToSet(t) <=> \E i \in 1 .. Len(t) : t[i] = x
  BY <1>1 DEF ToSet
<1>5. \A x : x \in ToSet(u) <=> x \in ToSet(s) \/ x \in ToSet(t)
  <2>. SUFFICES ASSUME NEW x PROVE x \in ToSet(u) <=> x \in ToSet(s) \/ x \in ToSet(t)
    OBVIOUS
  <2>1. ASSUME x \in ToSet(u) PROVE x \in ToSet(s) \/ x \in ToSet(t)
    BY <1>2, <1>4, <2>1
  <2>2. ASSUME x \in ToSet(s) PROVE x \in ToSet(u)
    BY <1>1, <1>3, <1>4, <2>2
  <2>3. ASSUME x \in ToSet(t) PROVE x \in ToSet(u)
    BY <1>1, <1>3, <1>4, <2>3
  <2>. QED  BY <2>1, <2>2, <2>3
<1>6. ASSUME IsInjective(s), IsInjective(t), ToSet(s) \cap ToSet(t) = {} PROVE IsInjective(u)
  <2>1. \A i, j \in 1 .. Len(s) : s[i] = s[j] => i = j
    BY <1>1, <1>6 DEF IsInjective
  <2>2. \A i, j \in 1 .. Len(t) : t[i] = t[j] => i = j
    BY <1>1, <1>6 DEF IsInjective
  <2>3. \A i \in 1 .. Len(s) : \A j \in 1 .. Len(t) : s[i] # t[j]
    BY <1>4, <1>6
  <2>4. ASSUME NEW i \in 1 .. Len(u), NEW j \in 1 .. Len(u), u[i] = u[j] PROVE i = j
    <3>1. /\ \/ i \in 1 .. Len(s) /\ u[i] = s[i]
             \/ \E h \in 1 .. Len(t) : i = Len(s) + h /\ u[i] = t[h]
          /\ \/ j \in 1 .. Len(s) /\ u[j] = s[j]
             \/ \E h \in 1 .. Len(t) : j = Len(s) + h /\ u[j] = t[h]
      BY <1>2
    <3>2. CASE i \in 1 .. Len(s) /\ u[i] = s[i]
      <4>1. CASE j \in 1 .. Len(s) /\ u[j] = s[j]
        BY <2>1, <2>4, <3>2, <4>1
      <4>2. CASE \E h \in 1 .. Len(t) : j = Len(s) + h /\ u[j] = t[h]
        BY <2>3, <2>4, <3>2, <4>2
      <4>. QED  BY <3>1, <4>1, <4>2
    <3>3. CASE \E h \in 1 .. Len(t) : i = Len(s) + h /\ u[i] = t[h]
      <4>1. PICK g \in 1 .. Len(t) : i = Len(s) + g /\ u[i] = t[g]
        BY <3>3
      <4>2. CASE j \in 1 .. Len(s) /\ u[j] = s[j]
        BY <2>3, <2>4, <4>1, <4>2
      <4>3. CASE \E h \in 1 .. Len(t) : j = Len(s) + h /\ u[j] = t[h]
        <5>1. PICK h \in 1 .. Len(t) : j = Len(s) + h /\ u[j] = t[h]
          BY <4>3
        <5>2. t[g] = t[h]
          BY <2>4, <4>1, <5>1
        <5>3. g = h
          BY <2>2, <4>1, <5>1, <5>2
        <5>. QED  BY <4>1, <5>1, <5>3
      <4>. QED  BY <3>1, <4>2, <4>3
    <3>. QED  BY <3>1, <3>2, <3>3
  <2>. QED  BY <1>1, <2>4 DEF IsInjective
<1>. QED  BY <1>1, <1>5, <1>6 DEF u

\* What is left of a list after its first n.
LEMMA Dropped ==
    ASSUME NEW s \in Seq(Nat), NEW n \in 0 .. Len(s), IsInjective(s)
    PROVE  LET t == SubSeq(s, n + 1, Len(s))
           IN  /\ t \in Seq(Nat) /\ Len(t) = Len(s) - n /\ IsInjective(t)
               /\ ToSet(t) = {s[i] : i \in n + 1 .. Len(s)}
               /\ ToSet(s) = ToSet(t) \cup {s[i] : i \in 1 .. n}
               /\ \A i \in 1 .. n : s[i] \notin ToSet(t)
<1>. DEFINE t == SubSeq(s, n + 1, Len(s))
            l == Len(s)
<1>1. l \in Nat /\ n \in Nat /\ n <= l /\ DOMAIN s = 1 .. l
  OBVIOUS
<1>2. /\ t \in Seq(Nat) /\ Len(t) = l - n /\ \A i \in 1 .. l - n : t[i] = s[n + i]
  <2>1. n + 1 \in 1 .. l + 1 /\ n + 1 \in Int /\ l \in Int
    BY <1>1
  <2>2. \A i \in n + 1 .. l : s[i] \in Nat
    BY <1>1
  <2>3. /\ t \in Seq(Nat)
        /\ Len(t) = IF n + 1 <= l THEN l - (n + 1) + 1 ELSE 0
        /\ \A i \in 1 .. l - (n + 1) + 1 : t[i] = s[n + 1 + i - 1]
    BY <2>1, <2>2, SubSeqProperties
  <2>4. Len(t) = l - n
    <3>1. Len(t) = IF n + 1 <= l THEN l - (n + 1) + 1 ELSE 0
      BY <2>3
    <3>. HIDE DEF t, l
    <3>2. n + 1 <= l \/ n = l
      BY <1>1
    <3>3. CASE n + 1 <= l
      BY <1>1, <3>1, <3>3
    <3>4. CASE n = l
      BY <1>1, <3>1, <3>4
    <3>. QED  BY <3>2, <3>3, <3>4
  <2>5. ASSUME NEW i \in 1 .. l - n PROVE t[i] = s[n + i]
    <3>1. i \in 1 .. l - (n + 1) + 1 /\ n + 1 + i - 1 = n + i
      BY <1>1
    <3>. QED  BY <2>3, <3>1
  <2>. QED  BY <2>3, <2>4, <2>5
<1>3. DOMAIN t = 1 .. l - n
  <2>. HIDE DEF t
  <2>. QED  BY <1>2
<1>. HIDE DEF t, l
<1>4. \A i, j \in 1 .. l : s[i] = s[j] => i = j
  BY <1>1 DEF IsInjective
<1>5. /\ \A i \in 1 .. l - n : n + i \in n + 1 .. l /\ n + i \in 1 .. l
      /\ \A i \in n + 1 .. l : i - n \in 1 .. l - n /\ n + (i - n) = i /\ i \in 1 .. l
      /\ \A i \in 1 .. n : i \in 1 .. l /\ i \notin n + 1 .. l
      /\ \A i \in 1 .. l : i \in 1 .. n \/ i \in n + 1 .. l
  BY <1>1
<1>6. IsInjective(t)
  <2>1. ASSUME NEW i \in 1 .. l - n, NEW j \in 1 .. l - n, t[i] = t[j] PROVE i = j
    <3>1. s[n + i] = s[n + j] /\ n + i \in 1 .. l /\ n + j \in 1 .. l
      BY <1>2, <1>5, <2>1
    <3>2. n + i = n + j
      BY <1>4, <3>1
    <3>. QED  BY <1>1, <3>2
  <2>. QED  BY <1>3, <2>1 DEF IsInjective
<1>7. \A x : x \in ToSet(t) <=> \E i \in n + 1 .. l : s[i] = x
  <2>1. \A x : x \in ToSet(t) <=> \E i \in 1 .. l - n : t[i] = x
    BY <1>3 DEF ToSet
  <2>2. ASSUME NEW x, x \in ToSet(t) PROVE \E i \in n + 1 .. l : s[i] = x
    <3>1. PICK i \in 1 .. l - n : t[i] = x
      BY <2>1, <2>2
    <3>. QED  BY <1>2, <1>5, <3>1
  <2>3. ASSUME NEW i \in n + 1 .. l PROVE s[i] \in ToSet(t)
    <3>1. i - n \in 1 .. l - n /\ t[i - n] = s[i]
      BY <1>2, <1>5
    <3>. QED  BY <2>1, <3>1
  <2>. QED  BY <2>2, <2>3
<1>8. ToSet(t) = {s[i] : i \in n + 1 .. l}
  BY <1>7
<1>9. ToSet(s) = ToSet(t) \cup {s[i] : i \in 1 .. n}
  <2>1. \A x : x \in ToSet(s) <=> \E i \in 1 .. l : s[i] = x
    BY <1>1 DEF ToSet
  <2>. QED  BY <1>5, <1>7, <2>1
<1>10. \A i \in 1 .. n : s[i] \notin ToSet(t)
  BY <1>4, <1>5, <1>7
<1>. QED  BY <1>2, <1>6, <1>8, <1>9, <1>10 DEF t, l

\* The prompts of a set of dispatches, in dict order.
LEMMA RawsListed ==
    ASSUME TypeInv, NEW S \in SUBSET DOMAIN pending
    PROVE  LET t == RawsOf(DictOrder(S))
           IN  /\ t \in Seq(Nat) /\ ToSet(t) = {pending[k].raw : k \in S}
               /\ (\A j, k \in S : pending[j].raw = pending[k].raw => j = k) => IsInjective(t)
<1>. DEFINE o == DictOrder(S)
            n == Cardinality(S)
            t == RawsOf(o)
<1>1. DispatchTypeOK /\ S \subseteq Dispatch
  BY PendingTypes DEF TypeInv, TypeOK
<1>2. t \in Seq(Nat)
  BY <1>1, RawsOfType
<1>3. o \in [1 .. n -> S] /\ (\A k \in S : \E i \in 1 .. n : o[i] = k)
      /\ \A i, j \in 1 .. n : o[i] = o[j] => i = j
  <2>1. o \in Bijection(1 .. n, S)
    BY <1>1, DictOrderLists
  <2>. HIDE DEF o
  <2>. QED  BY <2>1 DEF Bijection, Injection, Surjection, IsInjective
<1>. HIDE DEF o, n
<1>4. DOMAIN t = 1 .. n /\ \A i \in 1 .. n : t[i] = pending[o[i]].raw /\ o[i] \in S
  BY <1>3 DEF RawsOf
<1>. HIDE DEF t
<1>5. ToSet(t) = {pending[k].raw : k \in S}
  BY <1>3, <1>4 DEF ToSet
<1>6. ASSUME \A j, k \in S : pending[j].raw = pending[k].raw => j = k PROVE IsInjective(t)
  BY <1>3, <1>4, <1>6 DEF IsInjective
<1>. QED  BY <1>2, <1>5, <1>6 DEF t, o

----------------------------------------------------------------------------
\* The prompts one fire_generation_requests call sends out.

\* r rows of w places each, numbered row by row.
LEMMA RowByRow ==
    ASSUME NEW w \in Nat \ {0}, NEW r \in Nat
    PROVE  /\ r * w \in Nat
           /\ \A j \in 0 .. r - 1, i \in 0 .. w - 1 : j * w + i \in 0 .. r * w - 1
           /\ \A j, l \in 0 .. r - 1, i, h \in 0 .. w - 1 :
                 j * w + i = l * w + h => j = l /\ i = h
           /\ \A d \in 0 .. r * w - 1 : \E j \in 0 .. r - 1, i \in 0 .. w - 1 : d = j * w + i
<1>. DEFINE n == r * w
<1>1. n \in Nat
  OBVIOUS
<1>2. ASSUME NEW j \in 0 .. r - 1, NEW i \in 0 .. w - 1 PROVE j * w + i \in 0 .. n - 1
  <2>1. (j + 1) * w <= n /\ (j + 1) * w = j * w + w /\ j * w \in Nat
    BY Distribute
  <2>. DEFINE x == j * w
  <2>2. x + w <= n /\ x \in Nat
    BY <2>1
  <2>. HIDE DEF n, x
  <2>3. x + i \in 0 .. n - 1
    BY <1>1, <2>2
  <2>. QED  BY <2>3 DEF x
<1>3. ASSUME NEW j \in 0 .. r - 1, NEW l \in 0 .. r - 1, NEW i \in 0 .. w - 1, NEW h \in 0 .. w - 1,
             j * w + i = l * w + h
      PROVE  ~ (j < l)
  <2>. SUFFICES ASSUME j < l PROVE FALSE
    OBVIOUS
  <2>1. (j + 1) * w <= l * w /\ (j + 1) * w = j * w + w /\ j * w \in Nat /\ l * w \in Nat
    BY Distribute
  <2>. DEFINE x == j * w
              y == l * w
  <2>2. x + w <= y /\ x \in Nat /\ y \in Nat /\ x + i = y + h
    BY <1>3, <2>1
  <2>. HIDE DEF x, y
  <2>. QED  BY <2>2
<1>4. ASSUME NEW j \in 0 .. r - 1, NEW l \in 0 .. r - 1, NEW i \in 0 .. w - 1, NEW h \in 0 .. w - 1,
             j * w + i = l * w + h
      PROVE  j = l /\ i = h
  <2>1. ~ (j < l) /\ ~ (l < j)
    BY <1>3, <1>4
  <2>2. j = l
    BY <2>1
  <2>3. l * w \in Nat
    OBVIOUS
  <2>. QED  BY <1>4, <2>2, <2>3
<1>5. ASSUME NEW d \in 0 .. n - 1
      PROVE  \E j \in 0 .. r - 1, i \in 0 .. w - 1 : d = j * w + i
  <2>. DEFINE j == d \div w
              x == j * w
              i == d - x
  <2>1. d \in Nat /\ d < n
    BY <1>1
  <2>2. j \in Nat /\ x <= d /\ d < (j + 1) * w
    BY <2>1, DivisionBounds
  <2>. HIDE DEF j
  <2>3. x \in Nat /\ (j + 1) * w = x + w
    BY <2>2, Distribute
  <2>4. j < r
    <3>1. x < n
      BY <1>1, <2>1, <2>2, <2>3
    <3>. QED  BY <2>2, <3>1, Distribute
  <2>. HIDE DEF x
  <2>5. i \in 0 .. w - 1 /\ d = x + i
    BY <2>1, <2>2, <2>3
  <2>6. j \in 0 .. r - 1
    BY <2>2, <2>4
  <2>. HIDE DEF i
  <2>. QED  BY <2>5, <2>6 DEF x
<1>. QED  BY <1>1, <1>2, <1>4, <1>5

----------------------------------------------------------------------------
\* A microbatch that is fired takes one place among the buffer's prompts, or
\* among the fresh ones.
BufferPlace(k) == (k[1] - fired_step) * NumMb + k[2]
FreshPlace(k) == (k[1] - fired_step - BufferedSteps) * OverFireMb + k[2]
Popped == BufferedSteps * NumMb
FreshRead == FreshSteps * OverFireMb

LEMMA FiredRows ==
    ASSUME TypeInv, pc = "fire"
    PROVE  /\ \A k \in Fired :
                 /\ k \in Dispatch /\ k[1] \in Nat /\ k[2] \in 0 .. OverFireMb - 1
                 /\ FromBuffer(k) => /\ k[1] - fired_step \in 0 .. BufferedSteps - 1
                                     /\ k[2] \in 0 .. NumMb - 1
                 /\ ~ FromBuffer(k) => k[1] - fired_step - BufferedSteps \in 0 .. FreshSteps - 1
           /\ \A j \in 0 .. BufferedSteps - 1, i \in 0 .. NumMb - 1 :
                 <<fired_step + j, i>> \in Fired /\ FromBuffer(<<fired_step + j, i>>)
           /\ \A j \in 0 .. FreshSteps - 1, i \in 0 .. OverFireMb - 1 :
                 LET k == <<fired_step + BufferedSteps + j, i>>
                 IN  k \in Fired /\ ~ FromBuffer(k)
           /\ BufferedSteps \in Nat /\ FreshSteps \in Nat /\ fired_step \in Nat
<1>1. /\ ChunkEnd \in Nat /\ ChunkEnd <= TotalSteps /\ fired_step \in Nat
      /\ BufferedSteps \in Nat /\ FreshSteps \in Nat
      /\ ChunkEnd - fired_step = BufferedSteps + FreshSteps
      /\ TotalSteps \in Nat
  <2>1. fired_step \in Nat /\ fire_target \in 0 .. TotalSteps
    BY DEF TypeInv, TypeOK, TrainerTypeOK
  <2>2. /\ ChunkEnd \in 0 .. fire_target /\ BufferedSteps \in 0 .. ChunkEnd - fired_step
        /\ FreshSteps \in Nat
    BY ChunkBounds
  <2>3. FreshSteps = (ChunkEnd - fired_step) - BufferedSteps
    BY DEF FreshSteps
  <2>4. ChunkEnd \in Nat /\ ChunkEnd <= TotalSteps /\ BufferedSteps \in Nat /\ TotalSteps \in Nat
    BY <2>1, <2>2, Constants
  <2>. QED  BY <2>1, <2>2, <2>3, <2>4
<1>2. ASSUME NEW k \in Fired
      PROVE  /\ k \in Dispatch /\ k[1] \in Nat /\ k[2] \in 0 .. OverFireMb - 1
             /\ FromBuffer(k) => /\ k[1] - fired_step \in 0 .. BufferedSteps - 1
                                 /\ k[2] \in 0 .. NumMb - 1
             /\ ~ FromBuffer(k) => k[1] - fired_step - BufferedSteps \in 0 .. FreshSteps - 1
  <2>1. k \in Dispatch /\ k[1] \in fired_step .. ChunkEnd - 1 /\ (FromBuffer(k) => k[2] < NumMb)
    BY DEF Fired
  <2>2. k[1] \in Nat /\ k[2] \in 0 .. OverFireMb - 1
    BY <2>1, <1>1 DEF Dispatch
  <2>3. FromBuffer(k) => /\ k[1] - fired_step \in 0 .. BufferedSteps - 1
                         /\ k[2] \in 0 .. NumMb - 1
    BY <1>1, <2>1, <2>2, Constants DEF FromBuffer
  <2>4. ~ FromBuffer(k) => k[1] - fired_step - BufferedSteps \in 0 .. FreshSteps - 1
    BY <1>1, <2>1, <2>2 DEF FromBuffer
  <2>. QED  BY <2>1, <2>2, <2>3, <2>4
<1>3. ASSUME NEW j \in 0 .. BufferedSteps - 1, NEW i \in 0 .. NumMb - 1
      PROVE  <<fired_step + j, i>> \in Fired /\ FromBuffer(<<fired_step + j, i>>)
  <2>1. /\ fired_step + j \in 0 .. TotalSteps - 1 /\ i \in 0 .. OverFireMb - 1
        /\ fired_step + j \in fired_step .. ChunkEnd - 1 /\ i < NumMb
        /\ (fired_step + j) - fired_step < BufferedSteps
    BY <1>1, Constants
  <2>. QED  BY <2>1 DEF Fired, Dispatch, FromBuffer
<1>4. ASSUME NEW j \in 0 .. FreshSteps - 1, NEW i \in 0 .. OverFireMb - 1
      PROVE  LET k == <<fired_step + BufferedSteps + j, i>> IN  k \in Fired /\ ~ FromBuffer(k)
  <2>. DEFINE r == fired_step + BufferedSteps + j
  <2>1. /\ r \in 0 .. TotalSteps - 1 /\ r \in fired_step .. ChunkEnd - 1
        /\ ~ (r - fired_step < BufferedSteps)
    BY <1>1
  <2>. HIDE DEF r
  <2>2. <<r, i>> \in Fired /\ ~ FromBuffer(<<r, i>>)
    BY <2>1 DEF Fired, Dispatch, FromBuffer
  <2>. QED  BY <2>2 DEF r
<1>. QED  BY <1>1, <1>2, <1>3, <1>4

LEMMA BufferPlaces ==
    ASSUME TypeInv, pc = "fire"
    PROVE  /\ \A k \in Fired : FromBuffer(k) =>
                 BufferPlace(k) \in 0 .. Popped - 1 /\ PromptOf(k) = buffer[BufferPlace(k) + 1]
           /\ \A d \in 0 .. Popped - 1 : \E k \in Fired : FromBuffer(k) /\ BufferPlace(k) = d
           /\ \A j, k \in Fired :
                 FromBuffer(j) /\ FromBuffer(k) /\ BufferPlace(j) = BufferPlace(k) => j = k
           /\ Popped \in Nat
<1>1. /\ BufferedSteps \in Nat /\ fired_step \in Nat /\ NumMb \in Nat \ {0}
      /\ \A k \in Fired : /\ k[1] \in Nat /\ k \in Dispatch
                          /\ FromBuffer(k) => /\ k[1] - fired_step \in 0 .. BufferedSteps - 1
                                              /\ k[2] \in 0 .. NumMb - 1
      /\ \A j \in 0 .. BufferedSteps - 1, i \in 0 .. NumMb - 1 :
            <<fired_step + j, i>> \in Fired /\ FromBuffer(<<fired_step + j, i>>)
  BY FiredRows, Constants
<1>2. /\ Popped \in Nat
      /\ \A j \in 0 .. BufferedSteps - 1, i \in 0 .. NumMb - 1 : j * NumMb + i \in 0 .. Popped - 1
      /\ \A j, l \in 0 .. BufferedSteps - 1, i, h \in 0 .. NumMb - 1 :
            j * NumMb + i = l * NumMb + h => j = l /\ i = h
      /\ \A d \in 0 .. Popped - 1 :
            \E j \in 0 .. BufferedSteps - 1, i \in 0 .. NumMb - 1 : d = j * NumMb + i
  BY <1>1, RowByRow DEF Popped
<1>3. ASSUME NEW k \in Fired, FromBuffer(k)
      PROVE  BufferPlace(k) \in 0 .. Popped - 1 /\ PromptOf(k) = buffer[BufferPlace(k) + 1]
  <2>1. BufferPlace(k) \in 0 .. Popped - 1
    BY <1>1, <1>2, <1>3 DEF BufferPlace
  <2>2. PromptOf(k) = buffer[BufferPlace(k) + 1]
    BY <1>3 DEF PromptOf, DispatchedBefore, BufferPlace
  <2>. QED  BY <2>1, <2>2
<1>4. ASSUME NEW d \in 0 .. Popped - 1
      PROVE  \E k \in Fired : FromBuffer(k) /\ BufferPlace(k) = d
  <2>1. PICK j \in 0 .. BufferedSteps - 1, i \in 0 .. NumMb - 1 : d = j * NumMb + i
    BY <1>2
  <2>. DEFINE k == <<fired_step + j, i>>
  <2>2. k \in Fired /\ FromBuffer(k)
    BY <1>1
  <2>3. k[1] - fired_step = j /\ k[2] = i
    BY <1>1
  <2>. HIDE DEF k
  <2>4. BufferPlace(k) = d
    BY <2>1, <2>3 DEF BufferPlace
  <2>. QED  BY <2>2, <2>4
<1>5. ASSUME NEW j \in Fired, NEW k \in Fired, FromBuffer(j), FromBuffer(k),
             BufferPlace(j) = BufferPlace(k)
      PROVE  j = k
  <2>1. j[1] - fired_step = k[1] - fired_step /\ j[2] = k[2]
    <3>. DEFINE a == j[1] - fired_step
                b == k[1] - fired_step
    <3>1. /\ a \in 0 .. BufferedSteps - 1 /\ b \in 0 .. BufferedSteps - 1
          /\ j[2] \in 0 .. NumMb - 1 /\ k[2] \in 0 .. NumMb - 1
      BY <1>1, <1>5
    <3>2. a * NumMb + j[2] = b * NumMb + k[2]
      BY <1>5 DEF BufferPlace
    <3>. HIDE DEF a, b
    <3>3. a = b /\ j[2] = k[2]
      BY <1>2, <3>1, <3>2
    <3>. QED  BY <3>3 DEF a, b
  <2>2. j[1] = k[1]
    BY <1>1, <2>1
  <2>. QED  BY <1>1, <2>1, <2>2 DEF Dispatch
<1>. QED  BY <1>2, <1>3, <1>4, <1>5

LEMMA FreshPlaces ==
    ASSUME TypeInv, pc = "fire"
    PROVE  /\ \A k \in Fired : ~ FromBuffer(k) =>
                 /\ FreshPlace(k) \in 0 .. FreshRead - 1
                 /\ PromptOf(k) = total_dl_consumed + FreshPlace(k)
           /\ \A d \in 0 .. FreshRead - 1 : \E k \in Fired : ~ FromBuffer(k) /\ FreshPlace(k) = d
           /\ \A j, k \in Fired :
                 ~ FromBuffer(j) /\ ~ FromBuffer(k) /\ FreshPlace(j) = FreshPlace(k) => j = k
           /\ FreshRead \in Nat
<1>1. /\ BufferedSteps \in Nat /\ FreshSteps \in Nat /\ fired_step \in Nat
      /\ OverFireMb \in Nat \ {0} /\ NumMb \in Nat
      /\ \A k \in Fired :
            /\ k[1] \in Nat /\ k \in Dispatch /\ k[2] \in 0 .. OverFireMb - 1
            /\ ~ FromBuffer(k) => k[1] - fired_step - BufferedSteps \in 0 .. FreshSteps - 1
      /\ \A j \in 0 .. FreshSteps - 1, i \in 0 .. OverFireMb - 1 :
            LET k == <<fired_step + BufferedSteps + j, i>>
            IN  k \in Fired /\ ~ FromBuffer(k)
  BY FiredRows, Constants
<1>2. /\ FreshRead \in Nat
      /\ \A j \in 0 .. FreshSteps - 1, i \in 0 .. OverFireMb - 1 :
            j * OverFireMb + i \in 0 .. FreshRead - 1
      /\ \A j, l \in 0 .. FreshSteps - 1, i, h \in 0 .. OverFireMb - 1 :
            j * OverFireMb + i = l * OverFireMb + h => j = l /\ i = h
      /\ \A d \in 0 .. FreshRead - 1 :
            \E j \in 0 .. FreshSteps - 1, i \in 0 .. OverFireMb - 1 : d = j * OverFireMb + i
  BY <1>1, RowByRow DEF FreshRead
<1>3. ASSUME NEW k \in Fired, ~ FromBuffer(k)
      PROVE  /\ FreshPlace(k) \in 0 .. FreshRead - 1
             /\ PromptOf(k) = total_dl_consumed + FreshPlace(k)
  <2>1. FreshPlace(k) \in 0 .. FreshRead - 1
    BY <1>1, <1>2, <1>3 DEF FreshPlace
  <2>. DEFINE a == (k[1] - fired_step - BufferedSteps) * OverFireMb
              b == BufferedSteps * NumMb
  <2>2. PromptOf(k) = total_dl_consumed + (b + a + k[2]) - b
    BY <1>3 DEF PromptOf, DispatchedBefore
  <2>3. a \in Int /\ b \in Int /\ total_dl_consumed \in Int /\ k[2] \in Int
    <3>1. k[1] - fired_step - BufferedSteps \in Int /\ k[2] \in Int
      BY <1>1
    <3>2. total_dl_consumed \in Int
      BY DEF TypeInv, TypeOK, DataSourceTypeOK
    <3>. QED  BY <1>1, <3>1, <3>2, Distribute
  <2>4. FreshPlace(k) = a + k[2]
    BY DEF FreshPlace
  <2>. HIDE DEF a, b
  <2>5. PromptOf(k) = total_dl_consumed + FreshPlace(k)
    BY <2>2, <2>3, <2>4
  <2>. QED  BY <2>1, <2>5
<1>4. ASSUME NEW d \in 0 .. FreshRead - 1
      PROVE  \E k \in Fired : ~ FromBuffer(k) /\ FreshPlace(k) = d
  <2>1. PICK j \in 0 .. FreshSteps - 1, i \in 0 .. OverFireMb - 1 : d = j * OverFireMb + i
    BY <1>2
  <2>. DEFINE k == <<fired_step + BufferedSteps + j, i>>
  <2>2. k \in Fired /\ ~ FromBuffer(k)
    BY <1>1
  <2>3. k[1] - fired_step - BufferedSteps = j /\ k[2] = i
    BY <1>1
  <2>. HIDE DEF k
  <2>4. FreshPlace(k) = d
    BY <2>1, <2>3 DEF FreshPlace
  <2>. QED  BY <2>2, <2>4
<1>5. ASSUME NEW j \in Fired, NEW k \in Fired, ~ FromBuffer(j), ~ FromBuffer(k),
             FreshPlace(j) = FreshPlace(k)
      PROVE  j = k
  <2>1. /\ j[1] - fired_step - BufferedSteps = k[1] - fired_step - BufferedSteps
        /\ j[2] = k[2]
    <3>. DEFINE a == j[1] - fired_step - BufferedSteps
                b == k[1] - fired_step - BufferedSteps
    <3>1. /\ a \in 0 .. FreshSteps - 1 /\ b \in 0 .. FreshSteps - 1
          /\ j[2] \in 0 .. OverFireMb - 1 /\ k[2] \in 0 .. OverFireMb - 1
      BY <1>1, <1>5
    <3>2. a * OverFireMb + j[2] = b * OverFireMb + k[2]
      BY <1>5 DEF FreshPlace
    <3>. HIDE DEF a, b
    <3>3. a = b /\ j[2] = k[2]
      BY <1>2, <3>1, <3>2
    <3>. QED  BY <3>3 DEF a, b
  <2>2. j[1] = k[1]
    BY <1>1, <2>1
  <2>. QED  BY <1>1, <2>1, <2>2 DEF Dispatch
<1>. QED  BY <1>2, <1>3, <1>4, <1>5

\* A call dispatches, once each, the prompts it pops and those it reads.
LEMMA FiredPrompts ==
    ASSUME TypeInv, pc = "fire", IsInjective(buffer), Buffered \subseteq 0 .. total_dl_consumed - 1
    PROVE  /\ {PromptOf(k) : k \in Fired} =
                 {buffer[i] : i \in 1 .. Popped}
                    \cup (total_dl_consumed .. total_dl_consumed + FreshRead - 1)
           /\ \A j, k \in Fired : PromptOf(j) = PromptOf(k) => j = k
           /\ Popped \in 0 .. Len(buffer) /\ FreshRead \in Nat
<1>. DEFINE c == total_dl_consumed
<1>1. /\ c \in Nat /\ buffer \in Seq(Nat) /\ Popped \in 0 .. Len(buffer) /\ FreshRead \in Nat
      /\ Len(buffer) \in Nat /\ DOMAIN buffer = 1 .. Len(buffer)
  <2>1. buffer \in Seq(Nat) /\ c \in Nat
    BY DEF TypeInv, TypeOK, DataSourceTypeOK
  <2>. QED  BY <2>1, ChunkBounds, FreshPlaces DEF Popped
<1>. HIDE DEF c
<1>2. /\ \A d \in 0 .. Popped - 1 : d + 1 \in 1 .. Popped /\ d + 1 \in 1 .. Len(buffer)
      /\ \A i \in 1 .. Popped : i - 1 \in 0 .. Popped - 1 /\ (i - 1) + 1 = i
      /\ \A d \in 0 .. FreshRead - 1 : c + d \in c .. c + FreshRead - 1
      /\ \A x \in c .. c + FreshRead - 1 : x - c \in 0 .. FreshRead - 1 /\ c + (x - c) = x
  BY <1>1
<1>3. \A i, j \in 1 .. Len(buffer) : buffer[i] = buffer[j] => i = j
  BY <1>1 DEF IsInjective
<1>4. \A i \in 1 .. Len(buffer) : buffer[i] \in 0 .. c - 1
  BY <1>1 DEF Buffered, ToSet, c
<1>5. \A k \in Fired : \/ FromBuffer(k) /\ PromptOf(k) \in {buffer[i] : i \in 1 .. Popped}
                       \/ ~ FromBuffer(k) /\ PromptOf(k) \in c .. c + FreshRead - 1
  <2>. SUFFICES ASSUME NEW k \in Fired
                PROVE  \/ FromBuffer(k) /\ PromptOf(k) \in {buffer[i] : i \in 1 .. Popped}
                       \/ ~ FromBuffer(k) /\ PromptOf(k) \in c .. c + FreshRead - 1
    OBVIOUS
  <2>1. CASE FromBuffer(k)
    <3>1. BufferPlace(k) \in 0 .. Popped - 1 /\ PromptOf(k) = buffer[BufferPlace(k) + 1]
      BY <2>1, BufferPlaces
    <3>. QED  BY <1>2, <2>1, <3>1
  <2>2. CASE ~ FromBuffer(k)
    <3>1. FreshPlace(k) \in 0 .. FreshRead - 1 /\ PromptOf(k) = c + FreshPlace(k)
      BY <2>2, FreshPlaces DEF c
    <3>. QED  BY <1>2, <2>2, <3>1
  <2>. QED  BY <2>1, <2>2
<1>6. \A i \in 1 .. Popped : \E k \in Fired : PromptOf(k) = buffer[i]
  <2>. SUFFICES ASSUME NEW i \in 1 .. Popped PROVE \E k \in Fired : PromptOf(k) = buffer[i]
    OBVIOUS
  <2>1. PICK k \in Fired : FromBuffer(k) /\ BufferPlace(k) = i - 1
    BY <1>2, BufferPlaces
  <2>2. PromptOf(k) = buffer[BufferPlace(k) + 1]
    BY <2>1, BufferPlaces
  <2>3. PromptOf(k) = buffer[i]
    BY <1>2, <2>1, <2>2
  <2>. QED  BY <2>3
<1>7. \A x \in c .. c + FreshRead - 1 : \E k \in Fired : PromptOf(k) = x
  <2>. SUFFICES ASSUME NEW x \in c .. c + FreshRead - 1 PROVE \E k \in Fired : PromptOf(k) = x
    OBVIOUS
  <2>1. PICK k \in Fired : ~ FromBuffer(k) /\ FreshPlace(k) = x - c
    BY <1>2, FreshPlaces
  <2>2. PromptOf(k) = c + FreshPlace(k)
    BY <2>1, FreshPlaces DEF c
  <2>3. PromptOf(k) = x
    BY <1>2, <2>1, <2>2
  <2>. QED  BY <2>3
<1>8. ASSUME NEW j \in Fired, NEW k \in Fired, PromptOf(j) = PromptOf(k) PROVE j = k
  <2>1. FromBuffer(j) <=> FromBuffer(k)
    <3>1. \A i \in 1 .. Popped : buffer[i] \notin c .. c + FreshRead - 1
      <4>1. \A i \in 1 .. Popped : i \in 1 .. Len(buffer)
        BY <1>1
      <4>. QED  BY <1>1, <1>4, <4>1
    <3>. QED  BY <1>5, <1>8, <3>1
  <2>2. CASE FromBuffer(j)
    <3>1. /\ BufferPlace(j) \in 0 .. Popped - 1 /\ PromptOf(j) = buffer[BufferPlace(j) + 1]
          /\ BufferPlace(k) \in 0 .. Popped - 1 /\ PromptOf(k) = buffer[BufferPlace(k) + 1]
      BY <2>1, <2>2, BufferPlaces
    <3>2. BufferPlace(j) + 1 = BufferPlace(k) + 1
      BY <1>2, <1>3, <1>8, <3>1
    <3>3. BufferPlace(j) = BufferPlace(k)
      BY <3>1, <3>2
    <3>. QED  BY <2>1, <2>2, <3>3, BufferPlaces
  <2>3. CASE ~ FromBuffer(j)
    <3>1. /\ FreshPlace(j) \in 0 .. FreshRead - 1 /\ PromptOf(j) = c + FreshPlace(j)
          /\ FreshPlace(k) \in 0 .. FreshRead - 1 /\ PromptOf(k) = c + FreshPlace(k)
      BY <2>1, <2>3, FreshPlaces DEF c
    <3>2. FreshPlace(j) \in Int /\ FreshPlace(k) \in Int /\ c \in Int
      BY <1>1, <3>1
    <3>3. c + FreshPlace(j) = c + FreshPlace(k)
      BY <1>8, <3>1
    <3>4. FreshPlace(j) = FreshPlace(k)
      BY <3>2, <3>3
    <3>. QED  BY <2>1, <2>3, <3>4, FreshPlaces
  <2>. QED  BY <2>2, <2>3
<1>9. {PromptOf(k) : k \in Fired} = {buffer[i] : i \in 1 .. Popped} \cup (c .. c + FreshRead - 1)
  BY <1>5, <1>6, <1>7
<1>. QED  BY <1>1, <1>8, <1>9 DEF c

----------------------------------------------------------------------------
\* A dispatch stays the holder of its prompt until its step is trained.

KeysInLine == LineKeys = {h[1] : h \in InLine}

LEMMA LineTypes ==
    ASSUME TypeInv
    PROVE  /\ \A p \in Places : /\ p \in 1 .. Len(Line) /\ ~ Line[p].error
                                /\ Line[p].key \in Dispatch /\ Line[p].raw \in Nat
           /\ KeysInLine
           /\ \A h \in Held : h[1] \in Dispatch /\ h[2] \in Nat /\ h = <<h[1], h[2]>>
<1>1. /\ Line \in Seq(QueuedRolloutBatch)
      /\ DOMAIN pending \subseteq Dispatch /\ pending \in [DOMAIN pending -> PendingMicrobatch]
  BY LineItems, PendingTypes
<1>2. \A p \in Places : /\ p \in 1 .. Len(Line) /\ ~ Line[p].error
                        /\ Line[p].key \in Dispatch /\ Line[p].raw \in Nat
  <2>1. \A p \in 1 .. Len(Line) : Line[p] \in QueuedRolloutBatch
    <3>1. \A s \in Seq(QueuedRolloutBatch) : \A p \in 1 .. Len(s) : s[p] \in QueuedRolloutBatch
      OBVIOUS
    <3>. QED  BY <1>1, <3>1
  <2>. QED  BY <2>1 DEF Places, QueuedRolloutBatch
<1>3. KeysInLine
  <2>1. ASSUME NEW x, x \in LineKeys PROVE \E h \in InLine : h[1] = x
    <3>1. PICK p \in Places : Line[p].key = x
      BY <2>1 DEF LineKeys, Places
    <3>. DEFINE h == <<Line[p].key, Line[p].raw>>
    <3>2. h \in InLine /\ h[1] = x
      BY <3>1 DEF InLine
    <3>. QED  BY <3>2
  <2>2. ASSUME NEW h \in InLine PROVE h[1] \in LineKeys
    <3>1. PICK p \in Places : h = <<Line[p].key, Line[p].raw>>
      BY DEF InLine
    <3>2. h[1] = Line[p].key
      BY <3>1
    <3>. QED  BY <1>2, <3>2 DEF LineKeys
  <2>. QED  BY <2>1, <2>2 DEF KeysInLine
<1>4. \A k \in Discarded : k \in Dispatch /\ pending[k].raw \in Nat
  BY <1>1 DEF Discarded, PendingMicrobatch
<1>5. \A h \in Held : h[1] \in Dispatch /\ h[2] \in Nat /\ h = <<h[1], h[2]>>
  BY <1>2, <1>4 DEF Held, Waiting, InLine
<1>. QED  BY <1>2, <1>3, <1>5

LEMMA LineKeysNext == TypeInv' => KeysInLine'
<1>1. TypeInv => KeysInLine
  BY LineTypes
<1>. QED  BY <1>1, PTL

LEMMA JoinInLine ==
    ASSUME TypeInv, NEW k, NEW n \in Nat \ {0}, NEW e \in BOOLEAN, Joins(k, n, e)
    PROVE  InLine' = IF e THEN InLine ELSE InLine \cup {<<k, pending[k].raw>>}
<1>. DEFINE l == Len(Line)
<1>1. /\ l \in Nat /\ Len(Line') = l + n
      /\ \A p \in 1 .. l : Line'[p] = Line[p]
      /\ \A p \in l + 1 .. l + n : Line'[p] = Item(k, e)
  BY LineItems DEF Joins
<1>2. Item(k, e).key = k /\ Item(k, e).error = e /\ Item(k, e).raw = pending[k].raw
  BY ItemFields
<1>3. Places = {p \in 1 .. l : ~ Line[p].error} /\ Places' = {p \in 1 .. l + n : ~ Line'[p].error}
  BY <1>1 DEF Places
<1>. HIDE DEF l
<1>4. /\ \A p \in 1 .. l + n : p \in 1 .. l \/ p \in l + 1 .. l + n
      /\ \A p \in 1 .. l : p \in 1 .. l + n
      /\ l + 1 \in l + 1 .. l + n /\ l + 1 \in 1 .. l + n
  BY <1>1
<1>5. \A p \in Places' : \/ p \in Places /\ Line'[p] = Line[p]
                         \/ ~ e /\ Line'[p] = Item(k, e)
  BY <1>1, <1>2, <1>3, <1>4
<1>6. \A p \in Places : p \in Places' /\ Line'[p] = Line[p]
  BY <1>1, <1>3, <1>4
<1>7. ~ e => l + 1 \in Places' /\ Line'[l + 1] = Item(k, e)
  BY <1>1, <1>2, <1>3, <1>4
<1>8. ASSUME NEW x, x \in InLine' PROVE x \in InLine \/ (~ e /\ x = <<k, pending[k].raw>>)
  <2>1. PICK p \in Places' : x = <<Line'[p].key, Line'[p].raw>>
    BY <1>8 DEF InLine
  <2>. QED  BY <1>2, <1>5, <2>1 DEF InLine
<1>9. ASSUME NEW x, x \in InLine PROVE x \in InLine'
  <2>1. PICK p \in Places : x = <<Line[p].key, Line[p].raw>>
    BY <1>9 DEF InLine
  <2>. QED  BY <1>6, <2>1 DEF InLine
<1>10. ~ e => <<k, pending[k].raw>> \in InLine'
  BY <1>2, <1>7 DEF InLine
<1>. QED  BY <1>8, <1>9, <1>10

\* What the steps of the rollout side do to the tables of prompts.
LEMMA AcceptHeld ==
    ASSUME WindowInv, RolloutSide, NEW k \in DOMAIN inflight_tasks, Accepts(k)
    PROVE  /\ Held' = Held /\ LineKeys' = LineKeys \cup {k} /\ k \in Discarded
           /\ DOMAIN pending' = DOMAIN pending /\ Accepted' = Accepted \cup {k}
           /\ \A j \in DOMAIN pending : pending'[j].train_consumed = pending[j].train_consumed
<1>1. /\ TypeInv /\ DOMAIN pending' = DOMAIN pending /\ k \in DOMAIN pending
      /\ Accepted' = Accepted \cup {k} /\ k \in Dispatch
      /\ \A j \in DOMAIN pending : pending[j] \in PendingMicrobatch
  BY AcceptPending, PendingTypes DEF WindowInv
<1>2. k \notin Accepted /\ k \in Discarded
  <2>1. k \notin Accepted
    BY DEF WindowInv, TaskInv, Accepts
  <2>. QED  BY <1>1, <2>1 DEF Accepted, Discarded
<1>3. \A j \in DOMAIN pending : /\ pending'[j].raw = pending[j].raw
                                /\ pending'[j].train_consumed = pending[j].train_consumed
  BY <1>1 DEF Accepts, PendingMicrobatch
<1>4. InLine' = InLine \cup {<<k, pending[k].raw>>}
  BY <1>1, Constants, JoinInLine DEF Accepts
<1>5. Discarded' = Discarded \ {k}
  <2>1. Discarded = DOMAIN pending \ Accepted /\ Discarded' = DOMAIN pending' \ Accepted'
    BY DEF Discarded, Accepted
  <2>. QED  BY <1>1, <2>1
<1>6. Waiting = Waiting' \cup {<<k, pending[k].raw>>}
  <2>1. \A j \in Discarded : j \in DOMAIN pending
    BY DEF Discarded
  <2>2. Waiting' = {<<j, pending[j].raw>> : j \in Discarded \ {k}}
    BY <1>3, <1>5, <2>1 DEF Waiting
  <2>. QED  BY <1>2, <2>2 DEF Waiting
<1>7. TypeInv'
  BY StepTypeInv DEF WindowInv, RolloutSide, Next
<1>8. KeysInLine /\ KeysInLine'
  BY <1>1, <1>7, LineTypes, LineKeysNext
<1>9. LineKeys' = LineKeys \cup {k}
  <2>. DEFINE own == <<k, pending[k].raw>>
  <2>1. own[1] = k
    OBVIOUS
  <2>. HIDE DEF own
  <2>2. InLine' = InLine \cup {own}
    BY <1>4 DEF own
  <2>3. LineKeys = {h[1] : h \in InLine} /\ LineKeys' = {h[1] : h \in InLine'}
    BY <1>8 DEF KeysInLine
  <2>4. {h[1] : h \in InLine \cup {own}} = {h[1] : h \in InLine} \cup {own[1]}
    OBVIOUS
  <2>. QED  BY <2>1, <2>2, <2>3, <2>4
<1>. QED  BY <1>1, <1>2, <1>3, <1>4, <1>6, <1>9 DEF Held

LEMMA RaiseInLine ==
    ASSUME TypeInv, NEW k, Raises(k)
    PROVE  InLine' = InLine
<1>1. \A e \in BOOLEAN : (e = TRUE /\ Joins(k, 1, e)) => InLine' = InLine
  <2>. SUFFICES ASSUME NEW e \in BOOLEAN, e = TRUE, Joins(k, 1, e) PROVE InLine' = InLine
    OBVIOUS
  <2>1. 1 \in Nat \ {0}
    OBVIOUS
  <2>2. InLine' = IF e THEN InLine ELSE InLine \cup {<<k, pending[k].raw>>}
    BY <2>1, JoinInLine
  <2>. QED  BY <2>2
<1>2. Joins(k, 1, TRUE)
  BY DEF Raises
<1>. QED  BY <1>1, <1>2

LEMMA QuietHeld ==
    ASSUME WindowInv, RolloutSide, ~ \E k \in DOMAIN inflight_tasks : Accepts(k)
    PROVE  UNCHANGED <<pending, Held, LineKeys>>
<1>1. TypeInv /\ PauseInv /\ TypeInv'
  BY StepTypeInv DEF WindowInv, RolloutSide, Next
<1>2. UNCHANGED pending
  BY <1>1, RolloutCases DEF Aborts, Proceeds, Refuses, Raises
<1>3. InLine' = InLine
  <2>1. CASE \E k \in DOMAIN inflight_tasks : Raises(k)
    <3>1. PICK k \in DOMAIN inflight_tasks : Raises(k)
      BY <2>1
    <3>. QED  BY <1>1, <3>1, RaiseInLine
  <2>2. CASE ~ \E k \in DOMAIN inflight_tasks : Raises(k)
    <3>1. Line' = Line
      BY <1>1, <2>2, RolloutLine
    <3>. QED  BY <3>1 DEF InLine, Places
  <2>. QED  BY <2>1, <2>2
<1>4. KeysInLine /\ KeysInLine'
  BY <1>1, LineTypes, LineKeysNext
<1>. QED  BY <1>2, <1>3, <1>4 DEF Held, Waiting, Discarded, KeysInLine

LEMMA HeldSame ==
    ASSUME WindowInv, [Next]_vars, pc' # "failed",
           ~ BeginStep, ~ FireGenerationRequests, ~ Train, ~ Restart
    PROVE  Held' = Held
<1>1. TypeInv
  BY DEF WindowInv
<1>2. CASE RolloutSide
  BY <1>2, AcceptHeld, QuietHeld
<1>3. CASE CollectItem
  <2>1. Line' = Line
    BY <1>1, <1>3, CollectLine
  <2>2. /\ DOMAIN pending' = DOMAIN pending
        /\ \A k \in DOMAIN pending : /\ pending'[k].raw = pending[k].raw
                                     /\ pending'[k].rollout_consumed = pending[k].rollout_consumed
    <3>1. \A k \in DOMAIN pending : pending[k] \in PendingMicrobatch
      BY <1>1, PendingTypes
    <3>. QED  BY <1>3, <3>1 DEF CollectItem, PendingMicrobatch
  <2>3. Discarded' = Discarded /\ \A k \in Discarded : k \in DOMAIN pending
    BY <2>2 DEF Discarded
  <2>4. Waiting' = Waiting
    BY <2>2, <2>3 DEF Waiting
  <2>. QED  BY <2>1, <2>4 DEF Held, InLine, Places
<1>4. CASE FinishCollect \/ SaveModel \/ SaveData \/ WaitAllInflight \/ UpdateWeights
  <2>1. UNCHANGED <<Line, pending>>
    BY <1>4, TrainerLine DEF FinishCollect, SaveModel, SaveData, WaitAllInflight, UpdateWeights
  <2>. QED  BY <2>1 DEF Held, Waiting, Discarded, InLine, Places
<1>. QED  BY <1>2, <1>3, <1>4, NextCases

----------------------------------------------------------------------------
\* save_data_source reads train_consumed: it is set on the microbatches that
\* were accepted and of which nothing is left to collect, or a part is in the
\* batch under collection.
ConsumedInv == pc # "failed" => \A k \in DOMAIN pending :
    pending[k].train_consumed <=> k \in Accepted /\ (k \in CollectedKeys \/ k \notin LineKeys)

LEMMA StepConsumedInv ==
    WindowInv /\ GroupInv /\ ConsumedInv /\ [Next]_vars => ConsumedInv'
<1>. SUFFICES ASSUME WindowInv, GroupInv, ConsumedInv, [Next]_vars, pc' # "failed",
                     NEW k \in DOMAIN pending'
              PROVE  pending'[k].train_consumed <=>
                        k \in Accepted' /\ (k \in CollectedKeys' \/ k \notin LineKeys')
  BY DEF ConsumedInv
<1>0. /\ TypeInv /\ BatchInv /\ LineKeys = QueuedKeys \cup CollectedKeys
      /\ \A j \in DOMAIN pending : pending[j] \in PendingMicrobatch
  BY LineKeysSplit, PendingTypes DEF WindowInv, LineSplits
<1>1. CASE BeginStep \/ Restart
  BY <1>1 DEF BeginStep, Restart, EmptyDict
<1>2. CASE FireGenerationRequests
  <2>1. /\ DOMAIN pending' = DOMAIN pending \cup Fired /\ Accepted' = Accepted
        /\ \A j \in Fired : j \notin DOMAIN pending
    BY <1>2, FirePending DEF WindowInv
  <2>2. /\ \A j \in Fired : ~ pending'[j].train_consumed
        /\ \A j \in DOMAIN pending \ Fired : pending'[j] = pending[j]
    BY <1>2 DEF FireGenerationRequests
  <2>3. UNCHANGED <<CollectedKeys, LineKeys>> /\ pc # "failed"
    BY <1>2, TrainerLine DEF FireGenerationRequests, CollectedKeys, LineKeys
  <2>4. Accepted \subseteq DOMAIN pending
    BY DEF Accepted
  <2>. QED  BY <2>1, <2>2, <2>3, <2>4 DEF ConsumedInv
<1>3. CASE RolloutSide
  <2>1. UNCHANGED <<pc, batch, CollectedKeys>>
    BY <1>3, RolloutFrame DEF CollectedKeys
  <2>2. CASE \E j \in DOMAIN inflight_tasks : Accepts(j)
    <3>1. PICK j \in DOMAIN inflight_tasks : Accepts(j)
      BY <2>2
    <3>2. /\ LineKeys' = LineKeys \cup {j} /\ j \in Discarded
          /\ DOMAIN pending' = DOMAIN pending /\ Accepted' = Accepted \cup {j}
          /\ \A i \in DOMAIN pending : pending'[i].train_consumed = pending[i].train_consumed
      BY <1>3, <3>1, AcceptHeld
    <3>3. j \notin Accepted /\ j \notin LineKeys
      BY <3>2, DiscardedKeys
    <3>. QED  BY <1>0, <2>1, <3>2, <3>3 DEF ConsumedInv
  <2>3. CASE ~ \E j \in DOMAIN inflight_tasks : Accepts(j)
    <3>1. UNCHANGED <<pending, LineKeys, Accepted>>
      BY <1>3, <2>3, QuietHeld DEF Accepted
    <3>. QED  BY <2>1, <3>1 DEF ConsumedInv
  <2>. QED  BY <2>2, <2>3
<1>4. CASE CollectItem
  <2>. DEFINE item == Head(ready_queue)
  <2>1. /\ pc = "collect" /\ ready_queue # <<>> /\ ~ item.error
        /\ batch' = Append(batch, item)
        /\ pending' = [j \in DOMAIN pending |->
                         IF j = item.key THEN [pending[j] EXCEPT !.train_consumed = TRUE]
                         ELSE pending[j]]
    BY <1>4 DEF CollectItem
  <2>2. /\ DOMAIN pending' = DOMAIN pending
        /\ \A j \in DOMAIN pending :
              /\ pending'[j].rollout_consumed = pending[j].rollout_consumed
              /\ pending'[j].train_consumed = (j = item.key \/ pending[j].train_consumed)
    <3>. HIDE DEF item
    <3>. QED  BY <1>0, <2>1 DEF PendingMicrobatch
  <2>3. Line' = Line
    BY <1>0, <1>4, CollectLine
  <2>4. LineKeys' = LineKeys /\ Accepted' = Accepted
    BY <2>2, <2>3 DEF LineKeys, Accepted
  <2>5. /\ batch \in Seq(QueuedRolloutBatch) /\ ready_queue \in Seq(QueuedRolloutBatch)
        /\ item \in QueuedRolloutBatch
    BY <1>0, <2>1, LineItems
  <2>6. CollectedKeys' = CollectedKeys \cup {item.key}
    <3>. HIDE DEF item
    <3>1. /\ DOMAIN batch' = 1 .. Len(batch) + 1 /\ DOMAIN batch = 1 .. Len(batch)
          /\ \A i \in 1 .. Len(batch) : batch'[i] = batch[i]
          /\ batch'[Len(batch) + 1] = item /\ Len(batch) \in Nat
      BY <2>1, <2>5
    <3>2. \A i \in 1 .. Len(batch) + 1 : i \in 1 .. Len(batch) \/ i = Len(batch) + 1
      BY <3>1
    <3>3. \A i \in 1 .. Len(batch) : i \in 1 .. Len(batch) + 1
      BY <3>1
    <3>4. Len(batch) + 1 \in 1 .. Len(batch) + 1
      BY <3>1
    <3>. QED  BY <3>1, <3>2, <3>3, <3>4 DEF CollectedKeys
  <2>7. item.key \in DOMAIN pending => item.key \in Accepted
    <3>1. 1 \in DOMAIN ready_queue /\ item = ready_queue[1]
      BY <2>1, <2>5
    <3>2. item.key \in QueuedKeys
      BY <2>1, <3>1 DEF QueuedKeys
    <3>3. item.key \in LineKeys
      BY <1>0, <3>2
    <3>. QED  BY <3>3, DiscardedKeys
  <2>. HIDE DEF item
  <2>. QED  BY <2>1, <2>2, <2>4, <2>6, <2>7 DEF ConsumedInv
<1>5. CASE FinishCollect \/ SaveModel \/ SaveData \/ WaitAllInflight \/ UpdateWeights
  <2>1. UNCHANGED <<Line, pending, batch>> /\ pc # "failed"
    BY <1>5, TrainerLine DEF FinishCollect, SaveModel, SaveData, WaitAllInflight, UpdateWeights
  <2>. QED  BY <2>1 DEF ConsumedInv, Accepted, CollectedKeys, LineKeys
<1>6. CASE Train
  <2>1. pc = "train" /\ UNCHANGED <<pending, ready_queue>> /\ batch' = <<>>
    BY <1>6 DEF Train
  <2>2. QueuedKeys \cap CollectedKeys = {}
    BY <2>1, CollectedWhole DEF WindowInv, BatchInv
  <2>3. CollectedKeys' = {} /\ QueuedKeys' = QueuedKeys /\ Accepted' = Accepted
    BY <2>1 DEF CollectedKeys, QueuedKeys, Accepted
  <2>4. LineKeys' = QueuedKeys' \cup CollectedKeys'
    <3>1. TypeInv' /\ BatchInv'
      BY <1>0, StepTypeInv, StepBatchInv
    <3>. QED  BY <3>1, LineKeysSplitNext DEF LineSplits
  <2>. QED  BY <1>0, <2>1, <2>2, <2>3, <2>4 DEF ConsumedInv
<1>. QED  BY <1>1, <1>2, <1>3, <1>4, <1>5, <1>6, NextCases

----------------------------------------------------------------------------
\* The ledger in the pipeline's own state.

\* One prompt, one holder.
HeldInv == pc # "failed" => \A x, y \in Held : x[1] = y[1] <=> x[2] = y[2]

\* What is read and not trained is in the buffer, once, or held.
ReadSoFar == 0 .. total_dl_consumed - 1
SplitInv == pc # "failed" =>
    /\ IsInjective(buffer) /\ Trained \subseteq ReadSoFar
    /\ Buffered \cup HeldPrompts = ReadSoFar \ Trained
    /\ Buffered \cap HeldPrompts = {}

\* The steps to come have trained nothing, the ones before NumMb prompts each.
EmptyAhead == \A s \in train_step .. TotalSteps - 1 : trained_in[s] = {}
FullBefore(s) == IsFiniteSet(TrainedBefore(s)) /\ Cardinality(TrainedBefore(s)) = s * NumMb

\* A checkpoint's buffer is what its step owed.
Allowance == NumMb - 1 + (MaxStale + 1) * OverFireMb
DiskOf(s) ==
    /\ s \in 1 .. model_ckpt /\ FullBefore(s)
    /\ IsInjective(ds_ckpt[s].buffer) /\ BufferOf(s) \subseteq ReadBy(s)
    /\ TrainedBefore(s) = ReadBy(s) \ BufferOf(s)
    /\ ds_ckpt[s].total_dl_consumed - NumMb * s <= Allowance
DiskInv ==
    /\ model_ckpt <= train_step /\ EmptyAhead /\ FullBefore(train_step)
    /\ \A s \in DOMAIN ds_ckpt : DiskOf(s)

\* While a window fires, what is held is at most what its steps dispatch.
LoadInv == pc = "fire" => /\ IsFiniteSet(HeldPrompts)
                          /\ Cardinality(HeldPrompts) <= (fired_step - train_step) * OverFireMb

----------------------------------------------------------------------------
\* What the steps do to the history of training.

LEMMA TrainTypes ==
    ASSUME TypeInv
    PROVE  /\ trained_in \in [0 .. TotalSteps - 1 -> SUBSET Nat] /\ TotalSteps \in Nat \ {0}
           /\ train_step \in 0 .. TotalSteps /\ model_ckpt \in 0 .. TotalSteps
           /\ train_step \in Nat /\ model_ckpt \in Nat /\ total_dl_consumed \in Nat
BY Constants DEF TypeInv, TypeOK, TrainerTypeOK, DiskTypeOK, DataSourceTypeOK

LEMMA TrainedAll ==
    ASSUME TypeInv, EmptyAhead
    PROVE  Trained = TrainedBefore(train_step)
<1>1. /\ DOMAIN trained_in = 0 .. TotalSteps - 1 /\ TotalSteps \in Nat
      /\ train_step \in Nat /\ train_step <= TotalSteps
  BY TrainTypes
<1>2. /\ \A s \in 0 .. TotalSteps - 1 : s \in 0 .. train_step - 1 \/ s \in train_step .. TotalSteps - 1
      /\ \A s \in 0 .. train_step - 1 : s \in 0 .. TotalSteps - 1
  BY <1>1
<1>. QED  BY <1>1, <1>2 DEF Trained, TrainedBefore, EmptyAhead

LEMMA TrainHistory ==
    ASSUME TypeInv, EmptyAhead, Train
    PROVE  /\ Trained' = Trained \cup {batch[i].raw : i \in DOMAIN batch} /\ EmptyAhead'
           /\ \A s \in 0 .. train_step : TrainedBefore(s)' = TrainedBefore(s)
           /\ Trained = TrainedBefore(train_step) /\ Trained' = TrainedBefore(train_step)'
           /\ train_step < TotalSteps
<1>. DEFINE S == {batch[i].raw : i \in DOMAIN batch}
            n == TotalSteps - 1
<1>1. /\ trained_in \in [0 .. n -> SUBSET Nat] /\ TotalSteps \in Nat /\ train_step \in Nat
      /\ train_step < TotalSteps /\ train_step \in 0 .. n /\ train_step' = train_step + 1
      /\ trained_in' = [trained_in EXCEPT ![train_step] = S]
  BY TrainTypes DEF Train, TypeInv, StepsLeft
<1>2. /\ DOMAIN trained_in = 0 .. n /\ DOMAIN trained_in' = 0 .. n
      /\ trained_in'[train_step] = S /\ trained_in[train_step] = {}
      /\ \A s \in 0 .. n : s # train_step => trained_in'[s] = trained_in[s]
  <2>1. train_step \in train_step .. n
    BY <1>1
  <2>. HIDE DEF S
  <2>. QED  BY <1>1, <2>1 DEF EmptyAhead
<1>. HIDE DEF S
<1>3. Trained' = Trained \cup S
  BY <1>1, <1>2 DEF Trained
<1>4. EmptyAhead'
  <2>1. \A s \in train_step + 1 .. n : s \in train_step .. n /\ s \in 0 .. n /\ s # train_step
    BY <1>1
  <2>. QED  BY <1>1, <1>2, <2>1 DEF EmptyAhead
<1>5. \A s \in 0 .. train_step : TrainedBefore(s)' = TrainedBefore(s)
  <2>. SUFFICES ASSUME NEW s \in 0 .. train_step PROVE TrainedBefore(s)' = TrainedBefore(s)
    OBVIOUS
  <2>1. \A r \in 0 .. s - 1 : r \in 0 .. n /\ r # train_step
    BY <1>1
  <2>2. \A r \in 0 .. s - 1 : trained_in'[r] = trained_in[r]
    BY <1>2, <2>1
  <2>. QED  BY <2>2 DEF TrainedBefore
<1>6. Trained = TrainedBefore(train_step)
  BY TrainedAll
<1>7. Trained' = TrainedBefore(train_step)'
  <2>1. \A s \in 0 .. n : s \in 0 .. train_step' - 1 \/ s \in train_step' .. TotalSteps - 1
    BY <1>1
  <2>2. \A s \in 0 .. train_step' - 1 : s \in 0 .. n
    BY <1>1
  <2>. QED  BY <1>2, <1>4, <2>1, <2>2 DEF Trained, TrainedBefore, EmptyAhead
<1>. QED  BY <1>1, <1>3, <1>4, <1>5, <1>6, <1>7 DEF S

LEMMA RestartHistory ==
    ASSUME TypeInv, Restart, ~ Missing(model_ckpt)
    PROVE  /\ Trained' = TrainedBefore(model_ckpt) /\ EmptyAhead' /\ train_step' = model_ckpt
           /\ \A s \in 0 .. model_ckpt : TrainedBefore(s)' = TrainedBefore(s)
           /\ total_dl_consumed' = Loaded(model_ckpt).total_dl_consumed
           /\ buffer' = Loaded(model_ckpt).buffer
<1>. DEFINE n == TotalSteps - 1
<1>1. /\ model_ckpt \in Nat /\ model_ckpt <= TotalSteps /\ TotalSteps \in Nat
      /\ trained_in' = [s \in 0 .. n |-> IF s < model_ckpt THEN trained_in[s] ELSE {}]
      /\ train_step' = model_ckpt
      /\ total_dl_consumed' = Loaded(model_ckpt).total_dl_consumed
      /\ buffer' = Loaded(model_ckpt).buffer
  BY TrainTypes DEF Restart
<1>2. /\ DOMAIN trained_in' = 0 .. n
      /\ \A s \in 0 .. n : trained_in'[s] = IF s < model_ckpt THEN trained_in[s] ELSE {}
  BY <1>1
<1>3. /\ \A s \in 0 .. n : s < model_ckpt => s \in 0 .. model_ckpt - 1
      /\ \A s \in 0 .. model_ckpt - 1 : s \in 0 .. n /\ s < model_ckpt
      /\ \A s \in model_ckpt .. n : s \in 0 .. n /\ ~ (s < model_ckpt)
  BY <1>1
<1>4. EmptyAhead'
  BY <1>1, <1>2, <1>3 DEF EmptyAhead
<1>5. Trained' = TrainedBefore(model_ckpt)
  BY <1>2, <1>3 DEF Trained, TrainedBefore
<1>6. ASSUME NEW s \in 0 .. model_ckpt PROVE TrainedBefore(s)' = TrainedBefore(s)
  <2>1. \A r \in 0 .. s - 1 : r \in 0 .. model_ckpt - 1
    BY <1>1
  <2>2. \A r \in 0 .. s - 1 : trained_in'[r] = trained_in[r]
    BY <1>2, <1>3, <2>1
  <2>. QED  BY <2>2 DEF TrainedBefore
<1>. QED  BY <1>1, <1>4, <1>5, <1>6

----------------------------------------------------------------------------
\* Counting holders and prompts.

LEMMA PairsCounted ==
    ASSUME NEW H, \A x, y \in H : x[1] = y[1] <=> x[2] = y[2], IsFiniteSet({h[1] : h \in H})
    PROVE  /\ IsFiniteSet({h[2] : h \in H})
           /\ Cardinality({h[2] : h \in H}) = Cardinality({h[1] : h \in H})
<1>. DEFINE A == {h[1] : h \in H}
            B == {h[2] : h \in H}
            f == [a \in A |-> (CHOOSE h \in H : h[1] = a)[2]]
<1>1. ASSUME NEW h \in H PROVE f[h[1]] = h[2] /\ h[1] \in A /\ h[2] \in B
  <2>. DEFINE g == CHOOSE x \in H : x[1] = h[1]
  <2>1. g \in H /\ g[1] = h[1]
    OBVIOUS
  <2>2. f[h[1]] = g[2]
    OBVIOUS
  <2>. HIDE DEF g, f
  <2>. QED  BY <2>1, <2>2
<1>2. DOMAIN f = A /\ f \in [A -> B]
  <2>1. \A a \in A : f[a] \in B
    <3>. HIDE DEF f
    <3>. QED  BY <1>1
  <2>. QED  BY <2>1
<1>. HIDE DEF f
<1>3. \A a \in A : \E h \in H : a = h[1] /\ f[a] = h[2]
  BY <1>1
<1>4. \A b \in B : \E h \in H : b = h[2] /\ f[h[1]] = b /\ h[1] \in A
  BY <1>1
<1>. HIDE DEF A, B
<1>5. f \in Surjection(A, B)
  BY <1>2, <1>4 DEF Surjection
<1>6. f \in Injection(A, B)
  BY <1>2, <1>3 DEF Injection, IsInjective
<1>7. IsFiniteSet(A)
  BY DEF A
<1>8. IsFiniteSet(B) /\ Cardinality(B) = Cardinality(A)
  BY <1>5, <1>6, <1>7, FS_Surjection
<1>. QED  BY <1>8 DEF A, B

\* The prompts of the step about to be trained: NumMb that a dispatch held.
BatchPrompts == {batch[i].raw : i \in DOMAIN batch}
BatchHeld == {<<Line[i].key, Line[i].raw>> : i \in 1 .. NumCollect}

LEMMA BatchCounted ==
    ASSUME WindowInv, GroupInv, BlockInv, HeldInv, pc = "train"
    PROVE  /\ BatchHeld \subseteq InLine /\ CollectedKeys = {h[1] : h \in BatchHeld}
           /\ BatchPrompts = {h[2] : h \in BatchHeld}
           /\ IsFiniteSet(BatchPrompts) /\ Cardinality(BatchPrompts) = NumMb
           /\ NumCollect \in Nat /\ NumCollect <= Len(Line)
           /\ \A i \in 1 .. NumCollect : i \in Places
<1>1. /\ Len(batch) = NumCollect /\ DOMAIN batch = 1 .. NumCollect
      /\ NumCollect \in Nat /\ NumCollect <= Len(Line)
      /\ \A i \in 1 .. NumCollect : Line[i] = batch[i] /\ ~ batch[i].error
      /\ \A i \in 1 .. NumCollect : i \in 1 .. Len(Line)
  <2>1. Len(batch) = NumCollect /\ TypeInv /\ \A i \in 1 .. Len(batch) : ~ batch[i].error
    BY DEF WindowInv, BatchInv
  <2>2. /\ batch \in Seq(QueuedRolloutBatch) /\ Len(Line) = Len(batch) + Len(ready_queue)
        /\ Len(batch) \in Nat /\ Len(ready_queue) \in Nat
        /\ \A i \in 1 .. Len(batch) : Line[i] = batch[i]
    BY <2>1, LineItems
  <2>3. DOMAIN batch = 1 .. Len(batch)
    BY <2>2
  <2>4. \A i \in 1 .. Len(batch) : i \in 1 .. Len(Line)
    BY <2>2
  <2>5. Len(batch) <= Len(Line)
    BY <2>2
  <2>. QED  BY <2>1, <2>2, <2>3, <2>4, <2>5
<1>2. /\ \A i \in 1 .. NumCollect : i \in Places
      /\ Clean(NumCollect)
  BY <1>1 DEF Places, Clean
<1>3. NumCollect = NumMb * RbMultiplier /\ NumMb \in Nat
  BY Constants DEF NumCollect
<1>4. IsFiniteSet(Firsts(NumMb)) /\ Cardinality(Firsts(NumMb)) = NumMb
  BY <1>1, <1>2, <1>3, FirstsCounted
<1>5. BatchHeld \subseteq InLine
  BY <1>2 DEF BatchHeld, InLine
<1>6. /\ \A i \in 1 .. NumCollect : <<Line[i].key, Line[i].raw>>[1] = batch[i].key
      /\ \A i \in 1 .. NumCollect : <<Line[i].key, Line[i].raw>>[2] = batch[i].raw
      /\ \A i \in 1 .. NumCollect : <<Line[i].key, Line[i].raw>> \in BatchHeld
      /\ \A h \in BatchHeld : \E i \in 1 .. NumCollect : h = <<Line[i].key, Line[i].raw>>
  BY <1>1 DEF BatchHeld
<1>7. CollectedKeys = {h[1] : h \in BatchHeld}
  <2>1. ASSUME NEW x, x \in CollectedKeys PROVE \E h \in BatchHeld : x = h[1]
    <3>1. PICK i \in 1 .. NumCollect : x = batch[i].key
      BY <1>1, <2>1 DEF CollectedKeys
    <3>. DEFINE h == <<Line[i].key, Line[i].raw>>
    <3>2. h \in BatchHeld /\ h[1] = x
      BY <1>6, <3>1
    <3>. QED  BY <3>2
  <2>2. ASSUME NEW h \in BatchHeld PROVE h[1] \in CollectedKeys
    BY <1>1, <1>6 DEF CollectedKeys
  <2>. QED  BY <2>1, <2>2
<1>8. BatchPrompts = {h[2] : h \in BatchHeld}
  <2>1. ASSUME NEW x, x \in BatchPrompts PROVE \E h \in BatchHeld : x = h[2]
    <3>1. PICK i \in 1 .. NumCollect : x = batch[i].raw
      BY <1>1, <2>1 DEF BatchPrompts
    <3>. DEFINE h == <<Line[i].key, Line[i].raw>>
    <3>2. h \in BatchHeld /\ h[2] = x
      BY <1>6, <3>1
    <3>. QED  BY <3>2
  <2>2. ASSUME NEW h \in BatchHeld PROVE h[2] \in BatchPrompts
    BY <1>1, <1>6 DEF BatchPrompts
  <2>. QED  BY <2>1, <2>2
<1>9. CollectedKeys = Firsts(NumMb)
  BY <1>1, <1>3 DEF CollectedKeys, Firsts
<1>10. \A x, y \in BatchHeld : x[1] = y[1] <=> x[2] = y[2]
  BY <1>5 DEF HeldInv, Held
<1>11. IsFiniteSet(BatchPrompts) /\ Cardinality(BatchPrompts) = NumMb
  BY <1>4, <1>7, <1>8, <1>9, <1>10, PairsCounted
<1>. QED  BY <1>1, <1>2, <1>5, <1>7, <1>8, <1>11

----------------------------------------------------------------------------
\* The four steps that move prompts.

\* begin_step hands the prompts of what it discards back to the buffer.
LEMMA BeginHeld ==
    ASSUME Reuse, WindowInv, HeldInv, SplitInv, BeginStep
    PROVE  /\ Held' = InLine /\ HeldInv'
           /\ SplitInv' /\ UNCHANGED <<Trained, total_dl_consumed, train_step, fired_step>>
<1>. DEFINE t == RawsOf(DictOrder(Discarded))
            raws == {h[2] : h \in Waiting}
            lineRaws == {h[2] : h \in InLine}
<1>1. /\ pc = "begin_step" /\ pc' = "fire" /\ pending' = EmptyDict /\ buffer' = buffer \o t
      /\ UNCHANGED <<trained_in, total_dl_consumed, train_step, fired_step>>
      /\ Line' = Line /\ TypeInv
  <2>1. /\ pc = "begin_step" /\ pc' = "fire" /\ pending' = EmptyDict
        /\ buffer' = IF Reuse THEN buffer \o t ELSE buffer
        /\ UNCHANGED <<trained_in, total_dl_consumed, train_step, fired_step>>
    <3>. HIDE DEF t
    <3>. QED  BY DEF BeginStep, learnerVars, t
  <2>2. Line' = Line /\ TypeInv
    BY TrainerLine DEF WindowInv
  <2>. QED  BY <2>1, <2>2
<1>2. Held' = InLine
  <2>1. Discarded' = {}
    BY <1>1 DEF Discarded, EmptyDict
  <2>. QED  BY <1>1, <2>1 DEF Held, Waiting, InLine, Places
<1>3. HeldInv'
  BY <1>1, <1>2 DEF HeldInv, Held
<1>4. /\ \A x, y \in Held : x[1] = y[1] <=> x[2] = y[2]
      /\ IsInjective(buffer) /\ Trained \subseteq ReadSoFar
      /\ Buffered \cup HeldPrompts = ReadSoFar \ Trained /\ Buffered \cap HeldPrompts = {}
  BY <1>1 DEF HeldInv, SplitInv
<1>5. HeldPrompts = raws \cup lineRaws
  BY DEF HeldPrompts, Held
<1>6. raws \cap lineRaws = {}
  <2>. SUFFICES ASSUME NEW x \in Waiting, NEW y \in InLine PROVE x[2] # y[2]
    OBVIOUS
  <2>1. x[1] \in Discarded
    BY DEF Waiting
  <2>2. y[1] \in LineKeys
    BY <1>1, LineTypes DEF KeysInLine
  <2>3. x[1] # y[1]
    BY <2>1, <2>2, DiscardedKeys
  <2>. QED  BY <1>4, <2>3 DEF Held
<1>7. /\ t \in Seq(Nat) /\ ToSet(t) = {pending[k].raw : k \in Discarded} /\ IsInjective(t)
  <2>1. Discarded \in SUBSET DOMAIN pending
    BY DEF Discarded
  <2>2. ASSUME NEW j \in Discarded, NEW k \in Discarded, pending[j].raw = pending[k].raw
        PROVE  j = k
    <3>. DEFINE x == <<j, pending[j].raw>>
               y == <<k, pending[k].raw>>
    <3>1. x \in Held /\ y \in Held
      BY DEF Held, Waiting
    <3>2. x[2] = y[2]
      BY <2>2
    <3>3. x[1] = y[1]
      <4>. HIDE DEF x, y
      <4>. QED  BY <1>4, <3>1, <3>2
    <3>. QED  BY <3>3
  <2>. QED  BY <1>1, <2>1, <2>2, RawsListed
<1>. HIDE DEF t
<1>8. ToSet(t) = raws
  <2>1. ASSUME NEW k \in Discarded PROVE pending[k].raw \in raws
    <3>. DEFINE h == <<k, pending[k].raw>>
    <3>1. h \in Waiting /\ h[2] = pending[k].raw
      BY DEF Waiting
    <3>. HIDE DEF h
    <3>. QED  BY <3>1
  <2>2. ASSUME NEW h \in Waiting PROVE h[2] \in ToSet(t)
    <3>1. PICK k \in Discarded : h = <<k, pending[k].raw>>
      BY DEF Waiting
    <3>2. h[2] = pending[k].raw
      BY <3>1
    <3>. QED  BY <1>7, <3>2
  <2>. QED  BY <1>7, <2>1, <2>2
<1>. HIDE DEF raws, lineRaws
<1>9. buffer \in Seq(Nat)
  BY <1>1 DEF TypeInv, TypeOK, DataSourceTypeOK
<1>10. /\ ToSet(buffer \o t) = Buffered \cup raws /\ IsInjective(buffer \o t)
  BY <1>4, <1>5, <1>7, <1>8, <1>9, Appended DEF Buffered
<1>11. Buffered' = Buffered \cup raws /\ IsInjective(buffer')
  BY <1>1, <1>10 DEF Buffered
<1>12. HeldPrompts' = lineRaws
  BY <1>2 DEF HeldPrompts, lineRaws
<1>13. Trained' = Trained /\ ReadSoFar' = ReadSoFar
  BY <1>1 DEF Trained, ReadSoFar
<1>14. SplitInv'
  BY <1>4, <1>5, <1>6, <1>11, <1>12, <1>13 DEF SplitInv
<1>. QED  BY <1>1, <1>2, <1>3, <1>13, <1>14

\* fire_generation_requests hands out what it pops and what it reads.
FiredHeld == {<<k, PromptOf(k)>> : k \in Fired}

LEMMA FiredPairs ==
    /\ {h[1] : h \in FiredHeld} = Fired /\ {h[2] : h \in FiredHeld} = {PromptOf(k) : k \in Fired}
    /\ \A h \in FiredHeld : h[1] \in Fired /\ h[2] = PromptOf(h[1])
<1>1. ASSUME NEW k \in Fired PROVE \E h \in FiredHeld : h[1] = k /\ h[2] = PromptOf(k)
  <2>. DEFINE h == <<k, PromptOf(k)>>
  <2>1. h \in FiredHeld /\ h[1] = k /\ h[2] = PromptOf(k)
    BY DEF FiredHeld
  <2>. HIDE DEF h
  <2>. QED  BY <2>1
<1>2. ASSUME NEW h \in FiredHeld PROVE h[1] \in Fired /\ h[2] = PromptOf(h[1])
  <2>1. PICK k \in Fired : h = <<k, PromptOf(k)>>
    BY DEF FiredHeld
  <2>2. h[1] = k /\ h[2] = PromptOf(k)
    BY <2>1
  <2>. QED  BY <2>2
<1>3. {h[1] : h \in FiredHeld} = Fired
  BY <1>1, <1>2
<1>4. {h[2] : h \in FiredHeld} = {PromptOf(k) : k \in Fired}
  <2>1. ASSUME NEW x, x \in {PromptOf(k) : k \in Fired} PROVE x \in {h[2] : h \in FiredHeld}
    <3>1. PICK k \in Fired : x = PromptOf(k)
      BY <2>1
    <3>2. PICK h \in FiredHeld : h[2] = PromptOf(k)
      BY <1>1
    <3>. QED  BY <3>1, <3>2
  <2>. QED  BY <1>2, <2>1
<1>. QED  BY <1>2, <1>3, <1>4

LEMMA FireWaiting ==
    ASSUME WindowInv, FireGenerationRequests
    PROVE  /\ Held' = Held \cup FiredHeld
           /\ \A x \in Held, y \in FiredHeld : x[1] # y[1]
<1>1. /\ DOMAIN pending' = DOMAIN pending \cup Fired /\ Accepted' = Accepted
      /\ \A k \in Fired : k \notin DOMAIN pending /\ fired_step <= k[1]
      /\ fired_step \in Nat /\ Line' = Line /\ TypeInv
  BY FirePending, TrainerLine DEF WindowInv
<1>2. /\ \A k \in Fired : pending'[k].raw = PromptOf(k)
      /\ \A k \in DOMAIN pending \ Fired : pending'[k] = pending[k]
  BY DEF FireGenerationRequests
<1>3. /\ Discarded = DOMAIN pending \ Accepted /\ Discarded' = DOMAIN pending' \ Accepted'
      /\ Accepted \subseteq DOMAIN pending
  BY DEF Discarded, Accepted
<1>4. Discarded' = Discarded \cup Fired /\ Discarded \cap Fired = {}
  BY <1>1, <1>3
<1>5. Waiting' = Waiting \cup FiredHeld
  <2>1. /\ \A k \in Discarded : pending'[k].raw = pending[k].raw
        /\ \A k \in Fired : pending'[k].raw = PromptOf(k)
    BY <1>1, <1>2, <1>3
  <2>2. {<<k, pending'[k].raw>> : k \in Discarded \cup Fired}
           = {<<k, pending[k].raw>> : k \in Discarded} \cup {<<k, PromptOf(k)>> : k \in Fired}
    BY <2>1
  <2>. QED  BY <1>4, <2>2 DEF Waiting, FiredHeld
<1>6. Held' = Held \cup FiredHeld
  <2>1. InLine' = InLine
    BY <1>1 DEF InLine, Places
  <2>. QED  BY <1>5, <2>1 DEF Held
<1>7. \A x \in Held : x[1][1] < fired_step /\ x[1][1] \in Nat
  <2>1. \A x \in Held : x[1] \in Dispatch
    BY <1>1, LineTypes
  <2>2. \A x \in Waiting : x[1] \in DOMAIN pending
    BY DEF Waiting, Discarded
  <2>3. \A x \in InLine : \E p \in 1 .. Len(Line) : x[1] = Line[p].key
    BY DEF InLine, Places
  <2>4. \A x \in Held : x[1][1] < fired_step
    BY <2>2, <2>3 DEF Held, WindowInv, KeyInv
  <2>5. \A k \in Dispatch : k[1] \in Nat
    BY DEF Dispatch
  <2>. QED  BY <2>1, <2>4, <2>5
<1>8. \A x \in Held, y \in FiredHeld : x[1] # y[1]
  <2>. SUFFICES ASSUME NEW x \in Held, NEW y \in FiredHeld, x[1] = y[1] PROVE FALSE
    OBVIOUS
  <2>1. y[1] \in Fired
    BY FiredPairs
  <2>. QED  BY <1>1, <1>7, <2>1
<1>. QED  BY <1>6, <1>8

LEMMA FireHeld ==
    ASSUME WindowInv, HeldInv, SplitInv, FireGenerationRequests
    PROVE  /\ HeldInv' /\ SplitInv' /\ HeldPrompts' = HeldPrompts \cup {PromptOf(k) : k \in Fired}
           /\ Len(buffer') = Len(buffer) - Popped /\ Len(buffer) \in Nat
           /\ total_dl_consumed' = total_dl_consumed + FreshRead /\ FreshRead \in Nat
           /\ Popped \in 0 .. Len(buffer)
           /\ UNCHANGED <<trained_in, train_step>> /\ fired_step' = ChunkEnd
<1>. DEFINE c == total_dl_consumed
            d == FreshRead
            n == Popped
            new == {PromptOf(k) : k \in Fired}
            taken == {buffer[i] : i \in 1 .. n}
<1>1. /\ pc = "fire" /\ pc' \in {"fire", "collect"} /\ TypeInv
      /\ buffer' = SubSeq(buffer, n + 1, Len(buffer)) /\ total_dl_consumed' = c + d
      /\ UNCHANGED <<trained_in, train_step>> /\ fired_step' = ChunkEnd
  <2>1. /\ pc = "fire" /\ buffer' = SubSeq(buffer, n + 1, Len(buffer))
        /\ total_dl_consumed' = c + d /\ UNCHANGED <<trained_in, train_step>>
        /\ fired_step' = ChunkEnd
    BY DEF FireGenerationRequests, Popped, FreshRead, learnerVars
  <2>2. pc' \in {"fire", "collect"}
    BY DEF FireGenerationRequests
  <2>. QED  BY <2>1, <2>2 DEF WindowInv
<1>2. buffer \in Seq(Nat) /\ c \in Nat /\ Len(buffer) \in Nat
  BY <1>1 DEF TypeInv, TypeOK, DataSourceTypeOK
<1>3. /\ \A x, y \in Held : x[1] = y[1] <=> x[2] = y[2]
      /\ IsInjective(buffer) /\ Trained \subseteq ReadSoFar
      /\ Buffered \cup HeldPrompts = ReadSoFar \ Trained /\ Buffered \cap HeldPrompts = {}
  BY <1>1 DEF HeldInv, SplitInv
<1>4. /\ new = taken \cup (c .. c + d - 1) /\ n \in 0 .. Len(buffer) /\ d \in Nat
      /\ \A j, k \in Fired : PromptOf(j) = PromptOf(k) => j = k
  BY <1>1, <1>3, FiredPrompts DEF ReadSoFar
<1>5. /\ Len(buffer') = Len(buffer) - n /\ IsInjective(buffer')
      /\ Buffered = Buffered' \cup taken /\ Buffered' \cap taken = {}
  <2>. DEFINE t == SubSeq(buffer, n + 1, Len(buffer))
  <2>1. /\ Len(t) = Len(buffer) - n /\ IsInjective(t) /\ Buffered = ToSet(t) \cup taken
        /\ \A i \in 1 .. n : buffer[i] \notin ToSet(t)
    BY <1>2, <1>3, <1>4, Dropped DEF Buffered
  <2>2. buffer' = t
    BY <1>1
  <2>. HIDE DEF t
  <2>. QED  BY <2>1, <2>2 DEF Buffered
<1>6. ReadSoFar' = ReadSoFar \cup (c .. c + d - 1) /\ ReadSoFar \cap (c .. c + d - 1) = {}
  <2>1. 0 .. (c + d) - 1 = (0 .. c - 1) \cup (c .. c + d - 1) /\ (0 .. c - 1) \cap (c .. c + d - 1) = {}
    <3>. HIDE DEF c, d
    <3>. QED  BY <1>2, <1>4
  <2>. QED  BY <1>1, <2>1 DEF ReadSoFar
<1>7. HeldPrompts' = HeldPrompts \cup new
  <2>1. Held' = Held \cup FiredHeld
    BY FireWaiting
  <2>2. {h[2] : h \in Held \cup FiredHeld} = {h[2] : h \in Held} \cup {h[2] : h \in FiredHeld}
    OBVIOUS
  <2>. QED  BY <2>1, <2>2, FiredPairs DEF HeldPrompts
<1>8. Trained' = Trained
  BY <1>1 DEF Trained
<1>. HIDE DEF c, d, n, new, taken
<1>9. SplitInv'
  BY <1>3, <1>4, <1>5, <1>6, <1>7, <1>8 DEF SplitInv
<1>10. HeldPrompts \cap new = {}
  BY <1>3, <1>4, <1>5, <1>6
<1>11. ASSUME NEW x \in Held', NEW y \in Held' PROVE x[1] = y[1] <=> x[2] = y[2]
  <2>1. (x \in Held \/ x \in FiredHeld) /\ (y \in Held \/ y \in FiredHeld)
    BY FireWaiting
  <2>2. \A z \in FiredHeld : z[1] \in Fired /\ z[2] = PromptOf(z[1]) /\ z[2] \in new
    BY FiredPairs DEF new
  <2>3. \A z \in Held : z[2] \in HeldPrompts
    BY DEF HeldPrompts
  <2>4. \A z \in Held, w \in FiredHeld : z[1] # w[1] /\ z[2] # w[2]
    BY <1>10, <2>2, <2>3, FireWaiting
  <2>5. CASE x \in FiredHeld /\ y \in FiredHeld
    BY <1>4, <2>2, <2>5
  <2>. QED  BY <1>3, <2>1, <2>4, <2>5
<1>12. HeldInv'
  BY <1>11 DEF HeldInv
<1>. QED  BY <1>1, <1>2, <1>4, <1>5, <1>7, <1>9, <1>12 DEF c, d, n, new

----------------------------------------------------------------------------
\* A trained step's prompts are held no more, and nobody else held them.
LEMMA TrainHeld ==
    ASSUME WindowInv, GroupInv, BlockInv, HeldInv, SplitInv, EmptyAhead, Train
    PROVE  /\ HeldInv' /\ SplitInv'
           /\ BatchPrompts \subseteq ReadSoFar \ Trained /\ Trained' = Trained \cup BatchPrompts
           /\ IsFiniteSet(BatchPrompts) /\ Cardinality(BatchPrompts) = NumMb
           /\ UNCHANGED <<total_dl_consumed, ds_ckpt, model_ckpt>> /\ train_step' = train_step + 1
<1>1. /\ pc = "train" /\ TypeInv /\ Shifts /\ batch' = <<>> /\ pc' # "fire"
      /\ UNCHANGED <<pending, ready_queue, buffer, total_dl_consumed, ds_ckpt, model_ckpt>>
      /\ train_step' = train_step + 1 /\ TypeInv' /\ BatchInv'
  <2>1. /\ pc = "train" /\ batch' = <<>> /\ train_step' = train_step + 1
        /\ UNCHANGED <<pending, ready_queue, buffer, total_dl_consumed, ds_ckpt, model_ckpt>>
    BY DEF Train, dataSourceVars, diskVars
  <2>2. pc' # "fire"
    BY DEF Train, AfterTrain
  <2>3. TypeInv /\ BatchInv /\ Shifts
    BY TrainLine DEF WindowInv
  <2>4. TypeInv' /\ BatchInv'
    BY <2>3, StepTypeInv, StepBatchInv DEF Next, TrainerStep
  <2>. QED  BY <2>1, <2>2, <2>3, <2>4
<1>2. /\ BatchHeld \subseteq InLine /\ CollectedKeys = {h[1] : h \in BatchHeld}
      /\ BatchPrompts = {h[2] : h \in BatchHeld}
      /\ IsFiniteSet(BatchPrompts) /\ Cardinality(BatchPrompts) = NumMb
      /\ NumCollect \in Nat /\ NumCollect <= Len(Line)
      /\ \A i \in 1 .. NumCollect : i \in Places
  BY <1>1, BatchCounted
<1>3. /\ \A x, y \in Held : x[1] = y[1] <=> x[2] = y[2]
      /\ IsInjective(buffer) /\ Trained \subseteq ReadSoFar
      /\ Buffered \cup HeldPrompts = ReadSoFar \ Trained /\ Buffered \cap HeldPrompts = {}
  BY <1>1 DEF HeldInv, SplitInv
<1>4. Waiting' = Waiting
  BY <1>1 DEF Waiting, Discarded
<1>5. InLine = InLine' \cup BatchHeld
  <2>. DEFINE l == Len(Line')
  <2>1. /\ l \in Nat /\ Len(Line) = l + NumCollect
        /\ \A p \in 1 .. l : Line'[p] = Line[NumCollect + p]
    BY <1>1 DEF Shifts
  <2>. HIDE DEF l
  <2>2. /\ \A p \in 1 .. l : NumCollect + p \in 1 .. l + NumCollect
        /\ \A q \in 1 .. l + NumCollect :
              \/ q \in 1 .. NumCollect
              \/ q - NumCollect \in 1 .. l /\ NumCollect + (q - NumCollect) = q
    BY <1>2, <2>1
  <2>3. ASSUME NEW p \in Places'
        PROVE  NumCollect + p \in Places /\ Line'[p] = Line[NumCollect + p]
    <3>1. p \in 1 .. l /\ ~ Line'[p].error
      BY DEF Places, l
    <3>. QED  BY <2>1, <2>2, <3>1 DEF Places
  <2>4. ASSUME NEW q \in Places, q \notin 1 .. NumCollect
        PROVE  q - NumCollect \in Places' /\ Line'[q - NumCollect] = Line[q]
    <3>1. q \in 1 .. l + NumCollect /\ ~ Line[q].error
      BY <2>1 DEF Places
    <3>2. q - NumCollect \in 1 .. l /\ NumCollect + (q - NumCollect) = q
      BY <2>2, <2>4, <3>1
    <3>3. Line'[q - NumCollect] = Line[q]
      BY <2>1, <3>2
    <3>. QED  BY <3>1, <3>2, <3>3 DEF Places, l
  <2>5. InLine' \subseteq InLine
    <3>. SUFFICES ASSUME NEW x, x \in InLine' PROVE x \in InLine
      OBVIOUS
    <3>1. PICK p \in Places' : x = <<Line'[p].key, Line'[p].raw>>
      BY DEF InLine
    <3>2. x = <<Line[NumCollect + p].key, Line[NumCollect + p].raw>> /\ NumCollect + p \in Places
      BY <2>3, <3>1
    <3>. QED  BY <3>2 DEF InLine
  <2>6. ASSUME NEW x \in InLine PROVE x \in InLine' \/ x \in BatchHeld
    <3>1. PICK q \in Places : x = <<Line[q].key, Line[q].raw>>
      BY DEF InLine
    <3>2. CASE q \in 1 .. NumCollect
      BY <3>1, <3>2 DEF BatchHeld
    <3>3. CASE q \notin 1 .. NumCollect
      <4>1. q - NumCollect \in Places' /\ Line'[q - NumCollect] = Line[q]
        BY <2>4, <3>3
      <4>2. x = <<Line'[q - NumCollect].key, Line'[q - NumCollect].raw>>
        BY <3>1, <4>1
      <4>. QED  BY <4>1, <4>2 DEF InLine
    <3>. QED  BY <3>2, <3>3
  <2>. QED  BY <1>2, <2>5, <2>6
<1>6. Held = Held' \cup BatchHeld
  BY <1>4, <1>5 DEF Held
<1>7. ASSUME NEW x \in Held', NEW y \in BatchHeld PROVE x[2] # y[2]
  <2>1. y[1] \in CollectedKeys
    BY <1>2
  <2>2. CollectedKeys \cap QueuedKeys = {} /\ LineKeys = QueuedKeys \cup CollectedKeys
    BY <1>1, LineKeysSplit, CollectedWhole DEF WindowInv, BatchInv, LineSplits
  <2>3. x[1] \notin CollectedKeys
    <3>1. CASE x \in Waiting
      <4>1. x[1] \in Discarded
        BY <3>1 DEF Waiting
      <4>. QED  BY <2>2, <4>1, DiscardedKeys
    <3>2. CASE x \in InLine'
      <4>1. KeysInLine'
        BY <1>1, LineKeysNext
      <4>2. x[1] \in LineKeys'
        BY <3>2, <4>1 DEF KeysInLine
      <4>3. LineKeys' = QueuedKeys' \cup CollectedKeys'
        BY <1>1, LineKeysSplitNext DEF LineSplits
      <4>4. QueuedKeys' = QueuedKeys /\ CollectedKeys' = {}
        BY <1>1 DEF QueuedKeys, CollectedKeys
      <4>. QED  BY <2>2, <4>2, <4>3, <4>4
    <3>3. x \in Waiting' \cup InLine'
      BY DEF Held
    <3>. QED  BY <1>4, <3>1, <3>2, <3>3
  <2>4. x[1] # y[1]
    BY <2>1, <2>3
  <2>5. x \in Held /\ y \in Held
    BY <1>6
  <2>. QED  BY <1>3, <2>4, <2>5
<1>8. HeldInv'
  BY <1>3, <1>6 DEF HeldInv
<1>9. HeldPrompts = HeldPrompts' \cup BatchPrompts /\ HeldPrompts' \cap BatchPrompts = {}
  <2>1. {h[2] : h \in Held' \cup BatchHeld} = {h[2] : h \in Held'} \cup {h[2] : h \in BatchHeld}
    OBVIOUS
  <2>2. HeldPrompts = HeldPrompts' \cup BatchPrompts
    BY <1>2, <1>6, <2>1 DEF HeldPrompts
  <2>3. ASSUME NEW x \in HeldPrompts', x \in BatchPrompts PROVE FALSE
    <3>1. PICK h \in Held' : h[2] = x
      BY DEF HeldPrompts
    <3>2. PICK g \in BatchHeld : g[2] = x
      BY <1>2, <2>3
    <3>. QED  BY <1>7, <3>1, <3>2
  <2>. QED  BY <2>2, <2>3
<1>10. Trained' = Trained \cup BatchPrompts
  BY <1>1, TrainHistory DEF BatchPrompts
<1>11. Buffered' = Buffered /\ ReadSoFar' = ReadSoFar /\ IsInjective(buffer')
  BY <1>1, <1>3 DEF Buffered, ReadSoFar
<1>12. BatchPrompts \subseteq ReadSoFar \ Trained
  BY <1>3, <1>9
<1>13. SplitInv'
  <2>1. Trained' \subseteq ReadSoFar
    BY <1>3, <1>10, <1>12
  <2>2. Buffered \cup HeldPrompts' = ReadSoFar \ Trained'
    BY <1>3, <1>9, <1>10
  <2>3. Buffered \cap HeldPrompts' = {}
    BY <1>3, <1>9
  <2>. QED  BY <1>11, <2>1, <2>2, <2>3 DEF SplitInv
<1>. QED  BY <1>1, <1>2, <1>8, <1>10, <1>12, <1>13

----------------------------------------------------------------------------
\* A checkpoint and the restart from it.

\* When the trainer saves, nothing in line is of an earlier window.
LEMMA SavedPrompts ==
    ASSUME WindowInv, CarryInv, ConsumedInv, HeldInv, SplitInv, pc \in {"save_data", "final_data"}
    PROVE  LET owed == buffer \o RawsOf(DictOrder(Unconsumed))
           IN  /\ owed \in Seq(Nat) /\ IsInjective(owed)
               /\ ToSet(owed) = ReadSoFar \ Trained /\ Trained \subseteq ReadSoFar
<1>. DEFINE t == RawsOf(DictOrder(Unconsumed))
<1>1. /\ pc # "failed" /\ TypeInv /\ batch = <<>> /\ CollectedKeys = {}
      /\ buffer \in Seq(Nat) /\ Unconsumed \in SUBSET DOMAIN pending
      /\ pc \notin {"begin_step", "fire", "collect", "train"}
  <2>1. batch = <<>> /\ TypeInv
    BY DEF WindowInv, BatchInv
  <2>. QED  BY <2>1 DEF CollectedKeys, TypeInv, TypeOK, DataSourceTypeOK, Unconsumed
<1>2. /\ \A x, y \in Held : x[1] = y[1] <=> x[2] = y[2]
      /\ IsInjective(buffer) /\ Trained \subseteq ReadSoFar
      /\ Buffered \cup HeldPrompts = ReadSoFar \ Trained /\ Buffered \cap HeldPrompts = {}
  BY <1>1 DEF HeldInv, SplitInv
<1>3. \A p \in Places : Line[p].key \in DOMAIN pending /\ Line[p].raw = pending[Line[p].key].raw
  BY <1>1 DEF CarryInv
<1>4. Unconsumed = Discarded \cup LineKeys /\ Discarded \cap LineKeys = {}
  <2>1. LineKeys = {h[1] : h \in InLine}
    BY <1>1, LineTypes DEF KeysInLine
  <2>2. LineKeys \subseteq Accepted
    <3>1. LineKeys \subseteq DOMAIN pending
      BY <1>3 DEF LineKeys, Places
    <3>. QED  BY <3>1, DiscardedKeys
  <2>3. Accepted \subseteq DOMAIN pending /\ Discarded = DOMAIN pending \ Accepted
    BY DiscardedKeys DEF Accepted
  <2>4. \A k \in DOMAIN pending : k \in Unconsumed <=> ~ pending[k].train_consumed
    BY DEF Unconsumed
  <2>5. \A k \in DOMAIN pending : k \in Unconsumed <=> k \notin Accepted \/ k \in LineKeys
    BY <1>1, <2>4 DEF ConsumedInv
  <2>6. Unconsumed = Discarded \cup LineKeys
    BY <1>1, <2>2, <2>3, <2>5
  <2>. QED  BY <2>6, DiscardedKeys
<1>5. Held = {<<k, pending[k].raw>> : k \in Unconsumed}
  <2>1. InLine = {<<k, pending[k].raw>> : k \in LineKeys}
    <3>1. \A p \in Places : Line[p].key \in LineKeys
      BY <1>1, LineTypes DEF LineKeys
    <3>2. \A k \in LineKeys : \E p \in Places : Line[p].key = k
      BY DEF LineKeys, Places
    <3>3. ASSUME NEW x \in InLine PROVE x \in {<<k, pending[k].raw>> : k \in LineKeys}
      <4>1. PICK p \in Places : x = <<Line[p].key, Line[p].raw>>
        BY DEF InLine
      <4>. QED  BY <1>3, <3>1, <4>1
    <3>4. ASSUME NEW k \in LineKeys PROVE <<k, pending[k].raw>> \in InLine
      <4>1. PICK p \in Places : Line[p].key = k
        BY <3>2
      <4>2. <<k, pending[k].raw>> = <<Line[p].key, Line[p].raw>>
        BY <1>3, <4>1
      <4>. QED  BY <4>2 DEF InLine
    <3>. QED  BY <3>3, <3>4
  <2>2. {<<k, pending[k].raw>> : k \in Discarded \cup LineKeys}
           = {<<k, pending[k].raw>> : k \in Discarded} \cup {<<k, pending[k].raw>> : k \in LineKeys}
    OBVIOUS
  <2>. QED  BY <1>4, <2>1, <2>2 DEF Held, Waiting
<1>6. HeldPrompts = {pending[k].raw : k \in Unconsumed}
  <2>1. ASSUME NEW k \in Unconsumed PROVE pending[k].raw \in HeldPrompts
    <3>. DEFINE h == <<k, pending[k].raw>>
    <3>1. h \in Held /\ h[2] = pending[k].raw
      BY <1>5
    <3>. HIDE DEF h
    <3>. QED  BY <3>1 DEF HeldPrompts
  <2>2. ASSUME NEW h \in Held PROVE h[2] \in {pending[k].raw : k \in Unconsumed}
    <3>1. PICK k \in Unconsumed : h = <<k, pending[k].raw>>
      BY <1>5
    <3>2. h[2] = pending[k].raw
      BY <3>1
    <3>. QED  BY <3>2
  <2>. QED  BY <2>1, <2>2 DEF HeldPrompts
<1>7. t \in Seq(Nat) /\ ToSet(t) = HeldPrompts /\ IsInjective(t)
  <2>1. ASSUME NEW j \in Unconsumed, NEW k \in Unconsumed, pending[j].raw = pending[k].raw
        PROVE  j = k
    <3>. DEFINE x == <<j, pending[j].raw>>
               y == <<k, pending[k].raw>>
    <3>1. x \in Held /\ y \in Held
      BY <1>5
    <3>2. x[2] = y[2]
      BY <2>1
    <3>3. x[1] = y[1]
      <4>. HIDE DEF x, y
      <4>. QED  BY <1>2, <3>1, <3>2
    <3>. QED  BY <3>3
  <2>. QED  BY <1>1, <1>6, <2>1, RawsListed
<1>. HIDE DEF t
<1>8. /\ buffer \o t \in Seq(Nat) /\ IsInjective(buffer \o t)
      /\ ToSet(buffer \o t) = Buffered \cup HeldPrompts
  BY <1>1, <1>2, <1>7, Appended DEF Buffered
<1>. QED  BY <1>2, <1>8 DEF t

----------------------------------------------------------------------------
\* What a relaunch loads is the ledger of the step it resumes from.
LEMMA RestartSplit ==
    ASSUME TypeInv, DiskInv, Restart, ~ Missing(model_ckpt)
    PROVE  /\ SplitInv' /\ FullBefore(train_step)' /\ EmptyAhead' /\ OutstandingBounded'
           /\ train_step' = model_ckpt
           /\ \A r \in 0 .. model_ckpt : TrainedBefore(r)' = TrainedBefore(r)
<1>. DEFINE s == model_ckpt
<1>1. /\ Trained' = TrainedBefore(s) /\ train_step' = s /\ s \in Nat
      /\ TrainedBefore(train_step)' = TrainedBefore(s)
      /\ total_dl_consumed' = Loaded(s).total_dl_consumed /\ buffer' = Loaded(s).buffer
  <2>1. s \in Nat /\ s \in 0 .. s
    BY TrainTypes
  <2>2. \A r \in 0 .. model_ckpt : TrainedBefore(r)' = TrainedBefore(r)
    BY RestartHistory
  <2>3. train_step' = s
    BY RestartHistory
  <2>4. TrainedBefore(train_step)' = TrainedBefore(s)
    BY <2>1, <2>2, <2>3 DEF TrainedBefore
  <2>. QED  BY <2>1, <2>3, <2>4, RestartHistory
<1>2. /\ IsFiniteSet(TrainedBefore(s)) /\ Cardinality(TrainedBefore(s)) = s * NumMb
      /\ IsInjective(buffer')
      /\ TrainedBefore(s) = (0 .. total_dl_consumed' - 1) \ ToSet(buffer')
      /\ ToSet(buffer') \subseteq 0 .. total_dl_consumed' - 1
      /\ total_dl_consumed' - NumMb * s <= Allowance
  <2>1. CASE s = 0
    <3>1. total_dl_consumed' = 0 /\ buffer' = <<>>
      BY <1>1, <2>1 DEF Loaded
    <3>2. 0 .. 0 - 1 = {} /\ ToSet(<<>>) = {} /\ IsInjective(<<>>)
      BY DEF ToSet, IsInjective
    <3>3. TrainedBefore(0) = {}
      BY <3>2 DEF TrainedBefore
    <3>4. IsFiniteSet({}) /\ Cardinality({}) = 0 /\ 0 * NumMb = 0
      BY FS_EmptySet, Constants
    <3>5. 0 - NumMb * 0 <= Allowance
      <4>1. (MaxStale + 1) * OverFireMb \in Nat /\ NumMb - 1 \in Nat /\ NumMb * 0 = 0
        BY Constants
      <4>. QED  BY <4>1 DEF Allowance
    <3>. HIDE DEF s
    <3>6. s * NumMb = 0 /\ TrainedBefore(s) = {}
      BY <2>1, <3>3, <3>4
    <3>. QED  BY <2>1, <3>1, <3>2, <3>4, <3>5, <3>6
  <2>2. CASE s # 0
    <3>1. s \in DOMAIN ds_ckpt
      BY <1>1, <2>2 DEF Missing
    <3>2. total_dl_consumed' = ds_ckpt[s].total_dl_consumed /\ buffer' = ds_ckpt[s].buffer
      BY <1>1, <2>2 DEF Loaded
    <3>3. DiskOf(s)
      BY <3>1 DEF DiskInv
    <3>. QED  BY <3>2, <3>3 DEF DiskOf, FullBefore, BufferOf, ReadBy
  <2>. QED  BY <2>1, <2>2
<1>3. HeldPrompts' = {}
  <2>1. pending' = EmptyDict /\ Line' = <<>> /\ Len(Line') = 0
    BY RestartLine DEF Restart
  <2>2. Discarded' = {}
    BY <2>1 DEF Discarded, EmptyDict
  <2>3. Places' = {}
    BY <2>1 DEF Places
  <2>. QED  BY <2>2, <2>3 DEF HeldPrompts, Held, Waiting, InLine
<1>. HIDE DEF s
<1>4. SplitInv'
  <2>1. ReadSoFar' = 0 .. total_dl_consumed' - 1 /\ Buffered' = ToSet(buffer')
    BY DEF ReadSoFar, Buffered
  <2>2. Trained' \subseteq ReadSoFar' /\ Buffered' = ReadSoFar' \ Trained'
    BY <1>1, <1>2, <2>1
  <2>. QED  BY <1>2, <1>3, <2>2 DEF SplitInv
<1>5. FullBefore(train_step)'
  BY <1>1, <1>2 DEF FullBefore
<1>6. OutstandingBounded'
  BY <1>1, <1>2 DEF OutstandingBounded, Allowance
<1>. QED  BY <1>4, <1>5, <1>6, RestartHistory

----------------------------------------------------------------------------
\* The checkpoints on disk.

LEMMA DiskStays ==
    ASSUME UNCHANGED <<train_step, trained_in, model_ckpt, ds_ckpt>>, DiskInv
    PROVE  DiskInv'
<1>1. /\ \A s : TrainedBefore(s)' = TrainedBefore(s)
      /\ \A s : BufferOf(s)' = BufferOf(s) /\ ReadBy(s)' = ReadBy(s)
  BY DEF TrainedBefore, BufferOf, ReadBy
<1>2. \A s \in DOMAIN ds_ckpt : DiskOf(s)'
  BY <1>1 DEF DiskInv, DiskOf, FullBefore
<1>3. FullBefore(train_step)' /\ EmptyAhead'
  BY <1>1 DEF DiskInv, FullBefore, EmptyAhead
<1>. QED  BY <1>2, <1>3 DEF DiskInv

LEMMA TrainDisk ==
    ASSUME WindowInv, GroupInv, BlockInv, HeldInv, SplitInv, DiskInv, Train
    PROVE  DiskInv'
<1>1. TypeInv /\ EmptyAhead /\ FullBefore(train_step)
  BY DEF WindowInv, DiskInv
<1>2. /\ BatchPrompts \subseteq ReadSoFar \ Trained /\ Trained' = Trained \cup BatchPrompts
      /\ IsFiniteSet(BatchPrompts) /\ Cardinality(BatchPrompts) = NumMb
      /\ UNCHANGED <<ds_ckpt, model_ckpt>> /\ train_step' = train_step + 1
  BY <1>1, TrainHeld
<1>3. /\ EmptyAhead' /\ \A s \in 0 .. train_step : TrainedBefore(s)' = TrainedBefore(s)
      /\ Trained = TrainedBefore(train_step) /\ Trained' = TrainedBefore(train_step)'
  BY <1>1, TrainHistory
<1>4. /\ train_step \in Nat /\ model_ckpt \in Nat /\ model_ckpt <= train_step
      /\ \A s \in 1 .. model_ckpt : s \in 0 .. train_step
  BY <1>1, TrainTypes DEF DiskInv
<1>5. FullBefore(train_step)'
  <2>1. IsFiniteSet(Trained) /\ Cardinality(Trained) = train_step * NumMb
    BY <1>1, <1>3 DEF FullBefore
  <2>2. Trained \cap BatchPrompts = {}
    BY <1>2
  <2>3. /\ IsFiniteSet(Trained')
        /\ Cardinality(Trained') = Cardinality(Trained) + NumMb - 0
    BY <1>2, <2>1, <2>2, FS_Union, FS_EmptySet
  <2>4. train_step * NumMb \in Nat /\ (train_step + 1) * NumMb = train_step * NumMb + NumMb
    BY <1>4, Distribute, Constants
  <2>. DEFINE x == train_step * NumMb
  <2>5. x \in Nat /\ Cardinality(Trained') = x + NumMb - 0 /\ (train_step + 1) * NumMb = x + NumMb
    BY <2>1, <2>3, <2>4
  <2>. HIDE DEF x
  <2>6. Cardinality(Trained') = (train_step + 1) * NumMb
    BY <2>5, Constants
  <2>. QED  BY <1>2, <1>3, <2>3, <2>6 DEF FullBefore
<1>6. ASSUME NEW s \in DOMAIN ds_ckpt PROVE DiskOf(s)'
  <2>1. DiskOf(s)
    BY DEF DiskInv
  <2>2. TrainedBefore(s)' = TrainedBefore(s)
    BY <1>3, <1>4, <2>1 DEF DiskOf
  <2>3. BufferOf(s)' = BufferOf(s) /\ ReadBy(s)' = ReadBy(s)
    BY <1>2 DEF BufferOf, ReadBy
  <2>. QED  BY <1>2, <2>1, <2>2, <2>3 DEF DiskOf, FullBefore
<1>. QED  BY <1>2, <1>3, <1>4, <1>5, <1>6 DEF DiskInv

\* A save finds its step trained, and the tracker naming it.
LEMMA SavePlace ==
    ASSUME WindowInv, LeadInv, SaveInv, SaveData
    PROVE  model_ckpt = train_step /\ train_step \in Nat \ {0}
<1>1. pc \in {"save_data", "final_data"}
  BY DEF SaveData
<1>2. model_ckpt = train_step /\ (pc = "final_data" => train_step = TotalSteps)
  BY <1>1 DEF SaveInv
<1>3. /\ train_step \in Nat /\ sampler_weights \in Nat /\ steps_since_update \in Nat
      /\ sampler_weights + steps_since_update = train_step
  BY DEF WindowInv, LoopInv, TypeInv, TypeOK, TrainerTypeOK
<1>4. pc = "save_data" => steps_since_update > 0
  BY DEF LeadInv
<1>. QED  BY <1>1, <1>2, <1>3, <1>4, Constants

\* The file save_data_source writes.
SavedNow == [total_dl_consumed |-> total_dl_consumed,
             buffer |-> buffer \o RawsOf(DictOrder(Unconsumed))]

LEMMA SaveFile ==
    ASSUME Reuse, SaveData
    PROVE  /\ pc \in {"save_data", "final_data"} /\ pc' # "fire"
           /\ ds_ckpt' = [s \in DOMAIN ds_ckpt \cup {train_step} |->
                            IF s = train_step THEN SavedNow ELSE ds_ckpt[s]]
           /\ UNCHANGED <<train_step, trained_in, total_dl_consumed, buffer, model_ckpt>>
<1>. DEFINE owed == buffer \o RawsOf(DictOrder(Unconsumed))
<1>1. (IF Reuse THEN owed ELSE <<>>) = owed
  OBVIOUS
<1>. HIDE DEF owed
<1>2. ds_ckpt' = [s \in DOMAIN ds_ckpt \cup {train_step} |->
                    IF s = train_step
                    THEN [total_dl_consumed |-> total_dl_consumed,
                          buffer |-> IF Reuse THEN owed ELSE <<>>]
                    ELSE ds_ckpt[s]]
  BY DEF SaveData, owed
<1>3. ds_ckpt' = [s \in DOMAIN ds_ckpt \cup {train_step} |->
                    IF s = train_step THEN SavedNow ELSE ds_ckpt[s]]
  BY <1>1, <1>2 DEF SavedNow, owed
<1>4. UNCHANGED <<train_step, trained_in, total_dl_consumed, buffer, model_ckpt>>
  BY DEF SaveData, learnerVars, dataSourceVars
<1>5. pc \in {"save_data", "final_data"} /\ pc' # "fire"
  BY DEF SaveData, AfterSave
<1>. QED  BY <1>3, <1>4, <1>5

LEMMA SaveDisk ==
    ASSUME Reuse, WindowInv, LeadInv, SaveInv, CarryInv, ConsumedInv, HeldInv, SplitInv, DiskInv,
           OutstandingBounded, SaveData
    PROVE  /\ DiskInv'
           /\ SavedEntry(train_step)' = [read |-> total_dl_consumed, trained |-> Trained]
           /\ \A s \in DOMAIN ds_ckpt \ {train_step} : SavedEntry(s)' = SavedEntry(s)
           /\ DOMAIN ds_ckpt' = DOMAIN ds_ckpt \cup {train_step}
<1>. DEFINE n == train_step
            owed == buffer \o RawsOf(DictOrder(Unconsumed))
<1>1. /\ pc \in {"save_data", "final_data"} /\ TypeInv
      /\ ds_ckpt' = [s \in DOMAIN ds_ckpt \cup {n} |-> IF s = n THEN SavedNow ELSE ds_ckpt[s]]
      /\ UNCHANGED <<train_step, trained_in, total_dl_consumed, buffer, model_ckpt>>
  BY SaveFile DEF WindowInv
<1>2. model_ckpt = n /\ n \in Nat \ {0}
  BY SavePlace
<1>3. /\ owed \in Seq(Nat) /\ IsInjective(owed)
      /\ ToSet(owed) = ReadSoFar \ Trained /\ Trained \subseteq ReadSoFar
  BY <1>1, SavedPrompts
<1>4. /\ SavedNow.total_dl_consumed = total_dl_consumed /\ SavedNow.buffer = owed
  BY DEF SavedNow
<1>. HIDE DEF owed
<1>5. /\ DOMAIN ds_ckpt' = DOMAIN ds_ckpt \cup {n} /\ ds_ckpt'[n] = SavedNow
      /\ \A s \in DOMAIN ds_ckpt \ {n} : ds_ckpt'[s] = ds_ckpt[s]
  BY <1>1
<1>6. \A s : TrainedBefore(s)' = TrainedBefore(s)
  BY <1>1 DEF TrainedBefore
<1>7. Trained = TrainedBefore(n) /\ FullBefore(n) /\ EmptyAhead /\ model_ckpt <= n
  BY <1>1, TrainedAll DEF DiskInv
<1>8. BufferOf(n)' = ReadSoFar \ Trained /\ ReadBy(n)' = ReadSoFar
  BY <1>1, <1>3, <1>4, <1>5 DEF BufferOf, ReadBy, ReadSoFar
<1>9. DiskOf(n)'
  <2>1. ds_ckpt'[n].total_dl_consumed - NumMb * n <= Allowance
    BY <1>4, <1>5 DEF OutstandingBounded, Allowance
  <2>2. n \in 1 .. model_ckpt'
    BY <1>1, <1>2
  <2>3. IsInjective(ds_ckpt'[n].buffer)
    BY <1>3, <1>4, <1>5
  <2>4. FullBefore(n)' /\ n' = n
    BY <1>1, <1>6, <1>7 DEF FullBefore
  <2>5. TrainedBefore(n)' = Trained
    BY <1>1, <1>7 DEF TrainedBefore
  <2>6. /\ ReadSoFar \ Trained \subseteq ReadSoFar
        /\ Trained = ReadSoFar \ (ReadSoFar \ Trained)
    BY <1>3
  <2>7. BufferOf(n)' \subseteq ReadBy(n)' /\ TrainedBefore(n)' = ReadBy(n)' \ BufferOf(n)'
    <3>. HIDE DEF n
    <3>. QED  BY <1>8, <2>5, <2>6
  <2>. QED  BY <2>1, <2>2, <2>3, <2>4, <2>7 DEF DiskOf
<1>10. ASSUME NEW s \in DOMAIN ds_ckpt \ {n} PROVE DiskOf(s)' /\ SavedEntry(s)' = SavedEntry(s)
  <2>1. DiskOf(s)
    BY DEF DiskInv
  <2>2. BufferOf(s)' = BufferOf(s) /\ ReadBy(s)' = ReadBy(s) /\ SavedEntry(s)' = SavedEntry(s)
    BY <1>5 DEF BufferOf, ReadBy, SavedEntry
  <2>. QED  BY <1>1, <1>5, <1>6, <2>1, <2>2 DEF DiskOf, FullBefore
<1>11. DiskInv'
  <2>1. FullBefore(train_step)' /\ EmptyAhead'
    BY <1>1, <1>6, <1>7 DEF FullBefore, EmptyAhead
  <2>. QED  BY <1>1, <1>5, <1>7, <1>9, <1>10, <2>1 DEF DiskInv
<1>12. SavedEntry(n)' = [read |-> total_dl_consumed, trained |-> Trained]
  <2>1. SavedEntry(n)' = [read |-> ds_ckpt'[n].total_dl_consumed,
                          trained |-> ReadBy(n)' \ BufferOf(n)']
    BY <1>1 DEF SavedEntry, ReadBy, BufferOf
  <2>2. ReadBy(n)' \ BufferOf(n)' = Trained
    BY <1>3, <1>8
  <2>. QED  BY <1>4, <1>5, <2>1, <2>2
<1>. QED  BY <1>5, <1>10, <1>11, <1>12

----------------------------------------------------------------------------
\* What the other steps leave alone.

OtherStep == [Next]_vars /\ ~ BeginStep /\ ~ FireGenerationRequests /\ ~ Train /\ ~ Restart

LEMMA OtherFrame ==
    ASSUME OtherStep
    PROVE  /\ UNCHANGED <<train_step, trained_in, total_dl_consumed, buffer>>
           /\ pc' # "failed" => pc # "failed"
           /\ pc' \in {"begin_step", "fire"} => RolloutSide \/ UpdateWeights
           /\ ~ SaveModel /\ ~ SaveData => UNCHANGED <<model_ckpt, ds_ckpt>>
           /\ SaveModel => model_ckpt' = train_step /\ UNCHANGED ds_ckpt
<1>1. CASE RolloutSide
  <2>1. UNCHANGED <<pc, learnerVars, dataSourceVars, diskVars, train_step>>
    BY <1>1, RolloutFrame
  <2>2. SaveModel => UNCHANGED ds_ckpt /\ model_ckpt' = train_step
    BY DEF SaveModel
  <2>. QED  BY <1>1, <2>1, <2>2 DEF learnerVars, dataSourceVars, diskVars
<1>2. CASE CollectItem
  BY <1>2 DEF CollectItem, SaveModel, learnerVars, dataSourceVars, diskVars
<1>3. CASE FinishCollect
  BY <1>3 DEF FinishCollect, SaveModel, learnerVars, dataSourceVars, diskVars
<1>4. CASE SaveModel
  BY <1>4 DEF SaveModel, learnerVars, dataSourceVars
<1>5. CASE SaveData
  BY <1>5 DEF SaveData, SaveModel, AfterSave, learnerVars, dataSourceVars
<1>6. CASE WaitAllInflight
  BY <1>6 DEF WaitAllInflight, SaveModel, learnerVars, dataSourceVars, diskVars
<1>7. CASE UpdateWeights
  BY <1>7 DEF UpdateWeights, SaveModel, learnerVars, dataSourceVars, diskVars
<1>. QED  BY <1>1, <1>2, <1>3, <1>4, <1>5, <1>6, <1>7, NextCases DEF OtherStep, TrainerStep

LEMMA MoveFrame ==
    ASSUME BeginStep \/ FireGenerationRequests
    PROVE  UNCHANGED <<train_step, trained_in, model_ckpt, ds_ckpt>>
BY DEF BeginStep, FireGenerationRequests, learnerVars, diskVars

\* One prompt, one holder, and none lost, in every step.
LEMMA StepHeldInv ==
    /\ Reuse /\ WindowInv /\ GroupInv /\ BlockInv /\ HeldInv /\ SplitInv /\ DiskInv
    /\ [Next]_vars
    => HeldInv' /\ SplitInv'
<1>. SUFFICES ASSUME Reuse, WindowInv, GroupInv, BlockInv, HeldInv, SplitInv, DiskInv, [Next]_vars
              PROVE  HeldInv' /\ SplitInv'
  OBVIOUS
<1>1. CASE BeginStep
  BY <1>1, BeginHeld
<1>2. CASE FireGenerationRequests
  BY <1>2, FireHeld
<1>3. CASE Train
  BY <1>3, TrainHeld DEF DiskInv
<1>4. CASE Restart
  <2>1. CASE Missing(model_ckpt)
    <3>1. pc' = "failed"
      BY <1>4, <2>1 DEF Restart
    <3>. QED  BY <3>1 DEF HeldInv, SplitInv
  <2>2. CASE ~ Missing(model_ckpt)
    <3>1. SplitInv'
      BY <1>4, <2>2, RestartSplit DEF WindowInv
    <3>2. Held' = {}
      <4>1. pending' = EmptyDict /\ Line' = <<>> /\ Len(Line') = 0
        BY <1>4, RestartLine DEF Restart
      <4>2. Discarded' = {}
        BY <4>1 DEF Discarded, EmptyDict
      <4>3. Places' = {}
        BY <4>1 DEF Places
      <4>. QED  BY <4>2, <4>3 DEF Held, Waiting, InLine
    <3>. QED  BY <3>1, <3>2 DEF HeldInv
  <2>. QED  BY <2>1, <2>2
<1>5. CASE OtherStep
  <2>1. CASE pc' = "failed"
    BY <2>1 DEF HeldInv, SplitInv
  <2>2. CASE pc' # "failed"
    <3>1. Held' = Held /\ pc # "failed"
      BY <1>5, <2>2, HeldSame, OtherFrame DEF OtherStep
    <3>2. UNCHANGED <<trained_in, total_dl_consumed, buffer>>
      BY <1>5, OtherFrame
    <3>3. UNCHANGED <<Held, Trained, HeldPrompts, Buffered, ReadSoFar>>
      BY <3>1, <3>2 DEF Trained, HeldPrompts, Buffered, ReadSoFar
    <3>. QED  BY <3>1, <3>2, <3>3 DEF HeldInv, SplitInv
  <2>. QED  BY <2>1, <2>2
<1>. QED  BY <1>1, <1>2, <1>3, <1>4, <1>5 DEF OtherStep

LEMMA StepDiskInv ==
    /\ Reuse /\ WindowInv /\ GroupInv /\ BlockInv /\ LeadInv /\ SaveInv /\ CarryInv /\ ConsumedInv
    /\ HeldInv /\ SplitInv /\ DiskInv /\ OutstandingBounded
    /\ [Next]_vars
    => DiskInv'
<1>. SUFFICES ASSUME Reuse, WindowInv, GroupInv, BlockInv, LeadInv, SaveInv, CarryInv, ConsumedInv,
                     HeldInv, SplitInv, DiskInv, OutstandingBounded, [Next]_vars
              PROVE  DiskInv'
  OBVIOUS
<1>1. CASE BeginStep \/ FireGenerationRequests
  BY <1>1, MoveFrame, DiskStays
<1>2. CASE Train
  BY <1>2, TrainDisk
<1>3. CASE Restart
  <2>1. CASE Missing(model_ckpt)
    <3>1. UNCHANGED <<train_step, trained_in, model_ckpt, ds_ckpt>>
      BY <1>3, <2>1 DEF Restart, learnerVars, diskVars
    <3>. QED  BY <3>1, DiskStays
  <2>2. CASE ~ Missing(model_ckpt)
    <3>1. /\ FullBefore(train_step)' /\ EmptyAhead' /\ train_step' = model_ckpt
          /\ \A r \in 0 .. model_ckpt : TrainedBefore(r)' = TrainedBefore(r)
      BY <1>3, <2>2, RestartSplit DEF WindowInv
    <3>2. UNCHANGED <<model_ckpt, ds_ckpt>> /\ model_ckpt \in Nat
      BY <1>3, TrainTypes DEF Restart, diskVars, WindowInv
    <3>3. ASSUME NEW s \in DOMAIN ds_ckpt PROVE DiskOf(s)'
      <4>1. DiskOf(s) /\ s \in 1 .. model_ckpt
        BY DEF DiskInv, DiskOf
      <4>2. TrainedBefore(s)' = TrainedBefore(s)
        BY <3>1, <3>2, <4>1
      <4>3. BufferOf(s)' = BufferOf(s) /\ ReadBy(s)' = ReadBy(s)
        BY <3>2 DEF BufferOf, ReadBy
      <4>. QED  BY <3>2, <4>1, <4>2, <4>3 DEF DiskOf, FullBefore
    <3>. QED  BY <3>1, <3>2, <3>3 DEF DiskInv
  <2>. QED  BY <2>1, <2>2
<1>4. CASE OtherStep /\ SaveData
  BY <1>4, SaveDisk
<1>5. CASE OtherStep /\ SaveModel
  <2>1. /\ UNCHANGED <<train_step, trained_in, ds_ckpt>> /\ model_ckpt' = train_step
    BY <1>5, OtherFrame
  <2>2. model_ckpt \in Nat /\ train_step \in Nat /\ model_ckpt <= train_step
    BY TrainTypes DEF WindowInv, DiskInv
  <2>3. /\ \A s : TrainedBefore(s)' = TrainedBefore(s)
        /\ \A s : BufferOf(s)' = BufferOf(s) /\ ReadBy(s)' = ReadBy(s)
    BY <2>1 DEF TrainedBefore, BufferOf, ReadBy
  <2>4. \A s \in DOMAIN ds_ckpt : DiskOf(s)'
    <3>1. \A s \in 1 .. model_ckpt : s \in 1 .. train_step
      BY <2>2
    <3>. QED  BY <2>1, <2>3, <3>1 DEF DiskInv, DiskOf, FullBefore
  <2>5. FullBefore(train_step)' /\ EmptyAhead'
    BY <2>1, <2>3 DEF DiskInv, FullBefore, EmptyAhead
  <2>. QED  BY <2>1, <2>2, <2>4, <2>5 DEF DiskInv
<1>6. CASE OtherStep /\ ~ SaveModel /\ ~ SaveData
  BY <1>6, OtherFrame, DiskStays
<1>. QED  BY <1>1, <1>2, <1>3, <1>4, <1>5, <1>6 DEF OtherStep

----------------------------------------------------------------------------
\* How many prompts are held, and how many are read ahead of the training.

LEMMA ImageCounted ==
    ASSUME NEW S, IsFiniteSet(S), NEW f, DOMAIN f = S
    PROVE  /\ IsFiniteSet({f[x] : x \in S})
           /\ Cardinality({f[x] : x \in S}) <= Cardinality(S)
<1>. DEFINE T == {f[x] : x \in S}
            g == [x \in S |-> f[x]]
<1>1. g \in Surjection(S, T)
  BY DEF Surjection
<1>. HIDE DEF g, T
<1>2. IsFiniteSet(T) /\ Cardinality(T) <= Cardinality(S)
  BY <1>1, FS_Surjection
<1>. QED  BY <1>2 DEF T

LEMMA ListCounted ==
    ASSUME NEW s \in Seq(Nat)
    PROVE  IsFiniteSet(ToSet(s)) /\ Cardinality(ToSet(s)) <= Len(s)
<1>1. DOMAIN s = 1 .. Len(s) /\ Len(s) \in Nat
  OBVIOUS
<1>2. IsFiniteSet(1 .. Len(s)) /\ Cardinality(1 .. Len(s)) = Len(s)
  <2>1. IsFiniteSet(1 .. Len(s)) /\ Cardinality(1 .. Len(s)) = IF 1 > Len(s) THEN 0 ELSE Len(s) - 1 + 1
    BY <1>1, FS_Interval
  <2>. QED  BY <1>1, <2>1
<1>3. ToSet(s) = {s[i] : i \in 1 .. Len(s)}
  BY <1>1 DEF ToSet
<1>. QED  BY <1>1, <1>2, <1>3, ImageCounted

\* One call dispatches at most OverFireMb microbatches for each of its steps.
LEMMA FiredCounted ==
    ASSUME TypeInv, pc = "fire"
    PROVE  LET S == {PromptOf(k) : k \in Fired}
           IN  /\ IsFiniteSet(S) /\ Cardinality(S) \in Nat
               /\ Cardinality(S) <= (ChunkEnd - fired_step) * OverFireMb
<1>. DEFINE S == {PromptOf(k) : k \in Fired}
            f == [k \in Fired |-> PromptOf(k)]
            A == fired_step .. ChunkEnd - 1
            B == 0 .. OverFireMb - 1
<1>1. fired_step \in Nat /\ ChunkEnd \in Nat /\ fired_step < ChunkEnd
  BY ChunkBounds, FiredRows
<1>2. IsFiniteSet(A) /\ Cardinality(A) = ChunkEnd - fired_step
  <2>1. IsFiniteSet(A) /\ Cardinality(A) = IF fired_step > ChunkEnd - 1 THEN 0
                                           ELSE (ChunkEnd - 1) - fired_step + 1
    BY <1>1, FS_Interval
  <2>. HIDE DEF A
  <2>. QED  BY <1>1, <2>1
<1>3. IsFiniteSet(B) /\ Cardinality(B) = OverFireMb
  <2>1. IsFiniteSet(B) /\ Cardinality(B) = IF 0 > OverFireMb - 1 THEN 0
                                           ELSE (OverFireMb - 1) - 0 + 1
    BY Constants, FS_Interval
  <2>. HIDE DEF B
  <2>. QED  BY Constants, <2>1
<1>4. Fired \in SUBSET (A \X B)
  BY FiredRows DEF Fired, Dispatch
<1>. HIDE DEF A, B
<1>5. IsFiniteSet(A \X B) /\ Cardinality(A \X B) = (ChunkEnd - fired_step) * OverFireMb
  BY <1>2, <1>3, FS_Product
<1>6. IsFiniteSet(Fired) /\ Cardinality(Fired) <= Cardinality(A \X B)
  BY <1>4, <1>5, FS_Subset
<1>7. S = {f[k] : k \in Fired} /\ DOMAIN f = Fired
  OBVIOUS
<1>. HIDE DEF f
<1>8. IsFiniteSet(S) /\ Cardinality(S) <= Cardinality(Fired)
  BY <1>6, <1>7, ImageCounted
<1>9. /\ Cardinality(S) \in Nat /\ Cardinality(Fired) \in Nat /\ Cardinality(A \X B) \in Nat
  BY <1>5, <1>6, <1>8, FS_CardinalityType
<1>. HIDE DEF S
<1>10. Cardinality(S) <= Cardinality(A \X B)
  BY <1>6, <1>8, <1>9
<1>. QED  BY <1>5, <1>8, <1>9, <1>10 DEF S

LEMMA FireLoad ==
    ASSUME WindowInv, HeldInv, SplitInv, LoadInv, FireGenerationRequests
    PROVE  /\ IsFiniteSet(HeldPrompts') /\ Cardinality(HeldPrompts') \in Nat
           /\ Cardinality(HeldPrompts') <= (ChunkEnd - train_step) * OverFireMb
<1>. DEFINE S == {PromptOf(k) : k \in Fired}
            a == fired_step - train_step
            b == ChunkEnd - fired_step
<1>1. TypeInv /\ pc = "fire" /\ HeldPrompts' = HeldPrompts \cup S
  BY FireHeld DEF WindowInv, FireGenerationRequests
<1>2. IsFiniteSet(S) /\ Cardinality(S) \in Nat /\ Cardinality(S) <= b * OverFireMb
  BY <1>1, FiredCounted
<1>3. IsFiniteSet(HeldPrompts) /\ Cardinality(HeldPrompts) <= a * OverFireMb
  BY <1>1 DEF LoadInv
<1>4. /\ fired_step \in Nat /\ train_step \in Nat /\ ChunkEnd \in Nat
      /\ train_step <= fired_step /\ fired_step < ChunkEnd
  BY <1>1, ChunkBounds, FiredRows, TrainTypes DEF WindowInv, LoopInv
<1>5. a \in Nat /\ b \in Nat /\ ChunkEnd - train_step = a + b
  BY <1>4
<1>. HIDE DEF S, a, b
<1>6. (a + b) * OverFireMb = a * OverFireMb + b * OverFireMb
      /\ a * OverFireMb \in Int /\ b * OverFireMb \in Int
  BY <1>5, Constants, Distribute
<1>7. /\ Cardinality(HeldPrompts) \in Nat /\ IsFiniteSet(HeldPrompts \cup S)
      /\ Cardinality(HeldPrompts \cup S) =
            Cardinality(HeldPrompts) + Cardinality(S) - Cardinality(HeldPrompts \cap S)
      /\ Cardinality(HeldPrompts \cap S) \in Nat
  <2>1. HeldPrompts \cap S \in SUBSET S
    OBVIOUS
  <2>2. IsFiniteSet(HeldPrompts \cap S)
    BY <1>2, <2>1, FS_Subset
  <2>. QED  BY <1>2, <1>3, <2>2, FS_Union, FS_CardinalityType
<1>8. Cardinality(HeldPrompts \cup S) \in Nat
  BY <1>7, FS_CardinalityType
<1>9. Cardinality(HeldPrompts \cup S) <= (a + b) * OverFireMb
  BY <1>2, <1>3, <1>6, <1>7, <1>8
<1>. QED  BY <1>1, <1>5, <1>7, <1>8, <1>9

LEMMA BeginLoad ==
    ASSUME Reuse, WindowInv, BalanceInv, LeadInv, GroupInv, BlockInv, HeldInv, SplitInv, BeginStep
    PROVE  LoadInv'
<1>. DEFINE d == fired_step - train_step
            m == d * NumMb
<1>1. /\ TypeInv /\ pc = "begin_step" /\ pc # "failed" /\ Held' = InLine
      /\ UNCHANGED <<train_step, fired_step>>
  BY BeginHeld DEF WindowInv, BeginStep
<1>2. Unbroken /\ d \in 0 .. 1 /\ Len(Line) = d * NumCollect
  BY <1>1, BeginLine
<1>3. m \in Nat /\ m * RbMultiplier = Len(Line) /\ m <= d * OverFireMb
  <2>. HIDE DEF d
  <2>1. d = 0 \/ d = 1
    BY <1>2
  <2>2. NumMb * RbMultiplier = NumCollect /\ NumMb \in Nat /\ NumMb <= OverFireMb /\ OverFireMb \in Nat
        /\ NumCollect \in Nat /\ RbMultiplier \in Nat
    BY Constants, BalanceTypes DEF NumCollect
  <2>3. CASE d = 0
    <3>1. d * NumMb = 0 /\ d * NumCollect = 0 /\ d * OverFireMb = 0 /\ 0 * RbMultiplier = 0
      BY <2>2, <2>3
    <3>. QED  BY <1>2, <3>1
  <2>4. CASE d = 1
    <3>1. d * NumMb = NumMb /\ d * NumCollect = NumCollect /\ d * OverFireMb = OverFireMb
      BY <2>2, <2>4
    <3>. QED  BY <1>2, <2>2, <3>1
  <2>. QED  BY <2>1, <2>3, <2>4
<1>. HIDE DEF m
<1>4. Clean(m * RbMultiplier) /\ m * RbMultiplier <= Len(Line) /\ Len(Line) \in Nat
  BY <1>2, <1>3, BalanceTypes DEF Unbroken
<1>5. IsFiniteSet(Firsts(m)) /\ Cardinality(Firsts(m)) = m
  BY <1>1, <1>3, <1>4, FirstsCounted
<1>6. {h[1] : h \in InLine} = Firsts(m)
  <2>1. \A p \in 1 .. Len(Line) : ~ Line[p].error
    BY <1>3, <1>4 DEF Clean
  <2>2. \A p \in 1 .. Len(Line) : Line[p].key \in Dispatch
    BY <1>1, <2>1, LineTypes DEF Places
  <2>3. LineKeys = Firsts(m)
    BY <1>3, <2>1, <2>2 DEF LineKeys, Firsts
  <2>. QED  BY <1>1, <2>3, LineTypes DEF KeysInLine
<1>7. \A x, y \in InLine : x[1] = y[1] <=> x[2] = y[2]
  BY <1>1 DEF HeldInv, Held
<1>8. /\ IsFiniteSet({h[2] : h \in InLine})
      /\ Cardinality({h[2] : h \in InLine}) = m
  BY <1>5, <1>6, <1>7, PairsCounted
<1>9. HeldPrompts' = {h[2] : h \in InLine}
  BY <1>1 DEF HeldPrompts
<1>10. (fired_step' - train_step') * OverFireMb = d * OverFireMb
  BY <1>1
<1>. HIDE DEF d
<1>. QED  BY <1>3, <1>8, <1>9, <1>10 DEF LoadInv

LEMMA FireOutstanding ==
    ASSUME WindowInv, HeldInv, SplitInv, DiskInv, LoadInv, OutstandingBounded,
           FireGenerationRequests
    PROVE  LoadInv' /\ OutstandingBounded'
<1>. DEFINE c == (ChunkEnd - train_step) * OverFireMb
            most == (MaxStale + 1) * OverFireMb
            n == train_step * NumMb
<1>1. /\ TypeInv /\ pc = "fire" /\ SplitInv'
      /\ Len(buffer') = Len(buffer) - Popped /\ Len(buffer) \in Nat
      /\ total_dl_consumed' = total_dl_consumed + FreshRead
      /\ Popped \in 0 .. Len(buffer) /\ FreshRead \in Nat
      /\ UNCHANGED <<trained_in, train_step>> /\ fired_step' = ChunkEnd
  BY FireHeld DEF WindowInv, FireGenerationRequests
<1>2. /\ IsFiniteSet(HeldPrompts') /\ Cardinality(HeldPrompts') \in Nat
      /\ Cardinality(HeldPrompts') <= c
  BY FireLoad
<1>3. /\ total_dl_consumed \in Nat /\ train_step \in Nat /\ ChunkEnd \in Nat /\ fired_step \in Nat
      /\ buffer \in Seq(Nat) /\ fired_step < ChunkEnd
  BY <1>1, ChunkBounds, TrainTypes, FiredRows DEF TypeInv, TypeOK, DataSourceTypeOK
<1>4. LoadInv'
  <2>1. (fired_step' - train_step') * OverFireMb = c
    BY <1>1
  <2>. HIDE DEF c
  <2>. QED  BY <1>2, <2>1 DEF LoadInv
<1>5. c <= most /\ c \in Int /\ most \in Nat
  <2>1. ChunkEnd <= fire_target
    BY <1>1, ChunkBounds
  <2>2. sampler_weights + steps_since_update = train_step /\ steps_since_update = 0
    BY <1>1 DEF WindowInv, LoopInv
  <2>3. fire_target <= sampler_weights + MaxStale + 1 /\ sampler_weights \in Nat
    BY SamplerBehind
  <2>4. fire_target \in Nat
    BY BalanceTypes
  <2>5. ChunkEnd - train_step <= MaxStale + 1 /\ ChunkEnd - train_step \in Int /\ MaxStale + 1 \in Nat
    BY <1>3, <2>1, <2>2, <2>3, <2>4, Constants
  <2>. QED  BY <2>5, Constants, Distribute
<1>6. n \in Nat /\ NumMb * train_step = n
  BY <1>3, Constants
<1>7. CASE FreshSteps = 0
  <2>1. FreshRead = 0
    BY <1>7, Constants DEF FreshRead
  <2>. QED  BY <1>1, <1>3, <1>4, <2>1 DEF OutstandingBounded
<1>8. CASE FreshSteps # 0
  <2>1. Len(buffer') <= NumMb - 1 /\ Len(buffer') \in Nat
    <3>. DEFINE q == Len(buffer) \div NumMb
    <3>1. q \in Nat /\ Len(buffer) < (q + 1) * NumMb
      BY <1>1, DivisionBounds, Constants
    <3>. HIDE DEF q
    <3>2. BufferedSteps = q
      BY <1>3, <1>8, <3>1 DEF FreshSteps, BufferedSteps, Lesser, q
    <3>3. (q + 1) * NumMb = q * NumMb + NumMb /\ q * NumMb \in Int
      BY <3>1, Constants, Distribute
    <3>4. Popped = q * NumMb
      BY <3>2 DEF Popped
    <3>. QED  BY <1>1, <3>1, <3>3, <3>4, Constants
  <2>2. IsFiniteSet(Buffered') /\ Cardinality(Buffered') <= Len(buffer')
    <3>1. TypeInv'
      BY <1>1, FireTypeInv
    <3>2. buffer' \in Seq(Nat)
      BY <3>1 DEF TypeInv, TypeOK, DataSourceTypeOK
    <3>. QED  BY <3>2, ListCounted DEF Buffered
  <2>3. IsFiniteSet(Trained') /\ Cardinality(Trained') = n
    <3>1. Trained' = Trained
      BY <1>1 DEF Trained
    <3>2. Trained = TrainedBefore(train_step) /\ FullBefore(train_step)
      BY <1>1, TrainedAll DEF DiskInv
    <3>. QED  BY <3>1, <3>2 DEF FullBefore
  <2>4. ReadSoFar' = Trained' \cup (Buffered' \cup HeldPrompts')
    <3>1. pc' # "failed"
      BY DEF FireGenerationRequests
    <3>. QED  BY <1>1, <3>1 DEF SplitInv
  <2>5. total_dl_consumed' \in Nat /\ Cardinality(ReadSoFar') = total_dl_consumed'
    <3>1. total_dl_consumed' \in Nat
      BY <1>1, <1>3
    <3>. DEFINE t == total_dl_consumed'
    <3>2. ReadSoFar' = 0 .. t - 1
      BY DEF ReadSoFar
    <3>3. t \in Nat
      BY <3>1
    <3>. HIDE DEF t
    <3>4. t - 1 \in Int
      BY <3>3
    <3>5. Cardinality(0 .. t - 1) = IF 0 > t - 1 THEN 0 ELSE (t - 1) - 0 + 1
      BY <3>4, FS_Interval
    <3>6. Cardinality(0 .. t - 1) = t
      BY <3>3, <3>5
    <3>7. Cardinality(ReadSoFar') = t
      BY <3>2, <3>6
    <3>. QED  BY <3>1, <3>7 DEF t
  <2>6. Cardinality(ReadSoFar') <= n + (Len(buffer') + Cardinality(HeldPrompts'))
    <3>. DEFINE A == Trained'
                B == Buffered'
                H == HeldPrompts'
                BH == B \cup H
    <3>1. /\ IsFiniteSet(A) /\ IsFiniteSet(B) /\ IsFiniteSet(H)
          /\ Cardinality(A) = n /\ Cardinality(B) <= Len(buffer')
          /\ ReadSoFar' = A \cup BH
      BY <1>2, <2>2, <2>3, <2>4
    <3>. HIDE DEF A, B, H
    <3>2. /\ IsFiniteSet(BH) /\ IsFiniteSet(B \cap H) /\ IsFiniteSet(A \cap BH)
          /\ Cardinality(BH) = Cardinality(B) + Cardinality(H) - Cardinality(B \cap H)
      <4>1. B \cap H \in SUBSET B /\ A \cap BH \in SUBSET A
        OBVIOUS
      <4>. QED  BY <3>1, <4>1, FS_Union, FS_Subset
    <3>3. IsFiniteSet(A \cup BH)
          /\ Cardinality(A \cup BH) = Cardinality(A) + Cardinality(BH) - Cardinality(A \cap BH)
      <4>. HIDE DEF BH
      <4>. QED  BY <3>1, <3>2, FS_Union
    <3>4. /\ Cardinality(A) \in Nat /\ Cardinality(B) \in Nat /\ Cardinality(H) \in Nat
          /\ Cardinality(BH) \in Nat /\ Cardinality(B \cap H) \in Nat
          /\ Cardinality(A \cap BH) \in Nat
      <4>. HIDE DEF BH
      <4>. QED  BY <3>1, <3>2, FS_CardinalityType
    <3>5. Cardinality(A \cup BH) <= n + (Len(buffer') + Cardinality(H))
      <4>. HIDE DEF BH, n
      <4>. QED  BY <1>6, <2>1, <3>1, <3>2, <3>3, <3>4
    <3>. QED  BY <3>1, <3>5 DEF H
  <2>7. total_dl_consumed' - n <= NumMb - 1 + most
    <3>. DEFINE t == total_dl_consumed'
                h == Cardinality(HeldPrompts')
                b == Len(buffer')
    <3>1. t \in Nat /\ h \in Nat /\ b \in Nat /\ h <= c /\ b <= NumMb - 1 /\ t <= n + (b + h)
      <4>. HIDE DEF c, n
      <4>. QED  BY <1>2, <2>1, <2>5, <2>6
    <3>2. NumMb \in Nat
      BY Constants
    <3>. HIDE DEF c, most, n, t, h, b
    <3>3. t - n <= NumMb - 1 + most
      BY <1>5, <1>6, <3>1, <3>2
    <3>. QED  BY <3>3 DEF t
  <2>8. NumMb * train_step' = n
    BY <1>1, <1>6
  <2>. HIDE DEF n
  <2>. QED  BY <1>4, <2>7, <2>8 DEF OutstandingBounded
<1>. QED  BY <1>7, <1>8

LEMMA StepLoadInv ==
    /\ Reuse /\ WindowInv /\ BalanceInv /\ GroupInv /\ BlockInv /\ LeadInv
    /\ HeldInv /\ SplitInv /\ DiskInv /\ LoadInv /\ OutstandingBounded
    /\ [Next]_vars
    => LoadInv' /\ OutstandingBounded'
<1>. SUFFICES ASSUME Reuse, WindowInv, BalanceInv, GroupInv, BlockInv, LeadInv,
                     HeldInv, SplitInv, DiskInv, LoadInv, OutstandingBounded, [Next]_vars
              PROVE  LoadInv' /\ OutstandingBounded'
  OBVIOUS
<1>1. CASE BeginStep
  <2>1. UNCHANGED <<total_dl_consumed, train_step>>
    BY <1>1, BeginHeld
  <2>. QED  BY <1>1, <2>1, BeginLoad DEF OutstandingBounded
<1>2. CASE FireGenerationRequests
  BY <1>2, FireOutstanding
<1>3. CASE Train
  <2>1. UNCHANGED total_dl_consumed /\ train_step' = train_step + 1 /\ pc' # "fire"
    BY <1>3 DEF Train, AfterTrain, dataSourceVars
  <2>2. total_dl_consumed \in Nat /\ train_step \in Nat
    BY TrainTypes DEF WindowInv
  <2>3. /\ NumMb * train_step \in Int /\ NumMb * (train_step + 1) = NumMb * train_step + NumMb
        /\ NumMb \in Nat /\ NumMb - 1 + (MaxStale + 1) * OverFireMb \in Int
    BY <2>2, Constants
  <2>. DEFINE x == NumMb * train_step
              y == NumMb - 1 + (MaxStale + 1) * OverFireMb
  <2>4. x \in Int /\ y \in Int /\ total_dl_consumed - x <= y
    BY <2>3 DEF OutstandingBounded
  <2>5. NumMb * train_step' = x + NumMb
    BY <2>1, <2>3
  <2>. HIDE DEF x, y
  <2>6. total_dl_consumed - (x + NumMb) <= y
    BY <2>2, <2>3, <2>4
  <2>7. total_dl_consumed' - NumMb * train_step' <= y
    BY <2>1, <2>5, <2>6
  <2>. QED  BY <2>1, <2>7 DEF LoadInv, OutstandingBounded, y
<1>4. CASE Restart
  <2>1. pc' # "fire"
    BY <1>4 DEF Restart, AfterBoot, LoopTop, AfterLoop
  <2>2. CASE Missing(model_ckpt)
    <3>1. UNCHANGED <<total_dl_consumed, train_step>>
      BY <1>4, <2>2 DEF Restart, dataSourceVars
    <3>. QED  BY <2>1, <3>1 DEF LoadInv, OutstandingBounded
  <2>3. CASE ~ Missing(model_ckpt)
    BY <1>4, <2>1, <2>3, RestartSplit DEF LoadInv, WindowInv
  <2>. QED  BY <2>2, <2>3
<1>5. CASE OtherStep
  <2>1. UNCHANGED <<train_step, total_dl_consumed>>
    BY <1>5, OtherFrame
  <2>2. OutstandingBounded'
    BY <2>1 DEF OutstandingBounded
  <2>3. CASE pc' = "fire"
    <3>1. RolloutSide \/ UpdateWeights
      BY <1>5, <2>3, OtherFrame
    <3>2. ~ UpdateWeights
      BY <2>3 DEF UpdateWeights, LoopTop, AfterLoop
    <3>3. UNCHANGED <<pc, fired_step>>
      BY <3>1, <3>2, RolloutFrame
    <3>4. HeldPrompts' = HeldPrompts
      BY <1>5, <2>3, HeldSame DEF OtherStep, HeldPrompts
    <3>. QED  BY <2>1, <2>2, <3>3, <3>4 DEF LoadInv
  <2>4. CASE pc' # "fire"
    BY <2>2, <2>4 DEF LoadInv
  <2>. QED  BY <2>3, <2>4
<1>. QED  BY <1>1, <1>2, <1>3, <1>4, <1>5 DEF OtherStep

----------------------------------------------------------------------------
\* The invariant of the prompts, for a run that reuses them.

PlaceInv == LeadInv /\ CarryInv /\ BlockInv /\ ConsumedInv
PromptInv == /\ Reuse /\ HeldInv /\ SplitInv /\ DiskInv /\ LoadInv /\ OutstandingBounded
StepsInv == WindowInv /\ BalanceInv /\ GroupInv /\ SaveInv /\ PlaceInv

LEMMA InitPrompts ==
    ASSUME Init, Reuse
    PROVE  GroupInv /\ PlaceInv /\ PromptInv
<1>1. /\ Len(Line) = 0 /\ Places = {} /\ Discarded = {} /\ DOMAIN pending = {} /\ pc = "begin_step"
      /\ fired_step = 0 /\ train_step = 0 /\ DOMAIN ds_ckpt = {} /\ model_ckpt = 0
      /\ buffer = <<>> /\ total_dl_consumed = 0 /\ \A s \in 0 .. TotalSteps - 1 : trained_in[s] = {}
      /\ DOMAIN trained_in = 0 .. TotalSteps - 1
  BY DEF Init, Line, Places, Discarded, EmptyDict
<1>2. GroupInv /\ PlaceInv
  BY <1>1 DEF GroupInv, PlaceInv, LeadInv, CarryInv, BlockInv, ConsumedInv
<1>3. Held = {} /\ HeldPrompts = {}
  BY <1>1 DEF HeldPrompts, Held, Waiting, InLine
<1>4. HeldInv /\ LoadInv
  BY <1>1, <1>3 DEF HeldInv, LoadInv
<1>5. SplitInv
  <2>1. Trained = {} /\ 0 .. 0 - 1 = {} /\ ToSet(<<>>) = {} /\ IsInjective(<<>>)
    BY <1>1 DEF Trained, ToSet, IsInjective
  <2>. QED  BY <1>1, <1>3, <2>1 DEF SplitInv, Buffered, ReadSoFar
<1>6. DiskInv
  <2>1. TrainedBefore(0) = {}
    <3>1. 0 .. 0 - 1 = {}
      OBVIOUS
    <3>. QED  BY <3>1 DEF TrainedBefore
  <2>2. FullBefore(0)
    BY <2>1, FS_EmptySet, Constants DEF FullBefore
  <2>. QED  BY <1>1, <2>2 DEF DiskInv, EmptyAhead
<1>7. OutstandingBounded
  <2>1. (MaxStale + 1) * OverFireMb \in Nat /\ NumMb - 1 \in Nat /\ NumMb * 0 = 0
    BY Constants
  <2>. QED  BY <1>1, <2>1 DEF OutstandingBounded
<1>. QED  BY <1>2, <1>4, <1>5, <1>6, <1>7 DEF PromptInv

LEMMA StepsInductive == Reuse /\ Spec => []StepsInv
<1>1. Spec => []SaveInv
  <2>1. WindowInv /\ SaveInv /\ [Next]_vars => SaveInv'
    BY StepSaveInv DEF WindowInv
  <2>. QED  BY <2>1, InitSaveInv, WindowInductive, PTL DEF Spec
<1>2. Reuse /\ Init => GroupInv /\ PlaceInv
  BY InitPrompts
<1>3. Reuse /\ Spec => []GroupInv
  BY <1>2, StepGroupInv, BalanceInductive, PTL DEF Spec
<1>4. WindowInv /\ BalanceInv /\ GroupInv /\ PlaceInv /\ [Next]_vars => PlaceInv'
  BY StepLeadInv, StepCarryInv, StepBlockInv, StepConsumedInv DEF PlaceInv, WindowInv
<1>5. Reuse /\ Spec => []PlaceInv
  BY <1>2, <1>3, <1>4, BalanceInductive, PTL DEF Spec
<1>6. WindowInv /\ BalanceInv /\ SaveInv /\ GroupInv /\ PlaceInv => StepsInv
  BY DEF StepsInv
<1>. QED  BY <1>1, <1>3, <1>5, <1>6, BalanceInductive, PTL

LEMMA StepPromptInv == StepsInv /\ PromptInv /\ [Next]_vars => PromptInv'
<1>. SUFFICES ASSUME StepsInv, PromptInv, [Next]_vars PROVE PromptInv'
  OBVIOUS
<1>1. /\ Reuse /\ WindowInv /\ BalanceInv /\ GroupInv /\ SaveInv
      /\ LeadInv /\ CarryInv /\ BlockInv /\ ConsumedInv
      /\ HeldInv /\ SplitInv /\ DiskInv /\ LoadInv /\ OutstandingBounded
  BY DEF StepsInv, PlaceInv, PromptInv
<1>2. HeldInv' /\ SplitInv'
  BY <1>1, StepHeldInv
<1>3. DiskInv'
  BY <1>1, StepDiskInv
<1>4. LoadInv' /\ OutstandingBounded'
  BY <1>1, StepLoadInv
<1>. QED  BY <1>1, <1>2, <1>3, <1>4 DEF PromptInv

LEMMA PromptsInductive == Reuse /\ Spec => [](StepsInv /\ PromptInv)
<1>1. Reuse /\ Init => PromptInv
  BY InitPrompts
<1>. QED  BY <1>1, StepPromptInv, StepsInductive, PTL DEF Spec

\* A run that reuses its prompts reads the dataloader no further ahead of the
\* training than one window's over-dispatch and less than a step's leftovers:
\* prompts handed back by begin_step are dispatched before fresh ones are read.
THEOREM ReadAheadIsBounded == Reuse /\ Spec => []OutstandingBounded
<1>1. PromptInv => OutstandingBounded
  BY DEF PromptInv
<1>. QED  BY <1>1, PromptsInductive, PTL

----------------------------------------------------------------------------
\* Every step is a step of the ledger, or none.

\* What the checkpoints restore, in the ledger's terms.
Books == [s \in DOMAIN ds_ckpt |-> SavedEntry(s)]

LEMMA BooksStay ==
    ASSUME UNCHANGED ds_ckpt
    PROVE  Books' = Books
BY DEF Books, SavedEntry

LEMMA LedgerStutters ==
    ASSUME UNCHANGED <<total_dl_consumed, trained_in, train_step, ds_ckpt>>
    PROVE  [Ledger!Next]_(Ledger!ledgerVars)
<1>1. Books' = Books
  BY BooksStay
<1>2. Trained' = Trained
  BY DEF Trained
<1>. QED  BY <1>1, <1>2 DEF Ledger!ledgerVars, Books

LEMMA FireReads ==
    ASSUME StepsInv, PromptInv, FireGenerationRequests
    PROVE  [Ledger!Next]_(Ledger!ledgerVars)
<1>. DEFINE most == (MaxStale + 1) * OverFireMb
<1>1. /\ total_dl_consumed' = total_dl_consumed + FreshRead /\ FreshRead \in Nat
      /\ UNCHANGED <<trained_in, train_step, ds_ckpt>>
  BY FireHeld, MoveFrame DEF StepsInv, PromptInv
<1>2. total_dl_consumed \in Nat
  BY TrainTypes DEF StepsInv, WindowInv
<1>3. FreshRead <= most /\ most \in Nat
  <2>1. WindowInv /\ TypeInv /\ pc = "fire"
    BY DEF StepsInv, WindowInv, FireGenerationRequests
  <2>2. /\ ChunkEnd <= fire_target /\ ChunkEnd \in Nat /\ fired_step \in Nat /\ train_step \in Nat
        /\ BufferedSteps \in Nat /\ train_step <= fired_step /\ FreshSteps \in Nat
    BY <2>1, ChunkBounds, FiredRows, BalanceTypes DEF WindowInv, LoopInv
  <2>3. sampler_weights + steps_since_update = train_step /\ steps_since_update = 0
    BY <2>1 DEF WindowInv, LoopInv
  <2>4. fire_target <= sampler_weights + MaxStale + 1 /\ sampler_weights \in Nat /\ fire_target \in Nat
    BY <2>1, SamplerBehind, BalanceTypes
  <2>5. FreshSteps <= MaxStale + 1 /\ MaxStale + 1 \in Nat
    BY <2>2, <2>3, <2>4, Constants DEF FreshSteps
  <2>. QED  BY <2>2, <2>5, Constants, Distribute DEF FreshRead
<1>4. CASE FreshRead = 0
  BY <1>1, <1>2, <1>4, LedgerStutters
<1>5. CASE FreshRead # 0
  <2>1. FreshRead \in 1 .. most
    <3>. HIDE DEF most
    <3>. QED  BY <1>1, <1>3, <1>5
  <2>2. Books' = Books
    BY <1>1, BooksStay
  <2>3. Trained' = Trained
    BY <1>1 DEF Trained
  <2>4. Ledger!Read
    BY <1>1, <2>1, <2>2, <2>3 DEF Ledger!Read, Books
  <2>. QED  BY <2>4 DEF Ledger!Next
<1>. QED  BY <1>4, <1>5

LEMMA LedgerCounts == \A S : Ledger!Cardinality(S) = Cardinality(S)
BY DEF Ledger!Cardinality, Cardinality

LEMMA TrainTrains ==
    ASSUME StepsInv, PromptInv, Train
    PROVE  Ledger!TrainStep
<1>1. /\ BatchPrompts \subseteq ReadSoFar \ Trained /\ Trained' = Trained \cup BatchPrompts
      /\ Cardinality(BatchPrompts) = NumMb
      /\ UNCHANGED <<total_dl_consumed, ds_ckpt>> /\ train_step' = train_step + 1
  BY TrainHeld DEF StepsInv, PlaceInv, PromptInv, DiskInv
<1>2. train_step < TotalSteps
  BY TrainHistory DEF StepsInv, WindowInv, PromptInv, DiskInv
<1>3. Books' = Books
  BY <1>1, BooksStay
<1>4. BatchPrompts \in SUBSET Ledger!Owed
  BY <1>1 DEF Ledger!Owed, ReadSoFar
<1>5. Ledger!Cardinality(BatchPrompts) = NumMb
  BY <1>1, LedgerCounts
<1>. QED  BY <1>1, <1>2, <1>3, <1>4, <1>5 DEF Ledger!TrainStep, Books

LEMMA SaveSaves ==
    ASSUME StepsInv, PromptInv, SaveData
    PROVE  Ledger!Save
<1>1. /\ SavedEntry(train_step)' = [read |-> total_dl_consumed, trained |-> Trained]
      /\ \A s \in DOMAIN ds_ckpt \ {train_step} : SavedEntry(s)' = SavedEntry(s)
      /\ DOMAIN ds_ckpt' = DOMAIN ds_ckpt \cup {train_step}
  BY SaveDisk DEF StepsInv, PlaceInv, PromptInv
<1>2. UNCHANGED <<total_dl_consumed, trained_in, train_step>>
  BY SaveFile DEF PromptInv
<1>3. train_step \in Nat \ {0}
  BY SavePlace DEF StepsInv, PlaceInv
<1>. DEFINE e == [read |-> total_dl_consumed, trained |-> Trained]
<1>4. ASSUME NEW s \in DOMAIN ds_ckpt'
      PROVE  SavedEntry(s)' = IF s = train_step THEN e ELSE Books[s]
  <2>1. CASE s = train_step
    <3>1. SavedEntry(s)' = SavedEntry(train_step)'
      BY <1>2, <2>1 DEF SavedEntry
    <3>. QED  BY <1>1, <2>1, <3>1
  <2>2. CASE s # train_step
    <3>1. s \in DOMAIN ds_ckpt \ {train_step}
      BY <1>1, <2>2
    <3>. QED  BY <1>1, <2>2, <3>1 DEF Books
  <2>. QED  BY <2>1, <2>2
<1>5. Books' = [s \in DOMAIN ds_ckpt' |-> SavedEntry(s)'] /\ DOMAIN Books = DOMAIN ds_ckpt
  BY DEF Books
<1>. HIDE DEF e
<1>6. Books' = [s \in DOMAIN Books \cup {train_step} |-> IF s = train_step THEN e ELSE Books[s]]
  BY <1>1, <1>4, <1>5
<1>7. Trained' = Trained
  BY <1>2 DEF Trained
<1>8. train_step > 0
  BY <1>3
<1>. QED  BY <1>2, <1>6, <1>7, <1>8 DEF Ledger!Save, Books, e

LEMMA RestartReverts ==
    ASSUME StepsInv, PromptInv, Restart
    PROVE  [Ledger!Next]_(Ledger!ledgerVars)
<1>1. CASE Missing(model_ckpt)
  <2>1. UNCHANGED <<total_dl_consumed, trained_in, train_step, ds_ckpt>>
    BY <1>1 DEF Restart, learnerVars, dataSourceVars, diskVars
  <2>. QED  BY <2>1, LedgerStutters
<1>2. CASE ~ Missing(model_ckpt)
  <2>. DEFINE n == model_ckpt
  <2>1. /\ Trained' = TrainedBefore(n) /\ train_step' = n
        /\ total_dl_consumed' = Loaded(n).total_dl_consumed
    BY <1>2, RestartHistory DEF StepsInv, WindowInv
  <2>2. n \in Nat /\ \A s \in DOMAIN ds_ckpt : DiskOf(s) /\ s \in 1 .. n
    BY TrainTypes DEF StepsInv, WindowInv, PromptInv, DiskInv, DiskOf
  <2>3. Books' = Books /\ DOMAIN Books = DOMAIN ds_ckpt
    BY BooksStay DEF Restart, diskVars, Books
  <2>. HIDE DEF n
  <2>4. CASE n = 0
    <3>1. DOMAIN Books = {}
      BY <2>2, <2>3, <2>4
    <3>2. total_dl_consumed' = 0
      BY <2>1, <2>4 DEF Loaded
    <3>3. Trained' = {}
      <4>1. 0 .. 0 - 1 = {}
        OBVIOUS
      <4>. QED  BY <2>1, <2>4, <4>1 DEF TrainedBefore
    <3>4. Ledger!Restart
      BY <2>1, <2>3, <2>4, <3>1, <3>2, <3>3 DEF Ledger!Restart, Books
    <3>. QED  BY <3>4 DEF Ledger!Next
  <2>5. CASE n # 0
    <3>1. n \in DOMAIN ds_ckpt
      BY <1>2, <2>2, <2>5 DEF Missing, n
    <3>2. total_dl_consumed' = ds_ckpt[n].total_dl_consumed
      BY <2>1, <2>5 DEF Loaded
    <3>3. TrainedBefore(n) = ReadBy(n) \ BufferOf(n)
      BY <2>2, <3>1 DEF DiskOf
    <3>4. Books[n].read = ds_ckpt[n].total_dl_consumed /\ Books[n].trained = ReadBy(n) \ BufferOf(n)
      BY <3>1 DEF Books, SavedEntry, ReadBy, BufferOf
    <3>5. \A r \in DOMAIN Books : r <= n
      BY <2>2, <2>3
    <3>6. Ledger!Restart
      BY <2>1, <2>3, <3>1, <3>2, <3>3, <3>4, <3>5 DEF Ledger!Restart, Ledger!LastSaved, Books
    <3>. QED  BY <3>6 DEF Ledger!Next
  <2>. QED  BY <2>4, <2>5
<1>. QED  BY <1>1, <1>2

LEMMA StepKeepsLedger ==
    StepsInv /\ PromptInv /\ [Next]_vars => [Ledger!Next]_(Ledger!ledgerVars)
<1>. SUFFICES ASSUME StepsInv, PromptInv, [Next]_vars
              PROVE  [Ledger!Next]_(Ledger!ledgerVars)
  OBVIOUS
<1>1. CASE BeginStep
  <2>1. UNCHANGED <<train_step, trained_in, ds_ckpt>>
    BY <1>1, MoveFrame
  <2>2. UNCHANGED total_dl_consumed
    BY <1>1 DEF BeginStep
  <2>. QED  BY <2>1, <2>2, LedgerStutters
<1>2. CASE FireGenerationRequests
  BY <1>2, FireReads
<1>3. CASE Train
  BY <1>3, TrainTrains DEF Ledger!Next
<1>4. CASE Restart
  BY <1>4, RestartReverts
<1>5. CASE SaveData
  BY <1>5, SaveSaves DEF Ledger!Next
<1>6. CASE OtherStep /\ ~ SaveData
  <2>1. UNCHANGED <<train_step, trained_in, total_dl_consumed, ds_ckpt>>
    BY <1>6, OtherFrame
  <2>. QED  BY <2>1, LedgerStutters
<1>. QED  BY <1>1, <1>2, <1>3, <1>4, <1>5, <1>6 DEF OtherStep

\* The pipeline keeps the prompt ledger when it reuses its prompts: whatever the
\* windows, pauses, aborts, saves, crashes and relaunches do in between, a step
\* trains NumMb prompts that are read and were not trained before, a checkpoint
\* restores exactly what its step owed, and no prompt is lost between
\* get_batch, begin_step, add_partial_samples and load_data_source.
THEOREM PromptsAreKept == Reuse /\ Spec => KeepsLedger
<1>1. Init => Ledger!Init
  <2>. SUFFICES ASSUME Init PROVE Ledger!Init
    OBVIOUS
  <2>1. Trained = {}
    BY DEF Init, Trained
  <2>2. [s \in DOMAIN ds_ckpt |-> SavedEntry(s)] = [s \in {} |-> Ledger!Empty]
    BY DEF Init, EmptyDict
  <2>. QED  BY <2>1, <2>2 DEF Init, Ledger!Init
<1>. QED  BY <1>1, StepKeepsLedger, PromptsInductive, PTL DEF Spec, KeepsLedger, Ledger!Spec

----------------------------------------------------------------------------
\* The ledger's own theorem, about the ledger the pipeline keeps.
Kept == INSTANCE PromptLedgerProofs
    WITH StepSize <- NumMb, MaxStep <- TotalSteps, MaxRead <- (MaxStale + 1) * OverFireMb,
         read <- total_dl_consumed, trained <- Trained, step <- train_step,
         saved <- [s \in DOMAIN ds_ckpt |-> SavedEntry(s)]

\* In memory and in every data-source file, n steps have trained exactly
\* n * NumMb distinct prompts, all read before, over any number of crashes and
\* relaunches: the books that get_batch, begin_step and save_data_source keep
\* between them never lose or repeat a prompt.
THEOREM BooksBalance == Reuse /\ Spec => []Ledger!Balanced
<1>1. Kept!LedgerAssumption
  BY Constants DEF Kept!LedgerAssumption
<1>2. Kept!LedgerAssumption /\ Kept!Spec => []Kept!Balanced
  BY Kept!LedgerStaysBalanced
<1>3. Ledger!Init => Kept!Init
  BY DEF Ledger!Init, Kept!Init, Ledger!Empty, Kept!Empty
<1>4. [Ledger!Next]_(Ledger!ledgerVars) => [Kept!Next]_(Kept!ledgerVars)
  <2>1. \A S : Ledger!Cardinality(S) = Kept!Cardinality(S)
    BY DEF Ledger!Cardinality, Kept!Cardinality
  <2>2. Ledger!Next => Kept!Next
    BY <2>1 DEF Ledger!Next, Kept!Next, Ledger!Read, Kept!Read, Ledger!TrainStep, Kept!TrainStep,
      Ledger!Owed, Kept!Owed, Ledger!Save, Kept!Save, Ledger!Restart, Kept!Restart,
      Ledger!LastSaved, Kept!LastSaved
  <2>. QED  BY <2>2 DEF Ledger!ledgerVars, Kept!ledgerVars
<1>5. Kept!Balanced => Ledger!Balanced
  <2>1. \A S : Ledger!Cardinality(S) = Kept!Cardinality(S)
    BY DEF Ledger!Cardinality, Kept!Cardinality
  <2>2. \A S : Ledger!IsFiniteSet(S) = Kept!IsFiniteSet(S)
    BY DEF Ledger!IsFiniteSet, Kept!IsFiniteSet
  <2>. QED  BY <2>1, <2>2 DEF Ledger!Balanced, Kept!Balanced, Ledger!BalancedBooks, Kept!BalancedBooks
<1>. QED  BY <1>1, <1>2, <1>3, <1>4, <1>5, PromptsAreKept, PTL DEF KeepsLedger, Ledger!Spec, Kept!Spec
=============================================================================
