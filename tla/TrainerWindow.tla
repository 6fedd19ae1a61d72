---------------------------- MODULE TrainerWindow ----------------------------
(***************************************************************************)
(* The window arithmetic of the single-controller trainer                  *)
(* (trainer/grpo_single_ctrl_trainer.py, _run_train_loop): how far ahead   *)
(* it fires, where a window ends, and what it does next.  Shared by the    *)
(* modules that model the loop with one or the other rollout mode.         *)
(***************************************************************************)
EXTENDS Integers

CONSTANTS
    TotalSteps,      \* total_ppo_step: PPO steps of the run
    StepsPerEpoch,   \* ppo_step_per_epoch: fire calls may not cross it
    MaxStale,        \* rollout_max_staleness
    SaveInterval     \* save_interval

ASSUME TrainerWindowAssumption ==
    /\ TotalSteps \in Nat \ {0} /\ StepsPerEpoch \in Nat \ {0}
    /\ MaxStale \in Nat /\ SaveInterval \in Nat \ {0}

\* Where the trainer's coroutine can be.
TrainerPcs == {"begin_step", "fire", "collect", "train", "save_model", "save_data",
               "drain", "update", "final_model", "final_data", "done", "failed"}

Lesser(a, b) == IF a < b THEN a ELSE b

WindowSize == IF MaxStale > 1 THEN MaxStale ELSE 1
FireTarget(step) == Lesser(step + MaxStale + 1, TotalSteps)

\* What the loop does next once a step is trained, saved or fired.
AfterLoopUnsaved(step) == "done"
AfterLoop(step) == IF step % SaveInterval # 0 THEN "final_model" ELSE "done"
LoopTop(step) == IF step < TotalSteps THEN "collect" ELSE AfterLoop(step)
AfterBoot(step) == IF step < FireTarget(step) THEN "begin_step" ELSE LoopTop(step)

AtBoundary(step, since) == since >= WindowSize \/ step = TotalSteps
SaveDue(step) == step % SaveInterval = 0
AfterTrain(step, since) ==
    IF ~ AtBoundary(step, since) THEN "collect"
    ELSE IF SaveDue(step) THEN "save_model" ELSE "drain"
=============================================================================
