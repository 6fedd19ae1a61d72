---------------------------- MODULE PromptLedger ----------------------------
(***************************************************************************)
(* What the rollout pipeline promises about prompts, whatever it does to   *)
(* them in between: a prompt is read once, trained by at most one step,    *)
(* and a checkpoint remembers exactly which ones are still owed.           *)
(* TailBatching implements this module when prompts are reused.            *)
(***************************************************************************)
EXTENDS Integers, FiniteSets

CONSTANTS
    StepSize,   \* microbatches of prompts one PPO step trains
    MaxStep,    \* PPO steps of the run
    MaxRead     \* microbatches one call reads at most

\* Hypothesis of the theorems: the constants are those of some pipeline.
LedgerAssumption ==
    StepSize \in Nat \ {0} /\ MaxStep \in Nat \ {0} /\ MaxRead \in Nat

VARIABLES
    read,     \* microbatches the dataloader has handed out
    trained,  \* those some completed step trained on
    step,     \* completed steps
    saved     \* step -> what its checkpoint restores

ledgerVars == <<read, trained, step, saved>>

Entry == [read : Nat, trained : SUBSET Nat]
Empty == [read |-> 0, trained |-> {}]
TrainedAgain == 0 .. read - 1
Owed == (0 .. read - 1) \ trained

Init ==
    /\ read = 0 /\ trained = {} /\ step = 0
    /\ saved = [s \in {} |-> Empty]

Read ==
    /\ \E n \in 1 .. MaxRead : read' = read + n
    /\ UNCHANGED <<trained, step, saved>>

TrainStep ==
    /\ step < MaxStep
    /\ \E S \in SUBSET Owed : Cardinality(S) = StepSize /\ trained' = trained \cup S
    /\ step' = step + 1
    /\ UNCHANGED <<read, saved>>

Save ==
    /\ step > 0
    /\ saved' = [s \in DOMAIN saved \cup {step} |->
                   IF s = step THEN [read |-> read, trained |-> trained] ELSE saved[s]]
    /\ UNCHANGED <<read, trained, step>>

\* A restart resumes from the last checkpoint, or from nothing.
LastSaved(s) == s \in DOMAIN saved /\ \A r \in DOMAIN saved : r <= s

Restart ==
    /\ \/ /\ DOMAIN saved = {}
          /\ read' = 0 /\ trained' = {} /\ step' = 0
       \/ \E s \in DOMAIN saved :
             /\ LastSaved(s)
             /\ read' = saved[s].read /\ trained' = saved[s].trained /\ step' = s
    /\ UNCHANGED saved

Next == Read \/ TrainStep \/ Save \/ Restart
Spec == Init /\ [][Next]_ledgerVars

----------------------------------------------------------------------------
\* The ledger is well typed: what a step trains was read before, and a
\* checkpoint belongs to a step some run completed.
TypeOK ==
    /\ read \in Nat /\ step \in 0 .. MaxStep
    /\ trained \in SUBSET Nat
    /\ DOMAIN saved \in SUBSET (1 .. MaxStep)
    /\ saved \in [DOMAIN saved -> Entry]

\* No prompt is trained before it is read or by two steps: after n steps, in
\* memory and in every checkpoint, exactly n * StepSize distinct prompts are
\* trained (TailBatchingDataSource hands a prompt out once, add_partial_samples
\* only gives back what was never collected).
BalancedBooks(r, t, n) ==
    t \in SUBSET (0 .. r - 1) /\ IsFiniteSet(t) /\ Cardinality(t) = n * StepSize

Balanced ==
    /\ BalancedBooks(read, trained, step)
    /\ \A s \in DOMAIN saved : BalancedBooks(saved[s].read, saved[s].trained, s)
=============================================================================
