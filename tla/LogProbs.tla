------------------------------ MODULE LogProbs ------------------------------
(***************************************************************************)
(* The two ways the ranks share out the log-probability pass of a step:    *)
(* data-parallel balancing with packing (module BatchPlan), or dynamic     *)
(* context parallelism (module DynamicCp).  BasePolicyConfig refuses a     *)
(* configuration with both, so a run goes one way.                         *)
(***************************************************************************)
EXTENDS BatchPlan, DynamicCp

VARIABLE way  \* the configured one: "balance_dp_seqlen" or "dynamic_cp"

\* The variables of the way that is not taken stay at one of their values.
BalancedUnused ==
    /\ lens = [s \in Samples |-> Min(Lengths)] /\ cp_size = Min(CpSizes)
    /\ Start
DynamicUnused ==
    /\ task = "train" /\ budget = 0 /\ offsets = OffsetsOf(CHOOSE c \in Splits : TRUE)
    /\ seq_lens = [g \in Gids |-> Min(Originals)]
    /\ CpStart

EitherInit ==
    \/ way = "balance_dp_seqlen" /\ Init /\ DynamicUnused
    \/ way = "dynamic_cp" /\ CpInit /\ BalancedUnused

EitherNext ==
    \/ way = "balance_dp_seqlen" /\ Next /\ UNCHANGED <<way, cpVars>>
    \/ way = "dynamic_cp" /\ CpNext /\ UNCHANGED <<way, vars>>

EitherSpec == EitherInit /\ [][EitherNext]_<<way, cpVars, vars>>

----------------------------------------------------------------------------
\* The properties are those of BatchPlan and DynamicCp; here the shapes of the
\* state of both.
TypeOK == way \in {"balance_dp_seqlen", "dynamic_cp"} /\ PlanTypeOK /\ CpTypeOK
=============================================================================
