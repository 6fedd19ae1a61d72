---------------------------- MODULE TailDataSource ----------------------------
(***************************************************************************)
(* TailBatchingDataSource over a ResumableDistributedSampler: where the    *)
(* dataloader stands, what the buffer holds, and what save and load carry  *)
(* over a relaunch.  TailBatching names a prompt microbatch by its         *)
(* position in one endless stream; here that stream is what it is in the   *)
(* code, an epoch counter kept by the data source, another one kept by the *)
(* sampler, and an iterator that belongs to neither.                       *)
(*                                                                         *)
(* The caller is the pipeline with rollout_max_staleness = 0: every step   *)
(* hands back what the last one left over, fetches, trains, and may save.  *)
(***************************************************************************)
EXTENDS Integers, Sequences, FiniteSets, SequencesExt

CONSTANTS
    EpochLen,     \* microbatches per epoch: num_samples // rollout_mbs
    NumMb,        \* target_mb of get_batch: microbatches one step trains
    OverFireMb,   \* ceil(NumMb * rollout_over_dispatch_ratio)
    MaxStep,      \* bound: PPO steps
    MaxRestarts   \* bound: relaunches

ASSUME TailDataSourceAssumption ==
    /\ EpochLen \in Nat \ {0} /\ NumMb \in Nat \ {0}
    /\ OverFireMb \in Nat /\ OverFireMb > NumMb
    /\ MaxStep \in Nat /\ MaxRestarts \in Nat

VARIABLES
    sampler,         \* ResumableDistributedSampler: epoch, start_index
    train_iter,      \* _train_iter: the epoch it walks and the next position
    current_epoch,   \* _current_epoch
    total_dl_consumed,
    buffer,          \* _buffer
    held,            \* microbatches handed out and not trained yet, in fire order
    step,            \* completed PPO steps
    pc,              \* "fetch", "train" or "save"
    served,          \* history: position in the stream -> microbatch served there
    snapshots,       \* step -> controller_data_source.pt
    restarts,
    boundary         \* history: a relaunch loaded a cursor at an epoch's end

vars == <<sampler, train_iter, current_epoch, total_dl_consumed, buffer, held, step, pc,
          served, snapshots, restarts, boundary>>

\* A microbatch of the shuffled epoch: its epoch and its place there.
Microbatch == [epoch : Nat, at : 0 .. EpochLen - 1]
At(e, i) == [epoch |-> e, at |-> i]
NoIter == [epoch |-> -1, at |-> 0]
EmptyDict == [k \in {} |-> 0]

Init ==
    /\ sampler = [epoch |-> 0, start_index |-> 0]
    /\ train_iter = NoIter /\ current_epoch = -1 /\ total_dl_consumed = 0
    /\ buffer = <<>> /\ held = <<>> /\ step = 0 /\ pc = "fetch"
    /\ served = <<>> /\ snapshots = EmptyDict /\ restarts = 0 /\ boundary = FALSE

----------------------------------------------------------------------------
\* maybe_set_epoch: only the first call does anything; it starts epoch 0.

FirstIter == IF train_iter = NoIter THEN At(0, 0) ELSE train_iter
FirstEpoch == IF train_iter = NoIter THEN 0 ELSE current_epoch

\* get_batch(NumMb) when the buffer does not hold a full step: OverFireMb nexts.
\* An exhausted iterator is noticed by the next that fails, which advances
\* _current_epoch, moves the sampler there and drops its resume offset.
Left == EpochLen - FirstIter.at
Crossings == IF OverFireMb <= Left THEN 0 ELSE 1 + (OverFireMb - Left - 1) \div EpochLen
EpochAfter == FirstEpoch + Crossings

\* The offset an epoch that begins inside get_batch starts from.
OffsetKept == sampler.start_index
NextOffset == 0

Fresh(i) ==
    IF i <= Left THEN At(FirstIter.epoch, FirstIter.at + i - 1)
    ELSE At(FirstEpoch + 1 + (i - Left - 1) \div EpochLen,
            NextOffset + ((i - Left - 1) % EpochLen))

IterAfter ==
    IF Crossings = 0 THEN At(FirstIter.epoch, FirstIter.at + OverFireMb)
    ELSE At(EpochAfter, NextOffset + OverFireMb - Left - (Crossings - 1) * EpochLen)

\* begin_step hands the left-over microbatches back, then one step is fetched.
Fetch ==
    /\ pc = "fetch" /\ step < MaxStep
    /\ LET buf == buffer \o held
       IN IF Len(buf) >= NumMb
          THEN /\ held' = SubSeq(buf, 1, NumMb)
               /\ buffer' = SubSeq(buf, NumMb + 1, Len(buf))
               /\ train_iter' = FirstIter /\ current_epoch' = FirstEpoch
               /\ UNCHANGED <<total_dl_consumed, sampler, served>>
          ELSE /\ held' = [i \in 1 .. OverFireMb |-> Fresh(i)]
               /\ buffer' = buf
               /\ train_iter' = IterAfter /\ current_epoch' = EpochAfter
               /\ sampler' = [epoch |-> IF Crossings = 0 THEN sampler.epoch ELSE EpochAfter,
                              start_index |-> IF Crossings = 0 THEN sampler.start_index
                                              ELSE NextOffset]
               /\ served' = served \o [i \in 1 .. OverFireMb |-> Fresh(i)]
               /\ total_dl_consumed' = total_dl_consumed + OverFireMb
    /\ pc' = "train"
    /\ UNCHANGED <<step, snapshots, restarts, boundary>>

\* The step trains NumMb of them, the first to finish; the others stay in order.
Train ==
    /\ pc = "train"
    /\ \E left \in [1 .. Len(held) - NumMb -> DOMAIN held] :
          /\ \A i, j \in DOMAIN left : i < j => left[i] < left[j]
          /\ held' = [i \in DOMAIN left |-> held[left[i]]]
    /\ step' = step + 1
    /\ pc' = "save"
    /\ UNCHANGED <<sampler, train_iter, current_epoch, total_dl_consumed, buffer, served,
                   snapshots, restarts, boundary>>

\* save(step, pending): the cursor and everything still owed.  A step that is
\* not a multiple of save_interval goes on without it.
SavedBufferOnly == buffer
SavedBuffer == buffer \o held

Save ==
    /\ pc = "save"
    /\ snapshots' = [s \in DOMAIN snapshots \cup {step} |->
                       IF s = step
                       THEN [total_dl_consumed |-> total_dl_consumed,
                             current_epoch |-> current_epoch, buffer |-> SavedBuffer]
                       ELSE snapshots[s]]
    /\ pc' = "fetch"
    /\ UNCHANGED <<sampler, train_iter, current_epoch, total_dl_consumed, buffer, held,
                   step, served, restarts, boundary>>

SkipSave ==
    /\ pc = "save"
    /\ pc' = "fetch"
    /\ UNCHANGED <<sampler, train_iter, current_epoch, total_dl_consumed, buffer, held,
                   step, served, snapshots, restarts, boundary>>

----------------------------------------------------------------------------
\* A crash, and load(latest) in the new process: set_start_index places the
\* sampler, a new iterator starts there, _current_epoch is what was saved.

ResumeUnwrapped(start) == [epoch |-> start \div EpochLen, start_index |-> start]
ResumePoint(start) == [epoch |-> start \div EpochLen, start_index |-> start % EpochLen]

Latest == CHOOSE s \in DOMAIN snapshots : \A r \in DOMAIN snapshots : r <= s
AtEpochEnd(start) == start > 0 /\ start % EpochLen = 0

Restart ==
    /\ restarts < MaxRestarts
    /\ restarts' = restarts + 1
    /\ held' = <<>> /\ pc' = "fetch"
    /\ IF DOMAIN snapshots = {}
       THEN /\ sampler' = [epoch |-> 0, start_index |-> 0]
            /\ train_iter' = NoIter /\ current_epoch' = -1 /\ total_dl_consumed' = 0
            /\ buffer' = <<>> /\ step' = 0 /\ served' = <<>> /\ boundary' = FALSE
       ELSE LET state == snapshots[Latest]
                resumed == ResumePoint(state.total_dl_consumed)
            IN /\ sampler' = resumed
               /\ train_iter' = At(resumed.epoch, resumed.start_index)
               /\ current_epoch' = state.current_epoch
               /\ total_dl_consumed' = state.total_dl_consumed
               /\ buffer' = state.buffer
               /\ step' = Latest
               /\ served' = SubSeq(served, 1, state.total_dl_consumed)
               /\ boundary' = (boundary \/ AtEpochEnd(state.total_dl_consumed))
    /\ UNCHANGED snapshots

Terminated == pc = "fetch" /\ step = MaxStep /\ UNCHANGED vars

Next == Fetch \/ Train \/ Save \/ SkipSave \/ Restart \/ Terminated
Spec == Init /\ [][Next]_vars

----------------------------------------------------------------------------
\* Properties.

\* The cursor stays inside an epoch; every microbatch is a place of one.
TypeOK ==
    /\ sampler \in [epoch : Nat, start_index : 0 .. EpochLen - 1]
    /\ train_iter \in [epoch : Nat, at : 0 .. EpochLen] \cup {NoIter}
    /\ current_epoch \in Nat \cup {-1} /\ total_dl_consumed \in Nat
    /\ buffer \in Seq(Microbatch) /\ held \in Seq(Microbatch)
    /\ served \in Seq(Microbatch)
    /\ step \in 0 .. MaxStep /\ pc \in {"fetch", "train", "save"}
    /\ DOMAIN snapshots \in SUBSET (1 .. MaxStep)
    /\ restarts \in 0 .. MaxRestarts /\ boundary \in BOOLEAN

\* Across relaunches the dataloader serves one endless stream, epoch after
\* epoch, every microbatch once and in order, as long as no relaunch resumed
\* from a cursor at the very end of an epoch.
StreamExact ==
    ~ boundary => \A n \in DOMAIN served :
                     served[n] = At((n - 1) \div EpochLen, (n - 1) % EpochLen)

\* Nothing read is lost and nothing is owed twice: what was read is trained,
\* buffered or in hand, also right after a relaunch.
NothingLost ==
    /\ total_dl_consumed = step * NumMb + Len(buffer) + Len(held)
    /\ ~ boundary => IsInjective(buffer \o held)

\* "Exhausted data iterators advance to the next data epoch": after the last
\* microbatch of an epoch comes the next epoch, never the same one again.
EpochsAdvance ==
    \A n \in DOMAIN served :
        n > 1 /\ served[n].at = 0 => served[n].epoch = served[n - 1].epoch + 1
=============================================================================
