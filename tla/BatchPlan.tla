------------------------------ MODULE BatchPlan ------------------------------
(***************************************************************************)
(* How a step's samples travel between the data-parallel ranks to have     *)
(* their log-probabilities computed (policy.balance_dp_seqlen with         *)
(* policy.ppo_pack_seq): the ranks agree on equally sized bins, exchange   *)
(* samples peer to peer, pack them into micro-batches, go through these in *)
(* lock step, and exchange the samples back.                               *)
(*                                                                         *)
(* Every rank runs the same code on its own rows; a collective is one step *)
(* of all ranks.  A rank whose assertion fails stops, and every collective *)
(* of the others then waits for it.                                        *)
(***************************************************************************)
EXTENDS Balancing

CONSTANTS
    DpSize,    \* ranks of the data-parallel group
    Local,     \* samples a rank starts with
    Lengths,   \* the sequence lengths explored
    Pad,       \* pad_each_doc_to_multi_of
    CpSizes,   \* the context-parallel sizes explored
    Budget     \* max_token_len

Ranks   == 0 .. DpSize - 1
Places  == 1 .. Local
Samples == 1 .. DpSize * Local     \* global_items, rank by rank
SampleAt(r, i) == r * Local + i
OrigRank(s) == (s - 1) \div Local
OrigIdx(s)  == ((s - 1) % Local) + 1

\* convert_mbs_for_pack_seq asserts that one sample alone fits.
ASSUME BatchPlanAssumption ==
    /\ DpSize \in Nat \ {0} /\ Local \in Nat \ {0} /\ Pad \in Nat \ {0} /\ Budget \in Nat \ {0}
    /\ CpSizes \subseteq Nat \ {0} /\ Lengths \subseteq Nat \ {0}
    /\ \A l \in Lengths, c \in CpSizes : RoundUp(RoundUp(l, Pad), c * Pad) <= Budget

VARIABLES
    lens,      \* sample -> sequence_lengths
    cp_size,
    leg,       \* which exchange is under way or was the last
    pc,        \* rank -> where it is
    bins,      \* the plan: rank -> its samples, in order
    rows,      \* rank -> its rows: a sample and the logprobs attached to it
    chan,      \* sender -> receiver -> rows in flight
    got,       \* rank -> sender -> rows received
    num_mb,    \* rank -> its number of micro-batches
    groups,    \* rank -> micro-batch -> positions in rows
    next_mb    \* rank -> micro-batches it has gone through

vars == <<lens, cp_size, leg, pc, bins, rows, chan, got, num_mb, groups, next_mb>>
wireVars == <<chan, got>>
packVars == <<num_mb, groups, next_mb>>

None == 0
Row == [of : Samples, logprobs : Samples \cup {None}]
NoRows == [s \in Ranks |-> <<>>]

Start ==
    /\ leg = "rebalance"
    /\ pc = [r \in Ranks |-> "gather"]
    /\ bins = [r \in Ranks |-> <<>>]
    /\ rows = [r \in Ranks |-> [i \in Places |-> [of |-> SampleAt(r, i), logprobs |-> None]]]
    /\ chan = [r \in Ranks |-> NoRows] /\ got = [r \in Ranks |-> NoRows]
    /\ num_mb = [r \in Ranks |-> 0] /\ groups = [r \in Ranks |-> <<>>]
    /\ next_mb = [r \in Ranks |-> 0]
Init == lens \in [Samples -> Lengths] /\ cp_size \in CpSizes /\ Start

AllAt(p) == \A r \in Ranks : pc[r] = p
AllGoto(p) == pc' = [r \in Ranks |-> p]
Goto(r, p) == pc' = [pc EXCEPT ![r] = p]

----------------------------------------------------------------------------
\* rebalance_across_dp_ranks and restore_original_order.

\* _compute_partition_plan: every rank computes it from the gathered lengths.
Lighter(s, t) == lens[s] < lens[t] \/ (lens[s] = lens[t] /\ s < t)
Ordered(part) == Listing(part, Lighter)

GatherSeqlens ==
    /\ AllAt("gather")
    /\ LET parts == karmarkar_karp(lens, DpSize, TRUE)
       IN IF Checked(parts, lens, DpSize, TRUE)
          THEN bins' = [r \in Ranks |-> Ordered(parts[r + 1])] /\ AllGoto("post")
          ELSE AllGoto("failed") /\ UNCHANGED bins
    /\ UNCHANGED <<lens, cp_size, leg, rows, wireVars, packVars>>

\* _compute_send_recv_plan: what travels from rank r to rank d, in the order
\* of d's bin; the restore sends it back in the same order.
Positions(d, r) == {i \in DOMAIN bins[d] : OrigRank(bins[d][i]) = r}
PositionsIn(d, r) == Listing(Positions(d, r), <)
FromTo(r, d) == [k \in DOMAIN PositionsIn(d, r) |-> bins[d][PositionsIn(d, r)[k]]]
SendTo(r, d) == [i \in DOMAIN FromTo(r, d) |-> OrigIdx(FromTo(r, d)[i])]
RestoreSendTo(d, r) == PositionsIn(d, r)

Due(r, d) == IF leg = "rebalance" THEN SendTo(r, d) ELSE RestoreSendTo(r, d)
Buffer(r, d) == [i \in DOMAIN Due(r, d) |-> rows[r][Due(r, d)[i]]]

\* _exchange_samples_p2p: isend to every peer, a copy for oneself; an empty
\* buffer is not sent.  The gathers of sizes and layouts around it change
\* nothing but wait for all ranks.
Post(r) ==
    /\ pc[r] = "post" /\ Goto(r, "wait")
    /\ chan' = [chan EXCEPT ![r] = [d \in Ranks |-> IF d = r THEN <<>> ELSE Buffer(r, d)]]
    /\ got' = [got EXCEPT ![r][r] = Buffer(r, r)]
    /\ UNCHANGED <<lens, cp_size, leg, bins, rows, packVars>>

Receive(r, s) ==
    /\ pc[r] = "wait" /\ chan[s][r] # <<>>
    /\ got' = [got EXCEPT ![r][s] = chan[s][r]]
    /\ chan' = [chan EXCEPT ![s][r] = <<>>]
    /\ UNCHANGED <<lens, cp_size, leg, pc, bins, rows, packVars>>

\* Every irecv is matched, and the gather of the metadata has all ranks.
Arrived(r) == \A s \in Ranks \ {r} : Len(got[r][s]) = Len(Due(s, r))

\* The rows of each sender are taken in the order they came.
PlaceInBuffer(r, i) ==
    Cardinality({j \in 1 .. i : OrigRank(bins[r][j]) = OrigRank(bins[r][i])})
Rebalanced(r) ==
    [i \in 1 .. Len(bins[r]) |-> got[r][OrigRank(bins[r][i])][PlaceInBuffer(r, i)]]

HolderOf(s) == CHOOSE d \in Ranks : \E i \in DOMAIN bins[d] : bins[d][i] = s
Restored(r) ==
    [i \in Places |->
       LET s == SampleAt(r, i)
           d == HolderOf(s)
           k == CHOOSE j \in DOMAIN FromTo(r, d) : FromTo(r, d)[j] = s
       IN got[r][d][k]]

Assemble ==
    /\ AllAt("wait") /\ \A r \in Ranks : Arrived(r)
    /\ rows' = [r \in Ranks |-> IF leg = "rebalance" THEN Rebalanced(r) ELSE Restored(r)]
    /\ AllGoto(IF leg = "rebalance" THEN "pack" ELSE "done")
    /\ got' = [r \in Ranks |-> NoRows]
    /\ UNCHANGED <<lens, cp_size, leg, bins, chan, packVars>>

----------------------------------------------------------------------------
\* convert_mbs_for_pack_seq and the forward pass over its micro-batches.

PaddedLens(r) == [i \in DOMAIN rows[r] |-> RoundUp(lens[rows[r][i].of], Pad)]
TotalAlign == cp_size * Pad

\* _kk_partitions_within_budget; the partition itself asserts that it is one.
Parts(r, k) == karmarkar_karp(PaddedLens(r), k, FALSE)
Asserts(r, k) == Checked(Parts(r, k), PaddedLens(r), k, FALSE)
WithinBudget(r, k) == Fits(Parts(r, k), PaddedLens(r), TotalAlign, Budget)

\* The rank's own number of micro-batches, before the ranks agree: the search
\* goes up and ends at the first number that fits, or with an assertion.
PackLocally(r) ==
    /\ pc[r] = "pack"
    /\ LET ends == {k \in 1 .. Len(rows[r]) :
                       /\ LowerBound(PaddedLens(r), Budget) <= k
                       /\ Asserts(r, k) => WithinBudget(r, k)}
       IN IF ends = {} \/ ~ Asserts(r, Min(ends))
          THEN Goto(r, "failed") /\ UNCHANGED <<num_mb, groups>>
          ELSE /\ num_mb' = [num_mb EXCEPT ![r] = Min(ends)]
               /\ groups' = [groups EXCEPT ![r] = Parts(r, Min(ends))]
               /\ Goto(r, "reduce")
    /\ UNCHANGED <<lens, cp_size, leg, bins, rows, wireVars, next_mb>>

\* all_reduce(MAX): a rank with fewer packs again with the common number, and
\* asserts that it can.
OwnNumber(r) == num_mb[r]
Target(r) == Max({num_mb[q] : q \in Ranks})
Agrees(r) ==
    /\ Target(r) <= Len(rows[r])
    /\ Target(r) # num_mb[r] => Asserts(r, Target(r)) /\ WithinBudget(r, Target(r))

AllReduce ==
    /\ AllAt("reduce")
    /\ pc' = [r \in Ranks |-> IF Agrees(r) THEN "forward" ELSE "failed"]
    /\ num_mb' = [r \in Ranks |-> Target(r)]
    /\ groups' = [r \in Ranks |-> IF Agrees(r) /\ Target(r) # num_mb[r]
                                  THEN Parts(r, Target(r)) ELSE groups[r]]
    /\ UNCHANGED <<lens, cp_size, leg, bins, rows, wireVars, next_mb>>

\* The expert-parallel collectives of one micro-batch take every rank.
InLoop(r) == pc[r] = "forward" /\ next_mb[r] < num_mb[r]
PastTheLoop(r) == pc[r] = "forward"
MayForward(r) == InLoop(r)
Forward ==
    /\ \A r \in Ranks : MayForward(r)
    /\ next_mb' = [r \in Ranks |-> next_mb[r] + 1]
    /\ UNCHANGED <<lens, cp_size, leg, pc, bins, rows, wireVars, num_mb, groups>>

\* logprobs_list[sample_order[id(sample)]]: the result of a sample goes to the
\* sample's own position, whatever micro-batch it was in.
PackOrder(r) == FlattenSeq([m \in 1 .. num_mb[r] |-> SetToSortSeq(groups[r][m], <)])
InPackOrder(r, i) == PackOrder(r)[i]
SampleOrder(r, i) == i
AttachLogprobs(r) ==
    /\ pc[r] = "forward" /\ next_mb[r] = num_mb[r]
    /\ rows' = [rows EXCEPT ![r] =
                  [i \in DOMAIN rows[r] |->
                     [rows[r][i] EXCEPT !.logprobs = rows[r][SampleOrder(r, i)].of]]]
    /\ Goto(r, "computed")
    /\ UNCHANGED <<lens, cp_size, leg, bins, wireVars, packVars>>

\* cpu_barrier, then restore_log_probs_to_original_batches.
StartRestore ==
    /\ AllAt("computed")
    /\ leg' = "restore" /\ AllGoto("post")
    /\ UNCHANGED <<lens, cp_size, bins, rows, wireVars, packVars>>

Next ==
    \/ GatherSeqlens \/ Assemble \/ AllReduce \/ Forward \/ StartRestore
    \/ \E r \in Ranks : Post(r) \/ PackLocally(r) \/ AttachLogprobs(r)
    \/ \E r, s \in Ranks : Receive(r, s)

Spec == Init /\ [][Next]_vars

----------------------------------------------------------------------------
\* Properties.

\* The shapes of the state.
PlanTypeOK ==
    /\ lens \in [Samples -> Lengths] /\ cp_size \in CpSizes
    /\ leg \in {"rebalance", "restore"}
    /\ pc \in [Ranks -> {"gather", "post", "wait", "pack", "reduce", "forward", "computed",
                         "done", "failed"}]
    /\ bins \in [Ranks -> Seq(Samples)] /\ rows \in [Ranks -> Seq(Row)]
    /\ chan \in [Ranks -> [Ranks -> Seq(Row)]] /\ got \in [Ranks -> [Ranks -> Seq(Row)]]
    /\ num_mb \in [Ranks -> 0 .. Local] /\ next_mb \in [Ranks -> 0 .. Local]
    /\ groups \in [Ranks -> Seq(SUBSET Places)]

\* Between the exchanges every sample is on exactly one rank, every rank has
\* as many as it started with, and its rows are in the order of its bin, on
\* which the way back relies.
Holding(r) == pc[r] \in {"pack", "reduce", "forward", "computed"}
RebalanceConserves ==
    (\A r \in Ranks : Holding(r)) =>
        /\ \A r \in Ranks : Len(rows[r]) = Local
        /\ {rows[r][i].of : r \in Ranks, i \in Places} = Samples
        /\ \A r \in Ranks, i \in Places : rows[r][i].of = bins[r][i]

\* The ranks go through the same number of micro-batches: none is empty, each
\* fits the budget after the padding for context parallelism, and together
\* they are the rank's samples, each of which is in one of them.
SameMicroBatches ==
    \A r \in Ranks : pc[r] = "forward" =>
        /\ \A q \in Ranks : num_mb[q] = num_mb[r]
        /\ Len(groups[r]) = num_mb[r]
        /\ \A m \in 1 .. num_mb[r] :
             /\ groups[r][m] # {}
             /\ RoundUp(Weight(PaddedLens(r), groups[r][m]), TotalAlign) <= Budget
        /\ UNION {groups[r][m] : m \in 1 .. num_mb[r]} = DOMAIN rows[r]
EachInOneMicroBatch ==
    \A r \in Ranks : pc[r] = "forward" =>
        \A m, n \in 1 .. num_mb[r] : m # n => groups[r][m] \cap groups[r][n] = {}

\* After the rebalance the ranks have complete and equal work: every sample is
\* on one rank in the order of its bin, and all ranks pack theirs into the
\* same number of micro-batches within the budget.
EvenWork == RebalanceConserves /\ SameMicroBatches /\ EachInOneMicroBatch

\* In the end every rank has its own samples at their old places, each with
\* the log-probabilities computed from it.
RestoredInPlace ==
    \A r \in Ranks : pc[r] = "done" =>
        rows[r] = [i \in Places |-> [of |-> SampleAt(r, i), logprobs |-> SampleAt(r, i)]]

\* No rank is left waiting in a collective, but by one whose assertion after
\* the alignment fails: no other assertion of the plan does, and where that one
\* does, fewer micro-batches would have held the rank's samples; what a rank
\* waits for has been sent or its sender is about to send it; and no rank leaves
\* the micro-batch loop while another still has one to go through.
FailedAligning(r) ==
    /\ \A q \in Ranks : num_mb[q] = num_mb[r]
    /\ ~ WithinBudget(r, num_mb[r])
    /\ \E k \in 1 .. num_mb[r] - 1 : WithinBudget(r, k)
OnlyAlignmentFails == \A r \in Ranks : pc[r] = "failed" => FailedAligning(r)
MailIsDue ==
    \A r, s \in Ranks : pc[r] = "wait" /\ pc[s] # "post" =>
        Len(chan[s][r]) + Len(got[r][s]) = Len(Due(s, r))
LockStep == \A q, r \in Ranks : InLoop(q) => InLoop(r) \/ pc[r] = "failed"
CollectivesMatch == OnlyAlignmentFails /\ MailIsDue /\ LockStep
=============================================================================
