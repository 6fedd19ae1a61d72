----------------------------- MODULE DynamicCp -----------------------------
(***************************************************************************)
(* Dynamic context parallelism (dist_config.dynamic_context_parallel): the *)
(* ranks of the DP x CP grid reroute their samples in one all-to-all to    *)
(* the ranks a schedule names, pack them into micro-batches, go through    *)
(* these in groups whose size changes from one micro-batch to the next,    *)
(* and, when log-probabilities are wanted, send these back in a second     *)
(* all-to-all.  The smart_padding scheduler selects samples locally.       *)
(*                                                                         *)
(* A collective is one step of the ranks in it, possible only when their   *)
(* calls agree.  Nothing compares them (the check of                       *)
(* GPATCH_DYN_CP_CHECK_A2A is off by default): ranks that disagree hang.   *)
(***************************************************************************)
EXTENDS Ordering, SequencesExt

CONSTANTS
    Dp,           \* data-parallel size
    Cp,           \* configured context-parallel size
    Originals,    \* the lengths explored, original_seq_len
    NumSamples,   \* default scheduler: samples of all dp indices together
    Counts,       \* and how many of them one dp index may have
    SmartCounts,  \* smart_padding: samples per dp index, multiples of Cp
    Budgets,      \* smart_padding: max_seqlen_per_dp_cp_rank
    MaxMbs,       \* default scheduler: micro-batches of a schedule
    Passes        \* model passes over the packed data: ref, policy

\* smart_padding asserts that the samples divide among the ranks of a dp index
\* and that the longest fits a group of the configured size.
ASSUME DynamicCpAssumption ==
    /\ Dp \in Nat \ {0} /\ Cp \in Nat \ {0} /\ Passes \in {1, 2} /\ MaxMbs \in Nat \ {0}
    /\ Originals \subseteq Nat \ {0} /\ Counts \subseteq Nat \ {0} /\ NumSamples \in Nat \ {0}
    /\ SmartCounts \subseteq Nat \ {0} /\ \A n \in SmartCounts : n % Cp = 0
    /\ Budgets \subseteq Nat \ {0}
    /\ \A l \in Originals, b \in Budgets : ((l + 2 * Cp - 1) \div (2 * Cp)) * 2 * Cp <= b * Cp

Dps   == 0 .. Dp - 1
Total == Dp * Cp
Grid == 0 .. Total - 1           \* dcp_rank, context-parallel index fastest
DpOf(r) == r \div Cp
CpOf(r) == r % Cp
RankAt(d, c) == d * Cp + c

\* The running sums of a list from 0, as torch.cumsum behind a leading zero
\* makes them: of counts, of split sizes, and cu_seqlens.
Cumulative(w) ==
    LET sum[j \in 0 .. Len(w)] == IF j = 0 THEN 0 ELSE sum[j - 1] + w[j]
    IN sum
WholeOf(w) == Cumulative(w)[Len(w)]
Sum(f) == WholeOf([i \in 1 .. Cardinality(DOMAIN f) |-> f[i - 1]])  \* f is from 0

\* The powers of two up to the n-th, by doubling.
Doubling(n) ==
    LET doubled[j \in 0 .. n] == IF j = 0 THEN 1 ELSE 2 * doubled[j - 1]
    IN doubled
Powers(n) == {Doubling(n)[j] : j \in 0 .. n}

VARIABLES
    task,         \* "logprobs", "train" or "smart_padding"
    offsets,      \* cumulative sample counts of the dp indices
    seq_lens,     \* gid -> original_seq_len
    budget,       \* max_seqlen_per_dp_cp_rank of smart_padding
    at,           \* rank -> where it is
    sample_id_groups,  \* micro-batch -> rank -> gids
    gid_to_compute_rank,  \* of routing_info: who sends a sample's log-probabilities
    packs,        \* rank -> its packed micro-batches, new_samples
    next,         \* rank -> the micro-batch it is at
    computed,     \* rank -> gid -> its log-probabilities, per_sample_logprobs
    token_count,  \* rank -> response tokens counted for the loss's denominator
    results       \* rank -> pass -> log-probabilities of its own samples

batchVars == <<task, offsets, seq_lens, budget>>
planVars == <<sample_id_groups, gid_to_compute_rank>>
cpVars == <<batchVars, at, planVars, packs, next, computed, token_count, results>>

Gids == 0 .. offsets[Dp] - 1
GidsOf(d) == offsets[d] .. offsets[d + 1] - 1
Empty == [x \in {} |-> x]

\* _round_up of the length; without tensor parallelism.
PadDiv == IF task = "smart_padding" THEN 2 * Cp ELSE IF Total > 1 THEN 2 * Total ELSE 1
Padded(g) == ((seq_lens[g] + PadDiv - 1) \div PadDiv) * PadDiv

\* A sample's tokens, distinct from all others', and the padding after them; the
\* log-probability at a position stands for the token it was computed from.
Token(g, k) == <<g, k>>
PadToken == <<0, 0>>
Tokens(g) == [k \in 1 .. Padded(g) |-> IF k <= seq_lens[g] THEN Token(g, k) ELSE PadToken]
Sample(g) == [of |-> g, tokens |-> Tokens(g)]
Logprobs(g) == [k \in 1 .. seq_lens[g] |-> Token(g, k)]

Splits == {c \in [1 .. Dp -> Counts] : WholeOf(c) = NumSamples}
OffsetsOf(counts) == Cumulative(counts)

Inputs ==
    \/ /\ task \in {"logprobs", "train"} /\ budget = 0
       /\ \E counts \in Splits : offsets = OffsetsOf(counts)
       /\ seq_lens \in [Gids -> Originals]
    \/ /\ task = "smart_padding" /\ budget \in Budgets
       /\ \E n \in SmartCounts : offsets = OffsetsOf([d \in 1 .. Dp |-> n])
       /\ \E of_dp \in [Dps -> Originals] :
             seq_lens = [g \in Gids |-> of_dp[CHOOSE d \in Dps : g \in GidsOf(d)]]
CpStart ==
    /\ at = [r \in Grid |-> "schedule"]
    /\ sample_id_groups = <<>> /\ gid_to_compute_rank = Empty
    /\ packs = [r \in Grid |-> <<>>] /\ next = [r \in Grid |-> 1]
    /\ computed = [r \in Grid |-> Empty] /\ token_count = [r \in Grid |-> 0]
    /\ results = [r \in Grid |-> <<>>]
CpInit == Inputs /\ CpStart

GridAt(p) == \A r \in Grid : at[r] = p
GridGoto(p) == at' = [r \in Grid |-> p]

----------------------------------------------------------------------------
\* dyn_cp_schedule_default.

\* Megatron's dynamic context-parallel groups: aligned, of a power of two that
\* the grid is a multiple of.
Block(r, size) == {q \in Grid : q \div size = r \div size}
GroupSizes == {size \in Powers(Total) : size <= Total /\ Total % size = 0}
Blocks == {Block(r, size) : r \in Grid, size \in GroupSizes}

\* Megatron's scheduler is external: any assignment of the samples to blocks
\* in which every micro-batch gives every rank one block with a sample.
MicroBatches(a) == {a[g][1] : g \in DOMAIN a}
Members(a, m, r) == {g \in DOMAIN a : a[g][1] = m /\ r \in a[g][2]}
Assignments ==
    {a \in [0 .. NumSamples - 1 -> (1 .. MaxMbs) \X Blocks] :
        /\ MicroBatches(a) = 1 .. Cardinality(MicroBatches(a))
        /\ \A m \in MicroBatches(a), r \in Grid :
              Cardinality({a[g][2] : g \in Members(a, m, r)}) = 1}
Longer(g, h) == seq_lens[g] > seq_lens[h] \/ (seq_lens[g] = seq_lens[h] /\ g > h)
LongestFirst(S) == Listing(S, Longer)
GroupsOf(a) ==
    [m \in 1 .. Cardinality(MicroBatches(a)) |->
        [r \in Grid |-> LongestFirst(Members(a, m, r))]]

\* The lengths are gathered within each dp group; every rank then computes
\* the same schedule.
Schedule ==
    /\ GridAt("schedule") /\ task # "smart_padding"
    /\ \E a \in Assignments : sample_id_groups' = GroupsOf(a)
    /\ GridGoto("reroute") /\ UNCHANGED <<batchVars, gid_to_compute_rank, packs, next>>
    /\ UNCHANGED <<computed, token_count, results>>

\* The dp group of a rank is its own slice of the grid.
DpRanks(r) == [d \in Dps |-> RankAt(d, CpOf(r))]
Bucketize(v, bounds) == Cardinality({i \in DOMAIN bounds : bounds[i] < v})
LastGids == [d \in Dps |-> offsets[d + 1] - 1]        \* offsets[1:] - 1
SrcRank(r, g) == DpRanks(r)[Bucketize(g, LastGids)]

\* combined_sample_id_groups: all micro-batches of a rank together, of which both
\* lists of ids are sorted selections.
Lists(d, g) == \E m \in DOMAIN sample_id_groups : g \in Range(sample_id_groups[m][d])
Combined(d) == {g \in Gids : Lists(d, g)}

ToSend(r, d) ==
    IF d \in Range(DpRanks(r))
    THEN Listing({g \in Combined(d) : g \in GidsOf(DpOf(r))}, <)
    ELSE <<>>
ToReceive(r, s) == Listing({g \in Combined(r) : SrcRank(r, g) = s}, <)

\* all_to_all_single completes when every pair agrees on its split size.
Numel(ids) == WholeOf([i \in DOMAIN ids |-> Padded(ids[i])])
RerouteLegal ==
    \A s, d \in Grid : Numel(ToSend(s, d)) = Numel(ToReceive(d, s))

\* The receiver cuts a sender's slice by its own list: j-th id, j-th piece.
Place(ids, g) == CHOOSE j \in DOMAIN ids : ids[j] = g
Cut(flat, widths, j) ==
    SubSeq(flat, Cumulative(widths)[j - 1] + 1, Cumulative(widths)[j])
Unpacked(r, g) ==
    LET s == SrcRank(r, g)
        sent == ToSend(s, r)
        mine == ToReceive(r, s)
        j == Place(mine, g)
    IN [of |-> sent[j],
        tokens |-> Cut(FlattenSeq([i \in DOMAIN sent |-> Tokens(sent[i])]),
                       [i \in DOMAIN mine |-> Padded(mine[i])], j)]

\* _pack_sequences_by_keys: the samples one after the other, with the lengths
\* behind cu_seqlens and cu_seqlens_padded.
Pack(ids, samples, size) ==
    [ids |-> ids, local_cp_size |-> size,
     tokens |-> FlattenSeq([i \in DOMAIN ids |-> samples[i].tokens]),
     lens |-> [i \in DOMAIN ids |-> seq_lens[samples[i].of]],
     padded |-> [i \in DOMAIN ids |-> Padded(samples[i].of)]]

\* build_packed_microbatches_by_keys: as many ranks as have the first sample.
CpSizeAt(m, r) ==
    LET first == sample_id_groups[m][r][1]
    IN Cardinality({d \in Grid : first \in Range(sample_id_groups[m][d])})
PacksOf(r) ==
    [m \in DOMAIN sample_id_groups |->
        LET ids == sample_id_groups[m][r]
        IN Pack(ids, [i \in DOMAIN ids |-> Unpacked(r, ids[i])], CpSizeAt(m, r))]

\* gid_to_compute_rank: the last rank listed for a sample.
LastListed(g) == Max({d \in Grid : Lists(d, g)})

Reroute ==
    /\ GridAt("reroute") /\ RerouteLegal
    /\ packs' = [r \in Grid |-> PacksOf(r)]
    /\ gid_to_compute_rank' = [g \in Gids |-> LastListed(g)]
    /\ sample_id_groups' = <<>> /\ GridGoto("forward")
    /\ UNCHANGED <<batchVars, next, computed, token_count, results>>

----------------------------------------------------------------------------
\* dyn_cp_schedule_smart_padding: one gather of the longest length, then each
\* rank takes its part of the samples its dp index has.

MaxSeqlen == Max({Padded(g) : g \in Gids})
LocalCpSize == Min({s \in Powers(MaxSeqlen) : s * budget >= MaxSeqlen})
NumPacked == Max({(LocalCpSize * budget) \div MaxSeqlen, 1})
GroupIdx(r) == CpOf(r) \div LocalCpSize

SizeOf(i, n, k) == n \div k + IF i <= n % k THEN 1 ELSE 0
EvenSplit(n, k) == [i \in 1 .. k |-> SizeOf(i, n, k)]
SmartPacks(r) ==
    LET all == [i \in 1 .. Cardinality(GidsOf(DpOf(r))) |-> offsets[DpOf(r)] + i - 1]
        M == Len(all) \div (Cp \div LocalCpSize)
        mine == SubSeq(all, GroupIdx(r) * M + 1, (GroupIdx(r) + 1) * M)
        packed == Min({NumPacked, M})
        sizes == EvenSplit(M, (M + packed - 1) \div packed)
    IN [m \in DOMAIN sizes |->
          LET ids == Cut(mine, sizes, m)
          IN Pack(ids, [i \in DOMAIN ids |-> Sample(ids[i])], LocalCpSize)]

SelectLocally ==
    /\ GridAt("schedule") /\ task = "smart_padding"
    /\ packs' = [r \in Grid |-> SmartPacks(r)]
    /\ GridGoto("forward")
    /\ UNCHANGED <<batchVars, planVars, next, computed, token_count, results>>

----------------------------------------------------------------------------
\* The passes over the micro-batches.

InMbLoop(r) == at[r] = "forward" /\ next[r] <= Len(packs[r])
PastLoop(r) == at[r] = "forward" /\ next[r] > Len(packs[r])
Current(r) == packs[r][next[r]]
CpGroup(r) == Block(r, Current(r).local_cp_size)
Packed(r) == Current(r).tokens

\* cp_partition_mode contiguous: every rank of a group computes its shard, and
\* the shards gathered in rank order are the packed sequence.
ShardStart(G, r, total) == (r - Min(G)) * (total \div Cardinality(G))
Shard(G, r) ==
    LET start == ShardStart(G, r, Len(Packed(r)))
    IN SubSeq(Packed(r), start + 1, start + Len(Packed(r)) \div Cardinality(G))
Reassembled(G) == FlattenSeq([i \in 1 .. Cardinality(G) |-> Shard(G, Min(G) + i - 1)])

\* cu_seqlens_padded gives the start of a sample, cu_seqlens its length.
Offset(r, i) == Cumulative(Current(r).padded)[i - 1]
UnpaddedOffset(r, i) == Cumulative(Current(r).lens)[i - 1]
StartOf(r, i) == Offset(r, i)
PerSample(r, flat) ==
    [g \in Range(Current(r).ids) |->
        LET i == Place(Current(r).ids, g)
        IN SubSeq(flat, StartOf(r, i) + 1, StartOf(r, i) + Current(r).lens[i])]

\* dynamic_cp_local_packed_token_count: the rank's own shard of the mask, here
\* with every token of a sample in it.  (The sum-style losses raise the count of
\* a micro-batch to at least 1; the mean-style ones and SFT, modelled here, do not.)
OwnShard(G, r) == Shard(G, r)
WholeMask(G, r) == Packed(r)
MaskCounted(G, r) == OwnShard(G, r)
LocalTokens(G, r) ==
    Cardinality({k \in DOMAIN MaskCounted(G, r) : MaskCounted(G, r)[k] # PadToken})

\* One micro-batch of one group: its attention and the gather of its logprobs
\* take all members with the same number of tokens.
Meets(G) ==
    LET total == Len(Packed(Min(G)))
    IN \A q \in G : InMbLoop(q) /\ CpGroup(q) = G /\ Len(Packed(q)) = total
Leads(r) == InMbLoop(r) /\ r = Min(CpGroup(r)) /\ Meets(CpGroup(r))
Updated(old, new) ==
    [g \in DOMAIN old \cup DOMAIN new |-> IF g \in DOMAIN new THEN new[g] ELSE old[g]]
Advance(G) == next' = [q \in Grid |-> IF q \in G THEN next[q] + 1 ELSE next[q]]

ComputeLogprobs(r) ==
    /\ task = "logprobs" /\ Leads(r) /\ Advance(CpGroup(r))
    /\ LET G == CpGroup(r)
           flat == Reassembled(G)
       IN computed' = [q \in Grid |->
             IF q \in G THEN Updated(computed[q], PerSample(q, flat)) ELSE computed[q]]
    /\ UNCHANGED <<batchVars, at, planVars, packs, token_count, results>>

TrainMicroBatch(r) ==
    /\ task # "logprobs" /\ Leads(r) /\ Advance(CpGroup(r))
    /\ LET G == CpGroup(r)
       IN token_count' = [q \in Grid |->
             IF q \in G THEN token_count[q] + LocalTokens(G, q) ELSE token_count[q]]
    /\ UNCHANGED <<batchVars, at, planVars, packs, computed, results>>

\* The gradients and the denominators are reduced over all ranks.
ReduceGradients ==
    /\ \A r \in Grid : PastLoop(r)
    /\ task # "logprobs" /\ GridGoto("done")
    /\ UNCHANGED <<batchVars, planVars, packs, next, computed, token_count, results>>

----------------------------------------------------------------------------
\* reverse_reroute_logprobs: the compute rank of a sample sends it to every
\* context-parallel sibling of the rank it came from.

ComputeRank(g) == gid_to_compute_rank[g]
Siblings(r, g) == {RankAt(DpOf(SrcRank(r, g)), c) : c \in 0 .. Cp - 1}
Representative(r, g) == {SrcRank(r, g)}
OrigRanks(r, g) == Siblings(r, g)

Sends(r, g) == g \in DOMAIN computed[r] /\ ComputeRank(g) = r
Kept(r) == {g \in DOMAIN computed[r] : Sends(r, g) /\ r \in OrigRanks(r, g)}
ToReturn(r, d) ==
    Listing({g \in DOMAIN computed[r] : Sends(r, g) /\ d \in OrigRanks(r, g) \ {r}}, <)
ToGetBack(r, s) == Listing({g \in GidsOf(DpOf(r)) \ Kept(r) : ComputeRank(g) = s}, <)

SentLogprobs(s, d) ==
    FlattenSeq([i \in DOMAIN ToReturn(s, d) |-> computed[s][ToReturn(s, d)[i]]])
Widths(ids) == [i \in DOMAIN ids |-> seq_lens[ids[i]]]
ReverseLegal ==
    \A s, d \in Grid : Len(SentLogprobs(s, d)) = WholeOf(Widths(ToGetBack(d, s)))

BroughtBack(r, g) ==
    IF g \in Kept(r) THEN computed[r][g]
    ELSE LET s == ComputeRank(g)
             back == ToGetBack(r, s)
         IN Cut(SentLogprobs(s, r), Widths(back), Place(back, g))

\* One pass ends with the exchange; the next one uses the same packed data.
ReturnLogprobs ==
    /\ \A r \in Grid : PastLoop(r)
    /\ task = "logprobs" /\ ReverseLegal
    /\ results' = [r \in Grid |->
          Append(results[r], [i \in 1 .. Cardinality(GidsOf(DpOf(r))) |->
                                BroughtBack(r, offsets[DpOf(r)] + i - 1)])]
    /\ computed' = [r \in Grid |-> Empty]
    /\ IF Len(results[0]) + 1 < Passes
       THEN next' = [r \in Grid |-> 1] /\ UNCHANGED at
       ELSE GridGoto("done") /\ UNCHANGED next
    /\ UNCHANGED <<batchVars, planVars, packs, token_count>>

CpNext ==
    \/ Schedule \/ Reroute \/ SelectLocally \/ ReduceGradients \/ ReturnLogprobs
    \/ \E r \in Grid : ComputeLogprobs(r) \/ TrainMicroBatch(r)

CpSpec == CpInit /\ [][CpNext]_cpVars

----------------------------------------------------------------------------
\* Properties.

\* The shapes of the state.
CpTypeOK ==
    /\ task \in {"logprobs", "train", "smart_padding"} /\ seq_lens \in [Gids -> Originals]
    /\ at \in [Grid -> {"schedule", "reroute", "forward", "done"}]
    /\ Len(sample_id_groups) <= MaxMbs
    /\ \A r \in Grid :
         /\ next[r] \in 1 .. Len(packs[r]) + 1
         /\ \A m \in DOMAIN packs[r] :
              /\ packs[r][m].ids \in Seq(Gids)
              /\ Len(packs[r][m].tokens) = WholeOf(packs[r][m].padded)
              /\ packs[r][m].local_cp_size \in 1 .. Total
         /\ DOMAIN computed[r] \subseteq Gids
         /\ \A g \in DOMAIN computed[r] : Len(computed[r][g]) = seq_lens[g]
         /\ Len(results[r]) <= Passes
    /\ token_count \in [Grid -> Nat]

\* No rank is left waiting in a collective.  Both all-to-alls are called with
\* split sizes on which every pair of ranks agrees; ranks at the same
\* micro-batch agree on their group and on what it computes; and while any
\* rank has micro-batches left, some group is complete and can go on.
RanksMeet ==
    /\ GridAt("reroute") => RerouteLegal
    /\ task = "logprobs" /\ (\A r \in Grid : PastLoop(r)) => ReverseLegal
    /\ \A r \in Grid : InMbLoop(r) =>
         /\ \A q \in Grid : Len(packs[q]) = Len(packs[r])
         /\ \A q \in CpGroup(r) : next[q] = next[r] => Current(q) = Current(r)
    /\ (\E r \in Grid : InMbLoop(r)) => \E r \in Grid : Leads(r)

\* Every rank ends with the log-probabilities of the samples it started with,
\* in its own order and of their own length, whichever rank computed them,
\* at whatever offset of which packed sequence.
OwnersGetTheirs ==
    \A r \in Grid : task = "logprobs" /\ at[r] = "done" =>
        /\ Len(results[r]) = Passes
        /\ \A p \in 1 .. Passes :
             results[r][p] = [i \in 1 .. Cardinality(GidsOf(DpOf(r))) |->
                                Logprobs(offsets[DpOf(r)] + i - 1)]

\* The denominators the ranks add up count every token of the batch once:
\* no sample is trained twice or by nobody, and no group counts its packed
\* sequence once per member.
EachTokenOnce ==
    task # "logprobs" /\ GridAt("done") =>
        Sum(token_count) = Sum(seq_lens)
=============================================================================
