------------------------------ MODULE Balancing ------------------------------
(***************************************************************************)
(* core/seqlen_balancing.py as pure operators: the Karmarkar-Karp          *)
(* differencing method with the tie-breaks of its two __lt__, and the      *)
(* search for the number of micro-batches of a packed batch.               *)
(*                                                                         *)
(* A list of weights is a sequence; its items are its indices.             *)
(***************************************************************************)
EXTENDS Ordering, SequencesExt

\* class Set: a sum and the items in the order they were added.
EmptyBin == [sum |-> 0, items |-> <<>>]
Single(w, i) == [sum |-> w[i], items |-> <<i>>]
Join(a, b) == [sum |-> a.sum + b.sum, items |-> a.items \o b.items]

ItemsLess(s, t) ==
    \E i \in DOMAIN s : s[i] < t[i] /\ \A j \in 1 .. i - 1 : s[j] = t[j]

BinLess(a, b) ==
    \/ a.sum < b.sum
    \/ a.sum = b.sum /\ Len(a.items) < Len(b.items)
    \/ /\ a.sum = b.sum /\ Len(a.items) = Len(b.items)
       /\ ItemsLess(a.items, b.items)

\* class State: k sets in decreasing order.
Descending(bins) ==
    LET Above(i, j) == BinLess(bins[j], bins[i]) \/ (bins[i] = bins[j] /\ i < j)
        order == Listing(DOMAIN bins, Above)
    IN AtOnce([i \in DOMAIN bins |-> bins[order[i]]])
Spread(s) == s[1].sum - s[Len(s)].sum

\* State.merge: the largest set of one with the smallest of the other.
Opposite(k, i) == k + 1 - i
SameRank(k, i) == i
Pairing(k, i) == Opposite(k, i)
Merge(s, t) ==
    Descending(AtOnce([i \in 1 .. Len(s) |-> Join(s[i], t[Pairing(Len(s), i)])]))

\* The heap gives the state with the largest spread first, then the one with
\* the larger first set.
PopsBefore(s, t) ==
    \/ Spread(s) > Spread(t)
    \/ Spread(s) = Spread(t) /\ BinLess(t[1], s[1])
Top(pq) == CHOOSE s \in pq : \A t \in pq \ {s} : PopsBefore(s, t)
MergeTop(pq) ==
    LET s == Top(pq)
        t == Top(pq \ {s})
    IN (pq \ {s, t}) \cup {Merge(s, t)}

\* Items by weight, then by index; with equal_size a state takes k of them.
Ascending(w) ==
    LET Lighter(i, j) == w[i] < w[j] \/ (w[i] = w[j] /\ i < j)
    IN Listing(DOMAIN w, Lighter)
FirstStates(w, k, equal_size) ==
    IF equal_size
    THEN LET order == Ascending(w)
         IN {Descending([i \in 1 .. k |-> Single(w, order[c * k + i])]) :
                c \in 0 .. Len(w) \div k - 1}
    ELSE {[i \in 1 .. k |-> IF i = 1 THEN Single(w, x) ELSE EmptyBin] : x \in DOMAIN w}

\* Merge until one state is left.
Merged(first) ==
    LET pq[n \in 0 .. Cardinality(first) - 1] ==
            IF n = 0 THEN first ELSE MergeTop(pq[n - 1])
    IN pq[Cardinality(first) - 1]

\* The sets of the last state are the partitions.
karmarkar_karp(w, k, equal_size) ==
    LET last == CHOOSE s \in Merged(FirstStates(w, k, equal_size)) : TRUE
    IN [i \in 1 .. k |-> Range(last[i].items)]

\* What karmarkar_karp and _check_and_sort_partitions assert of the result.
Checked(parts, w, k, equal_size) ==
    /\ Len(w) >= k
    /\ \A i \in 1 .. k : parts[i] # {}
    /\ UNION {parts[i] : i \in 1 .. k} = DOMAIN w
    /\ equal_size => \A i \in 1 .. k : Cardinality(parts[i]) * k = Len(w)

----------------------------------------------------------------------------
\* convert_mbs_for_pack_seq.

RoundUp(n, m) == ((n + m - 1) \div m) * m
Weight(w, part) == FoldFunctionOnSet(+, 0, w, part)

\* _kk_partitions_within_budget: the load of a group is rounded up once more,
\* to what context parallelism pads the packed sequence to.
AlignedTotal(load, align) == RoundUp(load, align)
PlainTotal(load, align) == load
PackedLoad(load, align) == AlignedTotal(load, align)
Fits(parts, w, align, budget) ==
    \A i \in DOMAIN parts : PackedLoad(Weight(w, parts[i]), align) <= budget

\* num_mb: from the average fill upwards, until Karmarkar-Karp fits.
LowerBound(w, budget) == Max({1, RoundUp(Weight(w, DOMAIN w), budget) \div budget})
=============================================================================
