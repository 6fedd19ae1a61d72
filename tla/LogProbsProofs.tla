---------------------------- MODULE LogProbsProofs ----------------------------
(***************************************************************************)
(* Theorems about the log-probability pass, whichever way it takes: about  *)
(* BatchPlan, with the Karmarkar-Karp method of Balancing it rests on, and *)
(* about DynamicCp; for any number of ranks and samples, any lengths and   *)
(* any budget.                                                             *)
(*                                                                         *)
(* The method first: sorted bins, the merge of two states, the heap, and   *)
(* that the parts it ends with are disjoint, complete, and of equal size   *)
(* where this is asked.  Then the round of a batch: the plan, the two      *)
(* exchanges, the packing, the micro-batch loop and the way home as stages *)
(* of one inductive invariant, RoundInv; and PlanHolds, which says when an *)
(* assertion of the round can fail.                                        *)
(*                                                                         *)
(* Then dynamic context parallelism: where the packed samples and their    *)
(* shards begin, who sends what to whom, and that the ends of both         *)
(* exchanges agree.  CpInv follows a batch through the default scheduler,  *)
(* where the members of a group go through its micro-batch together, and   *)
(* SmartInv through the other, where the members of a block do.  OnceInv   *)
(* adds which tokens are counted: the shards of the group heads share out  *)
(* the tokens of the batch, and each is counted when its rank computes it. *)
(* Last, the shapes: PlanTypeOK is kept beside RoundInv, and CpTypeOK      *)
(* beside OnceInv.                                                         *)
(*                                                                         *)
(* Facts about all sizes of a set or all turns of a loop are shown by      *)
(* taking the least number for which they fail.                            *)
(***************************************************************************)
EXTENDS LogProbs, FiniteSetTheorems, SequenceTheorems, WellFoundedInduction,
        NaturalsInduction, TLAPS

\* A set of naturals has a least one, and Min is it.
LEMMA Least ==
    ASSUME NEW S \in SUBSET Nat, S # {}
    PROVE  Min(S) \in S /\ \A y \in S : Min(S) <= y
<1>1. PICK x \in S : \A y \in S : ~ (<<y, x>> \in OpToRel(<, Nat))
  BY NatLessThanWellFounded, WFMin
<1>2. ASSUME NEW y \in S PROVE x <= y
  <2>1. x \in Nat /\ y \in Nat
    OBVIOUS
  <2>2. ~ (y < x)
    BY <1>1, <2>1 DEF OpToRel
  <2>. QED  BY <2>1, <2>2
<1>. QED  BY <1>2 DEF Min

\* Max of a set of numbers up to n is in the set and bounds it.
LEMMA Greatest ==
    ASSUME NEW n \in Nat, NEW S \in SUBSET (1 .. n), S # {}
    PROVE  Max(S) \in S /\ \A y \in S : y <= Max(S)
<1>. DEFINE T == {n - x : x \in S}
<1>1. T \in SUBSET Nat /\ T # {}
  <2>1. \A x \in S : x \in 1 .. n /\ n - x \in Nat
    OBVIOUS
  <2>. QED  BY <2>1
<1>. HIDE DEF T
<1>2. Min(T) \in T /\ \A y \in T : Min(T) <= y
  BY <1>1, Least
<1>. USE DEF T
<1>3. PICK x \in S : Min(T) = n - x
  BY <1>2
<1>4. \A y \in S : x >= y
  <2>1. \A y \in S : n - x <= n - y
    BY <1>2, <1>3
  <2>. QED  BY <2>1
<1>5. Max(S) \in S /\ \A y \in S : Max(S) >= y
  BY <1>4 DEF Max
<1>. HIDE DEF T
<1>6. ASSUME NEW y \in S PROVE y <= Max(S)
  <2>1. PICK m \in S : m = Max(S)
    BY <1>5
  <2>2. m \in Int /\ y \in Int
    OBVIOUS
  <2>3. m >= y
    BY <1>5, <2>1
  <2>. QED  BY <2>1, <2>2, <2>3
<1>. QED  BY <1>5, <1>6

\* AtOnce changes nothing.
LEMMA SequenceAtOnce ==
    ASSUME NEW n \in Nat, NEW f, f = [i \in 1 .. n |-> f[i]]
    PROVE  AtOnce(f) = f
<1>. DEFINE S == {f[i] : i \in 1 .. n}
<1>1. f \in Seq(S)
  <2>1. f \in [1 .. n -> S]
    <3>1. \A i \in 1 .. n : f[i] \in S
      OBVIOUS
    <3>. HIDE DEF S
    <3>. QED  BY <3>1
  <2>. HIDE DEF S
  <2>. QED  BY <2>1
<1>. HIDE DEF S
<1>. QED  BY <1>1 DEF AtOnce

----------------------------------------------------------------------------
\* A finite set listed by a strict order of its items.

StrictOrder(S, R) ==
    /\ \A x \in S : <<x, x>> \notin R
    /\ \A x, y, z \in S : <<x, y>> \in R /\ <<y, z>> \in R => <<x, z>> \in R
    /\ \A x, y \in S : x = y \/ <<x, y>> \in R \/ <<y, x>> \in R
Ahead(S, R, x) == {y \in S : <<y, x>> \in R}
Rank(S, R, x) == Cardinality(Ahead(S, R, x))
ListsOnce(L, S, R) ==
    /\ L = [i \in 1 .. Cardinality(S) |-> L[i]]
    /\ \A i \in 1 .. Cardinality(S) :
          (\E x \in S : Rank(S, R, x) = i - 1) => L[i] \in S /\ Rank(S, R, L[i]) = i - 1

\* An item is at the place of its rank: the listing is a bijection.
LEMMA RankLists ==
    ASSUME NEW S, IsFiniteSet(S), NEW R, StrictOrder(S, R), NEW L, ListsOnce(L, S, R)
    PROVE  /\ Cardinality(S) \in Nat /\ L \in Bijection(1 .. Cardinality(S), S)
           /\ \A x \in S : Rank(S, R, x) + 1 \in 1 .. Cardinality(S)
                           /\ L[Rank(S, R, x) + 1] = x
           /\ \A x, y \in S : <<x, y>> \in R => Rank(S, R, x) < Rank(S, R, y)
<1>. DEFINE n == Cardinality(S)
            rank == [x \in S |-> Rank(S, R, x)]
<1>1. n \in Nat
  BY FS_CardinalityType
<1>2. ASSUME NEW x \in S
      PROVE  /\ IsFiniteSet(Ahead(S, R, x)) /\ Rank(S, R, x) \in Nat
             /\ x \notin Ahead(S, R, x) /\ Ahead(S, R, x) \subseteq S
  <2>1. x \notin Ahead(S, R, x) /\ Ahead(S, R, x) \subseteq S
    BY DEF Ahead, StrictOrder
  <2>. QED  BY <2>1, FS_Subset, FS_CardinalityType DEF Rank
<1>3. ASSUME NEW x \in S, NEW y \in S, <<x, y>> \in R PROVE rank[x] < rank[y]
  <2>1. Ahead(S, R, x) \cup {x} \subseteq Ahead(S, R, y)
    BY <1>3 DEF Ahead, StrictOrder
  <2>2. Cardinality(Ahead(S, R, x) \cup {x}) = Rank(S, R, x) + 1
    BY <1>2, FS_AddElement DEF Rank
  <2>3. Cardinality(Ahead(S, R, x) \cup {x}) <= Rank(S, R, y)
    BY <1>2, <2>1, FS_Subset DEF Rank
  <2>. QED  BY <1>2, <2>2, <2>3
<1>4. rank \in [S -> 0 .. n - 1]
  <2>. SUFFICES ASSUME NEW x \in S PROVE Rank(S, R, x) \in 0 .. n - 1
    OBVIOUS
  <2>1. Ahead(S, R, x) \subseteq S \ {x}
    BY <1>2
  <2>2. IsFiniteSet(S \ {x}) /\ Cardinality(S \ {x}) = n - 1
    BY <1>1, FS_RemoveElement
  <2>3. Rank(S, R, x) <= n - 1
    BY <2>1, <2>2, FS_Subset DEF Rank
  <2>. QED  BY <1>1, <1>2, <2>3
<1>5. rank \in Injection(S, 0 .. n - 1)
  <2>1. ASSUME NEW x \in S, NEW y \in S, rank[x] = rank[y] PROVE x = y
    <3>1. rank[x] \in Int /\ rank[y] \in Int
      BY <1>4
    <3>2. x = y \/ <<x, y>> \in R \/ <<y, x>> \in R
      BY DEF StrictOrder
    <3>. HIDE DEF rank
    <3>. QED  BY <1>3, <2>1, <3>1, <3>2
  <2>. HIDE DEF rank
  <2>. QED  BY <1>4, <2>1 DEF Injection, IsInjective
<1>6. rank \in Surjection(S, 0 .. n - 1)
  <2>1. IsFiniteSet(0 .. n - 1) /\ Cardinality(0 .. n - 1) = n
    <3>1. n - 1 \in Int
      BY <1>1
    <3>2. IsFiniteSet(0 .. n - 1) /\ Cardinality(0 .. n - 1) = IF 0 > n - 1 THEN 0 ELSE n - 1 - 0 + 1
      BY <3>1, FS_Interval
    <3>. QED  BY <1>1, <3>2
  <2>. HIDE DEF rank, n
  <2>. QED  BY <1>5, <2>1, FS_Injection DEF n
<1>7. ASSUME NEW i \in 1 .. n PROVE L[i] \in S /\ rank[L[i]] = i - 1
  <2>1. i - 1 \in 0 .. n - 1
    BY <1>1
  <2>2. \E x \in S : rank[x] = i - 1
    <3>. HIDE DEF rank
    <3>. QED  BY <1>6, <2>1 DEF Surjection
  <2>3. \E x \in S : Rank(S, R, x) = i - 1
    BY <2>2
  <2>4. L[i] \in S /\ Rank(S, R, L[i]) = i - 1
    BY <2>3 DEF ListsOnce
  <2>. QED  BY <2>4
<1>8. ASSUME NEW x \in S
      PROVE  rank[x] = Rank(S, R, x) /\ rank[x] + 1 \in 1 .. n /\ L[rank[x] + 1] = x
  <2>1. rank[x] \in 0 .. n - 1 /\ rank[x] + 1 \in 1 .. n /\ rank[x] + 1 - 1 = rank[x]
    <3>1. rank[x] \in 0 .. n - 1
      BY <1>4
    <3>. HIDE DEF rank
    <3>. QED  BY <1>1, <3>1
  <2>2. L[rank[x] + 1] \in S /\ rank[L[rank[x] + 1]] = rank[x]
    <3>. HIDE DEF rank
    <3>. QED  BY <1>7, <2>1
  <2>3. L[rank[x] + 1] = x
    <3>. HIDE DEF rank
    <3>. QED  BY <1>5, <2>2 DEF Injection, IsInjective
  <2>. QED  BY <2>1, <2>3
<1>. HIDE DEF n
<1>13. \A x, y \in S : <<x, y>> \in R => Rank(S, R, x) < Rank(S, R, y)
  BY <1>3
<1>. USE DEF n
<1>9. L \in [1 .. n -> S]
  <2>1. L = [i \in 1 .. n |-> L[i]]
    BY DEF ListsOnce
  <2>. QED  BY <1>7, <2>1
<1>10. ASSUME NEW i \in 1 .. n, NEW j \in 1 .. n, L[i] = L[j] PROVE i = j
  <2>1. i - 1 = j - 1
    BY <1>7, <1>10
  <2>. QED  BY <2>1
<1>. HIDE DEF n, rank
<1>11. L \in Injection(1 .. n, S)
  BY <1>9, <1>10 DEF Injection, IsInjective
<1>12. L \in Surjection(1 .. n, S)
  BY <1>8, <1>9 DEF Surjection
<1>. QED  BY <1>1, <1>8, <1>11, <1>12, <1>13 DEF Bijection, n

----------------------------------------------------------------------------
\* The two listings of the exchange.

LEMMA NumbersListed ==
    ASSUME NEW S \in SUBSET Nat, IsFiniteSet(S)
    PROVE  /\ Cardinality(S) \in Nat /\ Listing(S, <) \in Bijection(1 .. Cardinality(S), S)
           /\ \A x \in S : /\ Cardinality({y \in S : y <= x}) \in 1 .. Cardinality(S)
                           /\ Listing(S, <)[Cardinality({y \in S : y <= x})] = x
<1>. DEFINE R == {p \in S \X S : p[1] < p[2]}
            L == Listing(S, <)
<1>1. IsFiniteSet(S) /\ S \subseteq Int
  <2>1. \A x \in Nat : x \in Int
    OBVIOUS
  <2>. QED  BY <2>1
<1>2. \A x, y \in S : <<x, y>> \in R <=> x < y
  OBVIOUS
<1>. HIDE DEF R
<1>3. StrictOrder(S, R)
  BY <1>1, <1>2 DEF StrictOrder
<1>4. \A x \in S : {y \in S : y < x} = Ahead(S, R, x)
  BY <1>2 DEF Ahead
<1>5. ListsOnce(L, S, R)
  <2>. DEFINE rank(x) == Cardinality({y \in S : y < x})
  <2>1. L = [i \in 1 .. Cardinality(S) |-> CHOOSE x \in S : rank(x) = i - 1]
    <3>. DEFINE f == [i \in 1 .. Cardinality(S) |-> CHOOSE x \in S : rank(x) = i - 1]
    <3>1. L = AtOnce(f)
      BY DEF Listing
    <3>. HIDE DEF L, rank
    <3>2. f = [i \in 1 .. Cardinality(S) |-> f[i]] /\ Cardinality(S) \in Nat
      BY <1>1, FS_CardinalityType
    <3>. HIDE DEF f
    <3>3. L = f
      BY <3>1, <3>2, SequenceAtOnce
    <3>. QED  BY <3>3 DEF f
  <2>2. \A x \in S : rank(x) = Rank(S, R, x)
    BY <1>4 DEF Rank
  <2>. HIDE DEF L, rank
  <2>3. L = [i \in 1 .. Cardinality(S) |-> L[i]]
    BY <2>1
  <2>4. ASSUME NEW i \in 1 .. Cardinality(S), \E x \in S : Rank(S, R, x) = i - 1
        PROVE  L[i] \in S /\ Rank(S, R, L[i]) = i - 1
    <3>1. \E x \in S : rank(x) = i - 1
      BY <2>2, <2>4
    <3>2. L[i] = CHOOSE x \in S : rank(x) = i - 1
      BY <2>1
    <3>3. L[i] \in S /\ rank(L[i]) = i - 1
      BY <3>1, <3>2
    <3>. QED  BY <2>2, <3>3
  <2>. QED  BY <2>3, <2>4 DEF ListsOnce
<1>6. ASSUME NEW x \in S PROVE Cardinality({y \in S : y <= x}) = Rank(S, R, x) + 1
  <2>0. \A y \in S : y <= x <=> y < x \/ y = x
    BY <1>1
  <2>1. {y \in S : y <= x} = Ahead(S, R, x) \cup {x} /\ x \notin Ahead(S, R, x)
    <3>1. \A y \in S : y <= x <=> <<y, x>> \in R \/ y = x
      BY <1>2, <2>0
    <3>2. <<x, x>> \notin R
      BY <1>3 DEF StrictOrder
    <3>. QED  BY <3>1, <3>2 DEF Ahead
  <2>2. IsFiniteSet(Ahead(S, R, x))
    BY <1>1, FS_Subset DEF Ahead
  <2>. QED  BY <2>1, <2>2, FS_AddElement DEF Rank
<1>. HIDE DEF L
<1>7. /\ L \in Bijection(1 .. Cardinality(S), S) /\ Cardinality(S) \in Nat
      /\ \A x \in S : /\ Cardinality({y \in S : y <= x}) \in 1 .. Cardinality(S)
                      /\ L[Cardinality({y \in S : y <= x})] = x
  BY <1>1, <1>3, <1>5, <1>6, RankLists
<1>. QED  BY <1>7 DEF L

LEMMA PositionsListed ==
    ASSUME NEW n \in Nat, NEW S \in SUBSET (1 .. n)
    PROVE  /\ Cardinality(S) \in Nat /\ Listing(S, <) \in Bijection(1 .. Cardinality(S), S)
           /\ \A x \in S : /\ Cardinality({y \in S : y <= x}) \in 1 .. Cardinality(S)
                           /\ Listing(S, <)[Cardinality({y \in S : y <= x})] = x
<1>1. IsFiniteSet(1 .. n)
  BY FS_Interval
<1>2. S \in SUBSET Nat
  <2>1. \A x \in 1 .. n : x \in Nat
    OBVIOUS
  <2>. QED  BY <2>1
<1>3. IsFiniteSet(S)
  BY <1>1, FS_Subset
<1>. QED  BY <1>2, <1>3, NumbersListed

\* The order of a bin: by length, then by place in the batch.
LEMMA OrderedListed ==
    ASSUME lens \in [Samples -> Lengths], NEW part \in SUBSET Samples
    PROVE  /\ Cardinality(part) \in Nat
           /\ Ordered(part) \in Bijection(1 .. Cardinality(part), part)
<1>. DEFINE R == {p \in part \X part : Lighter(p[1], p[2])}
            L == Ordered(part)
<1>1. DpSize * Local \in Nat /\ Lengths \subseteq Nat
  BY BatchPlanAssumption DEF BatchPlanAssumption
<1>2. IsFiniteSet(part)
  <2>1. IsFiniteSet(Samples)
    BY <1>1, FS_Interval DEF Samples
  <2>. QED  BY <2>1, FS_Subset
<1>3. \A x \in part : x \in Int /\ lens[x] \in Int
  <2>1. \A x \in Samples : x \in Int
    BY <1>1 DEF Samples
  <2>2. \A x \in Samples : lens[x] \in Int
    <3>1. \A x \in Samples : lens[x] \in Lengths
      OBVIOUS
    <3>2. \A l \in Lengths : l \in Int
      BY <1>1
    <3>. QED  BY <3>1, <3>2
  <2>. QED  BY <2>1, <2>2
<1>4. \A x, y \in part : <<x, y>> \in R <=> Lighter(x, y)
  OBVIOUS
<1>. HIDE DEF R
<1>5. StrictOrder(part, R)
  BY <1>3, <1>4 DEF StrictOrder, Lighter
<1>6. \A x \in part : {y \in part : Lighter(y, x)} = Ahead(part, R, x)
  BY <1>4 DEF Ahead
<1>7. ListsOnce(L, part, R)
  <2>. DEFINE rank(x) == Cardinality({y \in part : Lighter(y, x)})
  <2>1. L = [i \in 1 .. Cardinality(part) |-> CHOOSE x \in part : rank(x) = i - 1]
    <3>. DEFINE f == [i \in 1 .. Cardinality(part) |-> CHOOSE x \in part : rank(x) = i - 1]
    <3>1. L = AtOnce(f)
      BY DEF Ordered, Listing
    <3>. HIDE DEF L, rank
    <3>2. f = [i \in 1 .. Cardinality(part) |-> f[i]] /\ Cardinality(part) \in Nat
      BY <1>2, FS_CardinalityType
    <3>. HIDE DEF f
    <3>3. L = f
      BY <3>1, <3>2, SequenceAtOnce
    <3>. QED  BY <3>3 DEF f
  <2>2. \A x \in part : rank(x) = Rank(part, R, x)
    BY <1>6 DEF Rank
  <2>. HIDE DEF L, rank
  <2>3. L = [i \in 1 .. Cardinality(part) |-> L[i]]
    BY <2>1
  <2>4. ASSUME NEW i \in 1 .. Cardinality(part), \E x \in part : Rank(part, R, x) = i - 1
        PROVE  L[i] \in part /\ Rank(part, R, L[i]) = i - 1
    <3>1. \E x \in part : rank(x) = i - 1
      BY <2>2, <2>4
    <3>2. L[i] = CHOOSE x \in part : rank(x) = i - 1
      BY <2>1
    <3>3. L[i] \in part /\ rank(L[i]) = i - 1
      BY <3>1, <3>2
    <3>. QED  BY <2>2, <3>3
  <2>. QED  BY <2>3, <2>4 DEF ListsOnce
<1>. HIDE DEF L
<1>8. L \in Bijection(1 .. Cardinality(part), part) /\ Cardinality(part) \in Nat
  BY <1>2, <1>5, <1>7, RankLists
<1>. QED  BY <1>8 DEF L

----------------------------------------------------------------------------
\* The order of the bins.

\* The order of the item lists is strict and, among lists of one length, total.
LEMMA ItemsOrder ==
    /\ \A s \in Seq(Nat) : ~ ItemsLess(s, s)
    /\ \A s, t, u \in Seq(Nat) : /\ Len(s) = Len(t) /\ Len(t) = Len(u)
                                 /\ ItemsLess(s, t) /\ ItemsLess(t, u)
                                 => ItemsLess(s, u)
    /\ \A s, t \in Seq(Nat) :
          Len(s) = Len(t) => s = t \/ ItemsLess(s, t) \/ ItemsLess(t, s)
<1>1. ASSUME NEW s \in Seq(Nat) PROVE ~ ItemsLess(s, s)
  BY DEF ItemsLess
<1>2. ASSUME NEW s \in Seq(Nat), NEW t \in Seq(Nat), NEW u \in Seq(Nat),
             Len(s) = Len(t), Len(t) = Len(u), ItemsLess(s, t), ItemsLess(t, u)
      PROVE  ItemsLess(s, u)
  <2>1. PICK i \in DOMAIN s : s[i] < t[i] /\ \A m \in 1 .. i - 1 : s[m] = t[m]
    BY <1>2 DEF ItemsLess
  <2>2. PICK j \in DOMAIN t : t[j] < u[j] /\ \A m \in 1 .. j - 1 : t[m] = u[m]
    BY <1>2 DEF ItemsLess
  <2>3. /\ DOMAIN s = 1 .. Len(s) /\ DOMAIN t = 1 .. Len(s) /\ DOMAIN u = 1 .. Len(s)
        /\ Len(s) \in Nat /\ i \in 1 .. Len(s) /\ j \in 1 .. Len(s)
        /\ \A m \in 1 .. Len(s) : s[m] \in Nat /\ t[m] \in Nat /\ u[m] \in Nat
    <3>1. s \in [1 .. Len(s) -> Nat] /\ t \in [1 .. Len(t) -> Nat] /\ u \in [1 .. Len(u) -> Nat]
      <4>1. \A x \in Seq(Nat) : x \in [1 .. Len(x) -> Nat]
        OBVIOUS
      <4>. QED  BY <4>1
    <3>2. Len(s) \in Nat
      OBVIOUS
    <3>. QED  BY <1>2, <2>1, <2>2, <3>1, <3>2
  <2>4. CASE i < j
    <3>1. \A m \in 1 .. i - 1 : m \in 1 .. i - 1 /\ m \in 1 .. j - 1
      BY <2>3, <2>4
    <3>2. i \in 1 .. j - 1
      BY <2>3, <2>4
    <3>3. s[i] < u[i] /\ \A m \in 1 .. i - 1 : s[m] = u[m]
      BY <2>1, <2>2, <3>1, <3>2
    <3>. QED  BY <3>3 DEF ItemsLess
  <2>5. CASE i = j
    <3>1. s[i] < u[i] /\ \A m \in 1 .. i - 1 : s[m] = u[m]
      BY <2>1, <2>2, <2>3, <2>5
    <3>. QED  BY <3>1 DEF ItemsLess
  <2>6. CASE j < i
    <3>1. \A m \in 1 .. j - 1 : m \in 1 .. i - 1 /\ m \in 1 .. j - 1
      BY <2>3, <2>6
    <3>2. j \in 1 .. i - 1
      BY <2>3, <2>6
    <3>3. s[j] < u[j] /\ \A m \in 1 .. j - 1 : s[m] = u[m]
      BY <2>1, <2>2, <3>1, <3>2
    <3>. QED  BY <2>3, <3>3 DEF ItemsLess
  <2>. QED  BY <2>3, <2>4, <2>5, <2>6
<1>3. ASSUME NEW s \in Seq(Nat), NEW t \in Seq(Nat), Len(s) = Len(t), s # t
      PROVE  ItemsLess(s, t) \/ ItemsLess(t, s)
  <2>. DEFINE D == {i \in 1 .. Len(s) : s[i] # t[i]}
  <2>1. /\ DOMAIN s = 1 .. Len(s) /\ DOMAIN t = 1 .. Len(s) /\ Len(s) \in Nat
        /\ \A m \in 1 .. Len(s) : s[m] \in Nat /\ t[m] \in Nat
    BY <1>3
  <2>2. D # {} /\ D \in SUBSET Nat
    <3>1. \E i \in 1 .. Len(s) : s[i] # t[i]
      BY <1>3
    <3>2. \A i \in D : i \in Nat
      OBVIOUS
    <3>. QED  BY <3>1, <3>2
  <2>3. PICK i \in D : \A j \in D : i <= j
    <3>. HIDE DEF D
    <3>. QED  BY <2>2, Least
  <2>4. \A j \in 1 .. i - 1 : s[j] = t[j]
    BY <2>1, <2>3
  <2>5. i \in DOMAIN s /\ i \in DOMAIN t /\ (s[i] < t[i] \/ t[i] < s[i])
    BY <2>1
  <2>. HIDE DEF D
  <2>. QED  BY <2>4, <2>5 DEF ItemsLess
<1>. QED  BY <1>1, <1>2, <1>3

\* The bins.
BinsOf == [sum : Nat, items : Seq(Nat)]

\* So is the order of the bins, Set.__lt__.
LEMMA BinOrder ==
    /\ \A a \in BinsOf : ~ BinLess(a, a)
    /\ \A a, b, c \in BinsOf : BinLess(a, b) /\ BinLess(b, c) => BinLess(a, c)
    /\ \A a, b \in BinsOf : a = b \/ BinLess(a, b) \/ BinLess(b, a)
<1>1. \A a \in BinsOf : /\ a.sum \in Nat /\ a.items \in Seq(Nat) /\ Len(a.items) \in Nat
                        /\ a = [sum |-> a.sum, items |-> a.items]
  BY DEF BinsOf
<1>2. ASSUME NEW a \in BinsOf PROVE ~ BinLess(a, a)
  BY <1>1, ItemsOrder DEF BinLess
<1>3. ASSUME NEW a \in BinsOf, NEW b \in BinsOf, NEW c \in BinsOf, BinLess(a, b), BinLess(b, c)
      PROVE  BinLess(a, c)
  <2>1. CASE a.sum < b.sum \/ b.sum < c.sum
    BY <1>1, <1>3, <2>1 DEF BinLess
  <2>2. CASE a.sum = b.sum /\ b.sum = c.sum
    <3>1. CASE Len(a.items) < Len(b.items) \/ Len(b.items) < Len(c.items)
      BY <1>1, <1>3, <2>2, <3>1 DEF BinLess
    <3>2. CASE Len(a.items) = Len(b.items) /\ Len(b.items) = Len(c.items)
      <4>1. ItemsLess(a.items, b.items) /\ ItemsLess(b.items, c.items)
        BY <1>1, <1>3, <2>2, <3>2 DEF BinLess
      <4>2. ItemsLess(a.items, c.items)
        BY <1>1, <3>2, <4>1, ItemsOrder
      <4>. QED  BY <2>2, <3>2, <4>2 DEF BinLess
    <3>. QED  BY <1>1, <1>3, <2>2, <3>1, <3>2 DEF BinLess
  <2>. QED  BY <1>1, <1>3, <2>1, <2>2 DEF BinLess
<1>4. ASSUME NEW a \in BinsOf, NEW b \in BinsOf, a # b
      PROVE  BinLess(a, b) \/ BinLess(b, a)
  <2>1. CASE a.sum # b.sum \/ Len(a.items) # Len(b.items)
    BY <1>1, <2>1 DEF BinLess
  <2>2. CASE a.sum = b.sum /\ Len(a.items) = Len(b.items)
    <3>1. a.items # b.items
      BY <1>1, <1>4, <2>2
    <3>2. ItemsLess(a.items, b.items) \/ ItemsLess(b.items, a.items)
      BY <1>1, <2>2, <3>1, ItemsOrder
    <3>. QED  BY <2>2, <3>2 DEF BinLess
  <2>. QED  BY <2>1, <2>2
<1>. QED  BY <1>2, <1>3, <1>4

\* sorted(reverse=True): a permutation, the largest bin first.
LEMMA DescendingIs ==
    ASSUME NEW k \in Nat, NEW bs \in [1 .. k -> BinsOf]
    PROVE  /\ Descending(bs) \in [1 .. k -> BinsOf]
           /\ \E p \in Bijection(1 .. k, 1 .. k) :
                 \A i \in 1 .. k : Descending(bs)[i] = bs[p[i]]
           /\ \A i, j \in 1 .. k : i < j => ~ BinLess(Descending(bs)[i], Descending(bs)[j])
           /\ k # 0 => \A i \in 1 .. k : ~ BinLess(Descending(bs)[1], bs[i])
<1>. DEFINE S == 1 .. k
            Above(i, j) == BinLess(bs[j], bs[i]) \/ (bs[i] = bs[j] /\ i < j)
            R == {p \in S \X S : Above(p[1], p[2])}
            rank(x) == Cardinality({y \in S : Above(y, x)})
            L == Listing(S, Above)
<1>1. IsFiniteSet(S) /\ Cardinality(S) = k
  <2>1. IsFiniteSet(1 .. k) /\ Cardinality(1 .. k) = IF 1 > k THEN 0 ELSE k - 1 + 1
    BY FS_Interval
  <2>. QED  BY <2>1
<1>2. \A x, y \in S : <<x, y>> \in R <=> Above(x, y)
  OBVIOUS
<1>3. StrictOrder(S, R)
  <2>1. ASSUME NEW x \in S PROVE ~ Above(x, x)
    BY BinOrder
  <2>2. ASSUME NEW x \in S, NEW y \in S, NEW z \in S, Above(x, y), Above(y, z)
        PROVE  Above(x, z)
    <3>1. bs[x] \in BinsOf /\ bs[y] \in BinsOf /\ bs[z] \in BinsOf /\ x \in Int /\ y \in Int /\ z \in Int
      OBVIOUS
    <3>. QED  BY <2>2, <3>1, BinOrder
  <2>3. ASSUME NEW x \in S, NEW y \in S PROVE x = y \/ Above(x, y) \/ Above(y, x)
    <3>1. bs[x] \in BinsOf /\ bs[y] \in BinsOf /\ x \in Int /\ y \in Int
      OBVIOUS
    <3>. QED  BY <3>1, BinOrder
  <2>. HIDE DEF R, Above
  <2>. QED  BY <1>2, <2>1, <2>2, <2>3 DEF StrictOrder
<1>4. \A x \in S : rank(x) = Rank(S, R, x)
  <2>. HIDE DEF Above, R
  <2>1. \A x \in S : {y \in S : Above(y, x)} = Ahead(S, R, x)
    BY <1>2 DEF Ahead
  <2>. QED  BY <2>1 DEF Rank
<1>5. L = [i \in S |-> CHOOSE x \in S : rank(x) = i - 1]
  <2>. DEFINE f == [i \in 1 .. Cardinality(S) |-> CHOOSE x \in S : rank(x) = i - 1]
  <2>1. L = AtOnce(f)
    BY DEF Listing
  <2>. HIDE DEF L, rank
  <2>2. f = [i \in 1 .. k |-> f[i]]
    BY <1>1
  <2>. HIDE DEF f
  <2>3. L = f
    BY <2>1, <2>2, SequenceAtOnce
  <2>. QED  BY <1>1, <2>3 DEF f
<1>6. ListsOnce(L, S, R)
  <2>. HIDE DEF L, rank
  <2>1. L = [i \in 1 .. k |-> L[i]]
    BY <1>5
  <2>2. ASSUME NEW i \in S, \E x \in S : Rank(S, R, x) = i - 1
        PROVE  L[i] \in S /\ Rank(S, R, L[i]) = i - 1
    <3>1. \E x \in S : rank(x) = i - 1
      BY <1>4, <2>2
    <3>2. L[i] = CHOOSE x \in S : rank(x) = i - 1
      BY <1>5
    <3>. HIDE DEF S
    <3>3. L[i] \in S /\ rank(L[i]) = i - 1
      BY <3>1, <3>2
    <3>. QED  BY <1>4, <3>3
  <2>. QED  BY <1>1, <2>1, <2>2 DEF ListsOnce
<1>7. Descending(bs) = AtOnce([i \in S |-> bs[L[i]]])
  BY DEF Descending
<1>. HIDE DEF L, R, rank, Above
<1>8. /\ L \in Bijection(1 .. k, 1 .. k)
      /\ \A x \in S : Rank(S, R, x) + 1 \in 1 .. k /\ L[Rank(S, R, x) + 1] = x
      /\ \A x, y \in S : <<x, y>> \in R => Rank(S, R, x) < Rank(S, R, y)
  BY <1>1, <1>3, <1>6, RankLists
<1>9. \A i \in S : L[i] \in S
  BY <1>8 DEF Bijection, Injection
<1>10. Descending(bs) = [i \in S |-> bs[L[i]]]
  <2>. DEFINE g == [i \in S |-> bs[L[i]]]
  <2>1. g = [i \in 1 .. k |-> g[i]]
    OBVIOUS
  <2>. HIDE DEF g
  <2>2. AtOnce(g) = g
    BY <2>1, SequenceAtOnce
  <2>. QED  BY <1>7, <2>2 DEF g
<1>11. \A i \in S : Rank(S, R, L[i]) = i - 1
  <2>. TAKE i \in S
  <2>1. Rank(S, R, L[i]) + 1 \in S /\ L[Rank(S, R, L[i]) + 1] = L[i]
    BY <1>8, <1>9
  <2>2. Rank(S, R, L[i]) + 1 = i
    BY <1>8, <2>1 DEF Bijection, Injection, IsInjective
  <2>3. Rank(S, R, L[i]) \in Int
    <3>1. IsFiniteSet(Ahead(S, R, L[i]))
      BY <1>1, FS_Subset DEF Ahead
    <3>. QED  BY <3>1, FS_CardinalityType DEF Rank
  <2>. QED  BY <2>2, <2>3
<1>12. ASSUME k # 0, NEW i \in S PROVE ~ BinLess(Descending(bs)[1], bs[i])
  <2>1. 1 \in S
    BY <1>12
  <2>2. Rank(S, R, L[1]) = 0
    BY <1>11, <2>1
  <2>3. Ahead(S, R, L[1]) = {}
    <3>1. IsFiniteSet(Ahead(S, R, L[1]))
      BY <1>1, FS_Subset DEF Ahead
    <3>. QED  BY <2>2, <3>1, FS_EmptySet DEF Rank
  <2>4. ~ Above(i, L[1])
    BY <1>2, <1>9, <2>1, <2>3 DEF Ahead
  <2>. QED  BY <1>10, <2>1, <2>4 DEF Above
<1>13. ASSUME NEW i \in S, NEW j \in S, i < j
       PROVE  ~ BinLess(Descending(bs)[i], Descending(bs)[j])
  <2>1. ~ (j - 1 < i - 1)
    BY <1>13
  <2>2. <<L[j], L[i]>> \notin R
    BY <1>8, <1>9, <1>11, <2>1
  <2>3. ~ Above(L[j], L[i])
    BY <1>2, <1>9, <2>2
  <2>. QED  BY <1>10, <2>3 DEF Above
<1>. QED  BY <1>8, <1>9, <1>10, <1>12, <1>13

\* A finite set has a first item in a strict order.
LEMMA FirstExists ==
    ASSUME NEW S, IsFiniteSet(S), S # {}, NEW R, StrictOrder(S, R)
    PROVE  \E x \in S : \A y \in S \ {x} : <<x, y>> \in R
<1>. DEFINE rank(x) == Rank(S, R, x)
            L == [i \in 1 .. Cardinality(S) |-> CHOOSE x \in S : rank(x) = i - 1]
<1>1. ListsOnce(L, S, R)
  <2>1. ASSUME NEW i \in 1 .. Cardinality(S), \E x \in S : Rank(S, R, x) = i - 1
        PROVE  L[i] \in S /\ Rank(S, R, L[i]) = i - 1
    <3>1. L[i] = CHOOSE x \in S : rank(x) = i - 1
      OBVIOUS
    <3>2. \E x \in S : rank(x) = i - 1
      BY <2>1
    <3>. HIDE DEF L, rank
    <3>3. L[i] \in S /\ rank(L[i]) = i - 1
      BY <3>1, <3>2
    <3>. QED  BY <3>3 DEF rank
  <2>2. L = [i \in 1 .. Cardinality(S) |-> L[i]]
    OBVIOUS
  <2>. HIDE DEF L
  <2>. QED  BY <2>1, <2>2 DEF ListsOnce
<1>. HIDE DEF L
<1>2. /\ Cardinality(S) \in Nat /\ L \in Bijection(1 .. Cardinality(S), S)
      /\ \A x \in S : Rank(S, R, x) + 1 \in 1 .. Cardinality(S) /\ L[Rank(S, R, x) + 1] = x
  BY <1>1, RankLists
<1>3. 1 \in 1 .. Cardinality(S) /\ L[1] \in S
  <2>1. PICK y \in S : TRUE
    OBVIOUS
  <2>2. 1 \in 1 .. Cardinality(S)
    BY <1>2, <2>1
  <2>. QED  BY <1>2, <2>2 DEF Bijection, Injection
<1>4. IsFiniteSet(Ahead(S, R, L[1]))
  BY FS_Subset DEF Ahead
<1>5. Rank(S, R, L[1]) = 0
  <2>1. Rank(S, R, L[1]) + 1 = 1
    BY <1>2, <1>3 DEF Bijection, Injection, IsInjective
  <2>2. Rank(S, R, L[1]) \in Int
    BY <1>4, FS_CardinalityType DEF Rank
  <2>. QED  BY <2>1, <2>2
<1>6. Ahead(S, R, L[1]) = {}
  BY <1>4, <1>5, FS_EmptySet DEF Rank
<1>7. \A y \in S \ {L[1]} : <<L[1], y>> \in R
  BY <1>3, <1>6 DEF Ahead, StrictOrder
<1>. QED  BY <1>3, <1>7

----------------------------------------------------------------------------
\* The states of the heap share the items among their bins.

Once(b) == \A p, q \in DOMAIN b.items : b.items[p] = b.items[q] => p = q
Has(b, x) == x \in Range(b.items)
Filled(s, k) == \A i \in 1 .. k : s[i].items # <<>>
Singles(s, k) == \A i \in 1 .. k : Len(s[i].items) <= 1
Even(s, k) == \A i, j \in 1 .. k : Len(s[i].items) = Len(s[j].items)
StateInv(s, k) ==
    /\ s \in [1 .. k -> BinsOf] /\ s[1].items # <<>>
    /\ \A i \in 1 .. k : s[i].items = <<>> <=> s[i].sum = 0
    /\ \A i \in 1 .. k : Once(s[i])
    /\ \A i, j \in 1 .. k : i < j /\ s[j].items # <<>> => s[i].items # <<>>
    /\ Filled(s, k) \/ Singles(s, k)

\* A bin and its items.
LEMMA BinFacts ==
    ASSUME NEW b \in BinsOf
    PROVE  /\ b.sum \in Nat /\ b.items \in Seq(Nat) /\ Len(b.items) \in Nat
           /\ DOMAIN b.items = 1 .. Len(b.items)
           /\ b.items = <<>> <=> Len(b.items) = 0
           /\ b.items # <<>> => \E x : Has(b, x)
<1>1. b.sum \in Nat /\ b.items \in Seq(Nat)
  BY DEF BinsOf
<1>2. Len(b.items) \in Nat /\ DOMAIN b.items = 1 .. Len(b.items)
      /\ (b.items = <<>> <=> Len(b.items) = 0)
  BY <1>1
<1>3. b.items # <<>> => Has(b, b.items[1])
  BY <1>2 DEF Has, Range
<1>. QED  BY <1>1, <1>2, <1>3

\* c is s followed by t.
Concatenation(s, t, m, n, c) ==
    /\ m \in Nat /\ n \in Nat /\ c \in Seq(Nat) /\ Len(c) = m + n
    /\ DOMAIN s = 1 .. m /\ DOMAIN t = 1 .. n /\ DOMAIN c = 1 .. m + n
    /\ \A i \in 1 .. m : i \in 1 .. m + n /\ c[i] = s[i]
    /\ \A i \in 1 .. n : m + i \in 1 .. m + n /\ c[m + i] = t[i]
    /\ \A i \in 1 .. m + n : \/ i \in 1 .. m /\ c[i] = s[i]
                             \/ \E j \in 1 .. n : i = m + j /\ c[i] = t[j]

\* The items of a concatenation.
LEMMA ConcatIs ==
    ASSUME NEW s \in Seq(Nat), NEW t \in Seq(Nat), NEW m, m = Len(s), NEW n, n = Len(t),
           NEW c, c = s \o t
    PROVE  Concatenation(s, t, m, n, c)
<1>1. /\ m \in Nat /\ n \in Nat /\ c \in Seq(Nat) /\ Len(c) = m + n
      /\ DOMAIN s = 1 .. m /\ DOMAIN t = 1 .. n /\ DOMAIN c = 1 .. m + n
  OBVIOUS
<1>2. ASSUME NEW i \in 1 .. m PROVE i \in 1 .. m + n /\ c[i] = s[i]
  BY <1>1
<1>3. ASSUME NEW i \in 1 .. n PROVE m + i \in 1 .. m + n /\ c[m + i] = t[i]
  <2>1. m + i \in 1 .. m + n /\ ~ (m + i <= m) /\ m + i - m = i
    BY <1>1
  <2>. QED  BY <1>1, <2>1
<1>4. ASSUME NEW i \in 1 .. m + n, i \notin 1 .. m
      PROVE  \E j \in 1 .. n : i = m + j /\ c[i] = t[j]
  <2>1. i - m \in 1 .. n /\ i = m + (i - m)
    BY <1>1, <1>4
  <2>. QED  BY <1>3, <2>1
<1>. QED  BY <1>1, <1>2, <1>3, <1>4 DEF Concatenation

\* The items of two bins put together: each once, if they share none.
LEMMA JoinIs ==
    ASSUME NEW a \in BinsOf, NEW b \in BinsOf
    PROVE  /\ Join(a, b) \in BinsOf /\ Join(a, b).sum = a.sum + b.sum
           /\ \A x : Has(Join(a, b), x) <=> Has(a, x) \/ Has(b, x)
           /\ Len(Join(a, b).items) = Len(a.items) + Len(b.items)
           /\ Join(a, b).items = <<>> <=> a.items = <<>> /\ b.items = <<>>
           /\ Once(a) /\ Once(b) /\ (\A x : ~ (Has(a, x) /\ Has(b, x))) => Once(Join(a, b))
<1>. DEFINE s == a.items
            t == b.items
            c == s \o t
            m == Len(s)
            n == Len(t)
<1>1. /\ a.sum \in Nat /\ b.sum \in Nat /\ s \in Seq(Nat) /\ t \in Seq(Nat)
      /\ (s = <<>> <=> m = 0) /\ (t = <<>> <=> n = 0)
  BY BinFacts
<1>2. Join(a, b).sum = a.sum + b.sum /\ Join(a, b).items = c
  BY DEF Join, c
<1>. HIDE DEF m, n, c
<1>3. /\ m \in Nat /\ n \in Nat /\ c \in Seq(Nat) /\ Len(c) = m + n
      /\ DOMAIN s = 1 .. m /\ DOMAIN t = 1 .. n /\ DOMAIN c = 1 .. m + n
      /\ \A i \in 1 .. m : i \in 1 .. m + n /\ c[i] = s[i]
      /\ \A i \in 1 .. n : m + i \in 1 .. m + n /\ c[m + i] = t[i]
      /\ \A i \in 1 .. m + n : \/ i \in 1 .. m /\ c[i] = s[i]
                               \/ \E j \in 1 .. n : i = m + j /\ c[i] = t[j]
  <2>1. m = Len(s) /\ n = Len(t) /\ c = s \o t
    BY DEF m, n, c
  <2>. HIDE DEF s, t
  <2>2. Concatenation(s, t, m, n, c)
    BY <1>1, <2>1, ConcatIs
  <2>. QED  BY <2>2 DEF Concatenation
<1>4. Join(a, b) \in BinsOf
  BY <1>1, <1>3 DEF Join, BinsOf, c
<1>. HIDE DEF s, t
<1>5. ASSUME NEW x PROVE x \in Range(c) <=> x \in Range(s) \/ x \in Range(t)
  <2>1. ASSUME NEW i \in 1 .. m + n PROVE c[i] \in Range(s) \/ c[i] \in Range(t)
    <3>1. CASE i \in 1 .. m /\ c[i] = s[i]
      BY <1>3, <3>1 DEF Range
    <3>2. CASE \E j \in 1 .. n : i = m + j /\ c[i] = t[j]
      BY <1>3, <3>2 DEF Range
    <3>. QED  BY <1>3, <3>1, <3>2
  <2>2. ASSUME NEW i \in 1 .. m PROVE s[i] \in Range(c)
    BY <1>3 DEF Range
  <2>3. ASSUME NEW i \in 1 .. n PROVE t[i] \in Range(c)
    BY <1>3 DEF Range
  <2>4. x \in Range(c) => x \in Range(s) \/ x \in Range(t)
    BY <1>3, <2>1 DEF Range
  <2>5. x \in Range(s) => x \in Range(c)
    <3>1. x \in Range(s) => \E i \in 1 .. m : x = s[i]
      BY <1>3 DEF Range
    <3>. QED  BY <2>2, <3>1
  <2>6. x \in Range(t) => x \in Range(c)
    <3>1. x \in Range(t) => \E i \in 1 .. n : x = t[i]
      BY <1>3 DEF Range
    <3>. QED  BY <2>3, <3>1
  <2>. QED  BY <2>4, <2>5, <2>6
<1>6. c = <<>> <=> s = <<>> /\ t = <<>>
  <2>1. c = <<>> <=> Len(c) = 0
    BY <1>3
  <2>. QED  BY <1>1, <1>3, <2>1
<1>7. ASSUME Once(a), Once(b), \A x : ~ (Has(a, x) /\ Has(b, x)) PROVE Once(Join(a, b))
  <2>1. /\ \A p, q \in 1 .. m : s[p] = s[q] => p = q
        /\ \A p, q \in 1 .. n : t[p] = t[q] => p = q
    BY <1>3, <1>7 DEF Once, s, t
  <2>2. \A p \in 1 .. m, q \in 1 .. n : s[p] # t[q]
    <3>. SUFFICES ASSUME NEW p \in 1 .. m, NEW q \in 1 .. n, s[p] = t[q] PROVE FALSE
      OBVIOUS
    <3>1. s[p] \in Range(s) /\ t[q] \in Range(t)
      BY <1>3 DEF Range
    <3>2. Has(a, s[p]) /\ Has(b, s[p])
      BY <3>1 DEF Has, s, t
    <3>. QED  BY <1>7, <3>2
  <2>. SUFFICES ASSUME NEW p \in 1 .. m + n, NEW q \in 1 .. m + n, c[p] = c[q] PROVE p = q
    BY <1>2, <1>3 DEF Once
  <2>3. CASE p \in 1 .. m /\ q \in 1 .. m
    BY <1>3, <2>1, <2>3
  <2>4. CASE p \in 1 .. m /\ q \notin 1 .. m
    BY <1>3, <2>2, <2>4
  <2>5. CASE p \notin 1 .. m /\ q \in 1 .. m
    BY <1>3, <2>2, <2>5
  <2>6. CASE p \notin 1 .. m /\ q \notin 1 .. m
    BY <1>3, <2>1, <2>6
  <2>. QED  BY <2>3, <2>4, <2>5, <2>6
<1>8. Len(c) = m + n
  BY <1>3
<1>. QED  BY <1>2, <1>4, <1>5, <1>6, <1>7, <1>8 DEF Has, s, t, m, n

\* An item is in one bin of a state.
Alone(s, k) == \A i, j \in 1 .. k : \A x : Has(s[i], x) /\ Has(s[j], x) => i = j
Holds(s, k, x) == \E i \in 1 .. k : Has(s[i], x)

\* State.merge.
LEMMA MergeIs ==
    ASSUME NEW k \in Nat \ {0}, NEW s, NEW t, StateInv(s, k), StateInv(t, k),
           Alone(s, k), Alone(t, k), \A x : ~ (Holds(s, k, x) /\ Holds(t, k, x))
    PROVE  /\ StateInv(Merge(s, t), k) /\ Alone(Merge(s, t), k)
           /\ \A x : Holds(Merge(s, t), k, x) <=> Holds(s, k, x) \/ Holds(t, k, x)
           /\ Even(s, k) /\ Even(t, k) => Even(Merge(s, t), k)
<1>. DEFINE K == 1 .. k
            m == Merge(s, t)
            o == [i \in K |-> k + 1 - i]
            jn == [i \in K |-> Join(s[i], t[o[i]])]
<1>1. /\ s \in [K -> BinsOf] /\ t \in [K -> BinsOf] /\ 1 \in K /\ k \in K /\ Len(s) = k
      /\ \A i \in K : o[i] \in K /\ o[o[i]] = i
  BY DEF StateInv
<1>2. m = Descending(jn)
  <2>1. m = Descending(AtOnce(jn))
    BY <1>1 DEF Merge, Pairing, Opposite
  <2>2. jn = [i \in 1 .. k |-> jn[i]]
    OBVIOUS
  <2>. HIDE DEF jn, m
  <2>. QED  BY <2>1, <2>2, SequenceAtOnce
<1>3. ASSUME NEW i \in K
      PROVE  /\ jn[i] \in BinsOf /\ jn[i].sum = s[i].sum + t[o[i]].sum
             /\ \A x : Has(jn[i], x) <=> Has(s[i], x) \/ Has(t[o[i]], x)
             /\ Len(jn[i].items) = Len(s[i].items) + Len(t[o[i]].items)
             /\ jn[i].items = <<>> <=> s[i].items = <<>> /\ t[o[i]].items = <<>>
             /\ Once(jn[i])
  <2>1. s[i] \in BinsOf /\ t[o[i]] \in BinsOf /\ Once(s[i]) /\ Once(t[o[i]])
    BY <1>1 DEF StateInv
  <2>2. \A x : ~ (Has(s[i], x) /\ Has(t[o[i]], x))
    BY <1>1 DEF Holds
  <2>3. jn[i] = Join(s[i], t[o[i]])
    OBVIOUS
  <2>. HIDE DEF jn, o
  <2>4. ASSUME NEW u, NEW v, NEW w, u = s[i], v = t[o[i]], w = jn[i]
        PROVE  /\ w \in BinsOf /\ w.sum = u.sum + v.sum
               /\ \A x : Has(w, x) <=> Has(u, x) \/ Has(v, x)
               /\ Len(w.items) = Len(u.items) + Len(v.items)
               /\ w.items = <<>> <=> u.items = <<>> /\ v.items = <<>>
               /\ Once(w)
    <3>1. w = Join(u, v)
      BY <2>3, <2>4
    <3>2. u \in BinsOf /\ v \in BinsOf
      BY <2>1, <2>4
    <3>3. Once(u) /\ Once(v) /\ \A x : ~ (Has(u, x) /\ Has(v, x))
      BY <2>1, <2>2, <2>4
    <3>. QED  BY <3>1, <3>2, <3>3, JoinIs
  <2>. QED  BY <2>4
<1>. HIDE DEF jn, o
<1>4. jn \in [K -> BinsOf]
  <2>1. jn = [i \in K |-> jn[i]]
    BY DEF jn
  <2>. QED  BY <1>3, <2>1
<1>5. /\ m \in [K -> BinsOf] /\ \A j \in K : ~ BinLess(m[1], jn[j])
      /\ \E p \in Bijection(K, K) : \A i \in K : m[i] = jn[p[i]]
      /\ \A i, j \in K : i < j => ~ BinLess(m[i], m[j])
  BY <1>2, <1>4, DescendingIs
<1>6. PICK p \in Bijection(K, K) : \A i \in K : m[i] = jn[p[i]]
  BY <1>5
<1>. HIDE DEF m
<1>7. /\ \A i \in K : p[i] \in K
      /\ \A i, j \in K : p[i] = p[j] => i = j
      /\ \A j \in K : \E i \in K : p[i] = j
  BY <1>6 DEF Bijection, Injection, IsInjective, Surjection
<1>8. \A i \in K : s[i] \in BinsOf /\ t[i] \in BinsOf /\ m[i] \in BinsOf
  BY <1>1, <1>5
<1>9. ASSUME NEW i \in K PROVE m[i].items = <<>> <=> m[i].sum = 0
  <2>. DEFINE j == p[i]
  <2>1. j \in K /\ o[j] \in K /\ m[i] = jn[j]
    BY <1>1, <1>6, <1>7
  <2>. HIDE DEF j
  <2>2. s[j].sum \in Nat /\ t[o[j]].sum \in Nat
    BY <1>8, <2>1, BinFacts
  <2>3. (s[j].items = <<>> <=> s[j].sum = 0) /\ (t[o[j]].items = <<>> <=> t[o[j]].sum = 0)
    BY <2>1 DEF StateInv
  <2>4. /\ jn[j].sum = s[j].sum + t[o[j]].sum
        /\ jn[j].items = <<>> <=> s[j].items = <<>> /\ t[o[j]].items = <<>>
    BY <1>3, <2>1
  <2>5. ASSUME NEW x \in Nat, NEW y \in Nat PROVE x + y = 0 <=> x = 0 /\ y = 0
    OBVIOUS
  <2>6. jn[j].sum = 0 <=> s[j].sum = 0 /\ t[o[j]].sum = 0
    <3>1. PICK x \in Nat, y \in Nat : x = s[j].sum /\ y = t[o[j]].sum
      BY <2>2
    <3>2. jn[j].sum = x + y
      BY <2>4, <3>1
    <3>. QED  BY <2>5, <3>1, <3>2
  <2>. QED  BY <2>1, <2>3, <2>4, <2>6
<1>10. m[1].items # <<>>
  <2>. SUFFICES ASSUME m[1].items = <<>> PROVE FALSE
    OBVIOUS
  <2>1. m[1].sum = 0 /\ Len(m[1].items) = 0
    BY <1>1, <1>8, <1>9, BinFacts
  <2>2. jn[1].items # <<>> /\ jn[1] \in BinsOf /\ jn[1].sum \in Nat /\ Len(jn[1].items) \in Nat
    BY <1>1, <1>3, BinFacts DEF StateInv
  <2>3. PICK i \in K : p[i] = 1
    BY <1>1, <1>7
  <2>4. jn[1].sum # 0
    BY <1>6, <1>9, <2>2, <2>3
  <2>5. BinLess(m[1], jn[1])
    BY <2>1, <2>2, <2>4 DEF BinLess
  <2>. QED  BY <1>1, <1>5, <2>5
<1>11. ASSUME NEW i \in K PROVE Once(m[i])
  <2>1. m[i] = jn[p[i]] /\ p[i] \in K
    BY <1>6, <1>7
  <2>2. Once(jn[p[i]])
    BY <1>3, <2>1
  <2>. QED  BY <2>1, <2>2
<1>12. Alone(m, k)
  <2>. SUFFICES ASSUME NEW i \in K, NEW j \in K, NEW x, Has(m[i], x), Has(m[j], x) PROVE i = j
    BY DEF Alone
  <2>1. /\ p[i] \in K /\ p[j] \in K /\ o[p[i]] \in K /\ o[p[j]] \in K
        /\ Has(jn[p[i]], x) /\ Has(jn[p[j]], x)
    BY <1>1, <1>6, <1>7
  <2>2. /\ Has(s[p[i]], x) \/ Has(t[o[p[i]]], x)
        /\ Has(s[p[j]], x) \/ Has(t[o[p[j]]], x)
    BY <1>3, <2>1
  <2>3. p[i] = p[j] \/ o[p[i]] = o[p[j]]
    BY <2>1, <2>2 DEF Alone, Holds
  <2>4. p[i] = p[j]
    BY <1>1, <2>1, <2>3
  <2>. QED  BY <1>7, <2>4
<1>13. ASSUME NEW x PROVE Holds(m, k, x) <=> Holds(s, k, x) \/ Holds(t, k, x)
  <2>1. Holds(m, k, x) => \E j \in K : Has(jn[j], x)
    BY <1>6, <1>7 DEF Holds
  <2>2. (\E j \in K : Has(jn[j], x)) => Holds(m, k, x)
    <3>1. ASSUME NEW j \in K PROVE \E i \in K : m[i] = jn[j]
      <4>1. PICK i \in K : p[i] = j
        BY <1>7
      <4>. QED  BY <1>6, <4>1
    <3>. QED  BY <3>1 DEF Holds
  <2>3. (\E j \in K : Has(jn[j], x)) => Holds(s, k, x) \/ Holds(t, k, x)
    BY <1>1, <1>3 DEF Holds
  <2>4. Holds(s, k, x) => \E j \in K : Has(jn[j], x)
    BY <1>3 DEF Holds
  <2>5. Holds(t, k, x) => \E j \in K : Has(jn[j], x)
    <3>1. \A j \in K : Has(t[j], x) => Has(jn[o[j]], x)
      BY <1>1, <1>3
    <3>. QED  BY <1>1, <3>1 DEF Holds
  <2>. QED  BY <2>1, <2>2, <2>3, <2>4, <2>5
<1>14. ASSUME Even(s, k), Even(t, k) PROVE Even(m, k)
  <2>1. \A i, j \in K : Len(jn[i].items) = Len(jn[j].items)
    <3>. TAKE i \in K, j \in K
    <3>1. Len(s[i].items) = Len(s[j].items) /\ Len(t[o[i]].items) = Len(t[o[j]].items)
      BY <1>1, <1>14 DEF Even
    <3>. QED  BY <1>3, <3>1
  <2>2. \A i \in K : m[i] = jn[p[i]] /\ p[i] \in K
    BY <1>6, <1>7
  <2>. HIDE DEF K
  <2>3. \A i, j \in K : Len(m[i].items) = Len(m[j].items)
    BY <2>1, <2>2
  <2>. QED  BY <2>3 DEF Even, K
<1>15. ASSUME NEW i \in K, NEW j \in K, i < j, m[j].items # <<>> PROVE m[i].items # <<>>
  <2>. SUFFICES ASSUME m[i].items = <<>> PROVE FALSE
    OBVIOUS
  <2>1. /\ m[i].sum = 0 /\ Len(m[i].items) = 0
        /\ m[j].sum # 0 /\ m[j].sum \in Nat
    BY <1>8, <1>9, <1>15, BinFacts
  <2>2. BinLess(m[i], m[j])
    BY <2>1 DEF BinLess
  <2>. QED  BY <1>5, <1>15, <2>2
<1>16. Filled(m, k) \/ Singles(m, k)
  <2>1. CASE \A j \in K : jn[j].items # <<>>
    <3>1. \A j \in K : m[j] = jn[p[j]] /\ p[j] \in K
      BY <1>6, <1>7
    <3>. QED  BY <2>1, <3>1 DEF Filled
  <2>2. CASE \E j \in K : jn[j].items = <<>>
    <3>1. PICK z \in K : jn[z].items = <<>>
      BY <2>2
    <3>2. s[z].items = <<>> /\ t[o[z]].items = <<>> /\ o[z] \in K
      BY <1>1, <1>3, <3>1
    <3>3. Singles(s, k) /\ Singles(t, k)
      BY <3>2 DEF StateInv, Filled
    <3>4. ASSUME NEW j \in K PROVE Len(jn[j].items) <= 1
      <4>1. s[j].items = <<>> \/ t[o[j]].items = <<>>
        <5>1. j < z \/ j = z \/ z < j
          OBVIOUS
        <5>2. j < z => o[z] < o[j]
          BY DEF o
        <5>3. z < j => s[j].items = <<>>
          BY <3>2 DEF StateInv
        <5>4. j < z => t[o[j]].items = <<>>
          BY <1>1, <3>2, <5>2 DEF StateInv
        <5>. QED  BY <3>2, <5>1, <5>3, <5>4
      <4>2. /\ Len(s[j].items) <= 1 /\ Len(t[o[j]].items) <= 1
            /\ Len(s[j].items) \in Nat /\ Len(t[o[j]].items) \in Nat
        BY <1>1, <1>8, <3>3, BinFacts DEF Singles
      <4>3. Len(<<>>) = 0
        OBVIOUS
      <4>4. Len(jn[j].items) = Len(s[j].items) + Len(t[o[j]].items)
        BY <1>3
      <4>5. CASE s[j].items = <<>>
        BY <4>2, <4>3, <4>4, <4>5
      <4>6. CASE t[o[j]].items = <<>>
        BY <4>2, <4>3, <4>4, <4>6
      <4>. QED  BY <4>1, <4>5, <4>6
    <3>5. \A j \in K : m[j] = jn[p[j]] /\ p[j] \in K
      BY <1>6, <1>7
    <3>. QED  BY <3>4, <3>5 DEF Singles
  <2>. QED  BY <2>1, <2>2
<1>17. StateInv(m, k)
  BY <1>5, <1>9, <1>10, <1>11, <1>15, <1>16 DEF StateInv
<1>. QED  BY <1>12, <1>13, <1>14, <1>17 DEF m

\* The heap: every item is in one bin of one state.
HeapInv(P, n, k, e) ==
    /\ IsFiniteSet(P)
    /\ \A s \in P : StateInv(s, k) /\ Alone(s, k) /\ (e => Even(s, k))
    /\ \A s, t \in P : \A x : Holds(s, k, x) /\ Holds(t, k, x) => s = t
    /\ \A s \in P : \A x : Holds(s, k, x) => x \in 1 .. n
    /\ \A x \in 1 .. n : \E s \in P : Holds(s, k, x)

\* The first and the last bin of a state, and its spread.
LEMMA FirstBin ==
    ASSUME NEW k \in Nat \ {0}, NEW s, StateInv(s, k)
    PROVE  /\ s[1] \in BinsOf /\ s[k] \in BinsOf /\ Len(s) = k /\ Spread(s) \in Int
           /\ \E x : Has(s[1], x) /\ Holds(s, k, x)
<1>1. /\ s \in [1 .. k -> BinsOf] /\ 1 \in 1 .. k /\ k \in 1 .. k /\ s[1].items # <<>>
  BY DEF StateInv
<1>2. Len(s) = k
  BY <1>1
<1>3. s[1].sum \in Nat /\ s[k].sum \in Nat
  BY <1>1, BinFacts
<1>4. \E x : Has(s[1], x)
  BY <1>1, BinFacts
<1>. QED  BY <1>1, <1>2, <1>3, <1>4 DEF Spread, Holds

\* The heap has a first state.
LEMMA TopIs ==
    ASSUME NEW k \in Nat \ {0}, NEW P, IsFiniteSet(P), P # {},
           \A s \in P : StateInv(s, k),
           \A s, t \in P : \A x : Holds(s, k, x) /\ Holds(t, k, x) => s = t
    PROVE  Top(P) \in P
<1>. DEFINE R == {p \in P \X P : PopsBefore(p[1], p[2])}
<1>1. ASSUME NEW s \in P
      PROVE  s[1] \in BinsOf /\ Spread(s) \in Int /\ \E x : Has(s[1], x) /\ Holds(s, k, x)
  BY FirstBin
<1>2. ASSUME NEW s \in P, NEW t \in P, s[1] = t[1] PROVE s = t
  <2>1. PICK x : Has(s[1], x) /\ Holds(s, k, x)
    BY <1>1
  <2>2. Holds(t, k, x)
    BY <1>2, <2>1 DEF Holds
  <2>. QED  BY <2>1, <2>2
<1>3. \A s, t \in P : <<s, t>> \in R <=> PopsBefore(s, t)
  OBVIOUS
<1>. HIDE DEF R
<1>4. StrictOrder(P, R)
  <2>1. ASSUME NEW s \in P PROVE ~ PopsBefore(s, s)
    BY <1>1, BinOrder DEF PopsBefore
  <2>2. ASSUME NEW s \in P, NEW t \in P, NEW u \in P, PopsBefore(s, t), PopsBefore(t, u)
        PROVE  PopsBefore(s, u)
    <3>1. Spread(s) \in Int /\ Spread(t) \in Int /\ Spread(u) \in Int
      BY <1>1
    <3>2. BinLess(t[1], s[1]) /\ BinLess(u[1], t[1]) => BinLess(u[1], s[1])
      BY <1>1, BinOrder
    <3>. QED  BY <2>2, <3>1, <3>2 DEF PopsBefore
  <2>3. ASSUME NEW s \in P, NEW t \in P PROVE s = t \/ PopsBefore(s, t) \/ PopsBefore(t, s)
    <3>1. Spread(s) \in Int /\ Spread(t) \in Int
      BY <1>1
    <3>2. s[1] = t[1] \/ BinLess(s[1], t[1]) \/ BinLess(t[1], s[1])
      BY <1>1, BinOrder
    <3>. QED  BY <1>2, <3>1, <3>2 DEF PopsBefore
  <2>. QED  BY <1>3, <2>1, <2>2, <2>3 DEF StrictOrder
<1>5. \E s \in P : \A t \in P \ {s} : <<s, t>> \in R
  BY <1>4, FirstExists
<1>6. \E s \in P : \A t \in P \ {s} : PopsBefore(s, t)
  BY <1>3, <1>5
<1>. QED  BY <1>6 DEF Top

\* One turn of the loop: a state fewer, and the items stay where they are once.
LEMMA MergeTopIs ==
    ASSUME NEW k \in Nat \ {0}, NEW n, NEW e, NEW P, HeapInv(P, n, k, e),
           NEW c \in Nat, Cardinality(P) = c, c >= 2
    PROVE  HeapInv(MergeTop(P), n, k, e) /\ Cardinality(MergeTop(P)) = c - 1
<1>. DEFINE s == Top(P)
            t == Top(P \ {s})
            m == Merge(s, t)
            Q == (P \ {s, t}) \cup {m}
<1>1. IsFiniteSet(P) /\ P # {}
  BY FS_EmptySet DEF HeapInv
<1>2. s \in P
  BY <1>1, TopIs DEF HeapInv
<1>3. IsFiniteSet(P \ {s}) /\ Cardinality(P \ {s}) = c - 1
  BY <1>1, <1>2, FS_RemoveElement
<1>4. t \in P /\ t # s
  <2>1. P \ {s} # {}
    BY <1>3, FS_EmptySet
  <2>. HIDE DEF s
  <2>2. t \in P \ {s}
    BY <1>3, <2>1, TopIs DEF HeapInv
  <2>. QED  BY <2>2
<1>5. MergeTop(P) = Q
  BY DEF MergeTop
<1>. HIDE DEF s, t
<1>6. /\ StateInv(s, k) /\ StateInv(t, k) /\ Alone(s, k) /\ Alone(t, k)
      /\ \A x : ~ (Holds(s, k, x) /\ Holds(t, k, x))
      /\ e => Even(s, k) /\ Even(t, k)
  BY <1>2, <1>4 DEF HeapInv
<1>7. /\ StateInv(m, k) /\ Alone(m, k)
      /\ \A x : Holds(m, k, x) <=> Holds(s, k, x) \/ Holds(t, k, x)
      /\ e => Even(m, k)
  BY <1>6, MergeIs
<1>. HIDE DEF m
<1>8. m \notin P \ {s, t}
  <2>. SUFFICES ASSUME m \in P, m # s, m # t PROVE FALSE
    OBVIOUS
  <2>1. PICK x : Holds(m, k, x)
    BY <1>7, FirstBin
  <2>2. Holds(s, k, x) \/ Holds(t, k, x)
    BY <1>7, <2>1
  <2>. QED  BY <1>2, <1>4, <2>1, <2>2 DEF HeapInv
<1>9. IsFiniteSet(Q) /\ Cardinality(Q) = c - 1
  <2>1. P \ {s, t} = (P \ {s}) \ {t} /\ t \in P \ {s}
    BY <1>4
  <2>2. IsFiniteSet(P \ {s, t}) /\ Cardinality(P \ {s, t}) = c - 1 - 1
    BY <1>3, <2>1, FS_RemoveElement
  <2>3. IsFiniteSet(Q) /\ Cardinality(Q) = c - 1 - 1 + 1
    BY <1>8, <2>2, FS_AddElement
  <2>. QED  BY <2>3
<1>10. \A u \in Q : StateInv(u, k) /\ Alone(u, k) /\ (e => Even(u, k))
  BY <1>7 DEF HeapInv
<1>11. ASSUME NEW u \in Q, NEW v \in Q, NEW x, Holds(u, k, x), Holds(v, k, x) PROVE u = v
  <2>1. CASE u \in P \ {s, t} /\ v \in P \ {s, t}
    BY <1>11, <2>1 DEF HeapInv
  <2>2. CASE u \in P \ {s, t} /\ v = m
    <3>1. Holds(s, k, x) \/ Holds(t, k, x)
      BY <1>7, <1>11, <2>2
    <3>. QED  BY <1>2, <1>4, <1>11, <2>2, <3>1 DEF HeapInv
  <2>3. CASE u = m /\ v \in P \ {s, t}
    <3>1. Holds(s, k, x) \/ Holds(t, k, x)
      BY <1>7, <1>11, <2>3
    <3>. QED  BY <1>2, <1>4, <1>11, <2>3, <3>1 DEF HeapInv
  <2>. QED  BY <2>1, <2>2, <2>3
<1>12. ASSUME NEW u \in Q, NEW x, Holds(u, k, x) PROVE x \in 1 .. n
  BY <1>2, <1>4, <1>7, <1>12 DEF HeapInv
<1>13. ASSUME NEW x \in 1 .. n PROVE \E u \in Q : Holds(u, k, x)
  <2>1. PICK u \in P : Holds(u, k, x)
    BY DEF HeapInv
  <2>2. CASE u = s \/ u = t
    BY <1>7, <2>1, <2>2
  <2>3. CASE u \in P \ {s, t}
    BY <2>1, <2>3
  <2>. QED  BY <2>2, <2>3
<1>. HIDE DEF Q
<1>. QED  BY <1>5, <1>9, <1>10, <1>11, <1>12, <1>13 DEF HeapInv

\* The heaps of the loop: the first, then each merged once more.
HeapsFrom(first, m, pq) ==
    pq = [j \in 0 .. m |-> IF j = 0 THEN first ELSE MergeTop(pq[j - 1])]

\* There is such a function for any number of turns.
LEMMA HeapsExist ==
    ASSUME NEW first, NEW m \in Nat
    PROVE  \E pq : HeapsFrom(first, m, pq)
<1>. DEFINE T == {i \in Nat : ~ \E pq : HeapsFrom(first, i, pq)}
<1>. SUFFICES ASSUME T # {} PROVE FALSE
  OBVIOUS
<1>1. T \in SUBSET Nat
  OBVIOUS
<1>. HIDE DEF T
<1>2. PICK i \in T : \A j \in T : i <= j
  BY <1>1, Least
<1>. USE DEF T
<1>3. i \in Nat /\ ~ \E pq : HeapsFrom(first, i, pq)
  OBVIOUS
<1>4. i # 0
  <2>1. HeapsFrom(first, 0, [j \in 0 .. 0 |-> first])
    BY DEF HeapsFrom
  <2>. QED  BY <1>3, <2>1
<1>5. \E pq : HeapsFrom(first, i - 1, pq)
  <2>1. i - 1 \in Nat /\ ~ (i <= i - 1)
    BY <1>3, <1>4
  <2>2. i - 1 \notin T
    BY <1>2, <2>1
  <2>. QED  BY <2>1, <2>2
<1>. HIDE DEF T
<1>6. PICK pq : HeapsFrom(first, i - 1, pq)
  BY <1>5
<1>. DEFINE g == [j \in 0 .. i |-> IF j = i THEN MergeTop(pq[i - 1]) ELSE pq[j]]
<1>7. ASSUME NEW j \in 0 .. i PROVE g[j] = IF j = 0 THEN first ELSE MergeTop(g[j - 1])
  <2>1. CASE j = i
    <3>1. g[j] = MergeTop(pq[i - 1]) /\ g[i - 1] = pq[i - 1]
      BY <1>3, <1>4, <2>1
    <3>. QED  BY <1>4, <2>1, <3>1
  <2>2. CASE j # i
    <3>1. j \in 0 .. i - 1 /\ g[j] = pq[j] /\ (j # 0 => g[j - 1] = pq[j - 1])
      BY <1>3, <2>2
    <3>2. pq[j] = IF j = 0 THEN first ELSE MergeTop(pq[j - 1])
      BY <1>6, <3>1 DEF HeapsFrom
    <3>. QED  BY <3>1, <3>2
  <2>. QED  BY <2>1, <2>2
<1>8. g = [j \in 0 .. i |-> g[j]]
  OBVIOUS
<1>. HIDE DEF g
<1>9. HeapsFrom(first, i, g)
  BY <1>7, <1>8 DEF HeapsFrom
<1>. QED  BY <1>3, <1>9

\* One state is left, and it holds every item.
LEMMA MergedIs ==
    ASSUME NEW k \in Nat \ {0}, NEW n, NEW e, NEW first, HeapInv(first, n, k, e),
           NEW c \in Nat \ {0}, Cardinality(first) = c
    PROVE  HeapInv(Merged(first), n, k, e) /\ Cardinality(Merged(first)) = 1
<1>. DEFINE pq == CHOOSE f : HeapsFrom(first, c - 1, f)
<1>1. Merged(first) = pq[c - 1]
  BY DEF Merged, HeapsFrom
<1>2. HeapsFrom(first, c - 1, pq)
  <2>1. \E f : HeapsFrom(first, c - 1, f)
    BY HeapsExist
  <2>. QED  BY <2>1
<1>. HIDE DEF pq
<1>. DEFINE Good(j) == HeapInv(pq[j], n, k, e) /\ Cardinality(pq[j]) = c - j
            T == {j \in 0 .. c - 1 : ~ Good(j)}
<1>3. \A j \in 0 .. c - 1 : pq[j] = IF j = 0 THEN first ELSE MergeTop(pq[j - 1])
  BY <1>2 DEF HeapsFrom
<1>4. Good(0)
  <2>1. pq[0] = first
    BY <1>3
  <2>. QED  BY <2>1
<1>5. ASSUME NEW j \in 0 .. c - 1, j # 0, Good(j - 1) PROVE Good(j)
  <2>1. pq[j] = MergeTop(pq[j - 1])
    BY <1>3, <1>5
  <2>2. c - (j - 1) \in Nat /\ c - (j - 1) >= 2 /\ c - (j - 1) - 1 = c - j
    OBVIOUS
  <2>3. HeapInv(MergeTop(pq[j - 1]), n, k, e) /\ Cardinality(MergeTop(pq[j - 1])) = c - (j - 1) - 1
    BY <1>5, <2>2, MergeTopIs
  <2>. QED  BY <2>1, <2>2, <2>3
<1>. HIDE DEF Good
<1>6. T = {}
  <2>. SUFFICES ASSUME T # {} PROVE FALSE
    OBVIOUS
  <2>1. T \in SUBSET Nat
    <3>1. \A j \in 0 .. c - 1 : j \in Nat
      OBVIOUS
    <3>. QED  BY <3>1
  <2>. HIDE DEF T
  <2>2. PICK j \in T : \A i \in T : j <= i
    BY <2>1, Least
  <2>. USE DEF T
  <2>3. j \in 0 .. c - 1 /\ ~ Good(j) /\ j # 0
    BY <1>4
  <2>4. j - 1 \in 0 .. c - 1 /\ ~ (j <= j - 1)
    BY <2>3
  <2>5. Good(j - 1)
    BY <2>2, <2>4
  <2>. QED  BY <1>5, <2>3, <2>5
<1>7. Good(c - 1)
  BY <1>6
<1>. QED  BY <1>1, <1>7 DEF Good

\* The bin of one item, and the empty one.
LEMMA OneBin ==
    ASSUME NEW w, NEW x \in Nat, w[x] \in Nat \ {0}
    PROVE  /\ Single(w, x) \in BinsOf /\ Single(w, x).sum # 0 /\ Single(w, x).items # <<>>
           /\ Once(Single(w, x)) /\ Len(Single(w, x).items) <= 1
           /\ \A y : Has(Single(w, x), y) <=> y = x
<1>1. Single(w, x).sum = w[x] /\ Single(w, x).items = <<x>> /\ Single(w, x) \in BinsOf
  BY DEF Single, BinsOf
<1>2. DOMAIN <<x>> = {1} /\ Len(<<x>>) = 1 /\ <<x>>[1] = x /\ <<x>> # <<>>
  OBVIOUS
<1>3. Once(Single(w, x))
  BY <1>1, <1>2 DEF Once
<1>4. \A y : Has(Single(w, x), y) <=> y = x
  BY <1>1, <1>2 DEF Has, Range
<1>. QED  BY <1>1, <1>2, <1>3, <1>4

LEMMA NoBin ==
    /\ EmptyBin \in BinsOf /\ EmptyBin.sum = 0 /\ EmptyBin.items = <<>>
    /\ Once(EmptyBin) /\ Len(EmptyBin.items) <= 1 /\ \A y : ~ Has(EmptyBin, y)
<1>1. EmptyBin.sum = 0 /\ EmptyBin.items = <<>> /\ EmptyBin \in BinsOf
  BY DEF EmptyBin, BinsOf
<1>2. DOMAIN <<>> = {} /\ Len(<<>>) = 0
  OBVIOUS
<1>. QED  BY <1>1, <1>2 DEF Once, Has, Range

\* The heap begins with a state for every item.
LEMMA FirstHeap ==
    ASSUME NEW k \in Nat \ {0}, NEW n \in Nat \ {0}, NEW w \in [1 .. n -> Nat \ {0}]
    PROVE  /\ HeapInv(FirstStates(w, k, FALSE), n, k, FALSE)
           /\ Cardinality(FirstStates(w, k, FALSE)) = n
<1>. DEFINE K == 1 .. k
            N == 1 .. n
            one == [x \in N |-> [i \in K |-> IF i = 1 THEN Single(w, x) ELSE EmptyBin]]
            F == FirstStates(w, k, FALSE)
<1>1. F = {one[x] : x \in N}
  BY DEF FirstStates
<1>2. 1 \in K /\ \A i, j \in K : i < j => j # 1
  OBVIOUS
<1>3. ASSUME NEW x \in N
      PROVE  /\ Single(w, x) \in BinsOf /\ Single(w, x).sum # 0 /\ Single(w, x).items # <<>>
             /\ Once(Single(w, x)) /\ Len(Single(w, x).items) <= 1
             /\ \A y : Has(Single(w, x), y) <=> y = x
  BY OneBin
<1>4. ASSUME NEW x \in N PROVE StateInv(one[x], k) /\ Alone(one[x], k)
  <2>1. PICK b : b = Single(w, x)
    OBVIOUS
  <2>2. /\ b \in BinsOf /\ b.sum # 0 /\ b.items # <<>> /\ Once(b) /\ Len(b.items) <= 1
    BY <1>3, <2>1
  <2>3. PICK z : z = EmptyBin
    OBVIOUS
  <2>4. /\ z \in BinsOf /\ z.sum = 0 /\ z.items = <<>> /\ Once(z) /\ Len(z.items) <= 1
        /\ \A y : ~ Has(z, y)
    BY <2>3, NoBin
  <2>5. PICK s : s = one[x]
    OBVIOUS
  <2>6. s = [i \in K |-> IF i = 1 THEN b ELSE z]
    BY <2>1, <2>3, <2>5
  <2>7. \A i \in K : s[i] = IF i = 1 THEN b ELSE z
    BY <2>6
  <2>8. s \in [K -> BinsOf]
    BY <2>2, <2>4, <2>6
  <2>9. s[1] = b
    BY <1>2, <2>7
  <2>10. ASSUME NEW i \in K
         PROVE  /\ s[i].items = <<>> <=> s[i].sum = 0
                /\ Once(s[i]) /\ Len(s[i].items) <= 1
    BY <2>2, <2>4, <2>7
  <2>11. ASSUME NEW i \in K, NEW j \in K, i < j PROVE s[j].items = <<>>
    BY <1>2, <2>4, <2>7, <2>11
  <2>12. Alone(s, k)
    BY <2>4, <2>7 DEF Alone
  <2>13. Singles(s, k)
    BY <2>10 DEF Singles
  <2>14. s[1].items # <<>>
    BY <2>2, <2>9
  <2>15. StateInv(s, k)
    BY <2>8, <2>10, <2>11, <2>13, <2>14 DEF StateInv
  <2>. QED  BY <2>5, <2>12, <2>15
<1>5. ASSUME NEW x \in N, NEW y PROVE Holds(one[x], k, y) <=> y = x
  <2>1. \A i \in K : one[x][i] = IF i = 1 THEN Single(w, x) ELSE EmptyBin
    OBVIOUS
  <2>2. one[x][1] = Single(w, x)
    BY <1>2, <2>1
  <2>. HIDE DEF one
  <2>3. Has(one[x][1], y) <=> y = x
    BY <1>3, <2>2
  <2>4. \A i \in K : i # 1 => ~ Has(one[x][i], y)
    BY <2>1, NoBin
  <2>. QED  BY <1>2, <2>3, <2>4 DEF Holds
<1>6. one \in Bijection(N, F)
  <2>1. DOMAIN one = N /\ one = [x \in N |-> one[x]]
    OBVIOUS
  <2>. HIDE DEF one, F
  <2>2. \A x, y \in N : one[x] = one[y] => x = y
    BY <1>5
  <2>. QED  BY <1>1, <2>1, <2>2 DEF Bijection, Injection, Surjection, IsInjective
<1>7. IsFiniteSet(F) /\ Cardinality(F) = n
  <2>1. IsFiniteSet(N) /\ Cardinality(N) = IF 1 > n THEN 0 ELSE n - 1 + 1
    BY FS_Interval
  <2>. HIDE DEF one, F
  <2>2. ExistsBijection(N, F)
    BY <1>6 DEF ExistsBijection
  <2>3. IsFiniteSet(F) /\ Cardinality(F) = Cardinality(N)
    BY <2>1, <2>2, FS_Bijection
  <2>. QED  BY <2>1, <2>3
<1>. HIDE DEF one, F
<1>8. HeapInv(F, n, k, FALSE)
  <2>1. \A s \in F : StateInv(s, k) /\ Alone(s, k)
    BY <1>1, <1>4
  <2>2. ASSUME NEW s \in F, NEW t \in F, NEW x, Holds(s, k, x), Holds(t, k, x) PROVE s = t
    <3>1. PICK y \in N, z \in N : s = one[y] /\ t = one[z]
      BY <1>1
    <3>2. x = y /\ x = z
      BY <1>5, <2>2, <3>1
    <3>. QED  BY <3>1, <3>2
  <2>3. ASSUME NEW s \in F, NEW x, Holds(s, k, x) PROVE x \in N
    <3>1. PICK y \in N : s = one[y]
      BY <1>1
    <3>2. x = y
      BY <1>5, <2>3, <3>1
    <3>. QED  BY <3>2
  <2>4. ASSUME NEW x \in N PROVE \E s \in F : Holds(s, k, x)
    <3>1. one[x] \in F /\ Holds(one[x], k, x)
      BY <1>1, <1>5
    <3>. QED  BY <3>1
  <2>. QED  BY <1>7, <2>1, <2>2, <2>3, <2>4 DEF HeapInv
<1>. QED  BY <1>7, <1>8 DEF F

\* The partitions of Karmarkar-Karp are disjoint and hold every item.
LEMMA PartsAre ==
    ASSUME NEW k \in Nat \ {0}, NEW n \in Nat \ {0}, NEW w \in [1 .. n -> Nat \ {0}]
    PROVE  LET parts == karmarkar_karp(w, k, FALSE) IN
           /\ \A i, j \in 1 .. k : i # j => parts[i] \cap parts[j] = {}
           /\ UNION {parts[i] : i \in 1 .. k} = 1 .. n
           /\ k <= n => \A i \in 1 .. k : parts[i] # {}
<1>. DEFINE K == 1 .. k
            N == 1 .. n
            M == Merged(FirstStates(w, k, FALSE))
            last == CHOOSE s \in M : TRUE
            parts == karmarkar_karp(w, k, FALSE)
<1>1. HeapInv(M, n, k, FALSE) /\ Cardinality(M) = 1
  <2>1. PICK first : first = FirstStates(w, k, FALSE)
    OBVIOUS
  <2>2. HeapInv(first, n, k, FALSE) /\ Cardinality(first) = n
    BY <2>1, FirstHeap
  <2>3. HeapInv(Merged(first), n, k, FALSE) /\ Cardinality(Merged(first)) = 1
    BY <2>2, MergedIs
  <2>. QED  BY <2>1, <2>3
<1>2. parts = [i \in K |-> Range(last[i].items)]
  BY DEF karmarkar_karp
<1>. HIDE DEF M, parts
<1>3. last \in M /\ M = {last}
  <2>1. PICK x : M = {x}
    BY <1>1, FS_Singleton DEF HeapInv
  <2>. QED  BY <2>1
<1>. HIDE DEF last
<1>4. /\ StateInv(last, k) /\ Alone(last, k)
      /\ \A x : Holds(last, k, x) <=> x \in N
  BY <1>1, <1>3 DEF HeapInv
<1>5. \A i \in K : \A x : x \in parts[i] <=> Has(last[i], x)
  BY <1>2 DEF Has
<1>6. \A i, j \in K : i # j => parts[i] \cap parts[j] = {}
  BY <1>4, <1>5 DEF Alone
<1>7. UNION {parts[i] : i \in K} = N
  BY <1>4, <1>5 DEF Holds
<1>8. ASSUME k <= n, NEW z \in K PROVE parts[z] # {}
  <2>. SUFFICES ASSUME parts[z] = {} PROVE FALSE
    OBVIOUS
  <2>1. ASSUME NEW i \in K
        PROVE  /\ last[i] \in BinsOf
               /\ last[i].items = <<>> <=> parts[i] = {}
    <3>1. last[i] \in BinsOf
      BY <1>4 DEF StateInv
    <3>2. last[i].items # <<>> => \E x : Has(last[i], x)
      BY <3>1, BinFacts
    <3>3. last[i].items = <<>> => \A x : ~ Has(last[i], x)
      BY DEF Has, Range
    <3>. QED  BY <1>5, <3>1, <3>2, <3>3
  <2>2. Singles(last, k)
    BY <1>4, <2>1 DEF StateInv, Filled
  <2>3. ASSUME NEW i \in K, NEW x, NEW y, Has(last[i], x), Has(last[i], y) PROVE x = y
    <3>1. PICK b \in BinsOf : b = last[i]
      BY <2>1
    <3>2. Len(b.items) \in Nat /\ DOMAIN b.items = 1 .. Len(b.items) /\ Len(b.items) <= 1
      BY <2>2, <3>1, BinFacts DEF Singles
    <3>3. PICK p \in DOMAIN b.items, q \in DOMAIN b.items : x = b.items[p] /\ y = b.items[q]
      BY <2>3, <3>1 DEF Has, Range
    <3>4. p = q
      BY <3>2
    <3>. QED  BY <3>3, <3>4
  \* Every item has a bin of its own, and the empty bin is none of them.
  <2>. DEFINE D == K \ {z}
              f == [x \in N |-> CHOOSE i \in K : Has(last[i], x)]
  <2>4. ASSUME NEW x \in N PROVE f[x] \in D /\ Has(last[f[x]], x)
    <3>1. \E i \in K : Has(last[i], x)
      BY <1>4 DEF Holds
    <3>2. f[x] \in K /\ Has(last[f[x]], x)
      BY <3>1
    <3>. HIDE DEF f
    <3>. QED  BY <1>5, <3>2
  <2>5. f \in Injection(N, D)
    <3>1. f = [x \in N |-> f[x]] /\ DOMAIN f = N
      OBVIOUS
    <3>. HIDE DEF f, D
    <3>2. f \in [N -> D]
      BY <2>4, <3>1
    <3>3. \A x, y \in N : f[x] = f[y] => x = y
      <4>1. D \subseteq K
        BY DEF D
      <4>. QED  BY <2>3, <2>4, <4>1
    <3>. QED  BY <3>1, <3>2, <3>3 DEF Injection, IsInjective
  <2>6. /\ IsFiniteSet(K) /\ Cardinality(K) = k /\ Cardinality(N) = n
    <3>1. 1 \in Int /\ k \in Int /\ n \in Int /\ ~ 1 > k /\ ~ 1 > n
      OBVIOUS
    <3>2. IsFiniteSet(1 .. k) /\ Cardinality(1 .. k) = k - 1 + 1
      BY ONLY <3>1, FS_Interval
    <3>3. Cardinality(1 .. n) = n - 1 + 1
      BY ONLY <3>1, FS_Interval
    <3>. QED  BY <3>2, <3>3
  <2>7. IsFiniteSet(D) /\ Cardinality(D) = k - 1
    <3>1. z \in K
      OBVIOUS
    <3>. HIDE DEF f
    <3>2. IsFiniteSet(K \ {z}) /\ Cardinality(K \ {z}) = Cardinality(K) - 1
      BY ONLY <2>6, <3>1, FS_RemoveElement
    <3>. QED  BY <2>6, <3>2 DEF D
  <2>. HIDE DEF f, D
  <2>8. Cardinality(N) <= Cardinality(D)
    BY <2>5, <2>7, FS_Injection
  <2>. QED  BY <1>8, <2>6, <2>7, <2>8
<1>. QED  BY <1>6, <1>7, <1>8 DEF parts

----------------------------------------------------------------------------
\* A sample and its place: SampleAt numbers the rows of all ranks.

\* Quotient and remainder.
LEMMA Euclid ==
    ASSUME NEW a \in Nat, NEW b \in Nat \ {0}
    PROVE  a \div b \in Nat /\ a % b \in 0 .. b - 1 /\ a = (a \div b) * b + (a % b)
<1>1. a \div b \in Nat
  OBVIOUS
<1>2. a % b \in 0 .. b - 1
  OBVIOUS
<1>3. a % b \in Int /\ a \div b \in Int
  BY <1>1, <1>2
<1>4. a = (a \div b) * b + (a % b)
  <2>1. PICK q \in Int, r \in Int : q = a \div b /\ r = a % b
    BY <1>3
  <2>2. a = q * b + r
    BY <2>1
  <2>. QED  BY <2>1, <2>2
<1>. QED  BY <1>1, <1>2, <1>4

\* What the provers need of products.
LEMMA Products ==
    ASSUME NEW a \in Nat, NEW b \in Nat, NEW n \in Nat
    PROVE  /\ a * n \in Nat /\ (a + b) * n = a * n + b * n /\ (a + 1) * n = a * n + n
           /\ a <= b => a * n <= b * n
<1>1. a * n \in Nat /\ b * n \in Nat /\ (a + b) * n = a * n + b * n
  OBVIOUS
<1>2. (a + 1) * n = a * n + n
  OBVIOUS
<1>3. ASSUME a <= b PROVE a * n <= b * n
  <2>1. b - a \in Nat /\ b = a + (b - a)
    BY <1>3
  <2>2. PICK d \in Nat : b = a + d
    BY <2>1
  <2>3. b * n = a * n + d * n /\ d * n \in Nat
    BY <2>2
  <2>. QED  BY <1>1, <2>3
<1>. QED  BY <1>1, <1>2, <1>3

\* Quotient and remainder are unique.
LEMMA EuclidUnique ==
    ASSUME NEW b \in Nat \ {0}, NEW q \in Nat, NEW r \in 0 .. b - 1, NEW a \in Nat,
           a = q * b + r
    PROVE  a \div b = q /\ a % b = r
<1>1. /\ a \div b \in Nat /\ a % b \in 0 .. b - 1
      /\ a = (a \div b) * b + (a % b)
  BY Euclid
<1>2. ASSUME NEW x \in Nat, NEW y \in Nat, NEW u \in 0 .. b - 1, NEW v \in 0 .. b - 1,
             x * b + u = y * b + v, x < y
      PROVE  FALSE
  <2>1. x + 1 \in Nat /\ x + 1 <= y /\ b \in Nat
    BY <1>2
  <2>2. x * b \in Nat /\ y * b \in Nat /\ (x + 1) * b = x * b + b
    BY <2>1, Products
  <2>3. (x + 1) * b <= y * b
    BY <2>1, Products
  <2>. QED  BY <1>2, <2>2, <2>3
<1>3. a \div b = q
  <2>1. PICK x \in Nat, u \in 0 .. b - 1 : x = a \div b /\ u = a % b /\ a = x * b + u
    BY <1>1
  <2>2. ~(x < q) /\ ~(q < x)
    BY <1>2, <2>1
  <2>. QED  BY <2>1, <2>2
<1>4. q * b \in Nat
  BY Products
<1>. QED  BY <1>1, <1>3, <1>4

\* What the assumptions say of the sizes.
LEMMA Sizes ==
    /\ DpSize \in Nat \ {0} /\ Local \in Nat \ {0} /\ DpSize * Local \in Nat
    /\ \A r \in Ranks : r \in Nat /\ r + 1 \in 1 .. DpSize
    /\ \A i \in Places : i \in Nat
    /\ \A s \in Samples : s \in Nat /\ s >= 1
<1>1. /\ DpSize \in Nat \ {0} /\ Local \in Nat \ {0}
  BY BatchPlanAssumption DEF BatchPlanAssumption
<1>2. DpSize * Local \in Nat
  BY <1>1, Products
<1>. QED  BY <1>1, <1>2 DEF Ranks, Places, Samples

\* SampleAt, OrigRank and OrigIdx translate back and forth.
LEMMA SamplePlaces ==
    /\ \A r \in Ranks, i \in Places : /\ SampleAt(r, i) \in Samples
                                      /\ OrigRank(SampleAt(r, i)) = r
                                      /\ OrigIdx(SampleAt(r, i)) = i
    /\ \A s \in Samples : /\ OrigRank(s) \in Ranks /\ OrigIdx(s) \in Places
                          /\ SampleAt(OrigRank(s), OrigIdx(s)) = s
<1>1. ASSUME NEW r \in Ranks, NEW i \in Places
      PROVE  /\ SampleAt(r, i) \in Samples /\ OrigRank(SampleAt(r, i)) = r
             /\ OrigIdx(SampleAt(r, i)) = i
  <2>1. /\ r \in Nat /\ r + 1 <= DpSize /\ DpSize \in Nat /\ i \in Nat /\ i - 1 \in 0 .. Local - 1
        /\ i \in 1 .. Local /\ Local \in Nat \ {0} /\ r + 1 \in Nat
    BY Sizes DEF Ranks, Places
  <2>2. /\ r * Local \in Nat /\ (r + 1) * Local = r * Local + Local
        /\ (r + 1) * Local <= DpSize * Local
    BY <2>1, Products
  <2>3. PICK q \in Nat : q = r * Local
    BY <2>2
  <2>4. SampleAt(r, i) \in Samples
    BY <2>1, <2>2, <2>3, Sizes DEF Samples, SampleAt
  <2>5. SampleAt(r, i) - 1 \in Nat /\ SampleAt(r, i) - 1 = r * Local + (i - 1)
    BY <2>1, <2>3 DEF SampleAt
  <2>6. (SampleAt(r, i) - 1) \div Local = r /\ (SampleAt(r, i) - 1) % Local = i - 1
    BY <2>1, <2>5, EuclidUnique
  <2>. QED  BY <2>1, <2>4, <2>6 DEF OrigRank, OrigIdx
<1>2. ASSUME NEW s \in Samples
      PROVE  /\ OrigRank(s) \in Ranks /\ OrigIdx(s) \in Places
             /\ SampleAt(OrigRank(s), OrigIdx(s)) = s
  <2>1. s - 1 \in Nat /\ s - 1 < DpSize * Local
    BY Sizes DEF Samples
  <2>2. /\ (s - 1) \div Local \in Nat /\ (s - 1) % Local \in 0 .. Local - 1
        /\ s - 1 = ((s - 1) \div Local) * Local + ((s - 1) % Local)
    BY <2>1, Sizes, Euclid
  <2>3. PICK q \in Nat, m \in 0 .. Local - 1 :
            q = (s - 1) \div Local /\ m = (s - 1) % Local /\ s - 1 = q * Local + m
    BY <2>2
  <2>4. q < DpSize
    <3>1. SUFFICES ASSUME DpSize <= q PROVE FALSE
      BY Sizes
    <3>2. DpSize * Local <= q * Local /\ q * Local \in Nat
      BY <3>1, Sizes, Products
    <3>. QED  BY <2>1, <2>3, <3>2, Sizes
  <2>5. OrigRank(s) = q /\ OrigIdx(s) = m + 1
    BY <2>3 DEF OrigRank, OrigIdx
  <2>6. q \in Ranks /\ m + 1 \in Places
    <3>1. DpSize \in Int /\ Local \in Int
      BY Sizes
    <3>. QED  BY <2>3, <2>4, <3>1 DEF Ranks, Places
  <2>7. q * Local + (m + 1) = s
    <3>1. Local \in Nat /\ s \in Nat
      BY Sizes
    <3>2. q * Local \in Nat /\ m \in Int /\ s \in Int
      BY <3>1, Products
    <3>3. PICK p \in Nat : p = q * Local
      BY <3>2
    <3>4. s - 1 = p + m
      BY <2>3, <3>3
    <3>5. p + (m + 1) = s
      BY <3>2, <3>4
    <3>. QED  BY <3>3, <3>5
  <2>. QED  BY <2>5, <2>6, <2>7 DEF SampleAt
<1>. QED  BY <1>1, <1>2

----------------------------------------------------------------------------
\* The plan: every sample has one place in one bin, and every bin is as large
\* as the batch of its rank.

PlanInv ==
    /\ bins \in [Ranks -> [Places -> Samples]]
    /\ \A r, s \in Ranks, i, j \in Places : bins[r][i] = bins[s][j] => r = s /\ i = j
    /\ \A x \in Samples : \E r \in Ranks, i \in Places : bins[r][i] = x

\* The assertions on the partition are enough for that: DpSize parts of equal
\* size that cover the samples share none.
LEMMA PlanMade ==
    ASSUME lens \in [Samples -> Lengths], NEW parts,
           Checked(parts, lens, DpSize, TRUE),
           bins' = [r \in Ranks |-> Ordered(parts[r + 1])]
    PROVE  PlanInv'
<1>1. DOMAIN lens = Samples /\ Len(lens) = DpSize * Local
  BY Sizes DEF Samples
<1>2. ASSUME NEW r \in Ranks
      PROVE  /\ parts[r + 1] \in SUBSET Samples /\ Cardinality(parts[r + 1]) = Local
  <2>1. r + 1 \in 1 .. DpSize
    BY Sizes
  <2>2. parts[r + 1] \subseteq Samples
    <3>1. UNION {parts[k] : k \in 1 .. DpSize} = Samples
      BY <1>1 DEF Checked
    <3>. QED  BY <2>1, <3>1
  <2>3. Cardinality(parts[r + 1]) * DpSize = DpSize * Local
    <3>1. \A k \in 1 .. DpSize : Cardinality(parts[k]) * DpSize = Len(lens)
      BY DEF Checked
    <3>. QED  BY <1>1, <2>1, <3>1
  <2>4. Cardinality(parts[r + 1]) \in Nat
    BY <2>2, OrderedListed
  <2>5. PICK c \in Nat : c = Cardinality(parts[r + 1]) /\ c * DpSize = DpSize * Local
    BY <2>3, <2>4
  <2>6. c = Local
    BY <2>5, Sizes
  <2>. QED  BY <2>2, <2>5, <2>6
<1>3. ASSUME NEW r \in Ranks PROVE bins'[r] \in Bijection(Places, parts[r + 1])
  <2>1. bins'[r] = Ordered(parts[r + 1])
    OBVIOUS
  <2>2. Ordered(parts[r + 1]) \in Bijection(1 .. Local, parts[r + 1])
    BY <1>2, OrderedListed
  <2>. QED  BY <2>1, <2>2 DEF Places
<1>4. bins' \in [Ranks -> [Places -> Samples]]
  <2>1. ASSUME NEW r \in Ranks PROVE bins'[r] \in [Places -> Samples]
    BY <1>2, <1>3 DEF Bijection, Injection
  <2>. QED  BY <2>1
<1>5. ASSUME NEW x \in Samples PROVE \E r \in Ranks, i \in Places : bins'[r][i] = x
  <2>1. PICK k \in 1 .. DpSize : x \in parts[k]
    BY <1>1 DEF Checked
  <2>2. k - 1 \in Ranks /\ k - 1 + 1 = k
    BY Sizes DEF Ranks
  <2>3. bins'[k - 1] \in Surjection(Places, parts[k])
    BY <1>3, <2>2 DEF Bijection
  <2>. QED  BY <2>1, <2>2, <2>3 DEF Surjection
<1>6. ASSUME NEW r \in Ranks, NEW s \in Ranks, NEW i \in Places, NEW j \in Places,
             bins'[r][i] = bins'[s][j]
      PROVE  r = s /\ i = j
  <2>. DEFINE f == [p \in Ranks \X Places |-> bins'[p[1]][p[2]]]
  <2>1. f \in Surjection(Ranks \X Places, Samples)
    <3>1. f \in [Ranks \X Places -> Samples]
      BY <1>4
    <3>2. \A x \in Samples : \E p \in Ranks \X Places : f[p] = x
      <4>. TAKE x \in Samples
      <4>1. PICK q \in Ranks, k \in Places : bins'[q][k] = x
        BY <1>5
      <4>2. <<q, k>> \in Ranks \X Places /\ f[<<q, k>>] = x
        BY <4>1
      <4>. QED  BY <4>2
    <3>. HIDE DEF f
    <3>. QED  BY <3>1, <3>2 DEF Surjection
  <2>2. /\ IsFiniteSet(Ranks \X Places) /\ Cardinality(Ranks \X Places) = DpSize * Local
        /\ Cardinality(Samples) = DpSize * Local
    <3>1. IsFiniteSet(Ranks) /\ Cardinality(Ranks) = DpSize
      <4>1. DpSize - 1 \in Int /\ ~ (0 > DpSize - 1) /\ DpSize - 1 - 0 + 1 = DpSize
        BY Sizes
      <4>2. /\ IsFiniteSet(0 .. DpSize - 1)
            /\ Cardinality(0 .. DpSize - 1) = IF 0 > DpSize - 1 THEN 0 ELSE DpSize - 1 - 0 + 1
        BY <4>1, FS_Interval
      <4>. QED  BY <4>1, <4>2 DEF Ranks
    <3>2. IsFiniteSet(Places) /\ Cardinality(Places) = Local
      <4>1. Local \in Int /\ ~ (1 > Local) /\ Local - 1 + 1 = Local
        BY Sizes
      <4>2. IsFiniteSet(1 .. Local) /\ Cardinality(1 .. Local) = IF 1 > Local THEN 0 ELSE Local - 1 + 1
        BY <4>1, FS_Interval
      <4>. QED  BY <4>1, <4>2 DEF Places
    <3>3. Cardinality(Samples) = DpSize * Local
      <4>. DEFINE n == DpSize * Local
      <4>1. n \in Nat
        BY Sizes
      <4>. HIDE DEF n
      <4>2. Cardinality(1 .. n) = IF 1 > n THEN 0 ELSE n - 1 + 1
        BY <4>1, FS_Interval
      <4>3. Cardinality(1 .. n) = n
        BY <4>1, <4>2
      <4>. QED  BY <4>3 DEF Samples, n
    <3>. QED  BY <3>1, <3>2, <3>3, FS_Product
  <2>3. f \in Injection(Ranks \X Places, Samples)
    <3>. HIDE DEF f
    <3>. QED  BY <2>1, <2>2, FS_SurjSameCardinalityImpliesInj
  <2>4. <<r, i>> \in Ranks \X Places /\ <<s, j>> \in Ranks \X Places
    OBVIOUS
  <2>5. f[<<r, i>>] = f[<<s, j>>]
    BY <1>6, <2>4
  <2>6. <<r, i>> = <<s, j>>
    <3>. HIDE DEF f
    <3>. QED  BY <2>3, <2>4, <2>5 DEF Injection, IsInjective
  <2>. QED  BY <2>6
<1>. QED  BY <1>4, <1>5, <1>6 DEF PlanInv

\* The items from the lightest to the heaviest.
LEMMA AscendingListed ==
    ASSUME NEW n \in Nat, NEW w \in [1 .. n -> Nat]
    PROVE  Ascending(w) \in Bijection(1 .. n, 1 .. n)
<1>. DEFINE S == 1 .. n
            Light(i, j) == w[i] < w[j] \/ (w[i] = w[j] /\ i < j)
            R == {p \in S \X S : Light(p[1], p[2])}
            L == Ascending(w)
<1>1. IsFiniteSet(S) /\ Cardinality(S) = n
  BY FS_Interval
<1>2. \A x, y \in S : <<x, y>> \in R <=> Light(x, y)
  OBVIOUS
<1>. HIDE DEF R
<1>3. \A x \in S : x \in Int /\ w[x] \in Int
  OBVIOUS
<1>4. StrictOrder(S, R)
  BY <1>2, <1>3 DEF StrictOrder
<1>5. \A x \in S : {y \in S : Light(y, x)} = Ahead(S, R, x)
  BY <1>2 DEF Ahead
<1>6. ListsOnce(L, S, R)
  <2>. DEFINE rank(x) == Cardinality({y \in S : Light(y, x)})
  <2>1. L = [i \in 1 .. Cardinality(S) |-> CHOOSE x \in S : rank(x) = i - 1]
    <3>. DEFINE f == [i \in 1 .. Cardinality(S) |-> CHOOSE x \in S : rank(x) = i - 1]
    <3>1. L = AtOnce(f)
      BY DEF Ascending, Listing
    <3>. HIDE DEF L, rank
    <3>2. f = [i \in 1 .. Cardinality(S) |-> f[i]] /\ Cardinality(S) \in Nat
      BY <1>1
    <3>. HIDE DEF f
    <3>3. L = f
      BY <3>1, <3>2, SequenceAtOnce
    <3>. QED  BY <3>3 DEF f
  <2>2. \A x \in S : rank(x) = Rank(S, R, x)
    BY <1>5 DEF Rank
  <2>. HIDE DEF L, rank, S
  <2>3. L = [i \in 1 .. Cardinality(S) |-> L[i]]
    BY <2>1
  <2>4. ASSUME NEW i \in 1 .. Cardinality(S), \E x \in S : Rank(S, R, x) = i - 1
        PROVE  L[i] \in S /\ Rank(S, R, L[i]) = i - 1
    <3>1. \E x \in S : rank(x) = i - 1
      BY <2>2, <2>4
    <3>2. L[i] = CHOOSE x \in S : rank(x) = i - 1
      BY <2>1
    <3>3. L[i] \in S /\ rank(L[i]) = i - 1
      BY <3>1, <3>2
    <3>. QED  BY <2>2, <3>3
  <2>. QED  BY <2>3, <2>4 DEF ListsOnce
<1>. HIDE DEF L
<1>7. L \in Bijection(1 .. n, 1 .. n)
  <2>1. L \in Bijection(1 .. Cardinality(S), S)
    BY <1>1, <1>4, <1>6, RankLists
  <2>. QED  BY <1>1, <2>1
<1>. QED  BY <1>7 DEF L

\* Rows of k places each number the places through.
LEMMA PlacesOf ==
    ASSUME NEW k \in Nat \ {0}, NEW m \in Nat \ {0}
    PROVE  /\ m * k \in Nat \ {0} /\ (m * k) \div k = m
           /\ \A c \in 0 .. m - 1, i \in 1 .. k : c * k + i \in 1 .. m * k
           /\ \A c, d \in 0 .. m - 1, i, j \in 1 .. k : c * k + i = d * k + j => c = d /\ i = j
           /\ \A x \in 1 .. m * k : \E c \in 0 .. m - 1, i \in 1 .. k : x = c * k + i
<1>1. m * k \in Nat \ {0} /\ (m * k) \div k = m
  <2>1. 1 * k <= m * k /\ m * k \in Nat
    BY Products
  <2>2. m * k = m * k + 0 /\ 0 \in 0 .. k - 1
    BY <2>1
  <2>3. (m * k) \div k = m
    BY <2>1, <2>2, EuclidUnique
  <2>. QED  BY <2>1, <2>3
<1>2. ASSUME NEW c \in 0 .. m - 1, NEW i \in 1 .. k
      PROVE  c * k + i \in 1 .. m * k /\ (c * k + i - 1) \div k = c /\ (c * k + i - 1) % k = i - 1
  <2>1. c \in Nat /\ c + 1 \in Nat /\ c + 1 <= m /\ i - 1 \in 0 .. k - 1
    OBVIOUS
  <2>2. c * k \in Nat /\ (c + 1) * k = c * k + k /\ (c + 1) * k <= m * k
    BY <2>1, Products
  <2>3. PICK q \in Nat, t \in Nat : q = c * k /\ t = m * k /\ q + k <= t
    BY <1>1, <2>2
  <2>4. q + i \in 1 .. t /\ q + i - 1 \in Nat /\ q + i - 1 = q + (i - 1)
    BY <2>3
  <2>5. (q + i - 1) \div k = c /\ (q + i - 1) % k = i - 1
    BY <2>1, <2>3, <2>4, EuclidUnique
  <2>. QED  BY <2>3, <2>4, <2>5
<1>3. ASSUME NEW c \in 0 .. m - 1, NEW d \in 0 .. m - 1, NEW i \in 1 .. k, NEW j \in 1 .. k,
             c * k + i = d * k + j
      PROVE  c = d /\ i = j
  <2>1. c = d /\ i - 1 = j - 1
    BY <1>2, <1>3
  <2>. QED  BY <2>1
<1>4. ASSUME NEW x \in 1 .. m * k PROVE \E c \in 0 .. m - 1, i \in 1 .. k : x = c * k + i
  <2>1. x - 1 \in Nat /\ x - 1 < m * k
    BY <1>1
  <2>2. PICK q \in Nat, r \in 0 .. k - 1 : x - 1 = q * k + r
    BY <2>1, Euclid
  <2>3. q < m
    <3>. SUFFICES ASSUME m <= q PROVE FALSE
      OBVIOUS
    <3>1. m * k <= q * k /\ q * k \in Nat
      BY Products
    <3>. QED  BY <1>1, <2>1, <2>2, <3>1
  <2>4. PICK p \in Nat : p = q * k
    BY Products
  <2>5. x = p + (r + 1)
    BY <1>1, <2>2, <2>4
  <2>6. q \in 0 .. m - 1 /\ r + 1 \in 1 .. k /\ x = q * k + (r + 1)
    BY <2>3, <2>4, <2>5
  <2>. QED  BY <2>6
<1>. QED  BY <1>1, <1>2, <1>3, <1>4

\* Bins of one item each, in decreasing order.
OneItem(b, x) ==
    /\ b \in BinsOf /\ b.sum # 0 /\ b.items # <<>> /\ Once(b) /\ Len(b.items) = 1
    /\ \A y : Has(b, y) <=> y = x

\* Sorted, the bins are the same in another order.
LEMMA DescendingPermutes ==
    ASSUME NEW k \in Nat, NEW bs \in [1 .. k -> BinsOf]
    PROVE  /\ Descending(bs) \in [1 .. k -> BinsOf]
           /\ \E p \in Bijection(1 .. k, 1 .. k) :
                 \A i \in 1 .. k : Descending(bs)[i] = bs[p[i]]
BY DescendingIs

\* A state of k items, one to a bin.
EachOneItem(b, item, k) ==
    /\ item \in [1 .. k -> Nat] /\ b \in [1 .. k -> BinsOf]
    /\ \A i \in 1 .. k : OneItem(b[i], item[i])
    /\ \A i, j \in 1 .. k : item[i] = item[j] => i = j
HoldsItems(S, item, k) == \A y : Holds(S, k, y) <=> \E i \in 1 .. k : y = item[i]
LEMMA EqualState ==
    ASSUME NEW k \in Nat \ {0}, NEW item, NEW b, EachOneItem(b, item, k)
    PROVE  /\ StateInv(Descending(b), k) /\ Alone(Descending(b), k) /\ Even(Descending(b), k)
           /\ HoldsItems(Descending(b), item, k)
<1>. USE DEF HoldsItems
<1>. item \in [1 .. k -> Nat] /\ b \in [1 .. k -> BinsOf]
  BY DEF EachOneItem
<1>. (\A i \in 1 .. k : OneItem(b[i], item[i])) /\ (\A i, j \in 1 .. k : item[i] = item[j] => i = j)
  BY DEF EachOneItem
<1>. DEFINE K == 1 .. k
<1>1. PICK s : s = Descending(b)
  OBVIOUS
<1>2. /\ Descending(b) \in [1 .. k -> BinsOf]
      /\ \E p \in Bijection(1 .. k, 1 .. k) : \A i \in 1 .. k : Descending(b)[i] = b[p[i]]
  BY DescendingPermutes
<1>3. /\ s \in [K -> BinsOf]
      /\ \E p \in Bijection(K, K) : \A i \in K : s[i] = b[p[i]]
  BY <1>1, <1>2
<1>4. PICK p \in Bijection(K, K) : \A i \in K : s[i] = b[p[i]]
  BY <1>3
<1>5. /\ \A i \in K : p[i] \in K
      /\ \A i, j \in K : p[i] = p[j] => i = j
      /\ \A j \in K : \E i \in K : p[i] = j
  BY DEF Bijection, Injection, Surjection, IsInjective
<1>6. ASSUME NEW i \in K
      PROVE  /\ s[i] \in BinsOf /\ s[i].sum # 0 /\ s[i].items # <<>>
             /\ Once(s[i]) /\ Len(s[i].items) = 1
             /\ \A y : Has(s[i], y) <=> y = item[p[i]]
  <2>1. PICK j \in K : j = p[i]
    BY <1>5
  <2>2. s[i] = b[j] /\ OneItem(b[j], item[j])
    BY <1>4, <2>1
  <2>. QED  BY <2>1, <2>2 DEF OneItem
<1>7. StateInv(s, k)
  <2>1. 1 \in K
    OBVIOUS
  <2>2. Filled(s, k)
    BY <1>6 DEF Filled
  <2>. QED  BY <1>3, <1>6, <2>1, <2>2 DEF StateInv
<1>8. Alone(s, k)
  <2>. SUFFICES ASSUME NEW i \in K, NEW j \in K, NEW y, Has(s[i], y), Has(s[j], y) PROVE i = j
    BY DEF Alone
  <2>1. item[p[i]] = item[p[j]]
    BY <1>6
  <2>2. PICK x \in K, y1 \in K : x = p[i] /\ y1 = p[j]
    BY <1>5
  <2>3. x = y1
    BY <2>1, <2>2
  <2>. QED  BY <1>5, <2>2, <2>3
<1>9. Even(s, k)
  BY <1>6 DEF Even
<1>10. ASSUME NEW y PROVE Holds(s, k, y) <=> \E i \in K : y = item[i]
  <2>1. ASSUME NEW i \in K, Has(s[i], y) PROVE \E j \in K : y = item[j]
    BY <1>5, <1>6, <2>1
  <2>2. ASSUME NEW j \in K, y = item[j] PROVE \E i \in K : Has(s[i], y)
    <3>1. PICK i \in K : p[i] = j
      BY <1>5
    <3>. QED  BY <1>6, <2>2, <3>1
  <2>. QED  BY <2>1, <2>2 DEF Holds
<1>. QED  BY <1>1, <1>7, <1>8, <1>9, <1>10

\* With equal_size a state takes k items, one for each bin.
LEMMA EqualHeap ==
    ASSUME NEW k \in Nat \ {0}, NEW m \in Nat \ {0}, NEW w \in [1 .. m * k -> Nat \ {0}]
    PROVE  /\ HeapInv(FirstStates(w, k, TRUE), m * k, k, TRUE)
           /\ Cardinality(FirstStates(w, k, TRUE)) = m
<1>. DEFINE K == 1 .. k
            C == 0 .. m - 1
            n == m * k
            order == Ascending(w)
            PlaceIn(c, i) == c * k + i
            Item(c, i) == order[PlaceIn(c, i)]
            St(c) == Descending([i \in K |-> Single(w, order[c * k + i])])
            F == FirstStates(w, k, TRUE)
<1>1. /\ n \in Nat \ {0} /\ n \div k = m
      /\ \A c \in C, i \in K : PlaceIn(c, i) \in 1 .. n
      /\ \A c, d \in C, i, j \in K : PlaceIn(c, i) = PlaceIn(d, j) => c = d /\ i = j
      /\ \A x \in 1 .. n : \E c \in C, i \in K : x = PlaceIn(c, i)
  BY PlacesOf
<1>2. F = {St(c) : c \in C}
  <2>1. Len(w) = n
    BY <1>1
  <2>2. F = {St(c) : c \in 0 .. Len(w) \div k - 1}
    BY DEF FirstStates
  <2>3. Len(w) \div k - 1 = m - 1
    BY <1>1, <2>1
  <2>. HIDE DEF n, order, F, St
  <2>. QED  BY <2>2, <2>3
<1>3. order \in Bijection(1 .. n, 1 .. n)
  <2>1. w \in [1 .. n -> Nat]
    OBVIOUS
  <2>. HIDE DEF n
  <2>. QED  BY <1>1, <2>1, AscendingListed
<1>. HIDE DEF order, n, PlaceIn
<1>4. /\ \A c \in C, i \in K : Item(c, i) \in 1 .. n
      /\ \A c, d \in C, i, j \in K : Item(c, i) = Item(d, j) => c = d /\ i = j
      /\ \A x \in 1 .. n : \E c \in C, i \in K : x = Item(c, i)
  <2>1. /\ \A y \in 1 .. n : order[y] \in 1 .. n
        /\ \A x, y \in 1 .. n : order[x] = order[y] => x = y
        /\ \A x \in 1 .. n : \E y \in 1 .. n : order[y] = x
    BY <1>3 DEF Bijection, Injection, Surjection, IsInjective
  <2>2. ASSUME NEW c \in C, NEW d \in C, NEW i \in K, NEW j \in K, Item(c, i) = Item(d, j)
        PROVE  c = d /\ i = j
    <3>1. PlaceIn(c, i) = PlaceIn(d, j)
      BY <1>1, <2>1, <2>2
    <3>. QED  BY <1>1, <3>1
  <2>3. ASSUME NEW x \in 1 .. n PROVE \E c \in C, i \in K : x = Item(c, i)
    <3>1. PICK y \in 1 .. n : order[y] = x
      BY <2>1
    <3>2. PICK c \in C, i \in K : y = PlaceIn(c, i)
      BY <1>1
    <3>. QED  BY <3>1, <3>2
  <2>4. \A c \in C, i \in K : Item(c, i) \in 1 .. n
    BY <1>1, <2>1
  <2>. QED  BY <2>2, <2>3, <2>4
<1>5. ASSUME NEW c \in C
      PROVE  /\ StateInv(St(c), k) /\ Alone(St(c), k) /\ Even(St(c), k)
             /\ \A y : Holds(St(c), k, y) <=> \E i \in K : y = Item(c, i)
  <2>. DEFINE item == [i \in K |-> Item(c, i)]
              b == [i \in K |-> Single(w, Item(c, i))]
  <2>1. /\ b = [i \in K |-> b[i]] /\ item = [i \in K |-> item[i]]
        /\ \A i \in K : item[i] = Item(c, i)
    OBVIOUS
  <2>2. St(c) = Descending(b)
    BY DEF PlaceIn
  <2>3. ASSUME NEW i \in K
        PROVE  OneItem(b[i], item[i]) /\ item[i] \in Nat
    <3>1. PICK x \in 1 .. n : x = Item(c, i)
      BY <1>4
    <3>2. w[x] \in Nat \ {0} /\ x \in Nat
      BY <1>1 DEF n
    <3>3. b[i] = Single(w, x) /\ item[i] = x
      BY <3>1
    <3>4. Len(Single(w, x).items) = 1
      BY DEF Single
    <3>. HIDE DEF b, item, Item
    <3>. QED  BY <3>2, <3>3, <3>4, OneBin DEF OneItem
  <2>4. \A i, j \in K : item[i] = item[j] => i = j
    <3>. HIDE DEF item, Item
    <3>. QED  BY <1>4, <2>1
  <2>. HIDE DEF b, item, Item, St
  <2>6. b \in [K -> BinsOf] /\ item \in [K -> Nat]
    <3>1. \A i \in K : b[i] \in BinsOf
      BY <2>3 DEF OneItem
    <3>. QED  BY <2>1, <2>3, <3>1
  <2>5. /\ StateInv(Descending(b), k) /\ Alone(Descending(b), k) /\ Even(Descending(b), k)
        /\ \A y : Holds(Descending(b), k, y) <=> \E i \in K : y = item[i]
    <3>1. EachOneItem(b, item, k)
      BY <2>3, <2>4, <2>6 DEF EachOneItem
    <3>2. /\ StateInv(Descending(b), k) /\ Alone(Descending(b), k) /\ Even(Descending(b), k)
          /\ HoldsItems(Descending(b), item, k)
      BY ONLY k \in Nat \ {0}, <3>1, EqualState
    <3>. QED  BY <3>2 DEF HoldsItems
  <2>. QED  BY <2>1, <2>2, <2>5
<1>. HIDE DEF St, Item, F
<1>6. ASSUME NEW c \in C, NEW d \in C, NEW x, Holds(St(c), k, x), Holds(St(d), k, x) PROVE c = d
  <2>1. PICK i \in K : x = Item(c, i)
    BY <1>5, <1>6
  <2>2. PICK j \in K : x = Item(d, j)
    BY <1>5, <1>6
  <2>3. Item(c, i) = Item(d, j)
    BY <2>1, <2>2
  <2>. HIDE DEF C, K
  <2>. QED  BY <1>4, <2>3
<1>7. IsFiniteSet(F) /\ Cardinality(F) = m
  <2>1. IsFiniteSet(C) /\ Cardinality(C) = m
    <3>1. IsFiniteSet(C) /\ Cardinality(C) = IF 0 > m - 1 THEN 0 ELSE m - 1 - 0 + 1
      BY FS_Interval
    <3>. QED  BY <3>1
  <2>. DEFINE g == [c \in C |-> St(c)]
  <2>2. g \in Bijection(C, F)
    <3>1. \A c \in C : g[c] = St(c) /\ g[c] \in F
      BY <1>2
    <3>2. g = [c \in C |-> g[c]] /\ DOMAIN g = C
      OBVIOUS
    <3>. HIDE DEF g
    <3>3. \A x \in F : \E c \in C : g[c] = x
      BY <1>2, <3>1
    <3>4. ASSUME NEW c \in C, NEW d \in C, g[c] = g[d] PROVE c = d
      <4>1. St(c) = St(d) /\ 1 \in K
        BY <3>1, <3>4
      <4>2. Holds(St(c), k, Item(c, 1))
        BY <1>5, <4>1
      <4>. QED  BY <1>6, <4>1, <4>2
    <3>5. g \in [C -> F]
      BY <3>1, <3>2
    <3>. QED  BY <3>2, <3>3, <3>4, <3>5 DEF Bijection, Injection, Surjection, IsInjective
  <2>. HIDE DEF g
  <2>3. ExistsBijection(C, F)
    BY <2>2 DEF ExistsBijection
  <2>4. IsFiniteSet(F) /\ Cardinality(F) = Cardinality(C)
    BY <2>1, <2>3, FS_Bijection
  <2>. QED  BY <2>1, <2>4
<1>8. HeapInv(F, n, k, TRUE)
  <2>1. \A s \in F : StateInv(s, k) /\ Alone(s, k) /\ Even(s, k)
    BY <1>2, <1>5
  <2>2. ASSUME NEW s \in F, NEW t \in F, NEW x, Holds(s, k, x), Holds(t, k, x) PROVE s = t
    <3>1. PICK c \in C, d \in C : s = St(c) /\ t = St(d)
      BY <1>2
    <3>. QED  BY <1>6, <2>2, <3>1
  <2>3. ASSUME NEW s \in F, NEW x, Holds(s, k, x) PROVE x \in 1 .. n
    <3>1. PICK c \in C : s = St(c)
      BY <1>2
    <3>2. PICK i \in K : x = Item(c, i)
      BY <1>5, <2>3, <3>1
    <3>. QED  BY <1>4, <3>2
  <2>4. ASSUME NEW x \in 1 .. n PROVE \E s \in F : Holds(s, k, x)
    <3>1. PICK c \in C, i \in K : x = Item(c, i)
      BY <1>4
    <3>2. St(c) \in F /\ Holds(St(c), k, x)
      BY <1>2, <1>5, <3>1
    <3>. QED  BY <3>2
  <2>. QED  BY <1>7, <2>1, <2>2, <2>3, <2>4 DEF HeapInv
<1>. QED  BY <1>7, <1>8 DEF F, n

\* With equal_size every assertion on the result holds.
LEMMA EqualPartsAre ==
    ASSUME NEW k \in Nat \ {0}, NEW m \in Nat \ {0}, NEW w \in [1 .. m * k -> Nat \ {0}]
    PROVE  Checked(karmarkar_karp(w, k, TRUE), w, k, TRUE)
<1>. DEFINE K == 1 .. k
            n == m * k
            M == Merged(FirstStates(w, k, TRUE))
            last == CHOOSE s \in M : TRUE
            parts == karmarkar_karp(w, k, TRUE)
<1>1. n \in Nat \ {0} /\ n >= k
  <2>1. 1 * k <= m * k /\ m * k \in Nat
    BY Products
  <2>. QED  BY <2>1
<1>2. HeapInv(M, n, k, TRUE) /\ Cardinality(M) = 1
  <2>1. PICK first : first = FirstStates(w, k, TRUE)
    OBVIOUS
  <2>2. HeapInv(first, n, k, TRUE) /\ Cardinality(first) = m
    BY <2>1, EqualHeap
  <2>. HIDE DEF n
  <2>3. HeapInv(Merged(first), n, k, TRUE) /\ Cardinality(Merged(first)) = 1
    BY <2>2, MergedIs
  <2>. QED  BY <2>1, <2>3
<1>3. parts = [i \in K |-> Range(last[i].items)]
  BY DEF karmarkar_karp
<1>4. DOMAIN w = 1 .. n /\ Len(w) = n
  BY <1>1
<1>. HIDE DEF M, parts, n
<1>5. last \in M
  <2>1. PICK x : M = {x}
    BY <1>2, FS_Singleton DEF HeapInv
  <2>. QED  BY <2>1
<1>. HIDE DEF last
<1>6. /\ StateInv(last, k) /\ Alone(last, k) /\ Even(last, k)
      /\ \A x : Holds(last, k, x) => x \in 1 .. n
      /\ \A x \in 1 .. n : Holds(last, k, x)
  <2>1. \A x \in 1 .. n : Holds(last, k, x)
    <3>1. \A s \in M : s = last
      <4>1. PICK x : M = {x}
        BY <1>2, FS_Singleton DEF HeapInv
      <4>. QED  BY <1>5, <4>1
    <3>. QED  BY <1>2, <3>1 DEF HeapInv
  <2>. QED  BY <1>2, <1>5, <2>1 DEF HeapInv
<1>. DEFINE it(i) == last[i].items
            L == Len(it(1))
<1>7. /\ 1 \in K
      /\ \A i \in K : /\ it(i) \in Seq(Nat) /\ Len(it(i)) = L /\ DOMAIN it(i) = 1 .. L
                      /\ \A p, q \in 1 .. L : it(i)[p] = it(i)[q] => p = q
                      /\ parts[i] = Range(it(i))
                      /\ \A x : Has(last[i], x) <=> x \in Range(it(i))
      /\ L \in Nat /\ L # 0
  <2>1. 1 \in K
    OBVIOUS
  <2>2. ASSUME NEW i \in K
        PROVE  /\ it(i) \in Seq(Nat) /\ Len(it(i)) = L /\ DOMAIN it(i) = 1 .. L
               /\ \A p, q \in 1 .. L : it(i)[p] = it(i)[q] => p = q
    <3>1. last[i] \in BinsOf /\ Once(last[i])
      BY <1>6 DEF StateInv
    <3>2. Len(last[i].items) = Len(last[1].items)
      BY <1>6, <2>1 DEF Even
    <3>. QED  BY <3>1, <3>2, BinFacts DEF Once
  <2>3. L \in Nat /\ L # 0
    <3>1. last[1] \in BinsOf /\ last[1].items # <<>>
      BY <1>6, <2>1 DEF StateInv
    <3>. QED  BY <3>1, BinFacts
  <2>. QED  BY <1>3, <2>1, <2>2, <2>3 DEF Has
<1>. HIDE DEF it, L
<1>. DEFINE J == 1 .. L
            At(i, j) == it(i)[j]
<1>8. /\ \A i \in K, j \in J : At(i, j) \in 1 .. n
      /\ \A i, a \in K, j, b \in J : At(i, j) = At(a, b) => i = a /\ j = b
      /\ \A x \in 1 .. n : \E i \in K, j \in J : x = At(i, j)
  <2>1. \A i \in K : \A x : x \in Range(it(i)) <=> \E j \in J : x = At(i, j)
    BY <1>7 DEF Range
  <2>. HIDE DEF J
  <2>2. ASSUME NEW i \in K, NEW j \in J PROVE Has(last[i], At(i, j))
    BY <1>7, <2>1
  <2>3. ASSUME NEW i \in K, NEW a \in K, NEW j \in J, NEW b \in J, At(i, j) = At(a, b)
        PROVE  i = a /\ j = b
    <3>1. Has(last[i], At(i, j)) /\ Has(last[a], At(i, j))
      BY <2>2, <2>3
    <3>2. i = a
      BY <1>6, <3>1 DEF Alone
    <3>. QED  BY <1>7, <2>3, <3>2 DEF J
  <2>4. ASSUME NEW x \in 1 .. n PROVE \E i \in K, j \in J : x = At(i, j)
    <3>1. PICK i \in K : Has(last[i], x)
      BY <1>6 DEF Holds
    <3>. QED  BY <1>7, <2>1, <3>1
  <2>5. \A i \in K, j \in J : At(i, j) \in 1 .. n
    BY <1>6, <2>2 DEF Holds
  <2>. QED  BY <2>3, <2>4, <2>5
<1>9. /\ IsFiniteSet(K) /\ Cardinality(K) = k /\ IsFiniteSet(J) /\ Cardinality(J) = L
      /\ Cardinality(1 .. n) = n
  BY <1>1, <1>7, FS_Interval
<1>. HIDE DEF J
<1>10. k * L = n
  <2>. DEFINE P == K \X J
              f == [q \in P |-> At(q[1], q[2])]
  <2>1. IsFiniteSet(P) /\ Cardinality(P) = k * L
    BY <1>9, FS_Product
  <2>2. f \in Bijection(P, 1 .. n)
    <3>1. \A q \in P : q[1] \in K /\ q[2] \in J /\ f[q] = At(q[1], q[2]) /\ q = <<q[1], q[2]>>
      OBVIOUS
    <3>2. \A i \in K, j \in J : <<i, j>> \in P /\ f[<<i, j>>] = At(i, j)
      OBVIOUS
    <3>3. f = [q \in P |-> f[q]] /\ DOMAIN f = P
      OBVIOUS
    <3>. HIDE DEF f, P, At
    <3>4. f \in [P -> 1 .. n]
      BY <1>8, <3>1, <3>3
    <3>5. ASSUME NEW q \in P, NEW r \in P, f[q] = f[r] PROVE q = r
      <4>1. q[1] = r[1] /\ q[2] = r[2]
        BY <1>8, <3>1, <3>5
      <4>. QED  BY <3>1, <4>1
    <3>6. ASSUME NEW x \in 1 .. n PROVE \E q \in P : f[q] = x
      <4>1. PICK i \in K, j \in J : x = At(i, j)
        BY <1>8
      <4>. QED  BY <3>2, <4>1
    <3>. QED  BY <3>3, <3>4, <3>5, <3>6 DEF Bijection, Injection, Surjection, IsInjective
  <2>. HIDE DEF f, P
  <2>3. ExistsBijection(P, 1 .. n)
    BY <2>2 DEF ExistsBijection
  <2>4. Cardinality(1 .. n) = Cardinality(P)
    BY <2>1, <2>3, FS_Bijection
  <2>. QED  BY <1>9, <2>1, <2>4
<1>11. ASSUME NEW i \in K PROVE Cardinality(parts[i]) * k = n
  <2>1. PICK s : s = it(i)
    OBVIOUS
  <2>2. /\ s \in Seq(Nat) /\ DOMAIN s = J /\ parts[i] = Range(s)
        /\ \A p, q \in J : s[p] = s[q] => p = q
    BY <1>7, <2>1 DEF J
  <2>3. s \in Bijection(J, Range(s))
    <3>1. s = [p \in J |-> s[p]]
      BY <1>7, <2>1, <2>2 DEF J
    <3>2. s \in [J -> Range(s)]
      BY <2>2, <3>1 DEF Range
    <3>3. \A x \in Range(s) : \E p \in J : s[p] = x
      BY <2>2 DEF Range
    <3>. QED  BY <2>2, <3>2, <3>3 DEF Bijection, Injection, Surjection, IsInjective
  <2>4. Cardinality(Range(s)) = L
    <3>1. ExistsBijection(J, Range(s))
      BY <2>3 DEF ExistsBijection
    <3>. QED  BY <1>9, <3>1, FS_Bijection
  <2>5. L * k = k * L
    BY <1>7
  <2>. QED  BY <1>10, <2>2, <2>4, <2>5
<1>12. ASSUME NEW i \in K PROVE parts[i] # {}
  <2>1. 1 \in 1 .. L
    BY <1>7
  <2>2. it(i)[1] \in Range(it(i))
    BY <1>7, <2>1 DEF Range
  <2>. QED  BY <1>7, <2>2
<1>13. UNION {parts[i] : i \in K} = 1 .. n
  <2>1. \A i \in K : \A x : x \in parts[i] <=> Has(last[i], x)
    BY <1>7
  <2>2. ASSUME NEW x PROVE (\E i \in K : x \in parts[i]) <=> x \in 1 .. n
    BY <1>6, <2>1 DEF Holds
  <2>. QED  BY <2>2
<1>. QED  BY <1>1, <1>4, <1>11, <1>12, <1>13 DEF Checked, parts

----------------------------------------------------------------------------
\* The weight of a part is a fold; its values over the subsets of the part.
Picked(s) == CHOOSE x \in s : TRUE
UpTo(S, m) == {s \in SUBSET S : Cardinality(s) <= m}
SumsOver(w, D, g) ==
    g = [s \in D |-> IF s = {} THEN 0 ELSE w[Picked(s)] + g[s \ {Picked(s)}]]

\* Weight is such a function.
LEMMA WeightIs ==
    ASSUME NEW w, NEW S
    PROVE  Weight(w, S) = (CHOOSE g : SumsOver(w, SUBSET S, g))[S]
BY DEF Weight, FoldFunctionOnSet, MapThenFoldSet, SumsOver, Picked

\* Taking the picked item away leaves one item fewer.
LEMMA PickedIs ==
    ASSUME NEW S, IsFiniteSet(S), NEW s \in SUBSET S, s # {}
    PROVE  /\ Picked(s) \in s /\ s \ {Picked(s)} \in SUBSET S
           /\ Cardinality(s) \in Nat \ {0}
           /\ Cardinality(s \ {Picked(s)}) = Cardinality(s) - 1
<1>1. Picked(s) \in s
  BY DEF Picked
<1>2. IsFiniteSet(s)
  BY FS_Subset
<1>. QED  BY <1>1, <1>2, FS_RemoveElement, FS_EmptySet, FS_CardinalityType

\* Such a function exists for the subsets of any size.
LEMMA SumsExist ==
    ASSUME NEW w, NEW S, IsFiniteSet(S), NEW m \in Nat
    PROVE  \E g : SumsOver(w, UpTo(S, m), g)
<1>. DEFINE Made(i) == \E g : SumsOver(w, UpTo(S, i), g)
            T == {i \in Nat : ~ Made(i)}
<1>. SUFFICES ASSUME T # {} PROVE FALSE
  OBVIOUS
<1>0. \A s \in SUBSET S : Cardinality(s) \in Nat /\ (Cardinality(s) = 0 <=> s = {})
  BY FS_Subset, FS_CardinalityType, FS_EmptySet
<1>1. T \in SUBSET Nat
  OBVIOUS
<1>. HIDE DEF T
<1>2. PICK i \in T : \A j \in T : i <= j
  BY <1>1, Least
<1>. USE DEF T
<1>3. i \in Nat /\ ~ Made(i)
  OBVIOUS
<1>4. i # 0
  <2>. SUFFICES ASSUME i = 0 PROVE Made(i)
    BY <1>3
  <2>. DEFINE D == UpTo(S, 0)
              g == [s \in D |-> 0]
  <2>1. \A s \in D : s = {}
    BY <1>0 DEF UpTo
  <2>2. g = [s \in D |-> IF s = {} THEN 0 ELSE w[Picked(s)] + g[s \ {Picked(s)}]]
    <3>. HIDE DEF D
    <3>. QED  BY <2>1
  <2>3. SumsOver(w, D, g)
    BY <2>2 DEF SumsOver
  <2>. QED  BY <2>3
<1>5. Made(i - 1)
  <2>1. i - 1 \in Nat /\ ~ (i <= i - 1)
    BY <1>3, <1>4
  <2>2. i - 1 \notin T
    BY <1>2, <2>1
  <2>. QED  BY <2>1, <2>2
<1>. HIDE DEF T
<1>6. PICK f : SumsOver(w, UpTo(S, i - 1), f)
  BY <1>5
<1>. DEFINE D == UpTo(S, i)
            B == UpTo(S, i - 1)
            Next1(s, h) == IF s = {} THEN 0 ELSE w[Picked(s)] + h[s \ {Picked(s)}]
            g == [s \in D |-> IF s \in B THEN f[s] ELSE Next1(s, f)]
<1>7. B \subseteq D /\ \A s \in D : s # {} => s \ {Picked(s)} \in B
  <2>1. \A s \in B : s \in D
    BY <1>0, <1>3 DEF UpTo
  <2>2. ASSUME NEW s \in D, s # {} PROVE s \ {Picked(s)} \in B
    <3>1. s \in SUBSET S /\ Cardinality(s) <= i
      BY DEF UpTo
    <3>2. /\ s \ {Picked(s)} \in SUBSET S /\ Cardinality(s) \in Nat
          /\ Cardinality(s \ {Picked(s)}) = Cardinality(s) - 1
      BY <2>2, <3>1, PickedIs
    <3>. QED  BY <1>3, <3>1, <3>2 DEF UpTo
  <2>. QED  BY <2>1, <2>2
<1>8. \A s \in B : f[s] = Next1(s, f)
  BY <1>6 DEF SumsOver
<1>. HIDE DEF D, B
<1>9. ASSUME NEW s \in D PROVE g[s] = Next1(s, g)
  <2>1. g[s] = Next1(s, f)
    BY <1>8
  <2>2. CASE s = {}
    BY <2>1, <2>2
  <2>3. CASE s # {}
    <3>1. s \ {Picked(s)} \in B /\ s \ {Picked(s)} \in D
      BY <1>7, <2>3
    <3>2. g[s \ {Picked(s)}] = f[s \ {Picked(s)}]
      BY <3>1
    <3>. QED  BY <2>1, <2>3, <3>2
  <2>. QED  BY <2>2, <2>3
<1>10. g = [s \in D |-> g[s]]
  OBVIOUS
<1>. HIDE DEF g
<1>11. g = [s \in D |-> Next1(s, g)]
  <2>. HIDE DEF Next1
  <2>. QED  BY <1>9, <1>10
<1>12. SumsOver(w, D, g)
  BY <1>11 DEF SumsOver
<1>. QED  BY <1>3, <1>12 DEF D

\* A part of c items of at most b weighs at most c * b, and one item its weight.
LEMMA WeightBounds ==
    ASSUME NEW S, IsFiniteSet(S), NEW b \in Nat, NEW w, \A x \in S : w[x] \in 0 .. b
    PROVE  /\ Weight(w, S) \in 0 .. Cardinality(S) * b
           /\ \A x : S = {x} => Weight(w, S) = w[x]
<1>. DEFINE g == CHOOSE f : SumsOver(w, SUBSET S, f)
<1>1. SumsOver(w, SUBSET S, g)
  <2>1. SUBSET S = UpTo(S, Cardinality(S)) /\ Cardinality(S) \in Nat
    <3>1. \A s \in SUBSET S : Cardinality(s) <= Cardinality(S)
      BY FS_Subset
    <3>. QED  BY <3>1, FS_CardinalityType DEF UpTo
  <2>2. \E f : SumsOver(w, SUBSET S, f)
    <3>1. PICK c \in Nat : c = Cardinality(S)
      BY <2>1
    <3>2. \E f : SumsOver(w, UpTo(S, c), f)
      BY SumsExist
    <3>. QED  BY <2>1, <3>1, <3>2
  <2>. QED  BY <2>2
<1>2. Weight(w, S) = g[S]
  BY WeightIs
<1>. HIDE DEF g
<1>3. \A s \in SUBSET S : g[s] = IF s = {} THEN 0 ELSE w[Picked(s)] + g[s \ {Picked(s)}]
  BY <1>1 DEF SumsOver
<1>4. \A s \in SUBSET S : Cardinality(s) \in Nat /\ (Cardinality(s) = 0 <=> s = {})
  BY FS_Subset, FS_CardinalityType, FS_EmptySet
<1>. DEFINE Bounded(s) == g[s] \in 0 .. Cardinality(s) * b
            T == {Cardinality(s) : s \in {t \in SUBSET S : ~ Bounded(t)}}
<1>5. T = {}
  <2>. SUFFICES ASSUME T # {} PROVE FALSE
    OBVIOUS
  <2>1. T \in SUBSET Nat
    BY <1>4
  <2>. HIDE DEF T
  <2>2. PICK i \in T : \A j \in T : i <= j
    BY <2>1, Least
  <2>. USE DEF T
  <2>3. PICK s \in SUBSET S : ~ Bounded(s) /\ i = Cardinality(s)
    OBVIOUS
  <2>4. s # {}
    <3>. SUFFICES ASSUME s = {} PROVE FALSE
      OBVIOUS
    <3>1. g[s] = 0 /\ Cardinality(s) = 0
      BY <1>3, <1>4
    <3>2. Cardinality(s) * b = 0
      BY <3>1
    <3>. QED  BY <2>3, <3>1, <3>2
  <2>5. PICK c \in Nat : c = Cardinality(s) - 1
    BY <1>4, <2>4
  <2>6. PICK x \in s, r \in SUBSET S : x = Picked(s) /\ r = s \ {x} /\ Cardinality(r) = c
    BY <2>4, <2>5, PickedIs
  <2>7. Bounded(r)
    <3>1. ~ (i <= c) /\ i \in Nat
      BY <1>4, <2>3, <2>5
    <3>. QED  BY <2>2, <2>6, <3>1
  <2>. HIDE DEF T
  <2>8. g[s] = w[x] + g[r] /\ w[x] \in 0 .. b /\ Cardinality(s) = c + 1
    <3>1. g[s] = w[Picked(s)] + g[s \ {Picked(s)}]
      BY <1>3, <2>4
    <3>2. g[s] = w[x] + g[r]
      BY <2>6, <3>1
    <3>3. Cardinality(s) = c + 1
      BY <1>4, <2>5
    <3>. QED  BY <3>2, <3>3
  <2>9. c * b \in Nat /\ (c + 1) * b = c * b + b
    BY Products
  <2>10. PICK p \in Nat : p = c * b
    BY <2>9
  <2>11. g[r] \in 0 .. p
    BY <2>6, <2>7, <2>10
  <2>12. g[s] \in 0 .. p + b
    BY <2>8, <2>11
  <2>. QED  BY <2>3, <2>8, <2>9, <2>10, <2>12
<1>6. Bounded(S)
  BY <1>5
<1>7. ASSUME NEW x, S = {x} PROVE g[S] = w[x]
  <2>1. Picked(S) = x /\ S \ {x} = {} /\ S # {} /\ g[{}] = 0
    BY <1>3, <1>7 DEF Picked
  <2>2. g[S] = w[x] + 0 /\ w[x] \in 0 .. b
    BY <1>3, <1>7, <2>1
  <2>. QED  BY <2>2
<1>. QED  BY <1>2, <1>6, <1>7

----------------------------------------------------------------------------
\* The parcels of the two exchanges.

\* What rank r has in bin d, in the order of the bin; an item of the bin is in
\* the parcel at the place that counting gives it.
LEMMA Parcels ==
    ASSUME PlanInv, NEW d \in Ranks, NEW r \in Ranks, NEW c, c = Cardinality(Positions(d, r))
    PROVE  /\ c \in Nat /\ DOMAIN PositionsIn(d, r) = 1 .. c
           /\ PositionsIn(d, r) = [k \in 1 .. c |-> PositionsIn(d, r)[k]]
           /\ DOMAIN FromTo(r, d) = 1 .. c
           /\ \A k \in 1 .. c : /\ PositionsIn(d, r)[k] \in Places
                                /\ FromTo(r, d)[k] = bins[d][PositionsIn(d, r)[k]]
                                /\ FromTo(r, d)[k] \in Samples
                                /\ OrigRank(FromTo(r, d)[k]) = r
           /\ \A i \in Places : OrigRank(bins[d][i]) = r =>
                 /\ PlaceInBuffer(d, i) \in 1 .. c
                 /\ PositionsIn(d, r)[PlaceInBuffer(d, i)] = i
<1>. DEFINE S == Positions(d, r)
<1>1. bins[d] \in [Places -> Samples] /\ Local \in Nat /\ Places = 1 .. Local
  BY Sizes DEF PlanInv, Places
<1>2. S = {i \in Places : OrigRank(bins[d][i]) = r} /\ S \in SUBSET (1 .. Local)
  BY <1>1 DEF Positions
<1>3. /\ c \in Nat /\ PositionsIn(d, r) \in Bijection(1 .. c, S)
      /\ \A x \in S : /\ Cardinality({y \in S : y <= x}) \in 1 .. c
                      /\ PositionsIn(d, r)[Cardinality({y \in S : y <= x})] = x
  <2>1. PositionsIn(d, r) = Listing(S, <)
    BY DEF PositionsIn
  <2>. HIDE DEF S
  <2>2. /\ Cardinality(S) \in Nat /\ Listing(S, <) \in Bijection(1 .. Cardinality(S), S)
        /\ \A x \in S : /\ Cardinality({y \in S : y <= x}) \in 1 .. Cardinality(S)
                        /\ Listing(S, <)[Cardinality({y \in S : y <= x})] = x
    BY <1>1, <1>2, PositionsListed
  <2>3. c = Cardinality(S)
    BY DEF S
  <2>. QED  BY <2>1, <2>2, <2>3
<1>4. /\ DOMAIN PositionsIn(d, r) = 1 .. c /\ \A k \in 1 .. c : PositionsIn(d, r)[k] \in S
      /\ PositionsIn(d, r) = [k \in 1 .. c |-> PositionsIn(d, r)[k]]
  <2>. HIDE DEF S
  <2>. QED  BY <1>3 DEF Bijection, Injection
<1>5. /\ DOMAIN FromTo(r, d) = 1 .. c
      /\ \A k \in 1 .. c : FromTo(r, d)[k] = bins[d][PositionsIn(d, r)[k]]
  BY <1>4 DEF FromTo
<1>6. ASSUME NEW k \in 1 .. c
      PROVE  PositionsIn(d, r)[k] \in Places /\ bins[d][PositionsIn(d, r)[k]] \in Samples
             /\ OrigRank(bins[d][PositionsIn(d, r)[k]]) = r
  <2>1. PositionsIn(d, r)[k] \in {i \in Places : OrigRank(bins[d][i]) = r}
    BY <1>2, <1>4
  <2>. QED  BY <1>1, <2>1
<1>7. ASSUME NEW i \in Places, OrigRank(bins[d][i]) = r
      PROVE  PlaceInBuffer(d, i) \in 1 .. c /\ PositionsIn(d, r)[PlaceInBuffer(d, i)] = i
  <2>1. {j \in 1 .. i : OrigRank(bins[d][j]) = OrigRank(bins[d][i])} = {y \in S : y <= i}
    <3>1. \A j : j \in 1 .. i <=> j \in 1 .. Local /\ j <= i
      BY <1>1
    <3>. QED  BY <1>1, <1>2, <1>7, <3>1
  <2>2. PlaceInBuffer(d, i) = Cardinality({y \in S : y <= i})
    BY <2>1 DEF PlaceInBuffer
  <2>3. i \in S
    BY <1>2, <1>7
  <2>. HIDE DEF S
  <2>. QED  BY <1>3, <2>2, <2>3
<1>. QED  BY <1>3, <1>4, <1>5, <1>6, <1>7

OwnRows == [r \in Ranks |-> [i \in Places |-> [of |-> SampleAt(r, i), logprobs |-> None]]]
BinRows == [r \in Ranks |-> [i \in Places |-> [of |-> bins[r][i], logprobs |-> None]]]
DoneRows == [r \in Ranks |-> [i \in Places |-> [of |-> bins[r][i], logprobs |-> bins[r][i]]]]
HomeRows ==
    [r \in Ranks |-> [i \in Places |-> [of |-> SampleAt(r, i), logprobs |-> SampleAt(r, i)]]]

\* A parcel is as long as the plan says.
LEMMA BufferLength ==
    ASSUME PlanInv, NEW s \in Ranks, NEW r \in Ranks
    PROVE  /\ Len(Due(s, r)) \in Nat /\ Len(Buffer(s, r)) = Len(Due(s, r))
           /\ Len(Due(s, r)) = 0 => Buffer(s, r) = <<>>
<1>1. PICK c \in Nat : DOMAIN Due(s, r) = 1 .. c /\ Due(s, r) = [i \in 1 .. c |-> Due(s, r)[i]]
  <2>1. CASE leg = "rebalance"
    <3>1. PICK c \in Nat : DOMAIN FromTo(s, r) = 1 .. c
      BY Parcels
    <3>2. Due(s, r) = [i \in 1 .. c |-> OrigIdx(FromTo(s, r)[i])]
      BY <2>1, <3>1 DEF Due, SendTo
    <3>. QED  BY <3>2
  <2>2. CASE leg # "rebalance"
    <3>1. PICK c \in Nat : PositionsIn(s, r) = [i \in 1 .. c |-> PositionsIn(s, r)[i]]
      BY Parcels
    <3>2. Due(s, r) = PositionsIn(s, r)
      BY <2>2 DEF Due, RestoreSendTo
    <3>. QED  BY <3>1, <3>2
  <2>. QED  BY <2>1, <2>2
<1>2. Buffer(s, r) = [i \in 1 .. c |-> rows[s][Due(s, r)[i]]]
  BY <1>1 DEF Buffer
<1>3. Len(Due(s, r)) = c /\ Len(Buffer(s, r)) = c
  BY <1>1, <1>2
<1>4. c = 0 => Buffer(s, r) = <<>>
  BY <1>2
<1>. QED  BY <1>3, <1>4

\* After the rebalance a rank's rows are those of its bin.
LEMMA RebalancedRows ==
    ASSUME PlanInv, leg = "rebalance", rows = OwnRows, NEW r \in Ranks,
           \A s \in Ranks : got[r][s] = Buffer(s, r)
    PROVE  Rebalanced(r) = BinRows[r]
<1>1. bins[r] \in [Places -> Samples] /\ Len(bins[r]) = Local /\ 1 .. Local = Places
  BY Sizes DEF PlanInv, Places
<1>2. ASSUME NEW i \in Places
      PROVE  got[r][OrigRank(bins[r][i])][PlaceInBuffer(r, i)]
             = [of |-> bins[r][i], logprobs |-> None]
  <2>. DEFINE s == OrigRank(bins[r][i])
              k == PlaceInBuffer(r, i)
              c == Cardinality(Positions(r, s))
              x == bins[r][i]
  <2>1. x \in Samples /\ s \in Ranks /\ OrigIdx(x) \in Places /\ SampleAt(s, OrigIdx(x)) = x
    BY <1>1, SamplePlaces
  <2>2. /\ c \in Nat /\ k \in 1 .. c /\ DOMAIN FromTo(s, r) = 1 .. c
        /\ PositionsIn(r, s)[k] = i /\ FromTo(s, r)[k] = bins[r][PositionsIn(r, s)[k]]
    <3>1. s \in Ranks
      BY <2>1
    <3>. QED  BY <3>1, Parcels
  <2>3. FromTo(s, r)[k] = x
    BY <2>2
  <2>. HIDE DEF s, k, c
  <2>4. DOMAIN Due(s, r) = 1 .. c /\ Due(s, r)[k] = OrigIdx(x)
    BY <2>2, <2>3 DEF Due, SendTo
  <2>5. Buffer(s, r)[k] = rows[s][OrigIdx(x)]
    BY <2>2, <2>4 DEF Buffer
  <2>6. rows[s][OrigIdx(x)] = [of |-> x, logprobs |-> None]
    BY <2>1 DEF OwnRows
  <2>7. got[r][s][k] = [of |-> x, logprobs |-> None]
    BY <2>1, <2>5, <2>6
  <2>. QED  BY <2>7 DEF s, k
<1>. QED  BY <1>1, <1>2 DEF Rebalanced, BinRows

\* After the way back they are its own again, at their old places.
LEMMA RestoredRows ==
    ASSUME PlanInv, leg # "rebalance", rows = DoneRows, NEW r \in Ranks,
           \A s \in Ranks : got[r][s] = Buffer(s, r)
    PROVE  Restored(r) = HomeRows[r]
<1>1. ASSUME NEW i \in Places, NEW s, s = SampleAt(r, i), NEW d, d = HolderOf(s),
             NEW k, k = CHOOSE j \in DOMAIN FromTo(r, d) : FromTo(r, d)[j] = s
      PROVE  got[r][d][k] = [of |-> s, logprobs |-> s]
  <2>1. s \in Samples /\ OrigRank(s) = r
    BY <1>1, SamplePlaces
  <2>2. d \in Ranks /\ \E p \in Places : bins[d][p] = s
    <3>1. \A q \in Ranks : DOMAIN bins[q] = Places
      BY DEF PlanInv
    <3>2. \E q \in Ranks : \E p \in DOMAIN bins[q] : bins[q][p] = s
      BY <2>1, <3>1 DEF PlanInv
    <3>3. d = CHOOSE q \in Ranks : \E p \in DOMAIN bins[q] : bins[q][p] = s
      BY <1>1 DEF HolderOf
    <3>. QED  BY <3>1, <3>2, <3>3
  <2>3. PICK p \in Places : bins[d][p] = s
    BY <2>2
  <2>. DEFINE c == Cardinality(Positions(d, r))
  <2>4. /\ DOMAIN PositionsIn(d, r) = 1 .. c /\ DOMAIN FromTo(r, d) = 1 .. c
        /\ \A j \in 1 .. c : /\ PositionsIn(d, r)[j] \in Places
                             /\ FromTo(r, d)[j] = bins[d][PositionsIn(d, r)[j]]
        /\ PlaceInBuffer(d, p) \in 1 .. c /\ PositionsIn(d, r)[PlaceInBuffer(d, p)] = p
    BY <2>1, <2>2, <2>3, Parcels
  <2>. HIDE DEF c
  <2>5. \E j \in DOMAIN FromTo(r, d) : FromTo(r, d)[j] = s
    BY <2>3, <2>4
  <2>6. k \in 1 .. c /\ FromTo(r, d)[k] = s
    BY <1>1, <2>4, <2>5
  <2>7. DOMAIN Due(d, r) = 1 .. c /\ Due(d, r)[k] = PositionsIn(d, r)[k]
    BY <2>4 DEF Due, RestoreSendTo
  <2>8. Buffer(d, r)[k] = rows[d][PositionsIn(d, r)[k]]
    BY <2>6, <2>7 DEF Buffer
  <2>9. PositionsIn(d, r)[k] \in Places /\ bins[d][PositionsIn(d, r)[k]] = s
    BY <2>4, <2>6
  <2>10. rows[d][PositionsIn(d, r)[k]] = [of |-> s, logprobs |-> s]
    BY <2>2, <2>9 DEF DoneRows
  <2>. QED  BY <2>2, <2>8, <2>10
<1>2. \A i \in Places : LET s == SampleAt(r, i)
                            d == HolderOf(s)
                            k == CHOOSE j \in DOMAIN FromTo(r, d) : FromTo(r, d)[j] = s
                        IN got[r][d][k] = [of |-> SampleAt(r, i), logprobs |-> SampleAt(r, i)]
  BY <1>1
<1>. QED  BY <1>2 DEF Restored, HomeRows

----------------------------------------------------------------------------
\* The round of a batch, stage by stage.

Pcs == {"gather", "post", "wait", "pack", "reduce", "forward", "computed", "done", "failed"}
AllIn(P) == \A r \in Ranks : pc[r] \in P

Shapes ==
    /\ lens \in [Samples -> Lengths] /\ pc \in [Ranks -> Pcs]
    /\ chan = [s \in Ranks |-> [r \in Ranks |-> chan[s][r]]]
    /\ got = [r \in Ranks |-> [s \in Ranks |-> got[r][s]]]
    /\ rows = [r \in Ranks |-> rows[r]]
    /\ num_mb = [r \in Ranks |-> num_mb[r]] /\ groups = [r \in Ranks |-> groups[r]]
    /\ next_mb = [r \in Ranks |-> next_mb[r]]

\* Of an exchange: a parcel is sent when its sender is past "post", and then it
\* is under way or delivered.
NoMail == \A s, r \in Ranks : chan[s][r] = <<>> /\ got[r][s] = <<>>
Mail(s, r) ==
    \/ pc[s] = "post" /\ chan[s][r] = <<>> /\ got[r][s] = <<>>
    \/ pc[s] = "wait" /\ chan[s][r] = <<>> /\ got[r][s] = Buffer(s, r)
    \/ pc[s] = "wait" /\ s # r /\ chan[s][r] = Buffer(s, r) /\ got[r][s] = <<>>
Exchanging == AllIn({"post", "wait"}) /\ PlanInv /\ \A s, r \in Ranks : Mail(s, r)

\* Of the pass: the ranks that are through with packing have gone through the
\* same number of micro-batches.
HasPacked(r) == pc[r] \in {"reduce", "forward", "computed"}
Looping(r) == pc[r] \in {"forward", "computed"}
PackInv ==
    \A r \in Ranks : HasPacked(r) =>
        /\ num_mb[r] \in 1 .. Local /\ groups[r] = Parts(r, num_mb[r])
        /\ Asserts(r, num_mb[r]) /\ WithinBudget(r, num_mb[r])
LoopInv ==
    /\ \A r \in Ranks : ~ Looping(r) => next_mb[r] = 0
    /\ \A q, r \in Ranks : Looping(q) => /\ pc[r] \in {"forward", "computed", "failed"}
                                         /\ num_mb[q] = num_mb[r]
    /\ \A q, r \in Ranks : Looping(q) /\ Looping(r) => next_mb[q] = next_mb[r]
    /\ \A r \in Ranks : pc[r] = "computed" => next_mb[r] = num_mb[r]

Unbegun == leg = "rebalance" /\ rows = OwnRows /\ \A r \in Ranks : next_mb[r] = 0
Gathering == Unbegun /\ AllIn({"gather"}) /\ NoMail
Refused == AllIn({"failed"})
Sending == Unbegun /\ Exchanging
Working ==
    /\ leg = "rebalance" /\ AllIn({"pack", "reduce", "forward", "computed", "failed"})
    /\ PlanInv /\ NoMail /\ PackInv /\ LoopInv
    /\ rows = [r \in Ranks |-> IF pc[r] = "computed" THEN DoneRows[r] ELSE BinRows[r]]
Returning == leg = "restore" /\ rows = DoneRows /\ Exchanging
AtHome == leg = "restore" /\ rows = HomeRows /\ AllIn({"done"})

Stage == Gathering \/ Refused \/ Sending \/ Working \/ Returning \/ AtHome
RoundInv == Shapes /\ Stage

\* There is a rank.
LEMMA OneRank == 0 \in Ranks
BY Sizes DEF Ranks

\* The round begins so.
LEMMA InitRound == Init => RoundInv
<1>. SUFFICES ASSUME Init PROVE RoundInv
  OBVIOUS
<1>1. Shapes
  BY DEF Init, Start, Shapes, Pcs, NoRows
<1>2. Gathering
  BY DEF Init, Start, Gathering, Unbegun, AllIn, NoMail, NoRows, OwnRows
<1>. QED  BY <1>1, <1>2 DEF RoundInv, Stage

\* Where the first rank is tells the stage.
LEMMA Stages ==
    ASSUME Stage, NEW r \in Ranks
    PROVE  /\ pc[r] = "gather" => Gathering
           /\ pc[r] \in {"post", "wait"} => Sending \/ Returning
           /\ pc[r] \in {"pack", "reduce", "forward", "computed"} => Working
           /\ pc[r] = "done" => AtHome
<1>1. Gathering => pc[r] = "gather"
  BY DEF Gathering, AllIn
<1>2. Refused => pc[r] = "failed"
  BY DEF Refused, AllIn
<1>3. Sending \/ Returning => pc[r] \in {"post", "wait"}
  BY DEF Sending, Returning, Exchanging, AllIn
<1>4. Working => pc[r] \in {"pack", "reduce", "forward", "computed", "failed"}
  BY DEF Working, AllIn
<1>5. AtHome => pc[r] = "done"
  BY DEF AtHome, AllIn
<1>. QED  BY <1>1, <1>2, <1>3, <1>4, <1>5 DEF Stage

\* GatherSeqlens: the plan is made by every rank alike.
LEMMA GatherRound == ASSUME RoundInv, GatherSeqlens PROVE RoundInv'
<1>1. Gathering /\ Shapes
  BY OneRank, Stages DEF RoundInv, GatherSeqlens, AllAt
<1>2. Shapes'
  BY <1>1 DEF Shapes, GatherSeqlens, AllGoto, Pcs, wireVars, packVars
<1>. DEFINE parts == karmarkar_karp(lens, DpSize, TRUE)
<1>3. CASE Checked(parts, lens, DpSize, TRUE)
  <2>1. bins' = [r \in Ranks |-> Ordered(parts[r + 1])] /\ AllGoto("post")
    BY <1>3 DEF GatherSeqlens
  <2>2. PlanInv'
    <3>1. lens \in [Samples -> Lengths]
      BY <1>1 DEF Shapes
    <3>. HIDE DEF parts
    <3>. QED  BY <1>3, <2>1, <3>1, PlanMade
  <2>3. Unbegun'
    BY <1>1 DEF Gathering, Unbegun, GatherSeqlens, packVars, OwnRows
  <2>4. AllIn({"post", "wait"})' /\ \A s, r \in Ranks : Mail(s, r)'
    BY <1>1, <2>1 DEF Gathering, NoMail, Mail, AllIn, AllGoto, GatherSeqlens, wireVars
  <2>. QED  BY <1>2, <2>2, <2>3, <2>4 DEF RoundInv, Stage, Sending, Exchanging
<1>4. CASE ~ Checked(parts, lens, DpSize, TRUE)
  <2>1. Refused'
    BY <1>4 DEF GatherSeqlens, Refused, AllIn, AllGoto
  <2>. QED  BY <1>2, <2>1 DEF RoundInv, Stage
<1>. QED  BY <1>3, <1>4

----------------------------------------------------------------------------
\* The steps of an exchange.

\* A parcel is a matter of the plan and of the sender's rows.
LEMMA BuffersKept ==
    ASSUME UNCHANGED <<leg, bins, rows>>, NEW s, NEW r
    PROVE  Buffer(s, r)' = Buffer(s, r) /\ Due(s, r)' = Due(s, r)
<1>1. ASSUME NEW d, NEW q PROVE PositionsIn(d, q)' = PositionsIn(d, q)
  <2>1. Positions(d, q)' = Positions(d, q)
    BY DEF Positions
  <2>. QED  BY <2>1 DEF PositionsIn, Listing
<1>2. FromTo(s, r)' = FromTo(s, r)
  BY <1>1 DEF FromTo
<1>3. Due(s, r)' = Due(s, r)
  BY <1>1, <1>2 DEF Due, SendTo, RestoreSendTo
<1>. QED  BY <1>3 DEF Buffer

\* An exchange under way stays one.
LEMMA ExchangeKept ==
    ASSUME Sending \/ Returning, UNCHANGED <<lens, leg, bins, rows, packVars>>,
           AllIn({"post", "wait"})', \A s, r \in Ranks : Mail(s, r)'
    PROVE  Stage'
<1>1. PlanInv'
  BY DEF Sending, Returning, Exchanging, PlanInv
<1>2. Exchanging'
  BY <1>1 DEF Exchanging
<1>3. CASE Sending
  BY <1>2, <1>3 DEF Stage, Sending, Unbegun, OwnRows, packVars
<1>4. CASE Returning
  BY <1>2, <1>4 DEF Stage, Returning, DoneRows
<1>. QED  BY <1>3, <1>4

\* Post: a rank sends its parcels and keeps its own.
LEMMA PostRound ==
    ASSUME RoundInv, NEW p \in Ranks, Post(p)
    PROVE  RoundInv'
<1>1. (Sending \/ Returning) /\ Shapes /\ pc[p] = "post"
  BY Stages DEF RoundInv, Post
<1>2. /\ pc' = [pc EXCEPT ![p] = "wait"]
      /\ chan' = [chan EXCEPT ![p] = [d \in Ranks |-> IF d = p THEN <<>> ELSE Buffer(p, d)]]
      /\ got' = [got EXCEPT ![p][p] = Buffer(p, p)]
      /\ UNCHANGED <<lens, leg, bins, rows, packVars>>
  BY DEF Post, Goto
<1>3. Shapes'
  BY <1>1, <1>2 DEF Shapes, Pcs, packVars
<1>4. ASSUME NEW s \in Ranks, NEW r \in Ranks PROVE Mail(s, r)'
  <2>1. Buffer(s, r)' = Buffer(s, r) /\ Mail(s, r)
    BY <1>1, <1>2, BuffersKept DEF Sending, Returning, Exchanging
  <2>2. CASE s = p /\ r = p
    <3>1. pc'[s] = "wait" /\ chan'[s][r] = <<>> /\ got'[r][s] = Buffer(s, r)
      BY <1>1, <1>2, <2>2 DEF Shapes
    <3>. QED  BY <2>1, <3>1 DEF Mail
  <2>3. CASE s = p /\ r # p
    <3>1. pc'[s] = "wait" /\ chan'[s][r] = Buffer(s, r) /\ got'[r][s] = got[r][s]
      BY <1>1, <1>2, <2>3 DEF Shapes
    <3>2. got[r][s] = <<>>
      BY <1>1, <2>1, <2>3 DEF Mail
    <3>. QED  BY <2>1, <2>3, <3>1, <3>2 DEF Mail
  <2>4. CASE s # p
    <3>1. pc'[s] = pc[s] /\ chan'[s][r] = chan[s][r] /\ got'[r][s] = got[r][s]
      BY <1>1, <1>2, <2>4 DEF Shapes
    <3>. QED  BY <2>1, <3>1 DEF Mail
  <2>. QED  BY <2>2, <2>3, <2>4
<1>5. AllIn({"post", "wait"})'
  BY <1>1, <1>2 DEF Sending, Returning, Exchanging, AllIn, Shapes
<1>. QED  BY <1>1, <1>2, <1>3, <1>4, <1>5, ExchangeKept DEF RoundInv

\* Receive: one parcel arrives.
LEMMA ReceiveRound ==
    ASSUME RoundInv, NEW p \in Ranks, NEW q \in Ranks, Receive(p, q)
    PROVE  RoundInv'
<1>1. (Sending \/ Returning) /\ Shapes /\ pc[p] = "wait" /\ chan[q][p] # <<>>
  BY Stages DEF RoundInv, Receive
<1>2. /\ got' = [got EXCEPT ![p][q] = chan[q][p]] /\ chan' = [chan EXCEPT ![q][p] = <<>>]
      /\ UNCHANGED <<lens, leg, pc, bins, rows, packVars>>
  BY DEF Receive
<1>3. Shapes'
  BY <1>1, <1>2 DEF Shapes, packVars
<1>4. ASSUME NEW s \in Ranks, NEW r \in Ranks PROVE Mail(s, r)'
  <2>1. Buffer(s, r)' = Buffer(s, r) /\ Mail(s, r)
    BY <1>1, <1>2, BuffersKept DEF Sending, Returning, Exchanging
  <2>2. CASE s = q /\ r = p
    <3>1. pc'[s] = pc[s] /\ chan'[s][r] = <<>> /\ got'[r][s] = chan[s][r]
      BY <1>1, <1>2, <2>2 DEF Shapes
    <3>2. pc[s] = "wait" /\ chan[s][r] = Buffer(s, r)
      BY <1>1, <2>1, <2>2 DEF Mail
    <3>. QED  BY <2>1, <3>1, <3>2 DEF Mail
  <2>3. CASE ~ (s = q /\ r = p)
    <3>1. pc'[s] = pc[s] /\ chan'[s][r] = chan[s][r] /\ got'[r][s] = got[r][s]
      BY <1>1, <1>2, <2>3 DEF Shapes
    <3>. QED  BY <2>1, <3>1 DEF Mail
  <2>. QED  BY <2>2, <2>3
<1>5. AllIn({"post", "wait"})'
  BY <1>1, <1>2 DEF Sending, Returning, Exchanging, AllIn
<1>. QED  BY <1>1, <1>2, <1>3, <1>4, <1>5, ExchangeKept DEF RoundInv

\* Nobody is short of a parcel when all have arrived.
LEMMA AllDelivered ==
    ASSUME Exchanging, AllAt("wait"), \A r \in Ranks : Arrived(r),
           NEW s \in Ranks, NEW r \in Ranks
    PROVE  chan[s][r] = <<>> /\ got[r][s] = Buffer(s, r)
<1>1. Mail(s, r) /\ pc[s] = "wait" /\ PlanInv
  BY DEF Exchanging, AllAt
<1>2. CASE s # r /\ chan[s][r] = Buffer(s, r) /\ got[r][s] = <<>>
  <2>1. Len(got[r][s]) = Len(Due(s, r))
    BY <1>2 DEF Arrived
  <2>2. Len(Due(s, r)) = 0
    BY <1>2, <2>1
  <2>3. Buffer(s, r) = <<>>
    BY <1>1, <2>2, BufferLength
  <2>. QED  BY <1>2, <2>3
<1>. QED  BY <1>1, <1>2 DEF Mail

\* Where the rows go: in the order of the bin, or home.
LEMMA AssembledRows ==
    ASSUME RoundInv, Assemble
    PROVE  (Sending /\ rows' = BinRows) \/ (Returning /\ rows' = HomeRows)
<1>1. (Sending \/ Returning) /\ Exchanging /\ PlanInv
  <2>1. Sending \/ Returning
    BY OneRank, Stages DEF RoundInv, Assemble, AllAt
  <2>. QED  BY <2>1 DEF Sending, Returning, Exchanging
<1>2. \A s, r \in Ranks : got[r][s] = Buffer(s, r)
  BY <1>1, AllDelivered DEF Assemble
<1>3. CASE Sending
  <2>1. leg = "rebalance" /\ rows = OwnRows
    BY <1>3 DEF Sending, Unbegun
  <2>2. \A r \in Ranks : Rebalanced(r) = BinRows[r]
    BY <1>1, <1>2, <2>1, RebalancedRows
  <2>3. rows' = [r \in Ranks |-> Rebalanced(r)]
    BY <2>1 DEF Assemble
  <2>. QED  BY <1>3, <2>2, <2>3 DEF BinRows
<1>4. CASE Returning
  <2>1. leg = "restore" /\ rows = DoneRows
    BY <1>4 DEF Returning
  <2>2. \A r \in Ranks : Restored(r) = HomeRows[r]
    BY <1>1, <1>2, <2>1, RestoredRows
  <2>3. rows' = [r \in Ranks |-> Restored(r)]
    BY <2>1 DEF Assemble
  <2>. QED  BY <1>4, <2>2, <2>3 DEF HomeRows
<1>. QED  BY <1>1, <1>3, <1>4

\* Assemble: the rows are put together, in the order of the bin or at home.
LEMMA AssembleRound == ASSUME RoundInv, Assemble PROVE RoundInv'
<1>1. (Sending \/ Returning) /\ Shapes /\ Exchanging /\ PlanInv
  <2>1. Sending \/ Returning
    BY OneRank, Stages DEF RoundInv, Assemble, AllAt
  <2>. QED  BY <2>1 DEF RoundInv, Sending, Returning, Exchanging
<1>2. \A s, r \in Ranks : chan[s][r] = <<>> /\ got[r][s] = Buffer(s, r)
  BY <1>1, AllDelivered DEF Assemble
<1>3. /\ got' = [r \in Ranks |-> NoRows]
      /\ UNCHANGED <<lens, leg, bins, chan, packVars>>
  BY DEF Assemble
<1>4. Shapes'
  <2>1. pc' \in [Ranks -> Pcs]
    BY DEF Assemble, AllGoto, Pcs
  <2>2. rows' = [r \in Ranks |-> rows'[r]]
    BY DEF Assemble
  <2>. QED  BY <1>1, <1>3, <2>1, <2>2 DEF Shapes, NoRows, packVars
<1>5. NoMail' /\ PlanInv'
  BY <1>1, <1>2, <1>3 DEF NoMail, NoRows, PlanInv
<1>6. CASE Sending
  <2>1. leg = "rebalance" /\ rows = OwnRows /\ \A r \in Ranks : next_mb[r] = 0
    BY <1>6 DEF Sending, Unbegun
  <2>2. rows' = BinRows
    BY <2>1, AssembledRows DEF Returning
  <2>3. \A r \in Ranks : pc'[r] = "pack"
    BY <2>1 DEF Assemble, AllGoto
  <2>4. PackInv' /\ LoopInv'
    BY <1>3, <2>1, <2>3 DEF PackInv, HasPacked, LoopInv, Looping, packVars
  <2>5. Working'
    <3>1. BinRows' = BinRows
      BY <1>3 DEF BinRows
    <3>2. rows' = [r \in Ranks |-> IF pc'[r] = "computed" THEN DoneRows'[r] ELSE BinRows'[r]]
      BY <2>2, <2>3, <3>1 DEF BinRows
    <3>. QED  BY <1>3, <1>5, <2>1, <2>3, <2>4, <3>2 DEF Working, AllIn
  <2>. QED  BY <1>4, <2>5 DEF RoundInv, Stage
<1>7. CASE Returning
  <2>1. leg = "restore" /\ rows = DoneRows
    BY <1>7 DEF Returning
  <2>2. rows' = HomeRows
    BY <2>1, AssembledRows DEF Sending, Unbegun
  <2>3. \A r \in Ranks : pc'[r] = "done"
    BY <2>1 DEF Assemble, AllGoto
  <2>4. AtHome'
    BY <1>3, <2>1, <2>2, <2>3 DEF AtHome, AllIn, HomeRows
  <2>. QED  BY <1>4, <2>4 DEF RoundInv, Stage
<1>. QED  BY <1>1, <1>6, <1>7

----------------------------------------------------------------------------
\* The steps of the pass.

\* What is packed depends on the samples of the rows alone.
LEMMA PartsKept ==
    ASSUME UNCHANGED <<lens, cp_size>>, NEW r, NEW k,
           DOMAIN rows'[r] = DOMAIN rows[r],
           \A i \in DOMAIN rows[r] : rows'[r][i].of = rows[r][i].of
    PROVE  /\ Parts(r, k)' = Parts(r, k) /\ Asserts(r, k)' = Asserts(r, k)
           /\ WithinBudget(r, k)' = WithinBudget(r, k)
<1>1. PaddedLens(r)' = PaddedLens(r)
  BY DEF PaddedLens
<1>2. Parts(r, k)' = Parts(r, k)
  BY <1>1 DEF Parts
<1>. QED  BY <1>1, <1>2 DEF Asserts, WithinBudget, TotalAlign

\* During the pass a rank has as many rows as it started with.
LEMMA WorkingRows ==
    ASSUME Working, NEW r \in Ranks
    PROVE  DOMAIN rows[r] = Places /\ Len(rows[r]) = Local
<1>1. DOMAIN rows[r] = 1 .. Local
  BY DEF Working, DoneRows, BinRows, Places
<1>. QED  BY <1>1, Sizes DEF Working, DoneRows, BinRows, Places

\* PackLocally: a rank finds its own number.
LEMMA PackRound == ASSUME RoundInv, NEW p \in Ranks, PackLocally(p) PROVE RoundInv'
<1>1. Working /\ Shapes /\ pc[p] = "pack"
  BY Stages DEF RoundInv, PackLocally
<1>. DEFINE ends == {k \in 1 .. Len(rows[p]) :
                       /\ LowerBound(PaddedLens(p), Budget) <= k
                       /\ Asserts(p, k) => WithinBudget(p, k)}
<1>2. /\ UNCHANGED <<lens, cp_size, leg, bins, rows, chan, got, next_mb>>
      /\ \/ Goto(p, "failed") /\ UNCHANGED <<num_mb, groups>>
         \/ /\ ends # {} /\ Asserts(p, Min(ends))
            /\ num_mb' = [num_mb EXCEPT ![p] = Min(ends)]
            /\ groups' = [groups EXCEPT ![p] = Parts(p, Min(ends))]
            /\ Goto(p, "reduce")
  BY DEF PackLocally, wireVars
<1>3. \A k \in ends : k \in 1 .. Local /\ (Asserts(p, k) => WithinBudget(p, k))
  <2>1. Len(rows[p]) = Local
    BY <1>1, WorkingRows
  <2>2. \A k \in ends : k \in 1 .. Len(rows[p])
    OBVIOUS
  <2>3. \A k \in ends : Asserts(p, k) => WithinBudget(p, k)
    OBVIOUS
  <2>. HIDE DEF ends
  <2>. QED  BY <2>1, <2>2, <2>3
<1>4. ends # {} => Min(ends) \in ends
  <2>1. ends \in SUBSET Nat
    BY <1>1, WorkingRows, Sizes
  <2>. HIDE DEF ends
  <2>. QED  BY <2>1, Least
<1>. HIDE DEF ends
<1>5. PICK to \in {"failed", "reduce"} : pc' = [pc EXCEPT ![p] = to]
  BY <1>2 DEF Goto
<1>6. Shapes'
  BY <1>1, <1>2, <1>5 DEF Shapes, Pcs
<1>7. ASSUME NEW r \in Ranks, NEW k
      PROVE  /\ Parts(r, k)' = Parts(r, k) /\ Asserts(r, k)' = Asserts(r, k)
             /\ WithinBudget(r, k)' = WithinBudget(r, k)
  BY <1>2, PartsKept
<1>8. PackInv'
  <2>. SUFFICES ASSUME NEW r \in Ranks, HasPacked(r)'
                PROVE  /\ num_mb'[r] \in 1 .. Local /\ groups'[r] = Parts(r, num_mb'[r])
                       /\ Asserts(r, num_mb'[r]) /\ WithinBudget(r, num_mb'[r])
    BY <1>7 DEF PackInv
  <2>1. CASE r = p
    <3>1. pc'[p] = to /\ to # "failed"
      BY <1>1, <1>5, <2>1 DEF HasPacked, Shapes
    <3>2. ~ Goto(p, "failed")
      BY <1>1, <3>1 DEF Goto, Shapes
    <3>3. num_mb'[p] = Min(ends) /\ groups'[p] = Parts(p, Min(ends)) /\ Asserts(p, Min(ends))
      BY <1>1, <1>2, <3>2 DEF Shapes
    <3>. QED  BY <1>2, <1>3, <1>4, <2>1, <3>2, <3>3
  <2>2. CASE r # p
    <3>1. HasPacked(r) /\ num_mb'[r] = num_mb[r] /\ groups'[r] = groups[r]
      BY <1>1, <1>2, <1>5, <2>2 DEF HasPacked, Shapes
    <3>. QED  BY <1>1, <3>1 DEF Working, PackInv
  <2>. QED  BY <2>1, <2>2
<1>9. LoopInv'
  <2>1. ~ Looping(p) /\ ~ Looping(p)' /\ \A q \in Ranks : ~ Looping(q)
    BY <1>1, <1>5 DEF Working, LoopInv, Looping, Shapes
  <2>2. \A q \in Ranks : ~ Looping(q)'
    BY <1>1, <1>5, <2>1 DEF Looping, Shapes
  <2>3. \A q \in Ranks : next_mb'[q] = 0
    BY <1>1, <1>2, <2>1 DEF Working, LoopInv
  <2>. QED  BY <2>2, <2>3 DEF LoopInv, Looping
<1>10. Working'
  <2>1. PlanInv' /\ NoMail' /\ leg' = "rebalance"
    BY <1>1, <1>2 DEF Working, PlanInv, NoMail
  <2>2. AllIn({"pack", "reduce", "forward", "computed", "failed"})'
    BY <1>1, <1>5 DEF Working, AllIn, Shapes
  <2>3. rows' = [r \in Ranks |-> IF pc'[r] = "computed" THEN DoneRows'[r] ELSE BinRows'[r]]
    <3>1. \A r \in Ranks : pc'[r] = "computed" <=> pc[r] = "computed"
      BY <1>1, <1>5 DEF Shapes
    <3>2. DoneRows' = DoneRows /\ BinRows' = BinRows
      BY <1>2 DEF DoneRows, BinRows
    <3>. QED  BY <1>1, <1>2, <3>1, <3>2 DEF Working
  <2>. QED  BY <1>8, <1>9, <2>1, <2>2, <2>3 DEF Working
<1>. QED  BY <1>6, <1>10 DEF RoundInv, Stage

\* AllReduce: the ranks agree on the largest number.
LEMMA ReduceRound == ASSUME RoundInv, AllReduce PROVE RoundInv'
<1>1. Working /\ Shapes /\ \A r \in Ranks : pc[r] = "reduce"
  BY OneRank, Stages DEF RoundInv, AllReduce, AllAt
<1>2. /\ pc' = [r \in Ranks |-> IF Agrees(r) THEN "forward" ELSE "failed"]
      /\ num_mb' = [r \in Ranks |-> Target(r)]
      /\ groups' = [r \in Ranks |-> IF Agrees(r) /\ Target(r) # num_mb[r]
                                    THEN Parts(r, Target(r)) ELSE groups[r]]
      /\ UNCHANGED <<lens, cp_size, leg, bins, rows, chan, got, next_mb>>
  BY DEF AllReduce, wireVars
<1>3. ASSUME NEW r \in Ranks
      PROVE  /\ num_mb[r] \in 1 .. Local /\ groups[r] = Parts(r, num_mb[r])
             /\ Asserts(r, num_mb[r]) /\ WithinBudget(r, num_mb[r]) /\ next_mb[r] = 0
  BY <1>1 DEF Working, PackInv, HasPacked, LoopInv, Looping
<1>4. PICK n : n \in 1 .. Local /\ \A r \in Ranks : Target(r) = n
  <2>. DEFINE S == {num_mb[q] : q \in Ranks}
  <2>1. S \in SUBSET (1 .. Local) /\ S # {} /\ Local \in Nat
    BY <1>3, OneRank, Sizes
  <2>2. Max(S) \in S
    <3>. HIDE DEF S
    <3>. QED  BY <2>1, Greatest
  <2>3. Max(S) \in 1 .. Local /\ \A r \in Ranks : Target(r) = Max(S)
    BY <2>1, <2>2 DEF Target
  <2>. QED  BY <2>3
<1>5. Shapes'
  <2>1. pc' \in [Ranks -> Pcs]
    BY <1>2 DEF Pcs
  <2>. QED  BY <1>1, <1>2, <2>1 DEF Shapes
<1>6. PackInv'
  <2>. SUFFICES ASSUME NEW r \in Ranks, HasPacked(r)'
                PROVE  /\ num_mb'[r] \in 1 .. Local /\ groups'[r] = Parts(r, num_mb'[r])
                       /\ Asserts(r, num_mb'[r]) /\ WithinBudget(r, num_mb'[r])
    BY <1>2, PartsKept DEF PackInv
  <2>1. Agrees(r) /\ num_mb'[r] = n /\ Target(r) = n
    BY <1>2, <1>4 DEF HasPacked
  <2>2. CASE n = num_mb[r]
    <3>1. groups'[r] = groups[r]
      BY <1>2, <2>1, <2>2
    <3>. QED  BY <1>3, <2>1, <2>2, <3>1
  <2>3. CASE n # num_mb[r]
    <3>1. groups'[r] = Parts(r, n)
      BY <1>2, <2>1, <2>3
    <3>2. Asserts(r, n) /\ WithinBudget(r, n)
      BY <2>1, <2>3 DEF Agrees
    <3>. QED  BY <1>4, <2>1, <3>1, <3>2
  <2>. QED  BY <2>2, <2>3
<1>7. LoopInv'
  <2>1. \A r \in Ranks : /\ pc'[r] \in {"forward", "failed"} /\ num_mb'[r] = n
                         /\ next_mb'[r] = 0
    BY <1>2, <1>3, <1>4
  <2>. QED  BY <2>1 DEF LoopInv, Looping
<1>8. Working'
  <2>1. PlanInv' /\ NoMail' /\ leg' = "rebalance"
    BY <1>1, <1>2 DEF Working, PlanInv, NoMail
  <2>2. \A r \in Ranks : pc'[r] \in {"forward", "failed"}
    BY <1>2
  <2>3. rows' = [r \in Ranks |-> IF pc'[r] = "computed" THEN DoneRows'[r] ELSE BinRows'[r]]
    <3>1. rows' = BinRows' /\ BinRows' = [r \in Ranks |-> BinRows'[r]]
      BY <1>1, <1>2 DEF Working, BinRows
    <3>2. \A r \in Ranks : pc'[r] # "computed"
      BY <2>2
    <3>. QED  BY <3>1, <3>2
  <2>. QED  BY <1>6, <1>7, <2>1, <2>2, <2>3 DEF Working, AllIn
<1>. QED  BY <1>5, <1>8 DEF RoundInv, Stage

\* Forward: all ranks go through one micro-batch.
LEMMA ForwardRound == ASSUME RoundInv, Forward PROVE RoundInv'
<1>1. \A r \in Ranks : pc[r] = "forward"
  BY DEF Forward, MayForward, InLoop
<1>2. Working /\ Shapes
  BY <1>1, OneRank, Stages DEF RoundInv
<1>3. /\ next_mb' = [r \in Ranks |-> next_mb[r] + 1]
      /\ UNCHANGED <<lens, cp_size, leg, pc, bins, rows, chan, got, num_mb, groups>>
  BY DEF Forward, wireVars
<1>4. Shapes'
  BY <1>2, <1>3 DEF Shapes
<1>5. PackInv'
  <2>1. \A r \in Ranks : HasPacked(r)' = HasPacked(r)
    BY <1>3 DEF HasPacked
  <2>. QED  BY <1>2, <1>3, <2>1, PartsKept DEF Working, PackInv
<1>6. LoopInv'
  BY <1>1, <1>2, <1>3 DEF Working, LoopInv, Looping
<1>7. Working'
  BY <1>2, <1>3, <1>5, <1>6 DEF Working, AllIn, PlanInv, NoMail, DoneRows, BinRows
<1>. QED  BY <1>4, <1>7 DEF RoundInv, Stage

\* AttachLogprobs: the results go to the samples they are of.
LEMMA AttachRound == ASSUME RoundInv, NEW p \in Ranks, AttachLogprobs(p) PROVE RoundInv'
<1>1. Working /\ Shapes /\ pc[p] = "forward" /\ next_mb[p] = num_mb[p]
  BY Stages DEF RoundInv, AttachLogprobs
<1>2. /\ rows' = [rows EXCEPT ![p] =
                    [i \in DOMAIN rows[p] |->
                       [rows[p][i] EXCEPT !.logprobs = rows[p][SampleOrder(p, i)].of]]]
      /\ pc' = [pc EXCEPT ![p] = "computed"]
      /\ UNCHANGED <<lens, cp_size, leg, bins, chan, got, num_mb, groups, next_mb>>
  BY DEF AttachLogprobs, Goto, wireVars, packVars
<1>3. rows'[p] = DoneRows[p] /\ \A r \in Ranks \ {p} : rows'[r] = rows[r]
  <2>1. rows[p] = BinRows[p] /\ BinRows[p] = [i \in Places |-> [of |-> bins[p][i], logprobs |-> None]]
    BY <1>1 DEF Working, BinRows
  <2>2. rows'[p] = [i \in Places |-> [rows[p][i] EXCEPT !.logprobs = rows[p][i].of]]
    BY <1>1, <1>2, <2>1 DEF Shapes, SampleOrder
  <2>3. \A i \in Places : [rows[p][i] EXCEPT !.logprobs = rows[p][i].of]
                          = [of |-> bins[p][i], logprobs |-> bins[p][i]]
    BY <2>1
  <2>4. rows'[p] = DoneRows[p]
    BY <2>2, <2>3 DEF DoneRows
  <2>. QED  BY <1>1, <1>2, <2>4 DEF Shapes
<1>4. ASSUME NEW r \in Ranks, NEW k
      PROVE  /\ Parts(r, k)' = Parts(r, k) /\ Asserts(r, k)' = Asserts(r, k)
             /\ WithinBudget(r, k)' = WithinBudget(r, k)
  <2>1. DOMAIN rows'[r] = DOMAIN rows[r] /\ \A i \in DOMAIN rows[r] : rows'[r][i].of = rows[r][i].of
    <3>1. CASE r # p
      BY <1>3, <3>1
    <3>2. CASE r = p
      <4>1. rows[p] = BinRows[p]
        BY <1>1 DEF Working
      <4>. QED  BY <1>3, <3>2, <4>1 DEF BinRows, DoneRows
    <3>. QED  BY <3>1, <3>2
  <2>. QED  BY <1>2, <2>1, PartsKept
<1>5. Shapes'
  <2>1. rows' = [r \in Ranks |-> rows'[r]]
    BY <1>1, <1>2 DEF Shapes
  <2>2. pc' \in [Ranks -> Pcs]
    BY <1>1, <1>2 DEF Shapes, Pcs
  <2>. QED  BY <1>1, <1>2, <2>1, <2>2 DEF Shapes
<1>6. PackInv'
  <2>1. \A r \in Ranks : HasPacked(r)' => HasPacked(r)
    BY <1>1, <1>2 DEF HasPacked, Shapes
  <2>. QED  BY <1>1, <1>2, <1>4, <2>1 DEF Working, PackInv
<1>7. LoopInv'
  <2>1. \A r \in Ranks : Looping(r)' = Looping(r)
    BY <1>1, <1>2 DEF Looping, Shapes
  <2>2. \A r \in Ranks : pc'[r] = "failed" <=> pc[r] = "failed"
    BY <1>1, <1>2 DEF Shapes
  <2>3. \A r \in Ranks : pc'[r] = "computed" => next_mb'[r] = num_mb'[r]
    BY <1>1, <1>2 DEF Working, LoopInv, Shapes
  <2>4. \A r \in Ranks : pc'[r] \in {"forward", "computed", "failed"}
                         <=> pc[r] \in {"forward", "computed", "failed"}
    BY <1>1, <1>2 DEF Shapes
  <2>. QED  BY <1>1, <1>2, <2>1, <2>2, <2>3, <2>4 DEF Working, LoopInv
<1>8. Working'
  <2>1. PlanInv' /\ NoMail' /\ leg' = "rebalance"
    BY <1>1, <1>2 DEF Working, PlanInv, NoMail
  <2>2. AllIn({"pack", "reduce", "forward", "computed", "failed"})'
    BY <1>1, <1>2 DEF Working, AllIn, Shapes
  <2>3. rows' = [r \in Ranks |-> IF pc'[r] = "computed" THEN DoneRows'[r] ELSE BinRows'[r]]
    <3>1. DoneRows' = DoneRows /\ BinRows' = BinRows
      BY <1>2 DEF DoneRows, BinRows
    <3>2. \A r \in Ranks : rows[r] = IF pc[r] = "computed" THEN DoneRows[r] ELSE BinRows[r]
      BY <1>1 DEF Working
    <3>3. \A r \in Ranks : rows'[r] = IF pc'[r] = "computed" THEN DoneRows[r] ELSE BinRows[r]
      BY <1>1, <1>2, <1>3, <3>2 DEF Shapes
    <3>. QED  BY <1>5, <3>1, <3>3 DEF Shapes
  <2>. QED  BY <1>6, <1>7, <2>1, <2>2, <2>3 DEF Working
<1>. QED  BY <1>5, <1>8 DEF RoundInv, Stage

\* StartRestore: the way back begins.
LEMMA RestoreRound == ASSUME RoundInv, StartRestore PROVE RoundInv'
<1>1. Working /\ Shapes /\ \A r \in Ranks : pc[r] = "computed"
  BY OneRank, Stages DEF RoundInv, StartRestore, AllAt
<1>2. /\ leg' = "restore" /\ pc' = [r \in Ranks |-> "post"]
      /\ UNCHANGED <<lens, cp_size, bins, rows, chan, got, packVars>>
  BY DEF StartRestore, AllGoto, wireVars
<1>3. Shapes'
  BY <1>1, <1>2 DEF Shapes, Pcs, packVars
<1>4. rows' = DoneRows'
  <2>1. rows = [r \in Ranks |-> DoneRows[r]]
    BY <1>1 DEF Working
  <2>. QED  BY <1>2, <2>1 DEF DoneRows
<1>5. Exchanging'
  BY <1>1, <1>2 DEF Working, Exchanging, AllIn, PlanInv, NoMail, Mail
<1>. QED  BY <1>2, <1>3, <1>4, <1>5 DEF RoundInv, Stage, Returning

\* Every step keeps to the round.
LEMMA NextRound == RoundInv /\ [Next]_vars => RoundInv'
<1>. SUFFICES ASSUME RoundInv, [Next]_vars PROVE RoundInv'
  OBVIOUS
<1>1. CASE GatherSeqlens
  BY <1>1, GatherRound
<1>2. CASE Assemble
  BY <1>2, AssembleRound
<1>3. CASE AllReduce
  BY <1>3, ReduceRound
<1>4. CASE Forward
  BY <1>4, ForwardRound
<1>5. CASE StartRestore
  BY <1>5, RestoreRound
<1>6. ASSUME NEW r \in Ranks, Post(r) PROVE RoundInv'
  BY <1>6, PostRound
<1>7. ASSUME NEW r \in Ranks, PackLocally(r) PROVE RoundInv'
  BY <1>7, PackRound
<1>8. ASSUME NEW r \in Ranks, AttachLogprobs(r) PROVE RoundInv'
  BY <1>8, AttachRound
<1>9. ASSUME NEW r \in Ranks, NEW s \in Ranks, Receive(r, s) PROVE RoundInv'
  BY <1>9, ReceiveRound
<1>10. CASE UNCHANGED vars
  <2>1. UNCHANGED <<lens, cp_size, leg, pc, bins, rows, chan, got, num_mb, groups, next_mb>>
    BY <1>10 DEF vars
  <2>2. Shapes'
    BY <2>1 DEF RoundInv, Shapes
  <2>3. UNCHANGED <<PlanInv, NoMail, LoopInv, OwnRows, BinRows, DoneRows, HomeRows>>
    BY <2>1 DEF PlanInv, NoMail, LoopInv, Looping, OwnRows, BinRows, DoneRows, HomeRows
  <2>4. PackInv => PackInv'
    BY <2>1, PartsKept DEF PackInv, HasPacked
  <2>5. Exchanging => Exchanging'
    <3>1. \A s, r \in Ranks : Mail(s, r) => Mail(s, r)'
      BY <2>1, BuffersKept DEF Mail
    <3>. QED  BY <2>1, <2>3, <3>1 DEF Exchanging, AllIn
  <2>6. Stage'
    BY <2>1, <2>3, <2>4, <2>5 DEF RoundInv, Stage, Gathering, Unbegun, Refused, Sending,
       Working, Returning, AtHome, AllIn
  <2>. QED  BY <2>2, <2>6 DEF RoundInv
<1>. QED  BY <1>1, <1>2, <1>3, <1>4, <1>5, <1>6, <1>7, <1>8, <1>9, <1>10 DEF Next

\* The inductive invariant.
LEMMA RoundHolds == Spec => []RoundInv
BY InitRound, NextRound, PTL DEF Spec

----------------------------------------------------------------------------
\* What the round promises.

\* The round promises the order.
LEMMA RoundRestores == RoundInv => RestoredInPlace
<1>. SUFFICES ASSUME RoundInv, NEW r \in Ranks, pc[r] = "done"
              PROVE  rows[r] = [i \in Places |-> [of |-> SampleAt(r, i),
                                                  logprobs |-> SampleAt(r, i)]]
  BY DEF RestoredInPlace
<1>1. AtHome
  BY Stages DEF RoundInv
<1>. QED  BY <1>1 DEF AtHome, HomeRows

\* In the end every rank has its own samples at their old places, each with
\* the log-probabilities computed from it: restore_log_probs_to_original_batches
\* undoes rebalance_across_dp_ranks.
THEOREM OrderIsRestored == Spec => []RestoredInPlace
BY RoundRestores, RoundHolds, PTL

\* The exchange has or gets what it waits for, and the ranks leave the
\* micro-batch loop together.
LEMMA WaitsEnd == RoundInv => MailIsDue /\ LockStep
<1>1. RoundInv => MailIsDue /\ LockStep
  <2>. SUFFICES ASSUME RoundInv PROVE MailIsDue /\ LockStep
    OBVIOUS
  <2>1. ASSUME NEW r \in Ranks, NEW s \in Ranks, pc[r] = "wait", pc[s] # "post"
        PROVE  Len(chan[s][r]) + Len(got[r][s]) = Len(Due(s, r))
    <3>1. PlanInv /\ Mail(s, r)
      BY <2>1, Stages DEF RoundInv, Sending, Returning, Exchanging
    <3>2. Len(Due(s, r)) \in Nat /\ Len(Buffer(s, r)) = Len(Due(s, r))
      BY <3>1, BufferLength
    <3>3. Len(<<>>) = 0
      OBVIOUS
    <3>4. CASE chan[s][r] = <<>> /\ got[r][s] = Buffer(s, r)
      BY <3>2, <3>3, <3>4
    <3>5. CASE chan[s][r] = Buffer(s, r) /\ got[r][s] = <<>>
      BY <3>2, <3>3, <3>5
    <3>. QED  BY <2>1, <3>1, <3>4, <3>5 DEF Mail
  <2>2. ASSUME NEW q \in Ranks, NEW r \in Ranks, InLoop(q), pc[r] # "failed"
        PROVE  InLoop(r)
    <3>1. Working /\ pc[q] = "forward" /\ next_mb[q] < num_mb[q]
      BY <2>2, Stages DEF RoundInv, InLoop
    <3>2. Looping(q) /\ Looping(r)
      BY <2>2, <3>1 DEF Working, LoopInv, Looping
    <3>3. /\ num_mb[q] = num_mb[r] /\ next_mb[q] = next_mb[r] /\ num_mb[q] \in Int
          /\ pc[r] = "computed" => next_mb[r] = num_mb[r]
      BY <3>1, <3>2 DEF Working, LoopInv, PackInv, HasPacked
    <3>. QED  BY <3>1, <3>2, <3>3 DEF InLoop, Looping
  <2>. QED  BY <2>1, <2>2 DEF MailIsDue, LockStep
<1>. QED  BY <1>1

\* After the rebalance every sample is on one rank, each rank has as many as it
\* brought, in the order of its bin.
LEMMA SamplesConserved == RoundInv => RebalanceConserves
<1>. SUFFICES ASSUME RoundInv, \A r \in Ranks : Holding(r)
              PROVE  /\ \A r \in Ranks : Len(rows[r]) = Local
                     /\ {rows[r][i].of : r \in Ranks, i \in Places} = Samples
                     /\ \A r \in Ranks, i \in Places : rows[r][i].of = bins[r][i]
  BY DEF RebalanceConserves
<1>1. Working
  BY OneRank, Stages DEF RoundInv, Holding
<1>2. \A r \in Ranks : Len(rows[r]) = Local
  BY <1>1, WorkingRows
<1>3. \A r \in Ranks, i \in Places : rows[r][i].of = bins[r][i]
  BY <1>1 DEF Working, BinRows, DoneRows
<1>4. {bins[r][i] : r \in Ranks, i \in Places} = Samples
  BY <1>1 DEF Working, PlanInv
<1>. QED  BY <1>2, <1>3, <1>4

\* The partition has k parts.
LEMMA PartsShape ==
    ASSUME NEW w, NEW k, NEW e
    PROVE  karmarkar_karp(w, k, e) = [i \in 1 .. k |-> karmarkar_karp(w, k, e)[i]]
BY DEF karmarkar_karp

\* In the loop the ranks' micro-batches are as many, none is empty or too heavy,
\* and together they are the rank's samples.
LEMMA BatchesCover == RoundInv => SameMicroBatches
<1>. SUFFICES ASSUME RoundInv, NEW r \in Ranks, pc[r] = "forward"
              PROVE  /\ \A q \in Ranks : num_mb[q] = num_mb[r]
                     /\ Len(groups[r]) = num_mb[r]
                     /\ \A m \in 1 .. num_mb[r] :
                          /\ groups[r][m] # {}
                          /\ RoundUp(Weight(PaddedLens(r), groups[r][m]), TotalAlign) <= Budget
                     /\ UNION {groups[r][m] : m \in 1 .. num_mb[r]} = DOMAIN rows[r]
  BY DEF SameMicroBatches
<1>1. Working
  BY Stages DEF RoundInv
<1>. DEFINE n == num_mb[r]
<1>2. /\ n \in 1 .. Local /\ groups[r] = Parts(r, n) /\ Asserts(r, n) /\ WithinBudget(r, n)
      /\ \A q \in Ranks : num_mb[q] = n
  BY <1>1 DEF Working, PackInv, HasPacked, LoopInv, Looping
<1>3. DOMAIN Parts(r, n) = 1 .. n /\ Len(Parts(r, n)) = n
  <2>1. Parts(r, n) = [i \in 1 .. n |-> Parts(r, n)[i]]
    BY PartsShape DEF Parts
  <2>2. n \in Nat
    BY <1>2, Sizes
  <2>. QED  BY <2>1, <2>2
<1>. HIDE DEF n
<1>4. DOMAIN PaddedLens(r) = DOMAIN rows[r]
  BY DEF PaddedLens
<1>5. /\ \A m \in 1 .. n : Parts(r, n)[m] # {}
      /\ UNION {Parts(r, n)[m] : m \in 1 .. n} = DOMAIN rows[r]
  BY <1>2, <1>4 DEF Asserts, Checked
<1>6. \A m \in 1 .. n :
         RoundUp(Weight(PaddedLens(r), Parts(r, n)[m]), TotalAlign) <= Budget
  BY <1>2, <1>3 DEF WithinBudget, Fits, PackedLoad, AlignedTotal
<1>. QED  BY <1>2, <1>3, <1>5, <1>6 DEF n

\* The padded length of a sample is positive.
LEMMA RoundedUp ==
    ASSUME NEW a \in Nat \ {0}, NEW m \in Nat \ {0}
    PROVE  RoundUp(a, m) \in Nat \ {0}
<1>. DEFINE x == a + m - 1
<1>1. x \in Nat /\ x >= m
  OBVIOUS
<1>. HIDE DEF x
<1>2. PICK q \in Nat, r \in 0 .. m - 1 : q = x \div m /\ x = q * m + r
  BY <1>1, Euclid
<1>3. q # 0
  BY <1>1, <1>2
<1>4. q * m \in Nat /\ 1 * m <= q * m
  BY <1>3, Products
<1>. QED  BY <1>2, <1>4 DEF RoundUp, x

\* The padded lengths of a rank's rows are positive.
LEMMA LengthsArePositive ==
    ASSUME RoundInv, Working, NEW r \in Ranks
    PROVE  PaddedLens(r) \in [1 .. Local -> Nat \ {0}]
<1>1. DOMAIN rows[r] = Places /\ Places = 1 .. Local /\ \A i \in Places : rows[r][i].of \in Samples
  <2>1. rows[r] = DoneRows[r] \/ rows[r] = BinRows[r]
    BY DEF Working
  <2>2. \A i \in Places : bins[r][i] \in Samples
    BY DEF Working, PlanInv
  <2>. QED  BY <2>1, <2>2, WorkingRows DEF DoneRows, BinRows, Places
<1>2. ASSUME NEW s \in Samples PROVE lens[s] \in Nat \ {0}
  BY BatchPlanAssumption DEF BatchPlanAssumption, RoundInv, Shapes
<1>3. ASSUME NEW i \in 1 .. Local PROVE RoundUp(lens[rows[r][i].of], Pad) \in Nat \ {0}
  <2>1. PICK l \in Nat \ {0} : l = lens[rows[r][i].of]
    BY <1>1, <1>2
  <2>2. RoundUp(l, Pad) \in Nat \ {0}
    BY RoundedUp, BatchPlanAssumption DEF BatchPlanAssumption
  <2>. QED  BY <2>1, <2>2
<1>. QED  BY <1>1, <1>3 DEF PaddedLens

\* No sample is in two micro-batches.
LEMMA BatchesApart == RoundInv => EachInOneMicroBatch
<1>. SUFFICES ASSUME RoundInv, NEW r \in Ranks, pc[r] = "forward"
              PROVE  \A i, j \in 1 .. num_mb[r] : i # j => groups[r][i] \cap groups[r][j] = {}
  BY DEF EachInOneMicroBatch
<1>1. Working
  BY Stages DEF RoundInv
<1>2. num_mb[r] \in Nat \ {0} /\ groups[r] = Parts(r, num_mb[r])
  BY <1>1, Sizes DEF Working, PackInv, HasPacked
<1>3. PaddedLens(r) \in [1 .. Local -> Nat \ {0}] /\ Local \in Nat \ {0}
  BY <1>1, LengthsArePositive, Sizes
<1>4. PICK p : p = karmarkar_karp(PaddedLens(r), num_mb[r], FALSE)
  OBVIOUS
<1>5. \A i, j \in 1 .. num_mb[r] : i # j => p[i] \cap p[j] = {}
  BY <1>2, <1>3, <1>4, PartsAre
<1>. QED  BY <1>2, <1>4, <1>5 DEF Parts

\* The round keeps the work even.
LEMMA RoundIsEven == RoundInv => EvenWork
BY SamplesConserved, BatchesCover, BatchesApart DEF EvenWork

\* After the rebalance the ranks have complete and equal work: every sample is on
\* one rank in the order of its bin, and the ranks pack theirs into the same
\* number of micro-batches, each within max_token_len, none empty, each sample in
\* one of them.  For any number of ranks and samples, any lengths and any budget
\* a sample fits.
THEOREM WorkIsEven == Spec => []EvenWork
BY RoundIsEven, RoundHolds, PTL

----------------------------------------------------------------------------
\* A rank can always pack alone: one sample per micro-batch fits.

\* Rounding up does not shorten, and the multiple is the rounded quotient.
LEMMA RoundedUpIs ==
    ASSUME NEW a \in Nat, NEW m \in Nat \ {0}
    PROVE  /\ RoundUp(a, m) \in Nat /\ a <= RoundUp(a, m)
           /\ RoundUp(a, m) \div m = (a + m - 1) \div m
<1>1. a + m - 1 \in Nat
  OBVIOUS
<1>2. PICK x \in Nat : x = a + m - 1
  BY <1>1
<1>3. PICK q \in Nat, r \in 0 .. m - 1 : q = x \div m /\ x = q * m + r
  BY Euclid
<1>4. PICK p \in Nat : p = q * m
  BY Products
<1>5. a <= p
  BY <1>2, <1>3, <1>4
<1>6. p \div m = q
  <2>1. 0 \in 0 .. m - 1 /\ p = q * m + 0
    BY <1>4
  <2>. QED  BY <2>1, EuclidUnique
<1>7. RoundUp(a, m) = p
  BY <1>2, <1>3, <1>4 DEF RoundUp
<1>. QED  BY <1>2, <1>3, <1>5, <1>6, <1>7

\* k parts of 1 .. n that share nothing, none of them empty.
Partitioned(parts, k, n) ==
    /\ \A i, j \in 1 .. k : i # j => parts[i] \cap parts[j] = {}
    /\ UNION {parts[i] : i \in 1 .. k} = 1 .. n
    /\ \A i \in 1 .. k : parts[i] # {}

\* Karmarkar-Karp makes such parts.
LEMMA PartsMade ==
    ASSUME NEW n \in Nat \ {0}, NEW k \in 1 .. n, NEW w \in [1 .. n -> Nat \ {0}]
    PROVE  Partitioned(karmarkar_karp(w, k, FALSE), k, n)
<1>1. k \in Nat \ {0} /\ k <= n
  OBVIOUS
<1>2. /\ \A i, j \in 1 .. k : i # j =>
            karmarkar_karp(w, k, FALSE)[i] \cap karmarkar_karp(w, k, FALSE)[j] = {}
      /\ UNION {karmarkar_karp(w, k, FALSE)[i] : i \in 1 .. k} = 1 .. n
      /\ k <= n => \A i \in 1 .. k : karmarkar_karp(w, k, FALSE)[i] # {}
  BY <1>1, PartsAre, Zenon
<1>. QED  BY <1>1, <1>2 DEF Partitioned

\* So what karmarkar_karp asserts of its result holds.
LEMMA PartsChecked ==
    ASSUME NEW n \in Nat \ {0}, NEW k \in 1 .. n, NEW w \in [1 .. n -> Nat \ {0}]
    PROVE  Checked(karmarkar_karp(w, k, FALSE), w, k, FALSE)
<1>1. PICK parts : parts = karmarkar_karp(w, k, FALSE)
  OBVIOUS
<1>2. k \in Nat \ {0} /\ k <= n /\ Len(w) = n /\ DOMAIN w = 1 .. n
  OBVIOUS
<1>3. Partitioned(parts, k, n)
  BY <1>1, PartsMade
<1>4. /\ \A i \in 1 .. k : parts[i] # {}
      /\ UNION {parts[i] : i \in 1 .. k} = DOMAIN w
      /\ \A i, j \in 1 .. k : i # j => parts[i] \cap parts[j] = {}
  BY <1>2, <1>3 DEF Partitioned
<1>. QED  BY <1>1, <1>2, <1>4 DEF Checked

\* As many parts as items: each is one item.
LEMMA FinestParts ==
    ASSUME NEW n \in Nat \ {0}, NEW parts, Partitioned(parts, n, n), NEW i \in 1 .. n
    PROVE  \E x \in 1 .. n : parts[i] = {x}
<1>. DEFINE N == 1 .. n
            f == [x \in N |-> CHOOSE j \in N : x \in parts[j]]
<1>0. /\ \A x \in N : \E j \in N : x \in parts[j]
      /\ \A j \in N : parts[j] # {} /\ parts[j] \subseteq N
      /\ \A j, k \in N : j # k => parts[j] \cap parts[k] = {}
  BY DEF Partitioned
<1>1. \A x \in N : f[x] \in N /\ x \in parts[f[x]]
  BY <1>0
<1>2. ASSUME NEW j \in N, NEW x \in parts[j] PROVE x \in N /\ f[x] = j
  <2>1. x \in N
    BY <1>0
  <2>2. f[x] \in N /\ x \in parts[f[x]]
    BY <1>1, <2>1
  <2>. HIDE DEF f
  <2>. QED  BY <1>0, <2>1, <2>2
<1>3. f \in Surjection(N, N)
  <2>1. f \in [N -> N]
    BY <1>1
  <2>2. ASSUME NEW j \in N PROVE \E x \in N : f[x] = j
    <3>1. PICK x : x \in parts[j]
      BY <1>0
    <3>2. x \in N /\ f[x] = j
      BY <1>2, <3>1
    <3>. HIDE DEF f
    <3>. QED  BY <3>2
  <2>. HIDE DEF f
  <2>. QED  BY <2>1, <2>2 DEF Surjection
<1>4. IsFiniteSet(N)
  BY FS_Interval
<1>5. f \in Injection(N, N)
  <2>. HIDE DEF f, N
  <2>. QED  BY <1>3, <1>4, FS_SurjSameCardinalityImpliesInj
<1>. HIDE DEF f
<1>6. \A x, y \in N : f[x] = f[y] => x = y
  BY <1>5 DEF Injection, IsInjective
<1>7. PICK x : x \in parts[i]
  BY <1>0
<1>8. \A y \in parts[i] : y = x
  BY <1>2, <1>6, <1>7
<1>. QED  BY <1>2, <1>7, <1>8

\* Then each part fits if each item does.
LEMMA FinestFits ==
    ASSUME NEW n \in Nat \ {0}, NEW w \in [1 .. n -> Nat \ {0}], NEW align, NEW limit,
           \A x \in 1 .. n : RoundUp(w[x], align) <= limit
    PROVE  Fits(karmarkar_karp(w, n, FALSE), w, align, limit)
<1>1. PICK parts : parts = karmarkar_karp(w, n, FALSE)
  OBVIOUS
<1>2. DOMAIN parts = 1 .. n
  BY <1>1, PartsShape
<1>3. Partitioned(parts, n, n)
  <2>1. n \in 1 .. n
    OBVIOUS
  <2>. QED  BY <1>1, <2>1, PartsMade
<1>4. ASSUME NEW i \in 1 .. n
      PROVE  RoundUp(Weight(w, parts[i]), align) <= limit
  <2>1. PICK x \in 1 .. n : parts[i] = {x}
    BY <1>3, FinestParts
  <2>2. PICK l \in Nat : l = w[x]
    OBVIOUS
  <2>3. \A y \in {x} : w[y] \in 0 .. l
    BY <2>2
  <2>4. IsFiniteSet({x})
    BY FS_Singleton
  <2>5. Weight(w, {x}) = w[x]
    BY <2>3, <2>4, WeightBounds
  <2>. QED  BY <2>1, <2>5
<1>. QED  BY <1>1, <1>2, <1>4 DEF Fits, PackedLoad, AlignedTotal

\* The search starts at a number of micro-batches the samples allow.
LEMMA SearchStarts ==
    ASSUME NEW n \in Nat \ {0}, NEW w \in [1 .. n -> Nat \ {0}], NEW limit \in Nat \ {0},
           \A x \in 1 .. n : w[x] <= limit
    PROVE  LowerBound(w, limit) <= n
<1>1. DOMAIN w = 1 .. n /\ IsFiniteSet(1 .. n) /\ Cardinality(1 .. n) = n
  BY FS_Interval
<1>2. Weight(w, 1 .. n) \in 0 .. n * limit
  <2>1. \A x \in 1 .. n : w[x] \in 0 .. limit
    OBVIOUS
  <2>. QED  BY <1>1, <2>1, WeightBounds
<1>3. PICK t \in Nat : t = n * limit
  BY Products
<1>4. PICK a \in 0 .. t : a = Weight(w, 1 .. n)
  BY <1>2, <1>3
<1>5. PICK x \in Nat : x = a + limit - 1
  OBVIOUS
<1>6. PICK q \in Nat, r \in 0 .. limit - 1 : q = x \div limit /\ x = q * limit + r
  BY Euclid
<1>7. q <= n
  <2>. SUFFICES ASSUME n + 1 <= q PROVE FALSE
    BY <1>6
  <2>1. (n + 1) * limit <= q * limit /\ (n + 1) * limit = t + limit
    BY <1>3, Products
  <2>2. PICK z \in Nat : z = q * limit
    BY Products
  <2>3. x = z + r /\ t + limit <= z
    BY <1>6, <2>1, <2>2
  <2>. QED  BY <1>4, <1>5, <2>3
<1>8. LowerBound(w, limit) = Max({1, q})
  <2>1. a \in Nat /\ RoundUp(a, limit) \div limit = (a + limit - 1) \div limit
    BY RoundedUpIs
  <2>. QED  BY <1>1, <1>4, <1>5, <1>6, <2>1 DEF LowerBound
<1>9. Max({1, q}) \in {1, q}
  <2>1. CASE q = 0
    <3>1. Max({1, q}) = 1
      BY <2>1 DEF Max
    <3>. QED  BY <3>1
  <2>2. CASE q # 0
    <3>1. {1, q} \in SUBSET (1 .. n) /\ {1, q} # {} /\ n \in Nat
      BY <1>7, <2>2
    <3>. QED  BY <3>1, Greatest
  <2>. QED  BY <2>1, <2>2
<1>. QED  BY <1>7, <1>8, <1>9

----------------------------------------------------------------------------
\* Which assertion can fail.

\* By then no rank is on its way to the alignment any more.
FailedLate ==
    \A q, r \in Ranks : pc[r] = "failed" => pc[q] \in {"forward", "computed", "failed"}

FailuresHold == FailedLate /\ OnlyAlignmentFails
PlanHolds == RoundInv /\ cp_size \in CpSizes /\ FailuresHold

\* The plan's assertions hold.
LEMMA GatherNeverFails ==
    ASSUME lens \in [Samples -> Lengths]
    PROVE  Checked(karmarkar_karp(lens, DpSize, TRUE), lens, DpSize, TRUE)
<1>1. DpSize \in Nat \ {0} /\ Local \in Nat \ {0} /\ DpSize * Local = Local * DpSize
  BY Sizes
<1>2. lens \in [1 .. Local * DpSize -> Nat \ {0}]
  BY <1>1, BatchPlanAssumption DEF BatchPlanAssumption, Samples
<1>. QED  BY <1>1, <1>2, EqualPartsAre

\* Every sample alone fits, padded for the document and for context parallelism.
LEMMA SamplesFit ==
    ASSUME RoundInv, Working, cp_size \in CpSizes, NEW r \in Ranks, NEW i \in 1 .. Local
    PROVE  /\ PaddedLens(r)[i] <= Budget
           /\ RoundUp(PaddedLens(r)[i], TotalAlign) <= Budget
<1>1. DOMAIN rows[r] = Places /\ Places = 1 .. Local /\ rows[r][i].of \in Samples
  <2>1. rows[r] = DoneRows[r] \/ rows[r] = BinRows[r]
    BY DEF Working
  <2>2. \A j \in Places : bins[r][j] \in Samples
    BY DEF Working, PlanInv
  <2>. QED  BY <2>1, <2>2, WorkingRows DEF DoneRows, BinRows, Places
<1>2. PICK l \in Lengths : l = lens[rows[r][i].of]
  BY <1>1 DEF RoundInv, Shapes
<1>3. PICK p : p = RoundUp(l, Pad)
  OBVIOUS
<1>4. PaddedLens(r)[i] = p
  BY <1>1, <1>2, <1>3 DEF PaddedLens
<1>5. RoundUp(p, TotalAlign) <= Budget
  BY <1>2, <1>3, BatchPlanAssumption DEF BatchPlanAssumption, TotalAlign
<1>6. p \in Nat
  BY <1>4, LengthsArePositive
<1>7. TotalAlign \in Nat \ {0}
  <2>1. cp_size \in Nat \ {0} /\ Pad \in Nat \ {0}
    BY BatchPlanAssumption DEF BatchPlanAssumption
  <2>2. cp_size * Pad \in Nat /\ 1 * Pad <= cp_size * Pad
    BY <2>1, Products
  <2>. QED  BY <2>1, <2>2 DEF TotalAlign
<1>8. RoundUp(p, TotalAlign) \in Nat /\ p <= RoundUp(p, TotalAlign) /\ Budget \in Nat
  BY <1>6, <1>7, RoundedUpIs, BatchPlanAssumption DEF BatchPlanAssumption
<1>. QED  BY <1>4, <1>5, <1>6, <1>8

\* A rank's own search cannot fail.
LEMMA PackNeverFails ==
    ASSUME RoundInv, Working, cp_size \in CpSizes, NEW r \in Ranks
    PROVE  /\ \A k \in 1 .. Local : Asserts(r, k)
           /\ WithinBudget(r, Local)
           /\ LowerBound(PaddedLens(r), Budget) <= Local
<1>1. PICK w : w = PaddedLens(r)
  OBVIOUS
<1>2. w \in [1 .. Local -> Nat \ {0}] /\ Local \in Nat \ {0} /\ Budget \in Nat \ {0}
  BY <1>1, LengthsArePositive, Sizes, BatchPlanAssumption DEF BatchPlanAssumption
<1>3. \A x \in 1 .. Local : w[x] <= Budget /\ RoundUp(w[x], TotalAlign) <= Budget
  BY <1>1, SamplesFit
<1>4. ASSUME NEW k \in 1 .. Local PROVE Asserts(r, k)
  <2>1. Checked(karmarkar_karp(w, k, FALSE), w, k, FALSE)
    BY <1>2, PartsChecked
  <2>. QED  BY <1>1, <2>1 DEF Asserts, Parts
<1>5. WithinBudget(r, Local)
  <2>1. Fits(karmarkar_karp(w, Local, FALSE), w, TotalAlign, Budget)
    BY <1>2, <1>3, FinestFits
  <2>. QED  BY <1>1, <2>1 DEF WithinBudget, Parts
<1>6. LowerBound(w, Budget) <= Local
  BY <1>2, <1>3, SearchStarts
<1>. QED  BY <1>1, <1>4, <1>5, <1>6

\* Nothing is to be shown where no rank has failed.
LEMMA NoneFailed ==
    ASSUME \A r \in Ranks : pc'[r] # "failed"
    PROVE  FailuresHold'
BY DEF FailuresHold, FailedLate, OnlyAlignmentFails

\* GatherSeqlens fails no rank.
LEMMA GatherAligns == ASSUME PlanHolds, GatherSeqlens PROVE FailuresHold'
<1>1. lens \in [Samples -> Lengths]
  BY DEF PlanHolds, RoundInv, Shapes
<1>2. AllGoto("post")
  BY <1>1, GatherNeverFails DEF GatherSeqlens
<1>. QED  BY <1>2, NoneFailed DEF AllGoto

\* What a failed rank says of itself stays so while its rows and numbers do.
LEMMA AligningKept ==
    ASSUME UNCHANGED <<lens, cp_size, num_mb>>, NEW r \in Ranks,
           DOMAIN rows'[r] = DOMAIN rows[r],
           \A i \in DOMAIN rows[r] : rows'[r][i].of = rows[r][i].of,
           FailedAligning(r)
    PROVE  FailedAligning(r)'
<1>1. ASSUME NEW k PROVE WithinBudget(r, k)' = WithinBudget(r, k)
  BY PartsKept
<1>. QED  BY <1>1 DEF FailedAligning

\* Nor does PackLocally.
LEMMA PackAligns ==
    ASSUME PlanHolds, NEW p \in Ranks, PackLocally(p) PROVE FailuresHold'
<1>1. Working /\ Shapes /\ pc[p] = "pack" /\ Len(rows[p]) = Local
  <2>1. Working
    BY Stages DEF PlanHolds, RoundInv, PackLocally
  <2>. QED  BY <2>1, WorkingRows DEF PlanHolds, RoundInv, PackLocally
<1>. DEFINE ends == {k \in 1 .. Len(rows[p]) :
                       /\ LowerBound(PaddedLens(p), Budget) <= k
                       /\ Asserts(p, k) => WithinBudget(p, k)}
<1>2. /\ UNCHANGED <<lens, cp_size, rows>>
      /\ \/ (ends = {} \/ ~ Asserts(p, Min(ends))) /\ Goto(p, "failed")
         \/ num_mb' = [num_mb EXCEPT ![p] = Min(ends)] /\ Goto(p, "reduce")
  BY DEF PackLocally
<1>3. /\ \A k \in 1 .. Local : Asserts(p, k)
      /\ WithinBudget(p, Local)
      /\ LowerBound(PaddedLens(p), Budget) <= Local
  BY <1>1, PackNeverFails DEF PlanHolds
<1>4. Local \in ends /\ ends \in SUBSET (1 .. Local)
  BY <1>1, <1>3, Sizes
<1>5. Asserts(p, Min(ends))
  <2>. HIDE DEF ends
  <2>1. ends \in SUBSET Nat /\ ends # {}
    BY <1>4
  <2>2. Min(ends) \in ends
    BY <2>1, Least
  <2>. QED  BY <1>3, <1>4, <2>2
<1>6. Goto(p, "reduce")
  <2>. HIDE DEF ends
  <2>. QED  BY <1>2, <1>4, <1>5
<1>. HIDE DEF ends
<1>7. ASSUME NEW r \in Ranks PROVE pc[r] # "failed"
  BY <1>1 DEF PlanHolds, FailuresHold, FailedLate
<1>8. \A r \in Ranks : pc'[r] # "failed"
  BY <1>1, <1>6, <1>7 DEF Goto, Shapes
<1>. QED  BY <1>8, NoneFailed

\* AllReduce fails a rank only where the larger number does not fit.
LEMMA ReduceAligns == ASSUME PlanHolds, AllReduce PROVE FailuresHold'
<1>1. Working /\ Shapes /\ \A r \in Ranks : pc[r] = "reduce"
  <2>1. \A r \in Ranks : pc[r] = "reduce"
    BY DEF AllReduce, AllAt
  <2>. QED  BY <2>1, OneRank, Stages DEF PlanHolds, RoundInv
<1>2. /\ pc' = [r \in Ranks |-> IF Agrees(r) THEN "forward" ELSE "failed"]
      /\ num_mb' = [r \in Ranks |-> Target(r)]
      /\ UNCHANGED <<lens, cp_size, rows>>
  BY DEF AllReduce
<1>3. FailedLate'
  BY <1>2 DEF FailedLate
<1>4. \A r \in Ranks : num_mb[r] \in 1 .. Local /\ WithinBudget(r, num_mb[r])
  BY <1>1 DEF Working, PackInv, HasPacked
<1>. DEFINE S == {num_mb[q] : q \in Ranks}
<1>5. S \in SUBSET (1 .. Local) /\ S # {} /\ Local \in Nat
  BY <1>4, OneRank, Sizes
<1>6. Max(S) \in S /\ \A x \in S : x <= Max(S)
  <2>. HIDE DEF S
  <2>. QED  BY <1>5, Greatest
<1>7. PICK n : n \in 1 .. Local /\ n = Max(S)
  BY <1>5, <1>6
<1>8. \A r \in Ranks : Target(r) = n /\ num_mb[r] <= n
  BY <1>6, <1>7 DEF Target
<1>. HIDE DEF S
<1>9. ASSUME NEW r \in Ranks, pc'[r] = "failed" PROVE FailedAligning(r)'
  <2>1. ~ Agrees(r)
    BY <1>2, <1>9
  <2>2. Asserts(r, n) /\ Len(rows[r]) = Local
    BY <1>1, <1>7, PackNeverFails, WorkingRows DEF PlanHolds
  <2>3. n # num_mb[r] /\ ~ WithinBudget(r, n)
    BY <1>7, <1>8, <2>1, <2>2 DEF Agrees
  <2>4. PICK k \in 1 .. Local : k = num_mb[r] /\ WithinBudget(r, k)
    BY <1>4
  <2>5. k \in 1 .. n - 1
    BY <1>7, <1>8, <2>3, <2>4
  <2>6. \A q \in Ranks : num_mb'[q] = n
    BY <1>2, <1>8
  <2>7. ASSUME NEW j PROVE WithinBudget(r, j)' = WithinBudget(r, j)
    BY <1>2, PartsKept
  <2>8. ~ WithinBudget(r, n)' /\ WithinBudget(r, k)'
    BY <2>3, <2>4, <2>7
  <2>. QED  BY <2>5, <2>6, <2>8 DEF FailedAligning
<1>. QED  BY <1>3, <1>9 DEF FailuresHold, OnlyAlignmentFails

\* The other steps fail no rank and leave a failed one what it has.
LEMMA OthersAlign ==
    ASSUME PlanHolds, UNCHANGED <<lens, cp_size, num_mb>>,
           \A r \in Ranks : pc'[r] = "failed" => pc[r] = "failed",
           \A r \in Ranks : pc[r] \in {"forward", "computed", "failed"} =>
               pc'[r] \in {"forward", "computed", "failed"},
           \A r \in Ranks : pc'[r] = "failed" =>
               DOMAIN rows'[r] = DOMAIN rows[r]
               /\ \A i \in DOMAIN rows[r] : rows'[r][i].of = rows[r][i].of
    PROVE  FailuresHold'
<1>1. FailedLate'
  BY DEF PlanHolds, FailuresHold, FailedLate
<1>2. ASSUME NEW r \in Ranks, pc'[r] = "failed" PROVE FailedAligning(r)'
  <2>1. FailedAligning(r)
    BY <1>2 DEF PlanHolds, FailuresHold, OnlyAlignmentFails
  <2>2. DOMAIN rows'[r] = DOMAIN rows[r] /\ \A i \in DOMAIN rows[r] : rows'[r][i].of = rows[r][i].of
    BY <1>2
  <2>. QED  BY <2>1, <2>2, AligningKept
<1>. QED  BY <1>1, <1>2 DEF FailuresHold, OnlyAlignmentFails

\* Every step keeps that.
LEMMA NextAligns == PlanHolds /\ [Next]_vars => PlanHolds'
<1>. SUFFICES ASSUME PlanHolds, [Next]_vars PROVE PlanHolds'
  OBVIOUS
<1>1. RoundInv'
  BY NextRound DEF PlanHolds
<1>2. cp_size' = cp_size
  BY DEF Next, GatherSeqlens, Assemble, AllReduce, Forward, StartRestore, Post, PackLocally,
     AttachLogprobs, Receive, vars
<1>3. FailuresHold'
  <2>1. CASE GatherSeqlens
    BY <2>1, GatherAligns
  <2>2. CASE Assemble
    <3>1. \A r \in Ranks : pc'[r] # "failed"
      BY <2>2 DEF Assemble, AllGoto
    <3>. QED  BY <3>1, NoneFailed
  <2>3. CASE AllReduce
    BY <2>3, ReduceAligns
  <2>4. CASE Forward
    <3>1. UNCHANGED <<lens, cp_size, num_mb, pc, rows>>
      BY <2>4 DEF Forward
    <3>. QED  BY <3>1, OthersAlign
  <2>5. CASE StartRestore
    <3>1. \A r \in Ranks : pc'[r] # "failed"
      BY <2>5 DEF StartRestore, AllGoto
    <3>. QED  BY <3>1, NoneFailed
  <2>6. ASSUME NEW p \in Ranks, Post(p) PROVE FailuresHold'
    <3>1. \A r \in Ranks : pc[r] # "failed"
      BY <2>6 DEF Post, PlanHolds, FailuresHold, FailedLate
    <3>2. \A r \in Ranks : pc'[r] # "failed"
      BY <2>6, <3>1 DEF Post, Goto, PlanHolds, RoundInv, Shapes
    <3>. QED  BY <3>2, NoneFailed
  <2>7. ASSUME NEW p \in Ranks, PackLocally(p) PROVE FailuresHold'
    BY <2>7, PackAligns
  <2>8. ASSUME NEW p \in Ranks, AttachLogprobs(p) PROVE FailuresHold'
    <3>1. /\ UNCHANGED <<lens, cp_size, num_mb>> /\ pc[p] = "forward"
          /\ pc' = [pc EXCEPT ![p] = "computed"]
          /\ \A r \in Ranks : r # p => rows'[r] = rows[r]
      BY <2>8 DEF AttachLogprobs, Goto, packVars, PlanHolds, RoundInv, Shapes
    <3>2. pc'[p] = "computed" /\ \A r \in Ranks : r # p => pc'[r] = pc[r]
      BY <3>1 DEF PlanHolds, RoundInv, Shapes
    <3>. QED  BY <3>1, <3>2, OthersAlign
  <2>9. ASSUME NEW p \in Ranks, NEW s \in Ranks, Receive(p, s) PROVE FailuresHold'
    <3>1. UNCHANGED <<lens, cp_size, num_mb, pc, rows>>
      BY <2>9 DEF Receive, packVars
    <3>. QED  BY <3>1, OthersAlign
  <2>10. CASE UNCHANGED vars
    <3>1. UNCHANGED <<lens, cp_size, num_mb, pc, rows>>
      BY <2>10 DEF vars
    <3>. QED  BY <3>1, OthersAlign
  <2>. QED
    BY <2>1, <2>2, <2>3, <2>4, <2>5, <2>6, <2>7, <2>8, <2>9, <2>10 DEF Next
<1>. QED  BY <1>1, <1>2, <1>3 DEF PlanHolds

\* It holds at first.
LEMMA InitPlan == Init => PlanHolds
<1>. SUFFICES ASSUME Init PROVE PlanHolds
  OBVIOUS
<1>1. RoundInv /\ cp_size \in CpSizes
  BY InitRound DEF Init
<1>2. \A r \in Ranks : pc[r] # "failed"
  BY DEF Init, Start
<1>. QED  BY <1>1, <1>2 DEF PlanHolds, FailuresHold, FailedLate, OnlyAlignmentFails

\* The invariant about failures.
LEMMA PlanAlwaysHolds == Spec => []PlanHolds
BY InitPlan, NextAligns, PTL DEF Spec

\* The collectives match while the invariant holds.
LEMMA PlanMatches == PlanHolds => CollectivesMatch
BY WaitsEnd DEF PlanHolds, FailuresHold, CollectivesMatch

\* Nobody is left waiting in a collective of the round, but by a rank whose
\* assertion after the alignment has failed.  No other assertion of the plan can
\* fail: the partitions are what karmarkar_karp asserts of them, every rank finds
\* a number of micro-batches of its own, and the ranks agree on one that each
\* has samples enough for; but the partition into that many may exceed a budget
\* that one into fewer kept.
THEOREM NobodyIsLeftWaiting == Spec => []CollectivesMatch
BY PlanMatches, PlanAlwaysHolds, PTL

----------------------------------------------------------------------------
\* The same with dynamic context parallelism as the alternative: a run of
\* LogProbs takes the steps of the round, or leaves its variables as they began.

OneWay ==
    \/ way = "balance_dp_seqlen" /\ PlanHolds
    \/ way = "dynamic_cp" /\ Start

LEMMA OneWayHolds == EitherSpec => []OneWay
<1>1. EitherInit => OneWay
  BY InitPlan DEF EitherInit, BalancedUnused, OneWay
<1>2. OneWay /\ [EitherNext]_<<way, cpVars, vars>> => OneWay'
  <2>. SUFFICES ASSUME OneWay, [EitherNext]_<<way, cpVars, vars>> PROVE OneWay'
    OBVIOUS
  <2>1. way' = way
    BY DEF EitherNext
  <2>2. CASE way = "balance_dp_seqlen"
    <3>1. [Next]_vars
      BY <2>2 DEF EitherNext
    <3>2. PlanHolds
      BY <2>2 DEF OneWay
    <3>. QED  BY <2>1, <2>2, <3>1, <3>2, NextAligns DEF OneWay
  <2>3. CASE way = "dynamic_cp"
    <3>1. UNCHANGED vars
      BY <2>3 DEF EitherNext
    <3>2. Start
      BY <2>3 DEF OneWay
    <3>3. Start'
      BY <3>1, <3>2 DEF Start, vars
    <3>. QED  BY <2>1, <2>3, <3>3 DEF OneWay
  <2>. QED  BY <2>2, <2>3 DEF OneWay
<1>. QED  BY <1>1, <1>2, PTL DEF EitherSpec

\* The log-probability pass, whichever way the policy configures, keeps the three
\* promises of the balanced round.
THEOREM EitherWayIsSafe == EitherSpec => [](EvenWork /\ RestoredInPlace /\ CollectivesMatch)
<1>1. PlanHolds => EvenWork /\ RestoredInPlace /\ CollectivesMatch
  BY RoundIsEven, RoundRestores, PlanMatches DEF PlanHolds
<1>2. Start => EvenWork /\ RestoredInPlace /\ CollectivesMatch
  <2>. SUFFICES ASSUME Start PROVE EvenWork /\ RestoredInPlace /\ CollectivesMatch
    OBVIOUS
  <2>1. \A r \in Ranks : pc[r] = "gather"
    BY DEF Start
  <2>2. RestoredInPlace /\ OnlyAlignmentFails /\ MailIsDue
    BY <2>1 DEF RestoredInPlace, OnlyAlignmentFails, MailIsDue
  <2>3. LockStep
    BY <2>1 DEF LockStep, InLoop
  <2>4. RebalanceConserves
    BY <2>1, OneRank DEF RebalanceConserves, Holding
  <2>5. SameMicroBatches /\ EachInOneMicroBatch
    BY <2>1 DEF SameMicroBatches, EachInOneMicroBatch
  <2>. QED  BY <2>2, <2>3, <2>4, <2>5 DEF EvenWork, CollectivesMatch
<1>. QED  BY <1>1, <1>2, OneWayHolds, PTL DEF OneWay

----------------------------------------------------------------------------
\* Running sums, and lists put one after the other.

Accumulates(w, n, f) == f = [j \in 0 .. n |-> IF j = 0 THEN 0 ELSE f[j - 1] + w[j]]

LEMMA AccumulatorExists ==
    ASSUME NEW w, NEW n \in Nat
    PROVE  \E f : Accumulates(w, n, f)
<1>. DEFINE Made(i) == \E f : Accumulates(w, i, f)
            T == {i \in Nat : ~ Made(i)}
<1>. SUFFICES ASSUME T # {} PROVE FALSE
  OBVIOUS
<1>1. T \in SUBSET Nat
  OBVIOUS
<1>. HIDE DEF T
<1>2. PICK i \in T : \A j \in T : i <= j
  BY <1>1, Least
<1>. USE DEF T
<1>3. i \in Nat /\ ~ Made(i)
  OBVIOUS
<1>4. i # 0
  <2>. SUFFICES ASSUME i = 0 PROVE Made(i)
    BY <1>3
  <2>. DEFINE g == [j \in 0 .. i |-> 0]
  <2>1. Accumulates(w, i, g)
    BY DEF Accumulates
  <2>. QED  BY <2>1
<1>5. Made(i - 1)
  <2>1. i - 1 \in Nat /\ ~ (i <= i - 1)
    BY <1>3, <1>4
  <2>2. i - 1 \notin T
    BY <1>2, <2>1
  <2>. QED  BY <2>1, <2>2
<1>. HIDE DEF T
<1>6. PICK f : Accumulates(w, i - 1, f)
  BY <1>5
<1>. DEFINE g == [j \in 0 .. i |-> IF j = i THEN f[i - 1] + w[i] ELSE f[j]]
<1>7. ASSUME NEW j \in 0 .. i PROVE g[j] = IF j = 0 THEN 0 ELSE g[j - 1] + w[j]
  <2>1. CASE j = i
    <3>1. g[j - 1] = f[i - 1]
      BY <1>3, <1>4, <2>1
    <3>. QED  BY <1>4, <2>1, <3>1
  <2>2. CASE j # i
    <3>1. j \in 0 .. i - 1 /\ g[j] = f[j]
      BY <1>3, <2>2
    <3>2. f[j] = IF j = 0 THEN 0 ELSE f[j - 1] + w[j]
      BY <1>6, <3>1 DEF Accumulates
    <3>3. j # 0 => g[j - 1] = f[j - 1]
      BY <1>3, <3>1
    <3>. QED  BY <3>1, <3>2, <3>3
  <2>. QED  BY <2>1, <2>2
<1>8. g = [j \in 0 .. i |-> g[j]]
  OBVIOUS
<1>. HIDE DEF g
<1>9. Accumulates(w, i, g)
  BY <1>7, <1>8 DEF Accumulates
<1>. QED  BY <1>3, <1>9

\* What a running sum is.
LEMMA CumulativeIs ==
    ASSUME NEW n \in Nat, NEW w \in [1 .. n -> Nat]
    PROVE  /\ Len(w) = n /\ Cumulative(w) \in [0 .. n -> Nat] /\ Cumulative(w)[0] = 0
           /\ \A j \in 1 .. n : Cumulative(w)[j] = Cumulative(w)[j - 1] + w[j]
<1>. DEFINE f == Cumulative(w)
<1>1. w \in Seq(Nat) /\ Len(w) = n
  OBVIOUS
<1>2. Cumulative(w) = CHOOSE g : Accumulates(w, Len(w), g)
  BY DEF Cumulative, Accumulates
<1>3. Accumulates(w, n, f)
  BY <1>1, <1>2, AccumulatorExists
<1>. HIDE DEF f
<1>4. /\ f = [j \in 0 .. n |-> f[j]] /\ f[0] = 0
      /\ \A j \in 1 .. n : f[j] = f[j - 1] + w[j]
  BY <1>3 DEF Accumulates
<1>5. \A j \in 0 .. n : f[j] \in Nat
  <2>. DEFINE T == {j \in 0 .. n : f[j] \notin Nat}
  <2>. SUFFICES ASSUME T # {} PROVE FALSE
    OBVIOUS
  <2>1. T \in SUBSET Nat
    OBVIOUS
  <2>. HIDE DEF T
  <2>2. PICK i \in T : \A j \in T : i <= j
    BY <2>1, Least
  <2>. USE DEF T
  <2>3. i \in 1 .. n /\ f[i] \notin Nat
    BY <1>4
  <2>4. i - 1 \in 0 .. n /\ ~ (i <= i - 1)
    BY <2>3
  <2>5. f[i - 1] \in Nat
    BY <2>2, <2>4
  <2>6. w[i] \in Nat /\ f[i] = f[i - 1] + w[i]
    BY <1>4, <2>3
  <2>. HIDE DEF T
  <2>. QED  BY <2>3, <2>5, <2>6
<1>. QED  BY <1>1, <1>4, <1>5 DEF f

\* Running sums only grow, and strictly where every item counts.
LEMMA CumulativeGrows ==
    ASSUME NEW n \in Nat, NEW w \in [1 .. n -> Nat], NEW i \in 0 .. n, NEW j \in 0 .. n, i <= j
    PROVE  /\ Cumulative(w)[i] <= Cumulative(w)[j]
           /\ i < j /\ (\A k \in 1 .. n : w[k] > 0) => Cumulative(w)[i] < Cumulative(w)[j]
<1>. DEFINE f == Cumulative(w)
            Good(k) == /\ f[i] <= f[k]
                       /\ i < k /\ (\A m \in 1 .. n : w[m] > 0) => f[i] < f[k]
            T == {k \in i .. n : ~ Good(k)}
<1>. SUFFICES ASSUME T # {} PROVE FALSE
  <2>1. j \in i .. n
    OBVIOUS
  <2>. QED  BY <2>1
<1>1. /\ f \in [0 .. n -> Nat]
      /\ \A k \in 1 .. n : f[k] = f[k - 1] + w[k] /\ w[k] \in Nat
  BY CumulativeIs
<1>2. T \in SUBSET Nat
  OBVIOUS
<1>. HIDE DEF T, f
<1>3. PICK k \in T : \A m \in T : k <= m
  BY <1>2, Least
<1>. USE DEF T
<1>4. k \in i .. n /\ ~ Good(k) /\ k # i
  BY <1>1
<1>5. k - 1 \in i .. n /\ k - 1 \in 0 .. n /\ k \in 1 .. n /\ ~ (k <= k - 1)
  BY <1>4
<1>6. Good(k - 1)
  BY <1>3, <1>5
<1>7. f[k] = f[k - 1] + w[k] /\ w[k] \in Nat /\ f[k - 1] \in Nat /\ f[i] \in Nat
  BY <1>1, <1>5
<1>8. f[i] <= f[k]
  BY <1>6, <1>7
<1>9. (\A m \in 1 .. n : w[m] > 0) => f[i] < f[k]
  BY <1>5, <1>6, <1>7
<1>. QED  BY <1>4, <1>8, <1>9

\* What flatten[i] of FlattenSeq is.
FlattensTo(s, n, f) == f = [i \in 1 .. n |-> IF i = 1 THEN s[i] ELSE f[i - 1] \o s[i]]

LEMMA FlattenerExists ==
    ASSUME NEW s, NEW n \in Nat
    PROVE  \E f : FlattensTo(s, n, f)
<1>. DEFINE Made(i) == \E f : FlattensTo(s, i, f)
            T == {i \in Nat : ~ Made(i)}
<1>. SUFFICES ASSUME T # {} PROVE FALSE
  OBVIOUS
<1>1. T \in SUBSET Nat
  OBVIOUS
<1>. HIDE DEF T
<1>2. PICK i \in T : \A j \in T : i <= j
  BY <1>1, Least
<1>. USE DEF T
<1>3. i \in Nat /\ ~ Made(i)
  OBVIOUS
<1>4. i # 0
  <2>. SUFFICES ASSUME i = 0 PROVE Made(i)
    BY <1>3
  <2>. DEFINE g == [j \in 1 .. i |-> <<>>]
  <2>1. FlattensTo(s, i, g)
    BY DEF FlattensTo
  <2>. QED  BY <2>1
<1>5. Made(i - 1)
  <2>1. i - 1 \in Nat /\ ~ (i <= i - 1)
    BY <1>3, <1>4
  <2>2. i - 1 \notin T
    BY <1>2, <2>1
  <2>. QED  BY <2>1, <2>2
<1>. HIDE DEF T
<1>6. PICK f : FlattensTo(s, i - 1, f)
  BY <1>5
<1>. DEFINE Step(j, h) == IF j = 1 THEN s[j] ELSE h[j - 1] \o s[j]
            g == [j \in 1 .. i |-> IF j = i THEN Step(i, f) ELSE f[j]]
<1>7. \A j \in 1 .. i - 1 : f[j] = Step(j, f)
  BY <1>6 DEF FlattensTo
<1>8. ASSUME NEW j \in 1 .. i PROVE g[j] = Step(j, g)
  <2>1. g[j] = Step(j, f)
    <3>1. j # i => j \in 1 .. i - 1
      BY <1>3
    <3>. HIDE DEF Step
    <3>. QED  BY <1>7, <3>1
  <2>2. j # 1 => g[j - 1] = f[j - 1]
    BY <1>3
  <2>. HIDE DEF g
  <2>. QED  BY <2>1, <2>2
<1>9. g = [j \in 1 .. i |-> g[j]]
  OBVIOUS
<1>. HIDE DEF g
<1>10. g = [j \in 1 .. i |-> Step(j, g)]
  <2>. HIDE DEF Step
  <2>. QED  BY <1>8, <1>9
<1>11. FlattensTo(s, i, g)
  BY <1>10 DEF FlattensTo
<1>. QED  BY <1>3, <1>11

\* c is b behind a.
Behind(S, a, m, b, n, c) ==
    /\ c \in Seq(S) /\ Len(c) = m + n
    /\ \A p \in 1 .. m : c[p] = a[p]
    /\ \A q \in 1 .. n : c[m + q] = b[q]

LEMMA Joined ==
    ASSUME NEW S, NEW a \in Seq(S), NEW b \in Seq(S), NEW m, m = Len(a), NEW n, n = Len(b),
           NEW c, c = a \o b
    PROVE  Behind(S, a, m, b, n, c)
<1>1. /\ m \in Nat /\ n \in Nat /\ c \in Seq(S) /\ Len(c) = m + n
      /\ DOMAIN a = 1 .. m /\ DOMAIN b = 1 .. n /\ DOMAIN c = 1 .. m + n
  OBVIOUS
<1>2. ASSUME NEW p \in 1 .. m PROVE c[p] = a[p]
  BY <1>1
<1>3. ASSUME NEW q \in 1 .. n PROVE c[m + q] = b[q]
  <2>1. m + q \in 1 .. m + n /\ ~ (m + q <= m) /\ (m + q) - m = q
    BY <1>1
  <2>. QED  BY <1>1, <2>1
<1>. QED  BY <1>1, <1>2, <1>3 DEF Behind

LensOf(s, n) == [i \in 1 .. n |-> Len(s[i])]
Flattened(S, n, s, c, t) ==
    /\ t \in Seq(S) /\ Len(t) = c[n]
    /\ \A i \in 1 .. n : \A k \in 1 .. Len(s[i]) : t[c[i - 1] + k] = s[i][k]

\* What a concatenation is.
LEMMA FlattenIs ==
    ASSUME NEW S, NEW n \in Nat, NEW s \in [1 .. n -> Seq(S)]
    PROVE  /\ LensOf(s, n) \in [1 .. n -> Nat]
           /\ Flattened(S, n, s, Cumulative(LensOf(s, n)), FlattenSeq(s))
<1>. DEFINE w == LensOf(s, n)
            c == Cumulative(w)
<1>1. w \in [1 .. n -> Nat] /\ \A i \in 1 .. n : w[i] = Len(s[i]) /\ s[i] \in Seq(S)
  BY DEF LensOf
<1>. HIDE DEF w
<1>2. /\ c \in [0 .. n -> Nat] /\ c[0] = 0
      /\ \A j \in 1 .. n : c[j] = c[j - 1] + w[j]
  BY <1>1, CumulativeIs
<1>3. \A i, j \in 0 .. n : i <= j => c[i] <= c[j]
  BY <1>1, CumulativeGrows
<1>. HIDE DEF c
<1>4. s \in Seq(Seq(S)) /\ Len(s) = n
  OBVIOUS
<1>5. CASE n = 0
  <2>1. FlattenSeq(s) = s /\ s = <<>>
    BY <1>4, <1>5 DEF FlattenSeq
  <2>2. <<>> \in Seq(S) /\ Len(<<>>) = 0
    OBVIOUS
  <2>3. FlattenSeq(s) \in Seq(S) /\ Len(FlattenSeq(s)) = c[n]
    BY <1>2, <1>5, <2>1, <2>2
  <2>4. Flattened(S, n, s, c, FlattenSeq(s))
    BY <1>5, <2>3 DEF Flattened
  <2>. QED  BY <1>1, <2>4 DEF c, w
<1>6. CASE n # 0
  <2>. DEFINE f == CHOOSE h : FlattensTo(s, n, h)
  <2>1. FlattenSeq(s) = f[n]
    BY <1>4, <1>6 DEF FlattenSeq, FlattensTo
  <2>2. FlattensTo(s, n, f)
    BY FlattenerExists
  <2>. HIDE DEF f
  <2>3. \A i \in 1 .. n : f[i] = IF i = 1 THEN s[i] ELSE f[i - 1] \o s[i]
    BY <2>2 DEF FlattensTo
  <2>. DEFINE Good(j) == /\ f[j] \in Seq(S) /\ Len(f[j]) = c[j]
                         /\ \A i \in 1 .. j : \A k \in 1 .. w[i] : f[j][c[i - 1] + k] = s[i][k]
              T == {j \in 1 .. n : ~ Good(j)}
  <2>4. T = {}
    <3>. SUFFICES ASSUME T # {} PROVE FALSE
      OBVIOUS
    <3>1. T \in SUBSET Nat
      OBVIOUS
    <3>. HIDE DEF T
    <3>2. PICK j \in T : \A m \in T : j <= m
      BY <3>1, Least
    <3>. USE DEF T
    <3>3. j \in 1 .. n /\ ~ Good(j)
      OBVIOUS
    <3>. HIDE DEF T, Good
    <3>4. CASE j = 1
      <4>1. f[1] = s[1] /\ c[1] = w[1] /\ c[1 - 1] = 0
        BY <1>1, <1>2, <2>3, <3>3, <3>4
      <4>2. \A i \in 1 .. 1 : i = 1
        OBVIOUS
      <4>3. \A k \in 1 .. w[1] : c[1 - 1] + k = k
        BY <4>1
      <4>4. Good(1)
        BY <1>1, <3>3, <3>4, <4>1, <4>2, <4>3 DEF Good
      <4>. QED  BY <3>3, <3>4, <4>4
    <3>5. CASE j # 1
      <4>1. j - 1 \in 1 .. n /\ ~ (j <= j - 1) /\ j \in 1 .. n /\ j - 1 \in 0 .. n
        BY <3>3, <3>5
      <4>2. Good(j - 1)
        BY <3>2, <4>1 DEF T
      <4>3. f[j] = f[j - 1] \o s[j] /\ c[j] = c[j - 1] + w[j]
        BY <1>2, <2>3, <3>5, <4>1
      <4>4. f[j - 1] \in Seq(S) /\ Len(f[j - 1]) = c[j - 1] /\ c[j - 1] \in Nat
        BY <1>2, <4>1, <4>2 DEF Good
      <4>5. s[j] \in Seq(S) /\ Len(s[j]) = w[j] /\ w[j] \in Nat
        BY <1>1, <4>1
      <4>6. /\ f[j] \in Seq(S) /\ Len(f[j]) = c[j]
            /\ \A p \in 1 .. c[j - 1] : f[j][p] = f[j - 1][p]
            /\ \A q \in 1 .. w[j] : f[j][c[j - 1] + q] = s[j][q]
        <5>. DEFINE a == f[j - 1]
                    b == s[j]
        <5>1. a \in Seq(S) /\ b \in Seq(S) /\ Len(a) = c[j - 1] /\ Len(b) = w[j]
              /\ f[j] = a \o b
          BY <4>3, <4>4, <4>5
        <5>. HIDE DEF a, b
        <5>2. Behind(S, a, c[j - 1], b, w[j], f[j])
          BY <5>1, Joined
        <5>3. /\ f[j] \in Seq(S) /\ Len(f[j]) = c[j - 1] + w[j]
              /\ \A p \in 1 .. c[j - 1] : f[j][p] = a[p]
              /\ \A q \in 1 .. w[j] : f[j][c[j - 1] + q] = b[q]
          BY <5>2 DEF Behind
        <5>. QED  BY <4>3, <5>3 DEF a, b
      <4>7. ASSUME NEW i \in 1 .. j, NEW k \in 1 .. w[i]
            PROVE  f[j][c[i - 1] + k] = s[i][k]
        <5>1. CASE i = j
          <6>1. k \in 1 .. w[j]
            BY <5>1
          <6>2. f[j][c[j - 1] + k] = s[j][k]
            BY <4>6, <6>1
          <6>. QED  BY <5>1, <6>2
        <5>2. CASE i # j
          <6>1. i \in 1 .. j - 1 /\ i \in 1 .. n /\ i \in 0 .. n /\ i - 1 \in 0 .. n /\ i <= j - 1
            BY <3>3, <5>2
          <6>2. c[i - 1] \in Nat /\ w[i] \in Nat /\ c[i] = c[i - 1] + w[i] /\ c[i] <= c[j - 1]
            BY <1>1, <1>2, <1>3, <4>1, <6>1
          <6>3. c[i - 1] + k \in 1 .. c[j - 1]
            <7>1. k \in Nat /\ 1 <= k /\ k <= w[i]
              BY <6>2
            <7>. HIDE DEF c
            <7>. QED  BY <4>4, <4>5, <6>2, <7>1
          <6>4. f[j - 1][c[i - 1] + k] = s[i][k]
            BY <4>2, <6>1 DEF Good
          <6>. QED  BY <4>6, <6>3, <6>4
        <5>. QED  BY <5>1, <5>2
      <4>8. Good(j)
        BY <4>6, <4>7 DEF Good
      <4>. QED  BY <3>3, <4>8
    <3>. QED  BY <3>4, <3>5
  <2>. HIDE DEF Good
  <2>5. n \in 1 .. n
    BY <1>6
  <2>6. Good(n)
    BY <2>4, <2>5
  <2>7. /\ FlattenSeq(s) \in Seq(S) /\ Len(FlattenSeq(s)) = c[n]
        /\ \A i \in 1 .. n : \A k \in 1 .. w[i] : FlattenSeq(s)[c[i - 1] + k] = s[i][k]
    BY <2>1, <2>6 DEF Good
  <2>8. Flattened(S, n, s, c, FlattenSeq(s))
    BY <1>1, <2>7 DEF Flattened
  <2>. QED  BY <1>1, <2>8 DEF c, w
<1>. QED  BY <1>5, <1>6

\* The items of a stretch of a list.
LEMMA Stretch ==
    ASSUME NEW S, NEW t \in Seq(S), NEW a \in Nat, NEW m \in Nat, a + m <= Len(t)
    PROVE  SubSeq(t, a + 1, a + m) = [k \in 1 .. m |-> t[a + k]]
<1>. DEFINE r == SubSeq(t, a + 1, a + m)
<1>1. \A k \in a + 1 .. a + m : k \in 1 .. Len(t)
  OBVIOUS
<1>2. \A k \in a + 1 .. a + m : t[k] \in S
  BY <1>1
<1>3. a + 1 \in Int /\ a + m \in Int /\ (a + m) - (a + 1) + 1 = m /\ (m > 0 <=> a + 1 <= a + m)
  OBVIOUS
<1>4. /\ r \in Seq(S)
      /\ Len(r) = IF a + 1 <= a + m THEN (a + m) - (a + 1) + 1 ELSE 0
      /\ \A i \in 1 .. (a + m) - (a + 1) + 1 : r[i] = t[(a + 1) + i - 1]
  BY <1>2, <1>3, SubSeqProperties
<1>5. Len(r) = m
  BY <1>3, <1>4
<1>6. \A k \in 1 .. m : r[k] = t[a + k]
  <2>1. \A k \in 1 .. m : (a + 1) + k - 1 = a + k
    OBVIOUS
  <2>. QED  BY <1>3, <1>4, <2>1
<1>. HIDE DEF r
<1>7. r = [k \in 1 .. m |-> r[k]]
  BY <1>4, <1>5
<1>. QED  BY <1>6, <1>7 DEF r

HasPiece(t, start, m, x) == SubSeq(t, start + 1, start + m) = [k \in 1 .. m |-> x[k]]

\* The first m items of the i-th of the lists put together.
LEMMA PieceIs ==
    ASSUME NEW S, NEW n \in Nat, NEW s \in [1 .. n -> Seq(S)], NEW i \in 1 .. n,
           NEW m \in 0 .. Len(s[i])
    PROVE  HasPiece(FlattenSeq(s), Cumulative(LensOf(s, n))[i - 1], m, s[i])
<1>. DEFINE w == LensOf(s, n)
            c == Cumulative(w)
            t == FlattenSeq(s)
            start == c[i - 1]
<1>1. /\ w \in [1 .. n -> Nat] /\ t \in Seq(S) /\ Len(t) = c[n]
      /\ \A k \in 1 .. Len(s[i]) : t[c[i - 1] + k] = s[i][k]
  <2>1. w \in [1 .. n -> Nat] /\ Flattened(S, n, s, c, t)
    BY FlattenIs
  <2>. HIDE DEF w, c, t
  <2>. QED  BY <2>1 DEF Flattened
<1>2. w[i] = Len(s[i]) /\ s[i] \in Seq(S)
  BY DEF LensOf
<1>. HIDE DEF w
<1>4. c \in [0 .. n -> Nat] /\ c[i] = c[i - 1] + w[i]
  BY <1>1, CumulativeIs
<1>5. c[i] <= c[n]
  <2>1. i \in 0 .. n /\ n \in 0 .. n /\ i <= n
    OBVIOUS
  <2>. QED  BY <1>1, <2>1, CumulativeGrows
<1>. HIDE DEF c, t
<1>6. start \in Nat /\ m \in Nat /\ start + m <= Len(t) /\ \A k \in 1 .. m : k \in 1 .. Len(s[i])
  <2>1. c[i - 1] \in Nat /\ c[n] \in Nat /\ Len(s[i]) \in Nat
    BY <1>2, <1>4
  <2>2. start \in Nat /\ m \in Nat /\ m <= Len(s[i])
    BY <2>1
  <2>3. start + Len(s[i]) <= Len(t)
    BY <1>1, <1>2, <1>4, <1>5
  <2>4. \A k \in 1 .. m : k \in 1 .. Len(s[i])
    BY <2>1, <2>2
  <2>5. Len(t) \in Nat
    BY <1>1, <2>1
  <2>6. start + m <= Len(t)
    BY <2>1, <2>2, <2>3, <2>5
  <2>. QED  BY <2>2, <2>4, <2>6
<1>7. SubSeq(t, start + 1, start + m) = [k \in 1 .. m |-> t[start + k]]
  BY <1>1, <1>6, Stretch
<1>8. \A k \in 1 .. m : t[start + k] = s[i][k]
  BY <1>1, <1>6
<1>. QED  BY <1>7, <1>8 DEF t, c, w, HasPiece

\* Lists put together and cut by their lengths are the lists again.
LEMMA CutIs ==
    ASSUME NEW S, NEW n \in Nat, NEW s \in [1 .. n -> Seq(S)], NEW i \in 1 .. n
    PROVE  Cut(FlattenSeq(s), LensOf(s, n), i) = s[i]
<1>. DEFINE w == LensOf(s, n)
            start == Cumulative(w)[i - 1]
<1>1. w \in [1 .. n -> Nat] /\ w[i] = Len(s[i]) /\ s[i] \in Seq(S)
  <2>1. \A j \in 1 .. n : s[j] \in Seq(S) /\ Len(s[j]) \in Nat
    OBVIOUS
  <2>. QED  BY <2>1 DEF LensOf
<1>. HIDE DEF w
<1>2. Cumulative(w)[i] = start + w[i]
  BY <1>1, CumulativeIs
<1>3. Cut(FlattenSeq(s), w, i) = SubSeq(FlattenSeq(s), start + 1, start + Len(s[i]))
  BY <1>1, <1>2 DEF Cut
<1>4. Len(s[i]) \in 0 .. Len(s[i])
  BY <1>1
<1>5. HasPiece(FlattenSeq(s), start, Len(s[i]), s[i])
  BY <1>4, PieceIs DEF w
<1>6. s[i] = [k \in 1 .. Len(s[i]) |-> s[i][k]]
  BY <1>1
<1>. QED  BY <1>3, <1>5, <1>6 DEF w, HasPiece

\* Running sums of equal items.
LEMMA EvenlyCumulative ==
    ASSUME NEW n \in Nat, NEW k \in Nat, NEW w \in [1 .. n -> Nat], \A i \in 1 .. n : w[i] = k,
           NEW j \in 0 .. n
    PROVE  Cumulative(w)[j] = j * k
<1>. DEFINE c == Cumulative(w)
            T == {i \in 0 .. n : c[i] # i * k}
<1>. SUFFICES ASSUME T # {} PROVE FALSE
  OBVIOUS
<1>1. /\ c \in [0 .. n -> Nat] /\ c[0] = 0
      /\ \A i \in 1 .. n : c[i] = c[i - 1] + w[i]
  BY CumulativeIs
<1>. HIDE DEF c
<1>2. T \in SUBSET Nat
  OBVIOUS
<1>. HIDE DEF T
<1>3. PICK i \in T : \A m \in T : i <= m
  BY <1>2, Least
<1>4. i \in 0 .. n /\ c[i] # i * k
  BY DEF T
<1>5. i # 0
  <2>1. 0 * k = 0
    OBVIOUS
  <2>. QED  BY <1>1, <1>4, <2>1
<1>6. PICK h \in Nat : h = i - 1
  BY <1>4, <1>5
<1>7. h \in 0 .. n /\ ~ (i <= h) /\ i = h + 1 /\ i \in 1 .. n
  BY <1>4, <1>5, <1>6
<1>8. c[h] = h * k
  BY <1>3, <1>7 DEF T
<1>9. c[i] = c[h] + k
  BY <1>1, <1>6, <1>7
<1>10. (h + 1) * k = h * k + k
  BY Products
<1>. QED  BY <1>4, <1>7, <1>8, <1>9, <1>10

\* Running sums of multiples.
LEMMA MultiplesCumulative ==
    ASSUME NEW n \in Nat, NEW k \in Nat, NEW w \in [1 .. n -> Nat],
           \A i \in 1 .. n : \E q \in Nat : w[i] = q * k, NEW j \in 0 .. n
    PROVE  \E q \in Nat : Cumulative(w)[j] = q * k
<1>. DEFINE c == Cumulative(w)
            Multiple(x) == \E q \in Nat : x = q * k
            T == {i \in 0 .. n : ~ Multiple(c[i])}
<1>. SUFFICES ASSUME T # {} PROVE FALSE
  OBVIOUS
<1>1. /\ c \in [0 .. n -> Nat] /\ c[0] = 0
      /\ \A i \in 1 .. n : c[i] = c[i - 1] + w[i]
  BY CumulativeIs
<1>. HIDE DEF c
<1>2. T \in SUBSET Nat
  OBVIOUS
<1>. HIDE DEF T
<1>3. PICK i \in T : \A m \in T : i <= m
  BY <1>2, Least
<1>4. i \in 0 .. n /\ ~ Multiple(c[i])
  BY DEF T
<1>5. i # 0
  <2>1. 0 * k = 0 /\ 0 \in Nat
    OBVIOUS
  <2>. QED  BY <1>1, <1>4, <2>1
<1>6. PICK h \in Nat : h = i - 1
  BY <1>4, <1>5
<1>7. h \in 0 .. n /\ ~ (i <= h) /\ i \in 1 .. n
  BY <1>4, <1>5, <1>6
<1>8. Multiple(c[h])
  BY <1>3, <1>7 DEF T
<1>9. c[i] = c[h] + w[i]
  BY <1>1, <1>6, <1>7
<1>10. PICK p \in Nat : c[h] = p * k
  BY <1>8
<1>11. PICK q \in Nat : w[i] = q * k
  BY <1>7
<1>12. (p + q) * k = p * k + q * k /\ p + q \in Nat
  BY Products
<1>. QED  BY <1>4, <1>9, <1>10, <1>11, <1>12

\* A list cut into n stretches of k, put together.
Stretches(t, n, k) == [i \in 1 .. n |-> SubSeq(t, (i - 1) * k + 1, (i - 1) * k + k)]
LEMMA StretchesJoin ==
    ASSUME NEW S, NEW t \in Seq(S), NEW n \in Nat \ {0}, NEW k \in Nat \ {0}, Len(t) = n * k,
           NEW s, s = Stretches(t, n, k)
    PROVE  FlattenSeq(s) = t
<1>. DEFINE w == LensOf(s, n)
            c == Cumulative(w)
            r == FlattenSeq(s)
<1>1. /\ n * k \in Nat
      /\ \A h \in 0 .. n - 1, j \in 1 .. k : h * k + j \in 1 .. n * k
      /\ \A x \in 1 .. n * k : \E h \in 0 .. n - 1, j \in 1 .. k : x = h * k + j
  BY PlacesOf
<1>2. ASSUME NEW i \in 1 .. n
      PROVE  s[i] = [j \in 1 .. k |-> t[(i - 1) * k + j]] /\ s[i] \in Seq(S) /\ Len(s[i]) = k
  <2>1. PICK h \in 0 .. n - 1 : h = i - 1
    OBVIOUS
  <2>2. PICK a \in Nat : a = h * k
    BY <2>1, Products
  <2>3. k \in 1 .. k
    OBVIOUS
  <2>4. a + k <= Len(t)
    BY <1>1, <2>2, <2>3
  <2>5. SubSeq(t, a + 1, a + k) = [j \in 1 .. k |-> t[a + j]]
    BY <2>4, Stretch
  <2>6. s[i] = SubSeq(t, a + 1, a + k)
    BY <2>1, <2>2 DEF Stretches
  <2>7. \A j \in 1 .. k : a + j \in 1 .. Len(t)
    BY <1>1, <2>2
  <2>8. \A j \in 1 .. k : t[a + j] \in S
    <3>1. \A x \in 1 .. Len(t) : t[x] \in S
      OBVIOUS
    <3>. QED  BY ONLY <2>7, <3>1
  <2>9. [j \in 1 .. k |-> t[a + j]] \in Seq(S) /\ Len([j \in 1 .. k |-> t[a + j]]) = k
    BY <2>8
  <2>. QED  BY <2>1, <2>2, <2>5, <2>6, <2>9
<1>3. s \in [1 .. n -> Seq(S)]
  BY <1>2 DEF Stretches
<1>4. /\ w \in [1 .. n -> Nat] /\ r \in Seq(S) /\ Len(r) = c[n]
      /\ \A i \in 1 .. n : \A j \in 1 .. Len(s[i]) : r[c[i - 1] + j] = s[i][j]
  <2>1. w \in [1 .. n -> Nat] /\ Flattened(S, n, s, c, r)
    BY ONLY <1>3, n \in Nat, FlattenIs
  <2>. HIDE DEF w, c, r
  <2>. QED  BY <2>1 DEF Flattened
<1>5. \A i \in 1 .. n : w[i] = k
  BY <1>2 DEF LensOf
<1>. HIDE DEF w
<1>6. \A i \in 0 .. n : c[i] = i * k
  BY <1>4, <1>5, EvenlyCumulative
<1>. HIDE DEF c, r
<1>7. ASSUME NEW x \in 1 .. n * k PROVE r[x] = t[x]
  <2>1. PICK h \in 0 .. n - 1, j \in 1 .. k : x = h * k + j
    BY <1>1
  <2>2. PICK i \in 1 .. n : h = i - 1
    <3>1. h + 1 \in 1 .. n /\ h = (h + 1) - 1
      OBVIOUS
    <3>. QED  BY <3>1
  <2>3. c[i - 1] = h * k
    BY <1>6, <2>2
  <2>4. r[c[i - 1] + j] = s[i][j]
    BY <1>2, <1>4
  <2>5. s[i][j] = t[h * k + j]
    BY <1>2, <2>2
  <2>. QED  BY <2>1, <2>3, <2>4, <2>5
<1>8. Len(r) = n * k
  BY <1>4, <1>6
<1>9. r = [x \in 1 .. n * k |-> r[x]] /\ t = [x \in 1 .. n * k |-> t[x]]
  BY <1>1, <1>4, <1>8
<1>. QED  BY <1>7, <1>9 DEF r

----------------------------------------------------------------------------
\* The grid, the samples of a dp index, and their padded lengths.

LEMMA GridSizes ==
    /\ Dp \in Nat \ {0} /\ Cp \in Nat \ {0} /\ Total \in Nat \ {0}
    /\ Originals \subseteq Nat \ {0} /\ NumSamples \in Nat \ {0}
    /\ \A r \in Grid : r \in Nat
    /\ \A d \in Dps : d \in Nat /\ d + 1 \in 1 .. Dp
<1>1. Dp \in Nat \ {0} /\ Cp \in Nat \ {0}
  BY DynamicCpAssumption DEF DynamicCpAssumption
<1>2. Total \in Nat \ {0}
  <2>1. Dp * Cp \in Nat /\ 1 * Cp <= Dp * Cp
    BY <1>1, Products
  <2>. QED  BY <1>1, <2>1 DEF Total
<1>. QED  BY <1>1, <1>2, DynamicCpAssumption DEF DynamicCpAssumption, Grid, Dps

Doubles(n, f) == f = [j \in 0 .. n |-> IF j = 0 THEN 1 ELSE 2 * f[j - 1]]

\* The powers of two exist.
LEMMA DoublesExist ==
    ASSUME NEW n \in Nat
    PROVE  \E f : Doubles(n, f)
<1>. DEFINE Made(i) == \E f : Doubles(i, f)
            T == {i \in Nat : ~ Made(i)}
<1>. SUFFICES ASSUME T # {} PROVE FALSE
  OBVIOUS
<1>1. T \in SUBSET Nat
  OBVIOUS
<1>. HIDE DEF T
<1>2. PICK i \in T : \A j \in T : i <= j
  BY <1>1, Least
<1>. USE DEF T
<1>3. i \in Nat /\ ~ Made(i)
  OBVIOUS
<1>4. i # 0
  <2>. SUFFICES ASSUME i = 0 PROVE Made(i)
    BY <1>3
  <2>. DEFINE g == [j \in 0 .. i |-> 1]
  <2>1. Doubles(i, g)
    BY DEF Doubles
  <2>. QED  BY <2>1
<1>5. Made(i - 1)
  <2>1. i - 1 \in Nat /\ ~ (i <= i - 1)
    BY <1>3, <1>4
  <2>2. i - 1 \notin T
    BY <1>2, <2>1
  <2>. QED  BY <2>1, <2>2
<1>. HIDE DEF T
<1>6. PICK f : Doubles(i - 1, f)
  BY <1>5
<1>. DEFINE g == [j \in 0 .. i |-> IF j = i THEN 2 * f[i - 1] ELSE f[j]]
<1>7. ASSUME NEW j \in 0 .. i PROVE g[j] = IF j = 0 THEN 1 ELSE 2 * g[j - 1]
  <2>1. CASE j = i
    <3>1. g[j - 1] = f[i - 1]
      BY <1>3, <1>4, <2>1
    <3>. QED  BY <1>4, <2>1, <3>1
  <2>2. CASE j # i
    <3>1. j \in 0 .. i - 1 /\ g[j] = f[j]
      BY <1>3, <2>2
    <3>2. f[j] = IF j = 0 THEN 1 ELSE 2 * f[j - 1]
      BY <1>6, <3>1 DEF Doubles
    <3>3. j # 0 => g[j - 1] = f[j - 1]
      BY <1>3, <3>1
    <3>. QED  BY <3>1, <3>2, <3>3
  <2>. QED  BY <2>1, <2>2
<1>8. g = [j \in 0 .. i |-> g[j]]
  OBVIOUS
<1>. HIDE DEF g
<1>9. Doubles(i, g)
  BY <1>7, <1>8 DEF Doubles
<1>. QED  BY <1>3, <1>9

LEMMA DoublingIs ==
    ASSUME NEW n \in Nat
    PROVE  /\ Doubling(n)[0] = 1 /\ \A j \in 0 .. n : Doubling(n)[j] \in Nat \ {0}
           /\ \A j \in 1 .. n : Doubling(n)[j] = 2 * Doubling(n)[j - 1]
<1>. DEFINE f == Doubling(n)
<1>1. Doubling(n) = CHOOSE g : Doubles(n, g)
  BY DEF Doubling, Doubles
<1>2. Doubles(n, f)
  BY <1>1, DoublesExist
<1>. HIDE DEF f
<1>3. f[0] = 1 /\ \A j \in 1 .. n : f[j] = 2 * f[j - 1]
  BY <1>2 DEF Doubles
<1>4. \A j \in 0 .. n : f[j] \in Nat \ {0}
  <2>. DEFINE T == {j \in 0 .. n : f[j] \notin Nat \ {0}}
  <2>. SUFFICES ASSUME T # {} PROVE FALSE
    OBVIOUS
  <2>1. T \in SUBSET Nat
    OBVIOUS
  <2>. HIDE DEF T
  <2>2. PICK i \in T : \A j \in T : i <= j
    BY <2>1, Least
  <2>. USE DEF T
  <2>3. i \in 1 .. n /\ f[i] \notin Nat \ {0}
    BY <1>3
  <2>4. i - 1 \in 0 .. n /\ ~ (i <= i - 1)
    BY <2>3
  <2>5. f[i - 1] \in Nat \ {0}
    BY <2>2, <2>4
  <2>6. f[i] = 2 * f[i - 1]
    BY <1>3, <2>3
  <2>. HIDE DEF T
  <2>. QED  BY <2>3, <2>5, <2>6
<1>. QED  BY <1>3, <1>4 DEF f

LEMMA SizesAre ==
    ASSUME NEW size \in GroupSizes
    PROVE  size \in 1 .. Total /\ Total % size = 0
<1>1. size \in Powers(Total) /\ size <= Total /\ Total % size = 0
  BY DEF GroupSizes
<1>2. size \in Nat \ {0}
  BY <1>1, GridSizes, DoublingIs DEF Powers
<1>. QED  BY <1>1, <1>2, GridSizes

\* A rank of the grid is a dp index and a place within it.
LEMMA GridPlaces ==
    /\ \A r \in Grid : DpOf(r) \in Dps /\ CpOf(r) \in 0 .. Cp - 1 /\ r = RankAt(DpOf(r), CpOf(r))
    /\ \A d \in Dps, c \in 0 .. Cp - 1 :
          RankAt(d, c) \in Grid /\ DpOf(RankAt(d, c)) = d /\ CpOf(RankAt(d, c)) = c
<1>1. ASSUME NEW r \in Grid
      PROVE  DpOf(r) \in Dps /\ CpOf(r) \in 0 .. Cp - 1 /\ r = RankAt(DpOf(r), CpOf(r))
  <2>1. PICK q \in Nat, c \in 0 .. Cp - 1 : q = r \div Cp /\ c = r % Cp /\ r = q * Cp + c
    BY GridSizes, Euclid
  <2>2. q < Dp
    <3>1. SUFFICES ASSUME Dp <= q PROVE FALSE
      BY GridSizes
    <3>2. Dp * Cp <= q * Cp /\ q * Cp \in Nat /\ Dp * Cp \in Nat
      BY <3>1, GridSizes, Products
    <3>3. r < Dp * Cp
      BY <3>2 DEF Grid, Total
    <3>. QED  BY <2>1, <3>2, <3>3, GridSizes
  <2>3. q \in Dps
    BY <2>2, GridSizes DEF Dps
  <2>. QED  BY <2>1, <2>3 DEF DpOf, CpOf, RankAt
<1>2. ASSUME NEW d \in Dps, NEW c \in 0 .. Cp - 1
      PROVE  RankAt(d, c) \in Grid /\ DpOf(RankAt(d, c)) = d /\ CpOf(RankAt(d, c)) = c
  <2>1. d \in Nat /\ d + 1 <= Dp /\ d + 1 \in Nat /\ Cp \in Nat \ {0} /\ Dp \in Nat
    BY GridSizes
  <2>2. /\ d * Cp \in Nat /\ (d + 1) * Cp = d * Cp + Cp
        /\ (d + 1) * Cp <= Dp * Cp /\ Dp * Cp \in Nat
    BY <2>1, Products
  <2>3. PICK x \in Nat : x = d * Cp
    BY <2>2
  <2>4. x + c \in Nat /\ x + c < Dp * Cp
    BY <2>1, <2>2, <2>3
  <2>5. (x + c) \div Cp = d /\ (x + c) % Cp = c
    BY <2>1, <2>3, <2>4, EuclidUnique
  <2>6. x + c \in Grid
    BY <2>2, <2>4 DEF Grid, Total
  <2>. QED  BY <2>3, <2>5, <2>6 DEF DpOf, CpOf, RankAt
<1>. QED  BY <1>1, <1>2

\* The inputs of the default scheduler.
DefaultInputs ==
    /\ task \in {"logprobs", "train"}
    /\ \E counts \in Splits : offsets = OffsetsOf(counts)
    /\ seq_lens \in [Gids -> Originals]

LEMMA OffsetsAre ==
    ASSUME DefaultInputs
    PROVE  /\ offsets \in [0 .. Dp -> Nat] /\ offsets[0] = 0 /\ offsets[Dp] = NumSamples
           /\ \A i, j \in 0 .. Dp : i < j => offsets[i] < offsets[j]
<1>1. PICK counts \in Splits : offsets = Cumulative(counts)
  BY DEF DefaultInputs, OffsetsOf
<1>2. counts \in [1 .. Dp -> Counts] /\ Cumulative(counts)[Len(counts)] = NumSamples
  BY DEF Splits, WholeOf
<1>3. \A k \in 1 .. Dp : counts[k] \in Nat /\ counts[k] > 0
  <2>1. Counts \subseteq Nat \ {0}
    BY DynamicCpAssumption DEF DynamicCpAssumption
  <2>2. \A k \in 1 .. Dp : counts[k] \in Counts
    BY <1>2
  <2>3. \A k \in 1 .. Dp : counts[k] \in Nat \ {0}
    BY <2>1, <2>2
  <2>. QED  BY <2>3
<1>4. counts \in [1 .. Dp -> Nat] /\ Dp \in Nat
  BY <1>2, <1>3, GridSizes
<1>5. Len(counts) = Dp /\ offsets \in [0 .. Dp -> Nat] /\ offsets[0] = 0
  BY <1>1, <1>4, CumulativeIs
<1>6. \A i, j \in 0 .. Dp : i < j => offsets[i] < offsets[j]
  <2>. SUFFICES ASSUME NEW i \in 0 .. Dp, NEW j \in 0 .. Dp, i < j
                PROVE  offsets[i] < offsets[j]
    OBVIOUS
  <2>1. i <= j
    BY <1>4
  <2>. QED  BY <1>1, <1>3, <1>4, <2>1, CumulativeGrows
<1>. QED  BY <1>1, <1>2, <1>5, <1>6

\* Every sample belongs to one dp index.
LEMMA OwnersAre ==
    ASSUME DefaultInputs
    PROVE  /\ Gids = 0 .. NumSamples - 1
           /\ \A d \in Dps : /\ offsets[d] \in Nat /\ offsets[d + 1] \in Nat
                             /\ GidsOf(d) \subseteq Gids
           /\ \A g \in Gids : \E d \in Dps : g \in GidsOf(d)
           /\ \A d, e \in Dps : \A g \in GidsOf(d) : g \in GidsOf(e) => d = e
<1>1. /\ offsets \in [0 .. Dp -> Nat] /\ offsets[0] = 0 /\ offsets[Dp] = NumSamples
      /\ \A i, j \in 0 .. Dp : i < j => offsets[i] < offsets[j]
  BY OffsetsAre
<1>2. Gids = 0 .. NumSamples - 1
  BY <1>1 DEF Gids
<1>3. Dp \in Nat /\ \A d \in Dps : d \in 0 .. Dp /\ d + 1 \in 0 .. Dp /\ d + 1 <= Dp
  BY GridSizes DEF Dps
<1>4. \A d \in Dps : offsets[d] \in Nat /\ offsets[d + 1] \in Nat
  BY <1>1, <1>3
<1>5. ASSUME NEW d \in Dps PROVE GidsOf(d) \subseteq Gids
  <2>1. offsets[d + 1] <= NumSamples
    <3>1. CASE d + 1 = Dp
      BY <1>1, <1>4, <3>1
    <3>2. CASE d + 1 # Dp
      <4>1. d + 1 < Dp /\ Dp \in 0 .. Dp
        BY <1>3, <3>2
      <4>2. offsets[d + 1] < offsets[Dp]
        BY <1>1, <1>3, <4>1
      <4>. QED  BY <1>1, <1>4, <4>2, GridSizes
    <3>. QED  BY <3>1, <3>2
  <2>. QED  BY <1>2, <1>4, <2>1, GridSizes DEF GidsOf
<1>6. ASSUME NEW g \in Gids PROVE \E d \in Dps : g \in GidsOf(d)
  <2>. DEFINE T == {i \in 0 .. Dp : g < offsets[i]}
  <2>1. Dp \in T
    BY <1>1, <1>2, <1>3
  <2>2. T \in SUBSET Nat
    OBVIOUS
  <2>. HIDE DEF T
  <2>3. PICK i \in T : \A j \in T : i <= j
    BY <2>1, <2>2, Least
  <2>4. i \in 0 .. Dp /\ g < offsets[i]
    BY <2>3 DEF T
  <2>5. i # 0
    BY <1>1, <1>2, <2>4
  <2>6. PICK d \in Dps : i = d + 1
    <3>1. i - 1 \in Dps /\ i = (i - 1) + 1
      BY <1>3, <2>4, <2>5 DEF Dps
    <3>. QED  BY <3>1
  <2>7. d \in 0 .. Dp /\ ~ (i <= d)
    BY <1>3, <2>6
  <2>8. ~ (g < offsets[d])
    BY <2>3, <2>7 DEF T
  <2>9. g \in Nat /\ offsets[d] \in Nat /\ offsets[d + 1] \in Nat
    BY <1>2, <1>4, GridSizes
  <2>. QED  BY <2>4, <2>6, <2>8, <2>9 DEF GidsOf
<1>7. ASSUME NEW d \in Dps, NEW e \in Dps, NEW g \in GidsOf(d), g \in GidsOf(e), d < e
      PROVE  FALSE
  <2>1. offsets[d + 1] <= offsets[e]
    <3>1. d + 1 <= e /\ d + 1 \in 0 .. Dp /\ e \in 0 .. Dp
      BY <1>3, <1>7 DEF Dps
    <3>2. d + 1 = e \/ d + 1 < e
      BY <3>1
    <3>3. offsets[d + 1] = offsets[e] \/ offsets[d + 1] < offsets[e]
      BY <1>1, <3>1, <3>2
    <3>. QED  BY <1>4, <3>3
  <2>2. g < offsets[d + 1] /\ offsets[e] <= g
    BY <1>4, <1>7 DEF GidsOf
  <2>3. g \in Int
    BY <1>4 DEF GidsOf
  <2>. QED  BY <1>4, <2>1, <2>2, <2>3
<1>8. \A d, e \in Dps : \A g \in GidsOf(d) : g \in GidsOf(e) => d = e
  <2>1. \A d, e \in Dps : d = e \/ d < e \/ e < d
    BY DEF Dps
  <2>. QED  BY <1>7, <2>1
<1>. QED  BY <1>2, <1>4, <1>5, <1>6, <1>8

\* bucketize finds it.
LEMMA Bucketized ==
    ASSUME DefaultInputs, NEW d \in Dps, NEW g \in GidsOf(d)
    PROVE  Bucketize(g, LastGids) = d
<1>1. /\ offsets \in [0 .. Dp -> Nat]
      /\ \A i, j \in 0 .. Dp : i < j => offsets[i] < offsets[j]
  BY OffsetsAre
<1>2. Dp \in Nat /\ \A i \in Dps : i \in Nat /\ i \in 0 .. Dp /\ i + 1 \in 0 .. Dp
  BY GridSizes DEF Dps
<1>3. /\ offsets[d] \in Nat /\ offsets[d + 1] \in Nat /\ g \in Int
      /\ offsets[d] <= g /\ g < offsets[d + 1]
  BY <1>1, <1>2 DEF GidsOf
<1>4. ASSUME NEW i \in Dps PROVE (offsets[i + 1] - 1 < g) <=> i < d
  <2>1. offsets[i + 1] \in Nat
    BY <1>1, <1>2
  <2>2. CASE i < d
    <3>1. i + 1 = d \/ i + 1 < d
      BY <1>2, <2>2
    <3>2. i + 1 < d => offsets[i + 1] < offsets[d]
      BY <1>1, <1>2
    <3>3. offsets[i + 1] <= offsets[d]
      BY <1>3, <2>1, <3>1, <3>2
    <3>. QED  BY <1>3, <2>1, <2>2, <3>3
  <2>3. CASE ~ (i < d)
    <3>1. d + 1 = i + 1 \/ d + 1 < i + 1
      BY <1>2, <2>3
    <3>2. d + 1 < i + 1 => offsets[d + 1] < offsets[i + 1]
      BY <1>1, <1>2
    <3>3. offsets[d + 1] <= offsets[i + 1]
      BY <1>3, <2>1, <3>1, <3>2
    <3>. QED  BY <1>3, <2>1, <2>3, <3>3
  <2>. QED  BY <2>2, <2>3
<1>5. {i \in DOMAIN LastGids : LastGids[i] < g} = 0 .. d - 1
  <2>1. DOMAIN LastGids = Dps /\ \A i \in Dps : LastGids[i] = offsets[i + 1] - 1
    BY DEF LastGids
  <2>2. {i \in DOMAIN LastGids : LastGids[i] < g} = {i \in Dps : i < d}
    BY <1>4, <2>1
  <2>3. {i \in Dps : i < d} = 0 .. d - 1
    BY <1>2 DEF Dps
  <2>. QED  BY <2>2, <2>3
<1>6. Cardinality(0 .. d - 1) = d
  <2>1. Cardinality(0 .. d - 1) = IF 0 <= d - 1 THEN (d - 1) - 0 + 1 ELSE 0
    <3>1. 0 \in Int /\ d - 1 \in Int
      BY <1>2
    <3>. QED  BY <3>1, FS_Interval
  <2>. QED  BY <1>2, <2>1
<1>. QED  BY <1>5, <1>6 DEF Bucketize

\* So the rank a sample comes from is the one of its dp index at one's own
\* place within the dp index.
LEMMA SourceIs ==
    ASSUME DefaultInputs, NEW r \in Grid, NEW d \in Dps, NEW g \in GidsOf(d)
    PROVE  /\ SrcRank(r, g) = RankAt(d, CpOf(r)) /\ SrcRank(r, g) \in Grid
           /\ DpOf(SrcRank(r, g)) = d /\ CpOf(SrcRank(r, g)) = CpOf(r)
<1>1. SrcRank(r, g) = RankAt(d, CpOf(r))
  BY Bucketized DEF SrcRank, DpRanks
<1>. QED  BY <1>1, GridPlaces

\* Both ends of an exchange have the same list.
LEMMA ListsAgree ==
    ASSUME DefaultInputs, NEW s \in Grid, NEW d \in Grid
    PROVE  ToSend(s, d) = ToReceive(d, s)
<1>1. (d \in Range(DpRanks(s))) <=> (CpOf(d) = CpOf(s))
  <2>1. Range(DpRanks(s)) = {RankAt(e, CpOf(s)) : e \in Dps}
    BY DEF Range, DpRanks
  <2>2. ASSUME NEW e \in Dps, d = RankAt(e, CpOf(s)) PROVE CpOf(d) = CpOf(s)
    BY <2>2, GridPlaces
  <2>3. ASSUME CpOf(d) = CpOf(s) PROVE \E e \in Dps : d = RankAt(e, CpOf(s))
    BY <2>3, GridPlaces
  <2>. QED  BY <2>1, <2>2, <2>3
<1>2. \A g \in Combined(d) : \E e \in Dps : g \in GidsOf(e)
  BY OwnersAre DEF Combined
<1>3. ASSUME NEW g \in Combined(d)
      PROVE  SrcRank(d, g) = s <=> (CpOf(d) = CpOf(s) /\ g \in GidsOf(DpOf(s)))
  <2>1. PICK e \in Dps : g \in GidsOf(e)
    BY <1>2
  <2>2. SrcRank(d, g) \in Grid /\ DpOf(SrcRank(d, g)) = e /\ CpOf(SrcRank(d, g)) = CpOf(d)
    BY <2>1, SourceIs
  <2>3. DpOf(s) \in Dps /\ (g \in GidsOf(DpOf(s)) <=> DpOf(s) = e)
    BY <2>1, GridPlaces, OwnersAre
  <2>4. (SrcRank(d, g) = s) <=> (DpOf(s) = e /\ CpOf(s) = CpOf(d))
    BY <2>2, GridPlaces
  <2>. QED  BY <2>3, <2>4
<1>4. CASE CpOf(d) = CpOf(s)
  <2>1. {g \in Combined(d) : g \in GidsOf(DpOf(s))} = {g \in Combined(d) : SrcRank(d, g) = s}
    BY <1>3, <1>4
  <2>. QED  BY <1>1, <1>4, <2>1 DEF ToSend, ToReceive
<1>5. CASE CpOf(d) # CpOf(s)
  <2>1. {g \in Combined(d) : SrcRank(d, g) = s} = {}
    BY <1>3, <1>5
  <2>2. Listing({}, <) = <<>>
    BY FS_EmptySet DEF Listing, AtOnce
  <2>. QED  BY <1>1, <1>5, <2>1, <2>2 DEF ToSend, ToReceive
<1>. QED  BY <1>4, <1>5

\* Padded lengths: whole multiples, and long enough.
LensKnown == seq_lens \in [Gids -> Originals]

LEMMA PaddingIs ==
    ASSUME LensKnown, NEW g \in Gids
    PROVE  /\ seq_lens[g] \in Nat \ {0} /\ Padded(g) \in Nat \ {0} /\ seq_lens[g] <= Padded(g)
           /\ \E q \in Nat : Padded(g) = q * PadDiv
           /\ PadDiv \in Nat \ {0}
<1>1. PadDiv \in Nat \ {0}
  BY GridSizes DEF PadDiv
<1>2. PICK P \in Nat \ {0} : P = PadDiv
  BY <1>1
<1>3. PICK l \in Nat \ {0} : l = seq_lens[g]
  BY GridSizes DEF LensKnown
<1>4. Padded(g) = RoundUp(l, P)
  BY <1>2, <1>3 DEF Padded, RoundUp
<1>5. RoundUp(l, P) \in Nat \ {0} /\ l <= RoundUp(l, P)
  BY RoundedUp, RoundedUpIs
<1>6. (l + P - 1) \div P \in Nat /\ RoundUp(l, P) = ((l + P - 1) \div P) * P
  <2>1. l + P - 1 \in Nat
    OBVIOUS
  <2>. QED  BY <2>1, Euclid DEF RoundUp
<1>7. \E q \in Nat : RoundUp(l, P) = q * P
  BY <1>6
<1>. QED  BY <1>1, <1>2, <1>3, <1>4, <1>5, <1>7

LEMMA PaddedIs ==
    ASSUME DefaultInputs, NEW g \in Gids
    PROVE  /\ seq_lens[g] \in Nat \ {0} /\ Padded(g) \in Nat \ {0} /\ seq_lens[g] <= Padded(g)
           /\ \E q \in Nat : Padded(g) = q * PadDiv
           /\ PadDiv \in Nat \ {0} /\ (Total > 1 => PadDiv = 2 * Total)
<1>1. LensKnown
  BY DEF DefaultInputs, LensKnown
<1>2. Total > 1 => PadDiv = 2 * Total
  BY DEF PadDiv, DefaultInputs
<1>. QED  BY <1>1, <1>2, PaddingIs

LEMMA DefaultKnown == DefaultInputs => LensKnown
BY DEF DefaultInputs, LensKnown

AllTokens == {PadToken} \cup {Token(g, k) : g \in Gids, k \in Nat}

LEMMA TokensAre ==
    ASSUME LensKnown, NEW g \in Gids
    PROVE  /\ Tokens(g) \in Seq(AllTokens) /\ Len(Tokens(g)) = Padded(g)
           /\ Logprobs(g) \in Seq(AllTokens) /\ Len(Logprobs(g)) = seq_lens[g]
           /\ Logprobs(g) = [k \in 1 .. seq_lens[g] |-> Tokens(g)[k]]
<1>1. PICK l \in Nat, m \in Nat : l = seq_lens[g] /\ m = Padded(g) /\ l <= m
  BY PaddingIs
<1>2. \A k \in Nat : Token(g, k) \in AllTokens
  BY DEF AllTokens
<1>3. \A k \in 1 .. m : k \in Nat
  OBVIOUS
<1>4. PadToken \in AllTokens
  BY DEF AllTokens
<1>5. Tokens(g) = [k \in 1 .. m |-> IF k <= l THEN Token(g, k) ELSE PadToken]
  BY <1>1 DEF Tokens
<1>6. Logprobs(g) = [k \in 1 .. l |-> Token(g, k)]
  BY <1>1 DEF Logprobs
<1>7. Tokens(g) \in Seq(AllTokens) /\ Len(Tokens(g)) = m
  <2>1. Tokens(g) \in [1 .. m -> AllTokens]
    BY <1>2, <1>3, <1>4, <1>5
  <2>. QED  BY <2>1
<1>8. Logprobs(g) \in Seq(AllTokens) /\ Len(Logprobs(g)) = l
  <2>1. Logprobs(g) \in [1 .. l -> AllTokens]
    BY <1>1, <1>2, <1>3, <1>6
  <2>. QED  BY <2>1
<1>9. \A k \in 1 .. l : Tokens(g)[k] = Token(g, k)
  BY <1>1, <1>5
<1>. QED  BY <1>1, <1>6, <1>7, <1>8, <1>9

\* The sorted list of some samples: each at one place, which Place finds.
ListOf(S, L) ==
    /\ Cardinality(S) \in Nat /\ L \in [1 .. Cardinality(S) -> S]
    /\ \A g \in S : Place(L, g) \in 1 .. Cardinality(S) /\ L[Place(L, g)] = g

LEMMA PlacesFound ==
    ASSUME NEW S, NEW n \in Nat, NEW L \in Bijection(1 .. n, S)
    PROVE  /\ L \in [1 .. n -> S]
           /\ \A g \in S : Place(L, g) \in 1 .. n /\ L[Place(L, g)] = g
<1>1. L \in [1 .. n -> S] /\ \A g \in S : \E j \in 1 .. n : L[j] = g
  BY DEF Bijection, Surjection, Injection
<1>2. DOMAIN L = 1 .. n
  BY <1>1
<1>3. ASSUME NEW g \in S PROVE Place(L, g) \in 1 .. n /\ L[Place(L, g)] = g
  <2>1. \E j \in DOMAIN L : L[j] = g
    BY <1>1, <1>2
  <2>2. Place(L, g) \in DOMAIN L /\ L[Place(L, g)] = g
    BY <2>1 DEF Place
  <2>. QED  BY <1>2, <2>2
<1>. QED  BY <1>1, <1>3

LEMMA SamplesListed ==
    ASSUME DefaultInputs, NEW S \in SUBSET Gids
    PROVE  ListOf(S, Listing(S, <))
<1>1. IsFiniteSet(S) /\ S \in SUBSET Nat
  <2>1. Gids = 0 .. NumSamples - 1
    BY OwnersAre
  <2>2. IsFiniteSet(0 .. NumSamples - 1)
    <3>1. 0 \in Int /\ NumSamples - 1 \in Int
      BY GridSizes
    <3>. QED  BY <3>1, FS_Interval
  <2>3. \A g \in Gids : g \in Nat
    BY <2>1
  <2>. QED  BY <2>1, <2>2, <2>3, FS_Subset
<1>2. /\ Cardinality(S) \in Nat
      /\ Listing(S, <) \in Bijection(1 .. Cardinality(S), S)
  BY <1>1, NumbersListed
<1>. QED  BY <1>2, PlacesFound DEF ListOf

\* Lists of what a list of samples stands for, put together and cut.
TokenLists(ids) == [i \in DOMAIN ids |-> Tokens(ids[i])]
PaddedOf(ids) == [i \in DOMAIN ids |-> Padded(ids[i])]
LogprobLists(ids) == [i \in DOMAIN ids |-> Logprobs(ids[i])]

LEMMA TokensOfLists ==
    ASSUME LensKnown, NEW n \in Nat, NEW ids \in [1 .. n -> Gids]
    PROVE  /\ TokenLists(ids) \in [1 .. n -> Seq(AllTokens)]
           /\ LensOf(TokenLists(ids), n) = PaddedOf(ids)
           /\ LogprobLists(ids) \in [1 .. n -> Seq(AllTokens)]
           /\ LensOf(LogprobLists(ids), n) = Widths(ids)
<1>1. DOMAIN ids = 1 .. n /\ \A i \in 1 .. n : ids[i] \in Gids
  OBVIOUS
<1>2. \A i \in 1 .. n : /\ Tokens(ids[i]) \in Seq(AllTokens)
                        /\ Len(Tokens(ids[i])) = Padded(ids[i])
                        /\ Logprobs(ids[i]) \in Seq(AllTokens)
                        /\ Len(Logprobs(ids[i])) = seq_lens[ids[i]]
  BY <1>1, TokensAre
<1>3. TokenLists(ids) = [i \in 1 .. n |-> Tokens(ids[i])]
  BY <1>1 DEF TokenLists
<1>4. LogprobLists(ids) = [i \in 1 .. n |-> Logprobs(ids[i])]
  BY <1>1 DEF LogprobLists
<1>5. \A i \in 1 .. n : /\ TokenLists(ids)[i] = Tokens(ids[i])
                        /\ LogprobLists(ids)[i] = Logprobs(ids[i])
  BY <1>3, <1>4
<1>6. LensOf(TokenLists(ids), n) = [i \in 1 .. n |-> Padded(ids[i])]
  BY <1>2, <1>5 DEF LensOf
<1>7. LensOf(LogprobLists(ids), n) = [i \in 1 .. n |-> seq_lens[ids[i]]]
  BY <1>2, <1>5 DEF LensOf
<1>8. TokenLists(ids) \in [1 .. n -> Seq(AllTokens)]
  BY <1>2, <1>3
<1>9. LogprobLists(ids) \in [1 .. n -> Seq(AllTokens)]
  BY <1>2, <1>4
<1>. QED  BY <1>1, <1>6, <1>7, <1>8, <1>9 DEF PaddedOf, Widths

\* What a rank unpacks is the sample it asked for.
LEMMA Unpacks ==
    ASSUME DefaultInputs, NEW r \in Grid, NEW g \in Combined(r)
    PROVE  Unpacked(r, g) = Sample(g)
<1>. DEFINE s == SrcRank(r, g)
            S == {h \in Combined(r) : SrcRank(r, h) = s}
            ids == ToReceive(r, s)
            j == Place(ids, g)
            n == Cardinality(S)
<1>1. s \in Grid
  <2>1. PICK d \in Dps : g \in GidsOf(d)
    BY OwnersAre DEF Combined
  <2>. QED  BY <2>1, SourceIs
<1>2. ToSend(s, r) = ids
  BY <1>1, ListsAgree
<1>3. g \in S /\ S \in SUBSET Gids /\ ids = Listing(S, <)
  BY DEF ToReceive, Combined
<1>. HIDE DEF S, s
<1>4. ListOf(S, ids)
  BY <1>3, SamplesListed
<1>. HIDE DEF ids
<1>5. n \in Nat /\ ids \in [1 .. n -> Gids] /\ j \in 1 .. n /\ ids[j] = g
  <2>1. n \in Nat /\ ids \in [1 .. n -> S] /\ j \in 1 .. n /\ ids[j] = g
    BY <1>3, <1>4 DEF ListOf
  <2>. QED  BY <1>3, <2>1
<1>. HIDE DEF n, j
<1>6. /\ TokenLists(ids) \in [1 .. n -> Seq(AllTokens)]
      /\ LensOf(TokenLists(ids), n) = PaddedOf(ids)
  BY <1>5, DefaultKnown, TokensOfLists
<1>7. Cut(FlattenSeq(TokenLists(ids)), PaddedOf(ids), j) = TokenLists(ids)[j]
  BY <1>5, <1>6, CutIs
<1>8. TokenLists(ids)[j] = Tokens(g)
  BY <1>5 DEF TokenLists
<1>9. Unpacked(r, g) = [of |-> ids[j], tokens |-> Cut(FlattenSeq(TokenLists(ids)), PaddedOf(ids), j)]
  BY <1>2 DEF Unpacked, TokenLists, PaddedOf, s, j, ids
<1>. QED  BY <1>5, <1>7, <1>8, <1>9 DEF Sample

----------------------------------------------------------------------------
\* The groups.

\* A block is a stretch of the grid of its size.
LEMMA BlockIs ==
    ASSUME NEW r \in Grid, NEW size \in GroupSizes
    PROVE  /\ Block(r, size) \subseteq Grid /\ r \in Block(r, size)
           /\ Cardinality(Block(r, size)) = size
           /\ \A q \in Block(r, size) : Block(q, size) = Block(r, size)
           /\ \E lo \in Nat : Block(r, size) = lo .. lo + size - 1
<1>0. Total % size = 0
  BY SizesAre
<1>1. size \in Nat \ {0} /\ size <= Total
  BY GridSizes, SizesAre
<1>2. PICK n \in Nat : Total = n * size
  <2>1. Total \div size \in Nat /\ Total = (Total \div size) * size + (Total % size)
    BY <1>1, GridSizes, Euclid
  <2>2. PICK n \in Nat : n = Total \div size
    BY <2>1
  <2>3. n * size \in Nat
    BY <1>1, Products
  <2>. QED  BY <1>0, <2>1, <2>2, <2>3
<1>11. ASSUME NEW q \in Grid
       PROVE  \E e \in Nat, f \in 0 .. size - 1 : e = q \div size /\ q = e * size + f
  <2>1. q \in Nat /\ size \in Nat \ {0}
    BY <1>1, GridSizes
  <2>2. /\ q \div size \in Nat /\ q % size \in 0 .. size - 1
        /\ q = (q \div size) * size + (q % size)
    BY <2>1, Euclid
  <2>. QED  BY <2>2
<1>3. PICK b \in Nat, c \in 0 .. size - 1 : b = r \div size /\ r = b * size + c
  BY <1>11
<1>4. PICK lo \in Nat : lo = b * size
  BY <1>1, Products
<1>5. lo + size <= Total
  <2>1. b < n
    <3>1. SUFFICES ASSUME n <= b PROVE FALSE
      OBVIOUS
    <3>2. n * size <= b * size
      BY <1>1, <3>1, Products
    <3>3. r < Total /\ r \in Nat
      BY GridSizes DEF Grid
    <3>. QED  BY <1>1, <1>2, <1>3, <1>4, <3>2, <3>3, GridSizes
  <2>2. b + 1 \in Nat /\ b + 1 <= n
    BY <2>1
  <2>3. (b + 1) * size <= n * size /\ (b + 1) * size = b * size + size
    BY <1>1, <2>2, Products
  <2>. QED  BY <1>1, <1>2, <1>4, <2>3, GridSizes
<1>6. ASSUME NEW q \in Grid PROVE q \div size = b <=> q \in lo .. lo + size - 1
  <2>1. PICK e \in Nat, f \in 0 .. size - 1 : e = q \div size /\ q = e * size + f
    BY <1>11
  <2>2. ASSUME e = b PROVE q \in lo .. lo + size - 1
    BY <1>1, <1>4, <2>1, <2>2
  <2>3. ASSUME q \in lo .. lo + size - 1 PROVE e = b
    <3>1. q - lo \in 0 .. size - 1 /\ q = lo + (q - lo) /\ q \in Nat
      BY <1>1, <2>3, GridSizes
    <3>2. PICK d \in 0 .. size - 1 : q = b * size + d
      BY <1>4, <3>1
    <3>3. q \div size = b
      BY <1>1, <3>1, <3>2, EuclidUnique
    <3>. QED  BY <2>1, <3>3
  <2>. QED  BY <2>1, <2>2, <2>3
<1>7. \A x \in lo .. lo + size - 1 : x \in Grid
  BY <1>1, <1>5, GridSizes DEF Grid
<1>8. Block(r, size) = lo .. lo + size - 1
  BY <1>3, <1>6, <1>7 DEF Block
<1>9. Cardinality(lo .. lo + size - 1) = size
  <2>1. lo \in Int /\ lo + size - 1 \in Int /\ lo <= lo + size - 1
        /\ (lo + size - 1) - lo + 1 = size
    BY <1>1
  <2>. QED  BY <2>1, FS_Interval
<1>10. \A q \in Block(r, size) : Block(q, size) = Block(r, size)
  BY DEF Block
<1>12. r \in Block(r, size) /\ Block(r, size) \subseteq Grid
  BY DEF Block
<1>. QED  BY <1>8, <1>9, <1>10, <1>12

\* The block of some rank with one's block is one's block.
LEMMA BlocksAre ==
    ASSUME NEW B \in Blocks
    PROVE  /\ B \subseteq Grid /\ Cardinality(B) \in GroupSizes
           /\ \A q \in B : Block(q, Cardinality(B)) = B
           /\ \E lo \in Nat : B = lo .. lo + Cardinality(B) - 1
<1>1. PICK r \in Grid, size \in GroupSizes : B = Block(r, size)
  BY DEF Blocks
<1>2. /\ B \subseteq Grid /\ Cardinality(B) = size
      /\ \A q \in B : Block(q, size) = B
      /\ \E lo \in Nat : B = lo .. lo + size - 1
  BY <1>1, BlockIs
<1>. QED  BY <1>2

----------------------------------------------------------------------------
\* What the scheduler decides: N micro-batches, in each of which every rank is
\* in one group with samples.

Number(a) == Cardinality(MicroBatches(a))
GroupIn(a, m, r) == CHOOSE B \in Blocks : \A g \in Members(a, m, r) : a[g][2] = B

LEMMA AssignmentIs ==
    ASSUME DefaultInputs, NEW a \in Assignments
    PROVE  /\ DOMAIN a = Gids /\ Number(a) \in 1 .. MaxMbs
           /\ MicroBatches(a) = 1 .. Number(a)
           /\ \A g \in Gids : a[g][1] \in 1 .. Number(a) /\ a[g][2] \in Blocks
<1>1. /\ a \in [0 .. NumSamples - 1 -> (1 .. MaxMbs) \X Blocks]
      /\ MicroBatches(a) = 1 .. Number(a)
  BY DEF Assignments, Number
<1>2. DOMAIN a = Gids /\ 0 \in Gids
  BY <1>1, OwnersAre, GridSizes
<1>3. \A g \in Gids : a[g][1] \in 1 .. MaxMbs /\ a[g][2] \in Blocks
  BY <1>1, <1>2
<1>4. MaxMbs \in Nat
  BY DynamicCpAssumption DEF DynamicCpAssumption
<1>5. MicroBatches(a) \subseteq 1 .. MaxMbs /\ a[0][1] \in MicroBatches(a)
  BY <1>2, <1>3 DEF MicroBatches
<1>6. IsFiniteSet(1 .. MaxMbs) /\ Cardinality(1 .. MaxMbs) = MaxMbs
  BY <1>4, FS_Interval
<1>7. Number(a) \in Nat /\ Number(a) <= MaxMbs
  BY <1>5, <1>6, FS_Subset, FS_CardinalityType DEF Number
<1>8. Number(a) # 0
  BY <1>1, <1>5, <1>7
<1>9. \A g \in Gids : a[g][1] \in MicroBatches(a)
  BY <1>2 DEF MicroBatches
<1>. QED  BY <1>1, <1>2, <1>3, <1>4, <1>7, <1>8, <1>9

LEMMA GroupsAre ==
    ASSUME DefaultInputs, NEW a \in Assignments, NEW m \in 1 .. Number(a), NEW r \in Grid
    PROVE  /\ Members(a, m, r) # {} /\ Members(a, m, r) \subseteq Gids
           /\ GroupIn(a, m, r) \in Blocks /\ r \in GroupIn(a, m, r)
           /\ \A g \in Members(a, m, r) : a[g][2] = GroupIn(a, m, r)
<1>. DEFINE M == Members(a, m, r)
            T == {a[g][2] : g \in M}
<1>1. /\ DOMAIN a = Gids /\ m \in MicroBatches(a)
      /\ \A g \in Gids : a[g][2] \in Blocks
  BY AssignmentIs
<1>2. Cardinality(T) = 1
  BY <1>1 DEF Assignments
<1>3. M \subseteq Gids /\ \A g \in M : r \in a[g][2]
  BY <1>1 DEF Members
<1>. HIDE DEF M
<1>4. IsFiniteSet(T)
  <2>1. IsFiniteSet(M)
    <3>1. Gids = 0 .. NumSamples - 1 /\ 0 \in Int /\ NumSamples - 1 \in Int
      BY OwnersAre, GridSizes
    <3>2. IsFiniteSet(Gids)
      BY <3>1, FS_Interval
    <3>. QED  BY <1>3, <3>2, FS_Subset
  <2>. DEFINE f == [g \in M |-> a[g][2]]
  <2>1a. f \in [M -> T] /\ T = {f[g] : g \in M}
    OBVIOUS
  <2>. HIDE DEF f, T
  <2>2. f \in Surjection(M, T)
    <3>1. \A t \in T : \E g \in M : f[g] = t
      BY <2>1a
    <3>. QED  BY <2>1a, <3>1 DEF Surjection
  <2>. QED  BY <2>1, <2>2, FS_Surjection
<1>5. PICK B : T = {B}
  BY <1>2, <1>4, FS_Singleton
<1>6. M # {} /\ \A g \in M : a[g][2] = B
  <2>1. M # {}
    BY <1>5
  <2>2. \A g \in M : a[g][2] \in T
    OBVIOUS
  <2>. QED  BY <1>5, <2>1, <2>2
<1>7. B \in Blocks
  BY <1>1, <1>3, <1>6
<1>8. GroupIn(a, m, r) \in Blocks /\ \A g \in M : a[g][2] = GroupIn(a, m, r)
  BY <1>6, <1>7 DEF GroupIn, M
<1>9. r \in GroupIn(a, m, r)
  BY <1>3, <1>6, <1>8
<1>. QED  BY <1>3, <1>6, <1>8, <1>9 DEF M

\* The ranks of a group have the same samples.
LEMMA GroupShares ==
    ASSUME DefaultInputs, NEW a \in Assignments, NEW m \in 1 .. Number(a), NEW r \in Grid,
           NEW q \in GroupIn(a, m, r)
    PROVE  /\ q \in Grid /\ Members(a, m, q) = Members(a, m, r)
           /\ GroupIn(a, m, q) = GroupIn(a, m, r)
<1>1. q \in Grid
  BY GroupsAre, BlocksAre
<1>2. PICK g \in Members(a, m, r) : TRUE
  BY GroupsAre
<1>3. a[g][2] = GroupIn(a, m, r) /\ g \in Members(a, m, q)
  BY GroupsAre DEF Members
<1>4. GroupIn(a, m, q) = GroupIn(a, m, r)
  BY <1>1, <1>3, GroupsAre
<1>5. ASSUME NEW h \in Members(a, m, r) PROVE h \in Members(a, m, q)
  <2>1. a[h][2] = GroupIn(a, m, r)
    BY GroupsAre
  <2>. QED  BY <2>1 DEF Members
<1>6. ASSUME NEW h \in Members(a, m, q) PROVE h \in Members(a, m, r)
  <2>1. a[h][2] = GroupIn(a, m, r) /\ r \in GroupIn(a, m, r)
    BY <1>1, <1>4, GroupsAre
  <2>. QED  BY <2>1 DEF Members
<1>. QED  BY <1>1, <1>4, <1>5, <1>6

\* The samples of a rank, the longest first.
LEMMA LongestListed ==
    ASSUME DefaultInputs, NEW S \in SUBSET Gids
    PROVE  ListOf(S, LongestFirst(S))
<1>. DEFINE R == {p \in S \X S : Longer(p[1], p[2])}
            L == LongestFirst(S)
<1>1. IsFiniteSet(S) /\ \A x \in S : x \in Int /\ seq_lens[x] \in Int
  <2>1. Gids = 0 .. NumSamples - 1 /\ 0 \in Int /\ NumSamples - 1 \in Int
    BY OwnersAre, GridSizes
  <2>2. IsFiniteSet(Gids)
    BY <2>1, FS_Interval
  <2>3. \A x \in Gids : x \in Int /\ seq_lens[x] \in Int
    BY <2>1, PaddedIs
  <2>. QED  BY <2>2, <2>3, FS_Subset
<1>2. \A x, y \in S : <<x, y>> \in R <=> Longer(x, y)
  OBVIOUS
<1>. HIDE DEF R
<1>3. StrictOrder(S, R)
  BY <1>1, <1>2 DEF StrictOrder, Longer
<1>4. \A x \in S : {y \in S : Longer(y, x)} = Ahead(S, R, x)
  BY <1>2 DEF Ahead
<1>5. ListsOnce(L, S, R)
  <2>. DEFINE rank(x) == Cardinality({y \in S : Longer(y, x)})
  <2>1. L = [i \in 1 .. Cardinality(S) |-> CHOOSE x \in S : rank(x) = i - 1]
    <3>. DEFINE f == [i \in 1 .. Cardinality(S) |-> CHOOSE x \in S : rank(x) = i - 1]
    <3>1. L = AtOnce(f)
      BY DEF LongestFirst, Listing
    <3>. HIDE DEF L, rank
    <3>2. f = [i \in 1 .. Cardinality(S) |-> f[i]] /\ Cardinality(S) \in Nat
      BY <1>1, FS_CardinalityType
    <3>. HIDE DEF f
    <3>3. L = f
      BY <3>1, <3>2, SequenceAtOnce
    <3>. QED  BY <3>3 DEF f
  <2>2. \A x \in S : rank(x) = Rank(S, R, x)
    BY <1>4 DEF Rank
  <2>. HIDE DEF L, rank
  <2>3. L = [i \in 1 .. Cardinality(S) |-> L[i]]
    BY <2>1
  <2>4. ASSUME NEW i \in 1 .. Cardinality(S), \E x \in S : Rank(S, R, x) = i - 1
        PROVE  L[i] \in S /\ Rank(S, R, L[i]) = i - 1
    <3>1. \E x \in S : rank(x) = i - 1
      BY <2>2, <2>4
    <3>2. L[i] = CHOOSE x \in S : rank(x) = i - 1
      BY <2>1
    <3>3. L[i] \in S /\ rank(L[i]) = i - 1
      BY <3>1, <3>2
    <3>. QED  BY <2>2, <3>3
  <2>. QED  BY <2>3, <2>4 DEF ListsOnce
<1>. HIDE DEF L
<1>6. L \in Bijection(1 .. Cardinality(S), S) /\ Cardinality(S) \in Nat
  BY <1>1, <1>3, <1>5, RankLists
<1>7. ListOf(S, L)
  BY <1>6, PlacesFound DEF ListOf
<1>. QED  BY <1>7 DEF L

----------------------------------------------------------------------------
\* The packed micro-batches a plan makes.

IdsIn(a, m, r) == LongestFirst(Members(a, m, r))
PackOf(ids, size) ==
    [ids |-> ids, local_cp_size |-> size, tokens |-> FlattenSeq(TokenLists(ids)),
     lens |-> Widths(ids), padded |-> PaddedOf(ids)]
PlanPacks(a, r) ==
    [m \in 1 .. Number(a) |-> PackOf(IdsIn(a, m, r), Cardinality(GroupIn(a, m, r)))]

\* A nonempty list of the samples of the group.
LEMMA IdsAre ==
    ASSUME DefaultInputs, NEW a \in Assignments, NEW m \in 1 .. Number(a), NEW r \in Grid
    PROVE  /\ Cardinality(Members(a, m, r)) \in Nat \ {0}
           /\ IdsIn(a, m, r) \in [1 .. Cardinality(Members(a, m, r)) -> Members(a, m, r)]
           /\ Range(IdsIn(a, m, r)) = Members(a, m, r)
           /\ \A g \in Members(a, m, r) :
                 /\ Place(IdsIn(a, m, r), g) \in 1 .. Cardinality(Members(a, m, r))
                 /\ IdsIn(a, m, r)[Place(IdsIn(a, m, r), g)] = g
<1>. DEFINE M == Members(a, m, r)
            L == IdsIn(a, m, r)
            n == Cardinality(M)
<1>1. M \in SUBSET Gids /\ M # {}
  BY GroupsAre
<1>2. ListOf(M, L)
  BY <1>1, LongestListed DEF IdsIn
<1>. HIDE DEF M, L
<1>3. n \in Nat /\ L \in [1 .. n -> M] /\ \A g \in M : Place(L, g) \in 1 .. n /\ L[Place(L, g)] = g
  BY <1>2 DEF ListOf
<1>4. n # 0
  BY <1>1, <1>3
<1>5. Range(L) = M
  <2>1. Range(L) = {L[i] : i \in 1 .. n}
    BY <1>3 DEF Range
  <2>. QED  BY <1>3, <2>1
<1>. QED  BY <1>3, <1>4, <1>5 DEF M, L

\* Who lists a sample once the groups are those of a.
LEMMA ListedIs ==
    ASSUME DefaultInputs, NEW a \in Assignments, sample_id_groups = GroupsOf(a)
    PROVE  /\ DOMAIN sample_id_groups = 1 .. Number(a)
           /\ \A m \in 1 .. Number(a), r \in Grid : sample_id_groups[m][r] = IdsIn(a, m, r)
           /\ \A r \in Grid, g \in Gids : Lists(r, g) <=> r \in a[g][2]
<1>1. /\ DOMAIN sample_id_groups = 1 .. Number(a)
      /\ \A m \in 1 .. Number(a), r \in Grid : sample_id_groups[m][r] = IdsIn(a, m, r)
  BY DEF GroupsOf, Number, IdsIn
<1>2. ASSUME NEW r \in Grid, NEW g \in Gids PROVE Lists(r, g) <=> r \in a[g][2]
  <2>1. Lists(r, g) <=> \E m \in 1 .. Number(a) : g \in Range(IdsIn(a, m, r))
    BY <1>1 DEF Lists
  <2>2. \A m \in 1 .. Number(a) : Range(IdsIn(a, m, r)) = Members(a, m, r)
    BY IdsAre
  <2>3. \A m \in 1 .. Number(a) : g \in Members(a, m, r) <=> (a[g][1] = m /\ r \in a[g][2])
    BY AssignmentIs DEF Members
  <2>4. a[g][1] \in 1 .. Number(a)
    BY AssignmentIs
  <2>. QED  BY <2>1, <2>2, <2>3, <2>4
<1>. QED  BY <1>1, <1>2

LEMMA CombinedIs ==
    ASSUME DefaultInputs, NEW a \in Assignments, sample_id_groups = GroupsOf(a), NEW r \in Grid
    PROVE  Combined(r) = {g \in Gids : r \in a[g][2]}
BY ListedIs DEF Combined

\* The size of a group, read off the first sample's listing.
LEMMA SizeIs ==
    ASSUME DefaultInputs, NEW a \in Assignments, sample_id_groups = GroupsOf(a),
           NEW m \in 1 .. Number(a), NEW r \in Grid
    PROVE  CpSizeAt(m, r) = Cardinality(GroupIn(a, m, r))
<1>. DEFINE first == IdsIn(a, m, r)[1]
<1>1. first \in Members(a, m, r) /\ first \in Gids
  <2>1. first \in Members(a, m, r)
    <3>1. PICK n \in Nat \ {0} : IdsIn(a, m, r) \in [1 .. n -> Members(a, m, r)]
      BY IdsAre
    <3>2. 1 \in 1 .. n
      OBVIOUS
    <3>. QED  BY <3>1, <3>2
  <2>. QED  BY <2>1, GroupsAre
<1>2. /\ sample_id_groups[m][r][1] = first
      /\ \A d \in Grid : Range(sample_id_groups[m][d]) = Members(a, m, d)
  <2>1. \A d \in Grid : sample_id_groups[m][d] = IdsIn(a, m, d)
    BY ListedIs
  <2>. QED  BY <2>1, IdsAre
<1>. HIDE DEF first
<1>3. \A d \in Grid : first \in Members(a, m, d) <=> d \in a[first][2]
  BY <1>1 DEF Members
<1>4. a[first][2] = GroupIn(a, m, r) /\ GroupIn(a, m, r) \subseteq Grid
  BY <1>1, GroupsAre, BlocksAre
<1>5. {d \in Grid : first \in Range(sample_id_groups[m][d])} = GroupIn(a, m, r)
  BY <1>2, <1>3, <1>4
<1>. QED  BY <1>2, <1>5 DEF CpSizeAt

LEMMA PackIs ==
    ASSUME NEW ids, NEW size, NEW samples, samples = [i \in DOMAIN ids |-> Sample(ids[i])]
    PROVE  Pack(ids, samples, size) = PackOf(ids, size)
<1>1. \A i \in DOMAIN ids : samples[i].tokens = Tokens(ids[i]) /\ samples[i].of = ids[i]
  BY DEF Sample
<1>2. [i \in DOMAIN ids |-> samples[i].tokens] = TokenLists(ids)
  BY <1>1 DEF TokenLists
<1>3. [i \in DOMAIN ids |-> seq_lens[samples[i].of]] = Widths(ids)
  BY <1>1 DEF Widths
<1>4. [i \in DOMAIN ids |-> Padded(samples[i].of)] = PaddedOf(ids)
  BY <1>1 DEF PaddedOf
<1>. QED  BY <1>2, <1>3, <1>4 DEF Pack, PackOf

\* What the reroute leaves a rank with.
LEMMA PacksMade ==
    ASSUME DefaultInputs, NEW a \in Assignments, sample_id_groups = GroupsOf(a), NEW r \in Grid
    PROVE  PacksOf(r) = PlanPacks(a, r)
<1>1. ASSUME NEW m \in 1 .. Number(a)
      PROVE  /\ sample_id_groups[m][r] = IdsIn(a, m, r)
             /\ [i \in DOMAIN IdsIn(a, m, r) |-> Unpacked(r, IdsIn(a, m, r)[i])]
                 = [i \in DOMAIN IdsIn(a, m, r) |-> Sample(IdsIn(a, m, r)[i])]
  <2>. DEFINE L == IdsIn(a, m, r)
  <2>1. sample_id_groups[m][r] = L
    BY ListedIs
  <2>2. ASSUME NEW i \in DOMAIN L PROVE Unpacked(r, L[i]) = Sample(L[i])
    <3>1. L[i] \in Members(a, m, r)
      BY IdsAre
    <3>2. L[i] \in Gids /\ r \in a[L[i]][2]
      BY <3>1, GroupsAre DEF Members
    <3>3. L[i] \in Combined(r)
      BY <3>2, CombinedIs
    <3>. QED  BY <3>3, Unpacks
  <2>. HIDE DEF L
  <2>3. [i \in DOMAIN L |-> Unpacked(r, L[i])] = [i \in DOMAIN L |-> Sample(L[i])]
    BY <2>2
  <2>. QED  BY <2>1, <2>3 DEF L
<1>2. ASSUME NEW m \in 1 .. Number(a)
      PROVE  Pack(IdsIn(a, m, r), [i \in DOMAIN IdsIn(a, m, r) |-> Unpacked(r, IdsIn(a, m, r)[i])],
                  CpSizeAt(m, r))
              = PackOf(IdsIn(a, m, r), Cardinality(GroupIn(a, m, r)))
  <2>1. CpSizeAt(m, r) = Cardinality(GroupIn(a, m, r))
    BY SizeIs
  <2>. QED  BY <1>1, <2>1, PackIs
<1>3. DOMAIN sample_id_groups = 1 .. Number(a)
  BY ListedIs
<1>4. PacksOf(r) = [m \in 1 .. Number(a) |->
          Pack(IdsIn(a, m, r), [i \in DOMAIN IdsIn(a, m, r) |-> Unpacked(r, IdsIn(a, m, r)[i])],
               CpSizeAt(m, r))]
  BY <1>1, <1>3 DEF PacksOf
<1>. QED  BY <1>2, <1>4 DEF PlanPacks

\* Who computes a sample's log-probabilities: the last rank of its group.
LEMMA ComputesIs ==
    ASSUME DefaultInputs, NEW a \in Assignments, sample_id_groups = GroupsOf(a), NEW g \in Gids
    PROVE  LastListed(g) = Max(a[g][2])
<1>1. a[g][2] \subseteq Grid
  BY AssignmentIs, BlocksAre
<1>2. {d \in Grid : Lists(d, g)} = a[g][2]
  BY <1>1, ListedIs
<1>. QED  BY <1>2 DEF LastListed

\* The reroute can be carried out.
LEMMA RerouteIsLegal == DefaultInputs => RerouteLegal
BY ListsAgree DEF RerouteLegal

LEMMA LastOfBlock ==
    ASSUME NEW B \in Blocks
    PROVE  Max(B) \in B
<1>1. PICK lo \in Nat : B = lo .. lo + Cardinality(B) - 1
  BY BlocksAre
<1>2. Cardinality(B) \in Nat \ {0}
  BY BlocksAre, GridSizes, SizesAre
<1>3. PICK n \in Nat \ {0} : B = lo .. lo + n - 1
  BY <1>1, <1>2
<1>4. lo + n - 1 \in B /\ \A x \in B : lo + n - 1 >= x
  BY <1>3
<1>5. \E x \in B : \A y \in B : x >= y
  BY <1>4
<1>. QED  BY <1>5 DEF Max

----------------------------------------------------------------------------
\* A pass over the micro-batches.

IdsCount(a, m, r) == Cardinality(Members(a, m, r))
PackTokens(a, m, r) == FlattenSeq(TokenLists(IdsIn(a, m, r)))

\* The lists behind a pack.
LEMMA PackLists ==
    ASSUME DefaultInputs, NEW a \in Assignments, NEW m \in 1 .. Number(a), NEW r \in Grid
    PROVE  /\ IdsCount(a, m, r) \in Nat \ {0}
           /\ IdsIn(a, m, r) \in [1 .. IdsCount(a, m, r) -> Gids]
           /\ TokenLists(IdsIn(a, m, r)) \in [1 .. IdsCount(a, m, r) -> Seq(AllTokens)]
           /\ LensOf(TokenLists(IdsIn(a, m, r)), IdsCount(a, m, r)) = PaddedOf(IdsIn(a, m, r))
<1>1. /\ IdsCount(a, m, r) \in Nat \ {0}
      /\ IdsIn(a, m, r) \in [1 .. IdsCount(a, m, r) -> Members(a, m, r)]
  BY IdsAre DEF IdsCount
<1>2. Members(a, m, r) \subseteq Gids
  BY GroupsAre
<1>3. IdsIn(a, m, r) \in [1 .. IdsCount(a, m, r) -> Gids]
  BY <1>1, <1>2
<1>. QED  BY <1>1, <1>3, DefaultKnown, TokensOfLists

\* A packed sequence is a multiple of what the padding is a multiple of.
LEMMA PackEven ==
    ASSUME LensKnown, NEW n \in Nat \ {0}, NEW ids \in [1 .. n -> Gids],
           NEW k \in Nat \ {0}, NEW j \in Nat, PadDiv = j * k,
           NEW t, t = FlattenSeq(TokenLists(ids))
    PROVE  /\ t \in Seq(AllTokens)
           /\ \E x \in Nat \ {0} : Len(t) = k * x /\ Len(t) \div k = x
<1>. DEFINE w == PaddedOf(ids)
            c == Cumulative(w)
<1>1. /\ TokenLists(ids) \in [1 .. n -> Seq(AllTokens)]
      /\ LensOf(TokenLists(ids), n) = w
  BY TokensOfLists
<1>2. w \in [1 .. n -> Nat] /\ t \in Seq(AllTokens) /\ Len(t) = c[n]
  <2>. HIDE DEF w, c
  <2>1. /\ LensOf(TokenLists(ids), n) \in [1 .. n -> Nat]
        /\ Flattened(AllTokens, n, TokenLists(ids), Cumulative(LensOf(TokenLists(ids), n)), t)
    BY <1>1, FlattenIs
  <2>2. w \in [1 .. n -> Nat] /\ Flattened(AllTokens, n, TokenLists(ids), c, t)
    BY <1>1, <2>1 DEF c
  <2>. QED  BY <2>2 DEF Flattened
<1>3. \A i \in 1 .. n : w[i] = Padded(ids[i]) /\ ids[i] \in Gids
  BY DEF PaddedOf
<1>4. PadDiv \in Nat \ {0}
  <2>1. 1 \in 1 .. n
    OBVIOUS
  <2>. QED  BY <1>3, <2>1, PaddingIs
<1>5. PICK p \in Nat : c[n] = p * PadDiv
  <2>1. \A i \in 1 .. n : \E q \in Nat : w[i] = q * PadDiv
    <3>1. ASSUME NEW i \in 1 .. n PROVE \E q \in Nat : w[i] = q * PadDiv
      <4>1. PICK g \in Gids : g = ids[i]
        BY <1>3
      <4>2. w[i] = Padded(g)
        BY <1>3, <4>1
      <4>3. \E q \in Nat : Padded(g) = q * PadDiv
        BY PaddingIs
      <4>. QED  BY <4>2, <4>3
    <3>. QED  BY <3>1
  <2>2. n \in 0 .. n /\ n \in Nat /\ PadDiv \in Nat
    BY <1>4
  <2>. HIDE DEF w
  <2>. QED  BY <1>2, <2>1, <2>2, MultiplesCumulative
<1>6. c[n] # 0
  <2>1. \A i \in 1 .. n : w[i] > 0
    BY <1>3, PaddingIs
  <2>2. 0 \in 0 .. n /\ n \in 0 .. n /\ 0 <= n /\ 0 < n /\ n \in Nat
    OBVIOUS
  <2>. HIDE DEF w
  <2>3. c[0] < c[n] /\ c[0] = 0
    BY <1>2, <2>1, <2>2, CumulativeGrows, CumulativeIs
  <2>. QED  BY <2>3
<1>. HIDE DEF c, w
<1>7. c[n] = k * (p * j) /\ p * j \in Nat
  <2>1. PICK y \in Nat : y = p * j
    BY Products
  <2>2. p * (j * k) = (p * j) * k /\ (p * j) * k = k * (p * j)
    OBVIOUS
  <2>. QED  BY <1>5, <2>1, <2>2
<1>8. PICK x \in Nat : x = p * j
  BY <1>7
<1>9. x # 0
  <2>1. k * 0 = 0
    OBVIOUS
  <2>. QED  BY <1>6, <1>7, <1>8, <2>1
<1>10. Len(t) = k * x
  BY <1>2, <1>7, <1>8
<1>11. Len(t) \div k = x
  <2>1. PICK l \in Nat : l = k * x
    BY Products
  <2>2. 0 \in 0 .. k - 1 /\ l = x * k + 0
    BY <2>1
  <2>3. l \div k = x
    BY <2>2, EuclidUnique
  <2>. QED  BY <1>10, <2>1, <2>3
<1>. QED  BY <1>2, <1>9, <1>10, <1>11

\* The packed sequence divides among the ranks of the group.
LEMMA PackDivides ==
    ASSUME DefaultInputs, NEW a \in Assignments, NEW m \in 1 .. Number(a), NEW r \in Grid,
           NEW k, k = Cardinality(GroupIn(a, m, r))
    PROVE  /\ PackTokens(a, m, r) \in Seq(AllTokens) /\ k \in Nat \ {0}
           /\ \E x \in Nat \ {0} : /\ Len(PackTokens(a, m, r)) = k * x
                                   /\ Len(PackTokens(a, m, r)) \div k = x
<1>. DEFINE ids == IdsIn(a, m, r)
            n == IdsCount(a, m, r)
            t == PackTokens(a, m, r)
<1>1. n \in Nat \ {0} /\ ids \in [1 .. n -> Gids] /\ LensKnown
  BY PackLists, DefaultKnown
<1>2. t = FlattenSeq(TokenLists(ids))
  BY DEF PackTokens
<1>. HIDE DEF n, ids, t
<1>3. PadDiv \in Nat \ {0} /\ (Total > 1 => PadDiv = 2 * Total)
  <2>1. 1 \in 1 .. n /\ ids[1] \in Gids
    BY <1>1
  <2>. QED  BY <2>1, PaddedIs
<1>4. k \in GroupSizes /\ k \in 1 .. Total /\ Total % k = 0
  BY GroupsAre, BlocksAre, SizesAre
<1>5. k \in Nat \ {0}
  BY <1>4, GridSizes
<1>6. PICK j \in Nat : PadDiv = j * k
  <2>1. CASE Total > 1
    <3>1. Total \div k \in Nat /\ Total = (Total \div k) * k + (Total % k)
      BY <1>5, GridSizes, Euclid
    <3>2. PICK h \in Nat : Total = h * k
      <4>1. PICK h \in Nat : h = Total \div k
        BY <3>1
      <4>2. h * k \in Nat
        BY <1>5, Products
      <4>. QED  BY <1>4, <3>1, <4>1, <4>2
    <3>3. PadDiv = 2 * Total
      BY <1>3, <2>1
    <3>4. (h + h) * k = h * k + h * k /\ h + h \in Nat /\ h * k \in Nat
      BY <1>5, Products
    <3>5. PadDiv = (h + h) * k
      BY <3>2, <3>3, <3>4
    <3>. QED  BY <3>4, <3>5
  <2>2. CASE ~ (Total > 1)
    <3>1. k = 1
      BY <1>4, <2>2, GridSizes
    <3>2. PadDiv = PadDiv * 1
      BY <1>3
    <3>. QED  BY <1>3, <3>1, <3>2
  <2>. QED  BY <2>1, <2>2
<1>7. t \in Seq(AllTokens) /\ \E x \in Nat \ {0} : Len(t) = k * x /\ Len(t) \div k = x
  BY <1>1, <1>2, <1>5, <1>6, PackEven
<1>. QED  BY <1>5, <1>7 DEF t

\* The shards of the members, in rank order, are the packed sequence.
LEMMA ShardsJoin ==
    ASSUME DefaultInputs, NEW a \in Assignments, NEW m \in 1 .. Number(a), NEW r \in Grid,
           \A q \in GroupIn(a, m, r) : Packed(q) = PackTokens(a, m, r)
    PROVE  Reassembled(GroupIn(a, m, r)) = PackTokens(a, m, r)
<1>. DEFINE G == GroupIn(a, m, r)
            t == PackTokens(a, m, r)
            k == Cardinality(G)
<1>1. PICK x \in Nat \ {0} : /\ t \in Seq(AllTokens) /\ k \in Nat \ {0}
                             /\ Len(t) = k * x /\ Len(t) \div k = x
  BY PackDivides
<1>2. PICK lo \in Nat : G = lo .. lo + k - 1
  BY GroupsAre, BlocksAre
<1>3. \A q \in G : Packed(q) = t
  OBVIOUS
<1>. HIDE DEF t, k, G
<1>4. Min(G) = lo
  <2>1. lo \in G /\ G \subseteq Nat /\ \A y \in G : lo <= y
    BY <1>1, <1>2
  <2>2. Min(G) \in G /\ \A y \in G : Min(G) <= y
    BY <2>1, Least
  <2>3. Min(G) \in Nat /\ Min(G) <= lo /\ lo <= Min(G)
    BY <2>1, <2>2
  <2>. QED  BY <2>3
<1>5. ASSUME NEW i \in 1 .. k
      PROVE  Shard(G, Min(G) + i - 1) = SubSeq(t, (i - 1) * x + 1, (i - 1) * x + x)
  <2>1. PICK q \in G : q = Min(G) + i - 1 /\ q - Min(G) = i - 1
    <3>1. lo + i - 1 \in G /\ (lo + i - 1) - lo = i - 1
      BY <1>1, <1>2
    <3>. QED  BY <1>4, <3>1
  <2>2. Packed(q) = t /\ Len(t) \div Cardinality(G) = x
    BY <1>1, <1>3 DEF k
  <2>3. ShardStart(G, q, Len(t)) = (i - 1) * x
    BY <2>1, <2>2 DEF ShardStart
  <2>4. Shard(G, q) = SubSeq(t, (i - 1) * x + 1, (i - 1) * x + x)
    BY <2>2, <2>3 DEF Shard
  <2>. QED  BY <2>1, <2>4
<1>6. Reassembled(G) = FlattenSeq(Stretches(t, k, x))
  BY <1>5 DEF Reassembled, Stretches, k
<1>7. FlattenSeq(Stretches(t, k, x)) = t
  <2>1. x \in Nat \ {0} /\ k \in Nat \ {0} /\ t \in Seq(AllTokens) /\ Len(t) = k * x
    BY <1>1
  <2>. QED  BY ONLY <2>1, StretchesJoin
<1>. QED  BY <1>6, <1>7 DEF G, t

\* The log-probabilities of a sample are found at its place in the pack.
LEMMA PerSampleIs ==
    ASSUME DefaultInputs, NEW a \in Assignments, NEW m \in 1 .. Number(a), NEW r \in Grid,
           NEW size, Current(r) = PackOf(IdsIn(a, m, r), size)
    PROVE  PerSample(r, PackTokens(a, m, r)) = [g \in Members(a, m, r) |-> Logprobs(g)]
<1>. DEFINE ids == IdsIn(a, m, r)
            n == IdsCount(a, m, r)
            t == PackTokens(a, m, r)
            M == Members(a, m, r)
<1>1. /\ n \in Nat \ {0} /\ ids \in [1 .. n -> Gids]
      /\ TokenLists(ids) \in [1 .. n -> Seq(AllTokens)]
      /\ LensOf(TokenLists(ids), n) = PaddedOf(ids)
  BY PackLists
<1>2. /\ Range(ids) = M /\ M \subseteq Gids
      /\ \A g \in M : Place(ids, g) \in 1 .. n /\ ids[Place(ids, g)] = g
  BY IdsAre, GroupsAre DEF IdsCount
<1>3. /\ Current(r).ids = ids /\ Current(r).padded = PaddedOf(ids)
      /\ Current(r).lens = Widths(ids)
  BY DEF PackOf
<1>4. t = FlattenSeq(TokenLists(ids))
  BY DEF PackTokens
<1>. HIDE DEF ids, n, t, M
<1>5. ASSUME NEW g \in M
      PROVE  SubSeq(t, StartOf(r, Place(ids, g)) + 1,
                    StartOf(r, Place(ids, g)) + Current(r).lens[Place(ids, g)])
              = Logprobs(g)
  <2>1. PICK i \in 1 .. n : i = Place(ids, g) /\ ids[i] = g
    BY <1>2
  <2>2. g \in Gids
    BY <1>2
  <2>3. /\ TokenLists(ids)[i] = Tokens(g) /\ Widths(ids)[i] = seq_lens[g]
        /\ StartOf(r, i) = Cumulative(PaddedOf(ids))[i - 1]
    BY <1>1, <1>3, <2>1 DEF TokenLists, Widths, StartOf, Offset
  <2>4. seq_lens[g] \in 0 .. Len(TokenLists(ids)[i])
    BY <2>2, <2>3, DefaultKnown, TokensAre, PaddedIs
  <2>5. HasPiece(t, StartOf(r, i), seq_lens[g], Tokens(g))
    <3>1. HasPiece(FlattenSeq(TokenLists(ids)), Cumulative(LensOf(TokenLists(ids), n))[i - 1],
                   seq_lens[g], TokenLists(ids)[i])
      BY <1>1, <2>4, PieceIs
    <3>. QED  BY <1>1, <1>4, <2>3, <3>1
  <2>6. Logprobs(g) = [x \in 1 .. seq_lens[g] |-> Tokens(g)[x]]
    BY <2>2, DefaultKnown, TokensAre
  <2>. QED  BY <1>3, <2>1, <2>3, <2>5, <2>6 DEF HasPiece
<1>6. PerSample(r, t) = [g \in M |->
          SubSeq(t, StartOf(r, Place(ids, g)) + 1,
                 StartOf(r, Place(ids, g)) + Current(r).lens[Place(ids, g)])]
  BY <1>2, <1>3 DEF PerSample
<1>7. PerSample(r, t) = [g \in M |-> Logprobs(g)]
  BY <1>5, <1>6
<1>. QED  BY <1>7 DEF t, M

----------------------------------------------------------------------------
\* What the batch and the schedule determine is the same in every step that
\* keeps them.
LEMMA BatchKept ==
    ASSUME UNCHANGED batchVars
    PROVE  /\ DefaultInputs' <=> DefaultInputs
           /\ \A a, r : PlanPacks(a, r)' = PlanPacks(a, r)
           /\ \A a : GroupsOf(a)' = GroupsOf(a)
           /\ \A g : Logprobs(g)' = Logprobs(g)
           /\ \A d : GidsOf(d)' = GidsOf(d)
           /\ Gids' = Gids
<1>1. task' = task /\ offsets' = offsets /\ seq_lens' = seq_lens
  BY DEF batchVars
<1>2. Gids' = Gids /\ (DefaultInputs' <=> DefaultInputs)
  BY <1>1 DEF Gids, DefaultInputs
<1>3. \A S : LongestFirst(S)' = LongestFirst(S)
  BY <1>1 DEF LongestFirst, Listing, Longer
<1>4. \A g : Tokens(g)' = Tokens(g) /\ Padded(g)' = Padded(g) /\ Logprobs(g)' = Logprobs(g)
  BY <1>1 DEF Tokens, Padded, PadDiv, Logprobs
<1>5. \A ids : /\ TokenLists(ids)' = TokenLists(ids) /\ Widths(ids)' = Widths(ids)
               /\ PaddedOf(ids)' = PaddedOf(ids)
  BY <1>1, <1>4 DEF TokenLists, Widths, PaddedOf
<1>6. \A a, m, r : IdsIn(a, m, r)' = IdsIn(a, m, r)
  BY <1>3 DEF IdsIn
<1>7. \A a, r : PlanPacks(a, r)' = PlanPacks(a, r)
  BY <1>5, <1>6 DEF PlanPacks, PackOf
<1>8. \A a : GroupsOf(a)' = GroupsOf(a)
  BY <1>3 DEF GroupsOf
<1>9. \A d : GidsOf(d)' = GidsOf(d)
  BY <1>1 DEF GidsOf
<1>. QED  BY <1>2, <1>4, <1>7, <1>8, <1>9

----------------------------------------------------------------------------
\* The inductive invariant.

\* The samples of rank r's first n - 1 micro-batches, and their log-probabilities.
Seen(a, r, n) == {g \in DOMAIN a : a[g][1] < n /\ r \in a[g][2]}
Known(S) == [g \in S |-> Logprobs(g)]

\* The members of a group go through its micro-batch together.
InStep(a) ==
    \A m \in 1 .. Number(a), r \in Grid : \A q \in GroupIn(a, m, r) :
        (next[q] > m) <=> (next[r] > m)

Fresh ==
    /\ next = [r \in Grid |-> 1] /\ computed = [r \in Grid |-> Empty]
    /\ results = [r \in Grid |-> <<>>]
Own(r) ==
    [i \in 1 .. Cardinality(GidsOf(DpOf(r))) |-> Logprobs(offsets[DpOf(r)] + i - 1)]
Returned(p) == results = [r \in Grid |-> [i \in 1 .. p |-> Own(r)]]

ByPlan(a) ==
    /\ a \in Assignments /\ packs = [r \in Grid |-> PlanPacks(a, r)]
    /\ gid_to_compute_rank = [g \in Gids |-> Max(a[g][2])]
Progress(a) ==
    /\ next \in [Grid -> 1 .. Number(a) + 1] /\ InStep(a)
    /\ task = "logprobs" => computed = [r \in Grid |-> Known(Seen(a, r, next[r]))]
PassesDone(p) == p \in 0 .. Passes - 1 /\ Returned(p)

Planned == GridAt("reroute") /\ Fresh /\ \E a \in Assignments : sample_id_groups = GroupsOf(a)
Underway(a) == GridAt("forward") /\ ByPlan(a) /\ Progress(a) /\ \E p : PassesDone(p)
CpStages ==
    \/ GridAt("schedule") /\ Fresh
    \/ Planned
    \/ \E a : Underway(a)
    \/ GridAt("done") /\ (task = "logprobs" => Returned(Passes))
CpInv == task = "smart_padding" \/ (DefaultInputs /\ CpStages)

\* Where a rank is in the loop.
LEMMA LoopIs ==
    ASSUME DefaultInputs, NEW a, Underway(a), NEW r \in Grid
    PROVE  /\ a \in Assignments /\ Number(a) \in Nat \ {0} /\ Len(packs[r]) = Number(a)
           /\ next[r] \in 1 .. Number(a) + 1
           /\ InMbLoop(r) <=> next[r] \in 1 .. Number(a)
           /\ PastLoop(r) <=> next[r] = Number(a) + 1
<1>1. a \in Assignments /\ packs = [q \in Grid |-> PlanPacks(a, q)] /\ at[r] = "forward"
  BY DEF Underway, ByPlan, GridAt
<1>2. Number(a) \in 1 .. MaxMbs /\ MaxMbs \in Nat
  BY <1>1, AssignmentIs, DynamicCpAssumption DEF DynamicCpAssumption
<1>3. Number(a) \in Nat \ {0}
  BY <1>2
<1>4. Len(packs[r]) = Number(a)
  <2>1. packs[r] = PlanPacks(a, r)
    BY <1>1
  <2>2. \E f : PlanPacks(a, r) = [m \in 1 .. Number(a) |-> f[m]]
    <3>1. PlanPacks(a, r) = [m \in 1 .. Number(a) |-> PlanPacks(a, r)[m]]
      BY DEF PlanPacks
    <3>. QED  BY <3>1
  <2>3. PICK f : packs[r] = [m \in 1 .. Number(a) |-> f[m]]
    BY <2>1, <2>2
  <2>. QED  BY <1>3, <2>3
<1>5. next[r] \in 1 .. Number(a) + 1
  BY DEF Underway, Progress
<1>. QED  BY <1>1, <1>3, <1>4, <1>5 DEF InMbLoop, PastLoop

\* A rank's micro-batch, its group and its tokens are those of the plan.
LEMMA CurrentIs ==
    ASSUME DefaultInputs, NEW a, Underway(a), NEW r \in Grid,
           NEW m \in 1 .. Number(a), next[r] = m
    PROVE  /\ Current(r) = PackOf(IdsIn(a, m, r), Cardinality(GroupIn(a, m, r)))
           /\ CpGroup(r) = GroupIn(a, m, r) /\ Packed(r) = PackTokens(a, m, r)
<1>1. a \in Assignments /\ packs = [q \in Grid |-> PlanPacks(a, q)]
  BY DEF Underway, ByPlan
<1>2. Current(r) = PackOf(IdsIn(a, m, r), Cardinality(GroupIn(a, m, r)))
  <2>1. packs[r] = PlanPacks(a, r)
    BY <1>1
  <2>. QED  BY <2>1 DEF Current, PlanPacks
<1>3. Current(r).local_cp_size = Cardinality(GroupIn(a, m, r))
  BY <1>2 DEF PackOf
<1>4. GroupIn(a, m, r) \in Blocks /\ r \in GroupIn(a, m, r)
  BY <1>1, GroupsAre
<1>5. CpGroup(r) = GroupIn(a, m, r)
  BY <1>3, <1>4, BlocksAre DEF CpGroup
<1>6. Packed(r) = PackTokens(a, m, r)
  BY <1>2 DEF Packed, PackOf, PackTokens
<1>. QED  BY <1>2, <1>5, <1>6

\* A group that meets is the plan's, and all of it is at the leader's micro-batch.
AtTheirs(a, m, r) ==
    /\ m \in 1 .. Number(a) /\ next[r] = m /\ CpGroup(r) = GroupIn(a, m, r)
    /\ \A q \in GroupIn(a, m, r) : q \in Grid /\ next[q] = m

LEMMA LeadsIs ==
    ASSUME DefaultInputs, NEW a, Underway(a), NEW r \in Grid, Leads(r)
    PROVE  \E m : AtTheirs(a, m, r)
<1>1. PICK m \in 1 .. Number(a) : next[r] = m
  BY LoopIs DEF Leads
<1>2. a \in Assignments /\ InStep(a)
  BY DEF Underway, ByPlan, Progress
<1>. DEFINE G == GroupIn(a, m, r)
<1>3. CpGroup(r) = G /\ r \in G
  BY <1>1, <1>2, CurrentIs, GroupsAre
<1>4. \A q \in G : InMbLoop(q) /\ CpGroup(q) = G
  BY <1>3 DEF Leads, Meets
<1>5. ASSUME NEW q \in G PROVE q \in Grid /\ next[q] = m
  <2>1. q \in Grid
    BY <1>2, GroupShares
  <2>2. PICK x \in 1 .. Number(a) : next[q] = x
    BY <1>4, <2>1, LoopIs
  <2>3. GroupIn(a, x, q) = G
    BY <1>4, <2>1, <2>2, CurrentIs
  <2>4. ~ (next[q] > m)
    <3>1. (next[q] > m) <=> (next[r] > m)
      BY <1>2 DEF InStep
    <3>. QED  BY <1>1, <3>1
  <2>5. ~ (next[r] > x)
    <3>1. (next[r] > x) <=> (next[q] > x)
      BY <1>2, <1>3, <2>1, <2>3 DEF InStep
    <3>. QED  BY <2>2, <3>1
  <2>. QED  BY <1>1, <2>1, <2>2, <2>4, <2>5
<1>. QED  BY <1>1, <1>3, <1>5 DEF AtTheirs

\* Its step keeps the members of all groups together.
LEMMA GroupSteps ==
    ASSUME DefaultInputs, NEW a, Underway(a), NEW r \in Grid, NEW m, AtTheirs(a, m, r),
           Advance(CpGroup(r))
    PROVE  next' \in [Grid -> 1 .. Number(a) + 1] /\ InStep(a)'
<1>. DEFINE G == GroupIn(a, m, r)
<1>1. /\ a \in Assignments /\ InStep(a) /\ Number(a) \in Nat
      /\ next \in [Grid -> 1 .. Number(a) + 1]
  BY LoopIs DEF Underway, Progress
<1>2. /\ m \in 1 .. Number(a) /\ \A q \in G : q \in Grid /\ next[q] = m
      /\ next' = [q \in Grid |-> IF q \in G THEN next[q] + 1 ELSE next[q]]
  BY DEF AtTheirs, Advance
<1>. HIDE DEF G
<1>3. \A q \in Grid : /\ next[q] \in 1 .. Number(a) + 1
                      /\ next'[q] = IF q \in G THEN m + 1 ELSE next[q]
  BY <1>1, <1>2
<1>4. next' \in [Grid -> 1 .. Number(a) + 1]
  <2>1. \A q \in Grid : next'[q] \in 1 .. Number(a) + 1
    BY <1>1, <1>2, <1>3
  <2>. QED  BY <1>2, <2>1
<1>5. ASSUME NEW x \in 1 .. Number(a), NEW s \in Grid, NEW q \in GroupIn(a, x, s)
      PROVE  (next'[q] > x) <=> (next'[s] > x)
  <2>1. q \in Grid /\ GroupIn(a, x, q) = GroupIn(a, x, s) /\ s \in GroupIn(a, x, s)
    BY <1>1, GroupShares, GroupsAre
  <2>2. (next[q] > x) <=> (next[s] > x)
    BY <1>1 DEF InStep
  <2>3. CASE x # m
    <3>1. \A y \in Grid : (next'[y] > x) <=> (next[y] > x)
      <4>. SUFFICES ASSUME NEW y \in Grid PROVE (next'[y] > x) <=> (next[y] > x)
        OBVIOUS
      <4>1. CASE y \in G
        <5>1. next[y] = m /\ next'[y] = m + 1 /\ m \in Nat /\ x \in Nat
          BY <1>1, <1>2, <1>3, <4>1
        <5>. QED  BY <2>3, <5>1
      <4>2. CASE y \notin G
        BY <1>3, <4>2
      <4>. QED  BY <4>1, <4>2
    <3>. QED  BY <2>1, <2>2, <3>1
  <2>4. CASE x = m
    <3>1. q \in G <=> s \in G
      <4>1. \A y \in G : GroupIn(a, m, y) = G
        BY <1>1, <1>2, GroupShares DEF G
      <4>. QED  BY <2>1, <2>4, <4>1
    <3>2. CASE q \in G
      <4>1. next'[q] = m + 1 /\ next'[s] = m + 1
        BY <1>3, <2>1, <3>1, <3>2
      <4>. QED  BY <4>1
    <3>3. CASE q \notin G
      <4>1. next'[q] = next[q] /\ next'[s] = next[s]
        BY <1>3, <2>1, <3>1, <3>3
      <4>. QED  BY <2>2, <4>1
    <3>. QED  BY <3>2, <3>3
  <2>. QED  BY <2>3, <2>4
<1>. QED  BY <1>4, <1>5 DEF InStep

\* A rank's micro-batch adds its samples to those it has seen.
LEMMA SeenGrows ==
    ASSUME DefaultInputs, NEW a \in Assignments, NEW m \in 1 .. Number(a), NEW r \in Grid
    PROVE  Seen(a, r, m + 1) = Seen(a, r, m) \cup Members(a, m, r)
<1>1. \A g \in DOMAIN a : a[g][1] \in Int
  <2>1. \A g \in Gids : a[g][1] \in 1 .. Number(a)
    BY AssignmentIs
  <2>. QED  BY <2>1, AssignmentIs
<1>2. \A g \in DOMAIN a : a[g][1] < m + 1 <=> (a[g][1] < m \/ a[g][1] = m)
  BY <1>1
<1>. QED  BY <1>2 DEF Seen, Members

LEMMA KnownGrows ==
    ASSUME NEW S, NEW T
    PROVE  Updated(Known(S), Known(T)) = Known(S \cup T)
BY DEF Updated, Known

\* The group's log-probabilities are those of its samples.
LEMMA GroupComputes ==
    ASSUME DefaultInputs, NEW a, Underway(a), NEW r \in Grid, NEW m, AtTheirs(a, m, r),
           NEW q \in GroupIn(a, m, r)
    PROVE  PerSample(q, Reassembled(CpGroup(r))) = Known(Members(a, m, q))
<1>. DEFINE G == GroupIn(a, m, r)
<1>1. /\ a \in Assignments /\ m \in 1 .. Number(a) /\ CpGroup(r) = G
      /\ \A x \in G : x \in Grid /\ next[x] = m
  BY LoopIs DEF AtTheirs
<1>2. \A x \in G : Members(a, m, x) = Members(a, m, r)
  BY <1>1, GroupShares
<1>3. \A x \in G : Packed(x) = PackTokens(a, m, r)
  <2>. SUFFICES ASSUME NEW x \in G PROVE Packed(x) = PackTokens(a, m, r)
    OBVIOUS
  <2>1. Packed(x) = PackTokens(a, m, x)
    BY <1>1, CurrentIs
  <2>2. PackTokens(a, m, x) = PackTokens(a, m, r)
    BY <1>2 DEF PackTokens, IdsIn
  <2>. QED  BY <2>1, <2>2
<1>4. Reassembled(G) = PackTokens(a, m, r)
  BY <1>1, <1>3, ShardsJoin
<1>5. PackTokens(a, m, r) = PackTokens(a, m, q)
  BY <1>2 DEF PackTokens, IdsIn
<1>6. PerSample(q, PackTokens(a, m, q)) = Known(Members(a, m, q))
  <2>1. Current(q) = PackOf(IdsIn(a, m, q), Cardinality(GroupIn(a, m, q)))
    BY <1>1, CurrentIs
  <2>. QED  BY <1>1, <2>1, PerSampleIs DEF Known
<1>. QED  BY <1>1, <1>4, <1>5, <1>6

\* What a step of the loop leaves alone.
LEMMA LoopKeeps ==
    ASSUME NEW a, Underway(a), UNCHANGED <<batchVars, at, planVars, packs, results>>, Progress(a)'
    PROVE  Underway(a)'
<1>1. GridAt("forward")'
  BY DEF Underway, GridAt
<1>2. ByPlan(a)'
  <2>1. /\ packs' = packs /\ gid_to_compute_rank' = gid_to_compute_rank
        /\ Gids' = Gids /\ \A x, r : PlanPacks(x, r)' = PlanPacks(x, r)
    BY BatchKept DEF planVars
  <2>. QED  BY <2>1 DEF Underway, ByPlan
<1>3. \E p : PassesDone(p)'
  <2>1. \A r : Own(r)' = Own(r)
    <3>1. /\ \A g : Logprobs(g)' = Logprobs(g)
          /\ \A d : GidsOf(d)' = GidsOf(d)
      BY BatchKept
    <3>2. offsets' = offsets
      BY DEF batchVars
    <3>. QED  BY <3>1, <3>2 DEF Own
  <2>. QED  BY <2>1 DEF Underway, PassesDone, Returned
<1>. QED  BY <1>1, <1>2, <1>3 DEF Underway

LEMMA ComputeKeeps ==
    ASSUME DefaultInputs, NEW a, Underway(a), NEW r \in Grid, ComputeLogprobs(r)
    PROVE  Underway(a)'
<1>1. PICK m : AtTheirs(a, m, r)
  BY LeadsIs DEF ComputeLogprobs
<1>. DEFINE G == GroupIn(a, m, r)
<1>2. /\ a \in Assignments /\ m \in 1 .. Number(a) /\ CpGroup(r) = G
      /\ \A x \in G : x \in Grid /\ next[x] = m
  BY LoopIs, <1>1 DEF AtTheirs
<1>3. next' \in [Grid -> 1 .. Number(a) + 1] /\ InStep(a)'
  BY <1>1, GroupSteps DEF ComputeLogprobs
<1>4. task' = "logprobs" /\ \A g : Logprobs(g)' = Logprobs(g)
  BY BatchKept DEF ComputeLogprobs, batchVars
<1>5. computed = [q \in Grid |-> Known(Seen(a, q, next[q]))]
  BY DEF Underway, Progress, ComputeLogprobs
<1>6. next' = [q \in Grid |-> IF q \in G THEN next[q] + 1 ELSE next[q]]
  BY <1>2 DEF ComputeLogprobs, Advance
<1>7. computed' = [q \in Grid |->
          IF q \in G THEN Updated(computed[q], PerSample(q, Reassembled(G))) ELSE computed[q]]
  BY <1>2 DEF ComputeLogprobs
<1>8. \A q \in G : PerSample(q, Reassembled(G)) = Known(Members(a, m, q))
  BY <1>1, <1>2, GroupComputes
<1>9. ASSUME NEW q \in Grid PROVE computed'[q] = Known(Seen(a, q, next'[q]))
  <2>1. CASE q \in G
    <3>1. computed'[q] = Updated(Known(Seen(a, q, m)), Known(Members(a, m, q)))
      BY <1>2, <1>5, <1>7, <1>8, <2>1
    <3>2. Seen(a, q, m + 1) = Seen(a, q, m) \cup Members(a, m, q)
      BY <1>2, SeenGrows
    <3>3. next'[q] = m + 1
      BY <1>2, <1>6, <2>1
    <3>. QED  BY <3>1, <3>2, <3>3, KnownGrows
  <2>2. CASE q \notin G
    BY <1>5, <1>6, <1>7, <2>2
  <2>. QED  BY <2>1, <2>2
<1>10. computed' = [q \in Grid |-> Known(Seen(a, q, next'[q]))]
  BY <1>7, <1>9
<1>11. Progress(a)'
  <2>1. \A S : Known(S)' = Known(S)
    BY <1>4 DEF Known
  <2>. QED  BY <1>3, <1>10, <2>1 DEF Progress
<1>. QED  BY <1>11, LoopKeeps DEF ComputeLogprobs

LEMMA TrainKeeps ==
    ASSUME DefaultInputs, NEW a, Underway(a), NEW r \in Grid, TrainMicroBatch(r)
    PROVE  Underway(a)'
<1>1. PICK m : AtTheirs(a, m, r)
  BY LeadsIs DEF TrainMicroBatch
<1>2. next' \in [Grid -> 1 .. Number(a) + 1] /\ InStep(a)'
  BY <1>1, GroupSteps DEF TrainMicroBatch
<1>3. task' # "logprobs"
  BY DEF TrainMicroBatch, batchVars
<1>4. Progress(a)'
  BY <1>2, <1>3 DEF Progress
<1>. QED  BY <1>4, LoopKeeps DEF TrainMicroBatch

----------------------------------------------------------------------------
\* The way back.

AllPast == \A r \in Grid : PastLoop(r)
Comes(a, s, d) == {g \in GidsOf(DpOf(d)) : Max(a[g][2]) = s /\ s # d}
AtReturn(a) == Underway(a) /\ AllPast /\ task = "logprobs"

\* Behind the loop every rank has the log-probabilities of its groups' samples.
LEMMA AllComputed ==
    ASSUME DefaultInputs, NEW a, AtReturn(a), NEW r \in Grid
    PROVE  /\ DOMAIN computed[r] = {g \in Gids : r \in a[g][2]}
           /\ \A g \in DOMAIN computed[r] : computed[r][g] = Logprobs(g)
           /\ \A g \in Gids : ComputeRank(g) = Max(a[g][2]) /\ Max(a[g][2]) \in a[g][2]
<1>1. /\ a \in Assignments /\ next[r] = Number(a) + 1 /\ Number(a) \in Nat
      /\ computed[r] = Known(Seen(a, r, next[r]))
  BY LoopIs DEF AtReturn, AllPast, Underway, Progress
<1>2. Seen(a, r, Number(a) + 1) = {g \in Gids : r \in a[g][2]}
  <2>1. \A g \in Gids : a[g][1] \in 1 .. Number(a)
    BY <1>1, AssignmentIs
  <2>2. \A g \in Gids : a[g][1] < Number(a) + 1
    BY <1>1, <2>1
  <2>. QED  BY <1>1, <2>2, AssignmentIs DEF Seen
<1>3. \A g \in Gids : ComputeRank(g) = Max(a[g][2])
  BY DEF AtReturn, Underway, ByPlan, ComputeRank
<1>4. \A g \in Gids : Max(a[g][2]) \in a[g][2]
  BY <1>1, AssignmentIs, LastOfBlock
<1>. QED  BY <1>1, <1>2, <1>3, <1>4 DEF Known

\* A sample is sent to all ranks of the dp index it came from.
LEMMA OriginsAre ==
    ASSUME DefaultInputs, NEW r \in Grid, NEW d \in Grid, NEW g \in Gids
    PROVE  (d \in OrigRanks(r, g)) <=> (g \in GidsOf(DpOf(d)))
<1>1. PICK e \in Dps : g \in GidsOf(e)
  BY OwnersAre
<1>2. DpOf(SrcRank(r, g)) = e
  BY <1>1, SourceIs
<1>3. OrigRanks(r, g) = {RankAt(e, c) : c \in 0 .. Cp - 1}
  BY <1>2 DEF OrigRanks, Siblings
<1>4. (g \in GidsOf(DpOf(d))) <=> DpOf(d) = e
  BY <1>1, OwnersAre, GridPlaces
<1>5. ASSUME DpOf(d) = e PROVE d \in OrigRanks(r, g)
  BY <1>3, <1>5, GridPlaces
<1>6. ASSUME d \in OrigRanks(r, g) PROVE DpOf(d) = e
  BY <1>1, <1>3, <1>6, GridPlaces
<1>. QED  BY <1>4, <1>5, <1>6

LEMMA KeptAre ==
    ASSUME DefaultInputs, NEW a, AtReturn(a), NEW r \in Grid
    PROVE  Kept(r) = {g \in GidsOf(DpOf(r)) : Max(a[g][2]) = r}
<1>1. GidsOf(DpOf(r)) \subseteq Gids
  BY OwnersAre, GridPlaces
<1>2. ASSUME NEW g \in Kept(r) PROVE g \in GidsOf(DpOf(r)) /\ Max(a[g][2]) = r
  <2>1. g \in Gids /\ ComputeRank(g) = r /\ r \in OrigRanks(r, g)
    BY AllComputed DEF Kept, Sends
  <2>. QED  BY <2>1, OriginsAre, AllComputed
<1>3. ASSUME NEW g \in GidsOf(DpOf(r)), Max(a[g][2]) = r PROVE g \in Kept(r)
  <2>1. g \in Gids /\ ComputeRank(g) = r /\ r \in a[g][2]
    BY <1>1, <1>3, AllComputed
  <2>2. g \in DOMAIN computed[r]
    BY <2>1, AllComputed
  <2>3. r \in OrigRanks(r, g)
    BY <2>1, OriginsAre
  <2>. QED  BY <2>1, <2>2, <2>3 DEF Kept, Sends
<1>. QED  BY <1>2, <1>3

\* Both ends of the return have the same list.
LEMMA ReturnsAgree ==
    ASSUME DefaultInputs, NEW a, AtReturn(a), NEW s \in Grid, NEW d \in Grid
    PROVE  /\ ToReturn(s, d) = Listing(Comes(a, s, d), <)
           /\ ToGetBack(d, s) = Listing(Comes(a, s, d), <)
<1>1. GidsOf(DpOf(d)) \subseteq Gids
  BY OwnersAre, GridPlaces
<1>2. {g \in DOMAIN computed[s] : Sends(s, g) /\ d \in OrigRanks(s, g) \ {s}} = Comes(a, s, d)
  <2>1. ASSUME NEW g \in DOMAIN computed[s], Sends(s, g), d \in OrigRanks(s, g) \ {s}
        PROVE  g \in Comes(a, s, d)
    <3>1. g \in Gids /\ ComputeRank(g) = s /\ s # d
      BY <2>1, AllComputed DEF Sends
    <3>2. g \in GidsOf(DpOf(d)) /\ Max(a[g][2]) = s
      BY <2>1, <3>1, AllComputed, OriginsAre
    <3>. QED  BY <3>1, <3>2 DEF Comes
  <2>2. ASSUME NEW g \in Comes(a, s, d)
        PROVE  g \in DOMAIN computed[s] /\ Sends(s, g) /\ d \in OrigRanks(s, g) \ {s}
    <3>1. g \in Gids /\ g \in GidsOf(DpOf(d)) /\ Max(a[g][2]) = s /\ s # d
      BY <1>1 DEF Comes
    <3>2. ComputeRank(g) = s /\ s \in a[g][2]
      BY <3>1, AllComputed
    <3>3. g \in DOMAIN computed[s]
      BY <3>1, <3>2, AllComputed
    <3>4. d \in OrigRanks(s, g)
      BY <3>1, OriginsAre
    <3>. QED  BY <3>1, <3>2, <3>3, <3>4 DEF Sends
  <2>. QED  BY <2>1, <2>2
<1>3. {g \in GidsOf(DpOf(d)) \ Kept(d) : ComputeRank(g) = s} = Comes(a, s, d)
  <2>1. \A g \in GidsOf(DpOf(d)) : ComputeRank(g) = Max(a[g][2])
    BY <1>1, AllComputed
  <2>2. \A g \in GidsOf(DpOf(d)) : g \in Kept(d) <=> Max(a[g][2]) = d
    BY KeptAre
  <2>. QED  BY <2>1, <2>2 DEF Comes
<1>. QED  BY <1>2, <1>3 DEF ToReturn, ToGetBack

\* What is on the list, and what is sent.
LEMMA ReturnIs ==
    ASSUME DefaultInputs, NEW a, AtReturn(a), NEW s \in Grid, NEW d \in Grid,
           NEW L, L = Listing(Comes(a, s, d), <), NEW n, n = Cardinality(Comes(a, s, d))
    PROVE  /\ n \in Nat /\ L \in [1 .. n -> Gids]
           /\ ListOf(Comes(a, s, d), L) /\ SentLogprobs(s, d) = FlattenSeq(LogprobLists(L))
<1>1. Comes(a, s, d) \in SUBSET Gids
  BY OwnersAre, GridPlaces DEF Comes
<1>2. ListOf(Comes(a, s, d), L)
  BY <1>1, SamplesListed
<1>3. n \in Nat /\ L \in [1 .. n -> Comes(a, s, d)]
  BY <1>2 DEF ListOf
<1>4. L \in [1 .. n -> Gids]
  BY <1>1, <1>3
<1>5. \A i \in 1 .. n : computed[s][L[i]] = Logprobs(L[i])
  <2>. SUFFICES ASSUME NEW i \in 1 .. n PROVE computed[s][L[i]] = Logprobs(L[i])
    OBVIOUS
  <2>1. L[i] \in Comes(a, s, d) /\ L[i] \in Gids
    BY <1>3, <1>4
  <2>2. s \in a[L[i]][2]
    BY <2>1, AllComputed DEF Comes
  <2>3. L[i] \in DOMAIN computed[s]
    <3>1. DOMAIN computed[s] = {g \in Gids : s \in a[g][2]}
      BY AllComputed
    <3>. QED  BY <2>1, <2>2, <3>1
  <2>. QED  BY <2>3, AllComputed
<1>6. DOMAIN L = 1 .. n
  BY <1>4
<1>7. [i \in DOMAIN L |-> computed[s][L[i]]] = LogprobLists(L)
  BY <1>5, <1>6 DEF LogprobLists
<1>8. ToReturn(s, d) = L
  BY ReturnsAgree
<1>. QED  BY <1>2, <1>3, <1>4, <1>7, <1>8 DEF ListOf, SentLogprobs

\* Every pair agrees on its split size.
LEMMA ReturnIsLegal ==
    ASSUME DefaultInputs, NEW a, AtReturn(a)
    PROVE  ReverseLegal
<1>. SUFFICES ASSUME NEW s \in Grid, NEW d \in Grid
              PROVE  Len(SentLogprobs(s, d)) = WholeOf(Widths(ToGetBack(d, s)))
  BY DEF ReverseLegal
<1>1. PICK L, n : L = Listing(Comes(a, s, d), <) /\ n = Cardinality(Comes(a, s, d))
  OBVIOUS
<1>2. n \in Nat /\ L \in [1 .. n -> Gids] /\ SentLogprobs(s, d) = FlattenSeq(LogprobLists(L))
  BY <1>1, ReturnIs
<1>3. ToGetBack(d, s) = L
  BY <1>1, ReturnsAgree
<1>4. /\ LogprobLists(L) \in [1 .. n -> Seq(AllTokens)]
      /\ LensOf(LogprobLists(L), n) = Widths(L)
  BY <1>2, DefaultKnown, TokensOfLists
<1>5. /\ Widths(L) \in [1 .. n -> Nat]
      /\ Flattened(AllTokens, n, LogprobLists(L), Cumulative(Widths(L)), SentLogprobs(s, d))
  BY <1>2, <1>4, FlattenIs
<1>6. Len(SentLogprobs(s, d)) = Cumulative(Widths(L))[n]
  BY <1>5 DEF Flattened
<1>7. Len(Widths(L)) = n
  BY <1>2, <1>5, CumulativeIs
<1>. QED  BY <1>3, <1>6, <1>7 DEF WholeOf

\* So every rank gets back what was computed from its samples.
LEMMA ComesBack ==
    ASSUME DefaultInputs, NEW a, AtReturn(a), NEW r \in Grid, NEW g \in GidsOf(DpOf(r))
    PROVE  BroughtBack(r, g) = Logprobs(g)
<1>1. g \in Gids
  BY OwnersAre, GridPlaces
<1>2. CASE g \in Kept(r)
  <2>1. g \in DOMAIN computed[r]
    BY <1>2 DEF Kept
  <2>2. computed[r][g] = Logprobs(g)
    BY <2>1, AllComputed
  <2>. QED  BY <1>2, <2>2 DEF BroughtBack
<1>3. CASE g \notin Kept(r)
  <2>1. PICK s \in Grid : s = ComputeRank(g) /\ s = Max(a[g][2])
    <3>1. ComputeRank(g) = Max(a[g][2]) /\ Max(a[g][2]) \in a[g][2]
      BY <1>1, AllComputed
    <3>2. a[g][2] \subseteq Grid
      BY <1>1, LoopIs, AssignmentIs, BlocksAre DEF AtReturn
    <3>. QED  BY <3>1, <3>2
  <2>2. g \in Comes(a, s, r)
    BY <1>3, <2>1, KeptAre DEF Comes
  <2>3. PICK L, n : L = Listing(Comes(a, s, r), <) /\ n = Cardinality(Comes(a, s, r))
    OBVIOUS
  <2>4. /\ n \in Nat /\ L \in [1 .. n -> Gids] /\ ListOf(Comes(a, s, r), L)
        /\ SentLogprobs(s, r) = FlattenSeq(LogprobLists(L))
    BY <2>3, ReturnIs
  <2>5. PICK j \in 1 .. n : j = Place(L, g) /\ L[j] = g
    BY <2>2, <2>3, <2>4 DEF ListOf
  <2>6. ToGetBack(r, s) = L
    BY <2>3, ReturnsAgree
  <2>7. /\ LogprobLists(L) \in [1 .. n -> Seq(AllTokens)]
        /\ LensOf(LogprobLists(L), n) = Widths(L)
    BY <2>4, DefaultKnown, TokensOfLists
  <2>8. Cut(FlattenSeq(LogprobLists(L)), Widths(L), j) = LogprobLists(L)[j]
    BY <2>4, <2>7, CutIs
  <2>9. LogprobLists(L)[j] = Logprobs(g)
    BY <2>4, <2>5 DEF LogprobLists
  <2>10. BroughtBack(r, g) = Cut(SentLogprobs(s, r), Widths(ToGetBack(r, s)), Place(ToGetBack(r, s), g))
    BY <1>3, <2>1 DEF BroughtBack
  <2>. QED  BY <2>4, <2>5, <2>6, <2>8, <2>9, <2>10
<1>. QED  BY <1>2, <1>3

\* Its own samples, in its own order.
LEMMA OwnReturns ==
    ASSUME DefaultInputs, NEW a, AtReturn(a), NEW r \in Grid
    PROVE  [i \in 1 .. Cardinality(GidsOf(DpOf(r))) |-> BroughtBack(r, offsets[DpOf(r)] + i - 1)]
            = Own(r)
<1>. DEFINE d == DpOf(r)
<1>1. d \in Dps /\ offsets[d] \in Nat /\ offsets[d + 1] \in Nat
  BY OwnersAre, GridPlaces
<1>2. GidsOf(d) = offsets[d] .. offsets[d + 1] - 1
  BY DEF GidsOf
<1>3. \A i \in 1 .. Cardinality(GidsOf(d)) : offsets[d] + i - 1 \in GidsOf(d)
  <2>. DEFINE lo == offsets[d]
              hi == offsets[d + 1] - 1
  <2>1. lo \in Int /\ hi \in Int /\ GidsOf(d) = lo .. hi
    BY <1>1, <1>2
  <2>. HIDE DEF lo, hi
  <2>2. Cardinality(lo .. hi) = IF lo <= hi THEN hi - lo + 1 ELSE 0
    BY <2>1, FS_Interval
  <2>3. \A i \in 1 .. Cardinality(GidsOf(d)) : lo + i - 1 \in lo .. hi
    BY <2>1, <2>2
  <2>. QED  BY <2>1, <2>3 DEF lo
<1>4. \A g \in GidsOf(d) : BroughtBack(r, g) = Logprobs(g)
  BY ComesBack
<1>5. \A i \in 1 .. Cardinality(GidsOf(d)) :
          BroughtBack(r, offsets[d] + i - 1) = Logprobs(offsets[d] + i - 1)
  BY <1>3, <1>4
<1>. QED  BY <1>5 DEF Own

\* A schedule's start of a pass.
LEMMA PassStarts ==
    ASSUME DefaultInputs, NEW a \in Assignments, next' = [r \in Grid |-> 1],
           computed' = [r \in Grid |-> Empty]
    PROVE  Progress(a)'
<1>1. Number(a) \in Nat \ {0}
  <2>1. Number(a) \in 1 .. MaxMbs /\ MaxMbs \in Nat
    BY AssignmentIs, DynamicCpAssumption DEF DynamicCpAssumption
  <2>. QED  BY <2>1
<1>2. next' \in [Grid -> 1 .. Number(a) + 1]
  BY <1>1
<1>3. InStep(a)'
  <2>1. \A m \in 1 .. Number(a), r \in Grid : \A q \in GroupIn(a, m, r) : q \in Grid
    BY GroupShares
  <2>. QED  BY <2>1 DEF InStep
<1>4. computed' = [r \in Grid |-> Known(Seen(a, r, next[r]))']
  <2>1. \A g \in DOMAIN a : ~ (a[g][1] < 1)
    <3>1. \A g \in Gids : a[g][1] \in 1 .. Number(a)
      BY AssignmentIs
    <3>. QED  BY <1>1, <3>1, AssignmentIs
  <2>2. \A r \in Grid : Seen(a, r, 1) = {}
    BY <2>1 DEF Seen
  <2>3. Known({})' = Empty
    BY DEF Known, Empty
  <2>4. \A r \in Grid : next'[r] = 1
    OBVIOUS
  <2>5. \A r \in Grid : Known(Seen(a, r, next[r]))' = Empty
    BY <2>2, <2>3, <2>4
  <2>. QED  BY <2>5
<1>. QED  BY <1>2, <1>3, <1>4 DEF Progress

LEMMA PlanKept ==
    ASSUME NEW a, Underway(a), UNCHANGED <<batchVars, planVars, packs>>
    PROVE  ByPlan(a)'
<1>1. /\ packs' = packs /\ gid_to_compute_rank' = gid_to_compute_rank
      /\ Gids' = Gids /\ \A x, r : PlanPacks(x, r)' = PlanPacks(x, r)
  BY BatchKept DEF planVars
<1>. QED  BY <1>1 DEF Underway, ByPlan

LEMMA OwnKept ==
    ASSUME UNCHANGED batchVars
    PROVE  \A r : Own(r)' = Own(r)
<1>1. /\ \A g : Logprobs(g)' = Logprobs(g)
      /\ \A d : GidsOf(d)' = GidsOf(d)
  BY BatchKept
<1>2. offsets' = offsets
  BY DEF batchVars
<1>. QED  BY <1>1, <1>2 DEF Own

\* The exchange that ends a pass.
LEMMA ReturnKeeps ==
    ASSUME DefaultInputs, NEW a, Underway(a), ReturnLogprobs
    PROVE  CpStages'
<1>1. AtReturn(a) /\ a \in Assignments
  BY DEF AtReturn, AllPast, ReturnLogprobs, Underway, ByPlan
<1>2. PICK p \in 0 .. Passes - 1 : results = [r \in Grid |-> [i \in 1 .. p |-> Own(r)]]
  BY DEF Underway, PassesDone, Returned
<1>3. results' = [r \in Grid |-> [i \in 1 .. p + 1 |-> Own(r)]]
  <2>1. results' = [r \in Grid |-> Append(results[r], Own(r))]
    BY <1>1, OwnReturns DEF ReturnLogprobs
  <2>2. ASSUME NEW r \in Grid PROVE Append(results[r], Own(r)) = [i \in 1 .. p + 1 |-> Own(r)]
    <3>1. PICK x : x = Own(r)
      OBVIOUS
    <3>2. results[r] = [i \in 1 .. p |-> x]
      BY <1>2, <3>1
    <3>3. Append([i \in 1 .. p |-> x], x) = [i \in 1 .. p + 1 |-> x]
      OBVIOUS
    <3>. QED  BY <3>1, <3>2, <3>3
  <2>. QED  BY <2>1, <2>2
<1>4. Returned(p + 1)'
  BY <1>3, OwnKept DEF Returned, ReturnLogprobs
<1>5. Len(results[0]) = p
  <2>1. 0 \in Grid
    BY GridSizes DEF Grid
  <2>2. PICK x : results[0] = [i \in 1 .. p |-> x]
    BY <1>2, <2>1
  <2>. QED  BY <2>2
<1>6. Passes \in Nat
  BY DynamicCpAssumption DEF DynamicCpAssumption
<1>7. CASE p + 1 < Passes
  <2>1. next' = [r \in Grid |-> 1] /\ at' = at /\ computed' = [r \in Grid |-> Empty]
    BY <1>5, <1>7 DEF ReturnLogprobs
  <2>3. Progress(a)'
    BY <1>1, <2>1, PassStarts
  <2>4. ByPlan(a)'
    BY PlanKept DEF ReturnLogprobs
  <2>5. GridAt("forward")'
    BY <2>1 DEF Underway, GridAt
  <2>6. PassesDone(p + 1)'
    BY <1>4, <1>6, <1>7 DEF PassesDone
  <2>7. Underway(a)'
    BY <2>3, <2>4, <2>5, <2>6 DEF Underway
  <2>. QED  BY <2>7 DEF CpStages
<1>8. CASE ~ (p + 1 < Passes)
  <2>1. p + 1 = Passes /\ GridGoto("done")
    BY <1>5, <1>6, <1>8 DEF ReturnLogprobs
  <2>2. GridAt("done")'
    BY <2>1 DEF GridGoto, GridAt
  <2>. QED  BY <1>4, <2>1, <2>2 DEF CpStages
<1>. QED  BY <1>7, <1>8

LEMMA RerouteKeeps ==
    ASSUME DefaultInputs, Planned, Reroute
    PROVE  CpStages'
<1>1. PICK a \in Assignments : sample_id_groups = GroupsOf(a)
  BY DEF Planned
<1>2. /\ Gids' = Gids /\ \A x, r : PlanPacks(x, r)' = PlanPacks(x, r) /\ DefaultInputs'
  BY BatchKept DEF Reroute
<1>3. packs' = [r \in Grid |-> PlanPacks(a, r)]
  BY <1>1, PacksMade DEF Reroute
<1>4. gid_to_compute_rank' = [g \in Gids |-> Max(a[g][2])]
  BY <1>1, ComputesIs DEF Reroute
<1>5. ByPlan(a)'
  BY <1>2, <1>3, <1>4 DEF ByPlan
<1>6. Progress(a)'
  <2>1. next' = [r \in Grid |-> 1] /\ computed' = [r \in Grid |-> Empty]
    BY DEF Planned, Fresh, Reroute
  <2>. QED  BY <2>1, PassStarts
<1>7. PassesDone(0)'
  <2>1. results' = [r \in Grid |-> <<>>] /\ 0 \in 0 .. Passes - 1
    BY DynamicCpAssumption DEF DynamicCpAssumption, Planned, Fresh, Reroute
  <2>2. \A x : [i \in 1 .. 0 |-> x] = <<>>
    OBVIOUS
  <2>3. \A r : [i \in 1 .. 0 |-> Own(r)] = <<>>
    BY <2>2
  <2>. QED  BY <2>1, <2>3, OwnKept DEF PassesDone, Returned, Reroute
<1>8. GridAt("forward")'
  BY DEF Reroute, GridGoto, GridAt
<1>9. Underway(a)'
  BY <1>5, <1>6, <1>7, <1>8 DEF Underway
<1>. QED  BY <1>9 DEF CpStages

\* Where the grid is says which stage holds.
LEMMA StageAt ==
    ASSUME CpStages
    PROVE  /\ at[0] = "schedule" => Fresh
           /\ at[0] = "reroute" => Planned
           /\ at[0] = "forward" => \E a : Underway(a)
           /\ at[0] = "done" /\ task = "logprobs" => Returned(Passes)
           /\ \A r \in Grid : at[r] = at[0]
<1>1. 0 \in Grid
  BY GridSizes DEF Grid
<1>. QED  BY <1>1 DEF CpStages, Planned, Underway, GridAt

LEMMA CpStarts == CpInit => CpInv
<1>. SUFFICES ASSUME CpInit PROVE CpInv
  OBVIOUS
<1>1. CASE task = "smart_padding"
  BY <1>1 DEF CpInv
<1>2. CASE task # "smart_padding"
  <2>1. DefaultInputs
    BY <1>2 DEF CpInit, Inputs, DefaultInputs
  <2>2. GridAt("schedule") /\ Fresh
    BY DEF CpInit, CpStart, GridAt, Fresh
  <2>. QED  BY <2>1, <2>2 DEF CpInv, CpStages
<1>. QED  BY <1>1, <1>2

LEMMA CpKeeps == CpInv /\ [CpNext]_cpVars => CpInv'
<1>. SUFFICES ASSUME CpInv, [CpNext]_cpVars PROVE CpInv'
  OBVIOUS
<1>1. UNCHANGED batchVars
  BY DEF CpNext, cpVars, Schedule, Reroute, SelectLocally, ReduceGradients, ReturnLogprobs,
         ComputeLogprobs, TrainMicroBatch
<1>2. CASE task = "smart_padding"
  BY <1>1, <1>2 DEF CpInv, batchVars
<1>3. CASE task # "smart_padding"
  <2>1. DefaultInputs /\ CpStages /\ 0 \in Grid
    BY <1>3, GridSizes DEF CpInv, Grid
  <2>2. DefaultInputs'
    BY <1>1, <2>1, BatchKept
  <2>3. CpStages'
    <3>1. CASE Schedule
      <4>1. Fresh
        BY <2>1, <3>1, StageAt DEF Schedule, GridAt
      <4>2. PICK a \in Assignments : sample_id_groups' = GroupsOf(a)
        BY <3>1 DEF Schedule
      <4>3. GroupsOf(a)' = GroupsOf(a)
        BY <1>1, BatchKept
      <4>4. Fresh' /\ GridAt("reroute")'
        BY <3>1, <4>1 DEF Schedule, Fresh, GridGoto, GridAt
      <4>5. Planned'
        BY <4>2, <4>3, <4>4 DEF Planned
      <4>. QED  BY <4>5 DEF CpStages
    <3>2. CASE Reroute
      <4>1. Planned
        BY <2>1, <3>2, StageAt DEF Reroute, GridAt
      <4>. QED  BY <2>1, <3>2, <4>1, RerouteKeeps
    <3>3. CASE SelectLocally
      BY <1>3, <3>3 DEF SelectLocally
    <3>4. CASE ReduceGradients
      <4>1. GridAt("done")' /\ task' # "logprobs"
        BY <1>1, <3>4 DEF ReduceGradients, GridGoto, GridAt, batchVars
      <4>. QED  BY <4>1 DEF CpStages
    <3>5. CASE ReturnLogprobs
      <4>1. at[0] = "forward"
        BY <2>1, <3>5 DEF ReturnLogprobs, PastLoop
      <4>2. PICK a : Underway(a)
        BY <2>1, <4>1, StageAt
      <4>. QED  BY <2>1, <3>5, <4>2, ReturnKeeps
    <3>6. ASSUME NEW r \in Grid, ComputeLogprobs(r) \/ TrainMicroBatch(r) PROVE CpStages'
      <4>1. at[r] = "forward"
        BY <3>6 DEF ComputeLogprobs, TrainMicroBatch, Leads, InMbLoop
      <4>2. at[0] = "forward"
        BY <2>1, <4>1, StageAt
      <4>3. PICK a : Underway(a)
        BY <2>1, <4>2, StageAt
      <4>4. Underway(a)'
        BY <2>1, <3>6, <4>3, ComputeKeeps, TrainKeeps
      <4>. QED  BY <4>4 DEF CpStages
    <3>7. CASE UNCHANGED cpVars
      <4>1. /\ at' = at /\ next' = next /\ computed' = computed /\ results' = results
            /\ packs' = packs /\ sample_id_groups' = sample_id_groups
            /\ gid_to_compute_rank' = gid_to_compute_rank /\ task' = task
        BY <3>7 DEF cpVars, planVars, batchVars
      <4>2. CASE at[0] = "forward"
        <5>1. PICK a : Underway(a)
          BY <2>1, <4>2, StageAt
        <5>2. Progress(a)'
          <6>1. \A S : Known(S)' = Known(S)
            BY <1>1, BatchKept DEF Known
          <6>. QED  BY <4>1, <5>1, <6>1 DEF Underway, Progress, InStep
        <5>3. Underway(a)'
          BY <1>1, <4>1, <5>1, <5>2, LoopKeeps DEF planVars
        <5>. QED  BY <5>3 DEF CpStages
      <4>3. CASE at[0] # "forward"
        <5>1. Fresh => Fresh'
          BY <4>1 DEF Fresh
        <5>2. \A p : GridAt(p) => GridAt(p)'
          BY <4>1 DEF GridAt
        <5>3. Planned => Planned'
          <6>1. \A a : GroupsOf(a)' = GroupsOf(a)
            BY <1>1, BatchKept
          <6>. QED  BY <4>1, <5>1, <5>2, <6>1 DEF Planned
        <5>4. Returned(Passes) => Returned(Passes)'
          BY <1>1, <4>1, OwnKept DEF Returned
        <5>5. ~ (\E a : Underway(a))
          BY <2>1, <4>3 DEF Underway, GridAt
        <5>. QED  BY <2>1, <4>1, <5>1, <5>2, <5>3, <5>4, <5>5 DEF CpStages
      <4>. QED  BY <4>2, <4>3
    <3>. QED  BY <3>1, <3>2, <3>3, <3>4, <3>5, <3>6, <3>7 DEF CpNext
  <2>. QED  BY <2>2, <2>3 DEF CpInv
<1>. QED  BY <1>2, <1>3

LEMMA CpInvHolds == CpSpec => []CpInv
BY CpStarts, CpKeeps, PTL DEF CpSpec

LEMMA InvOwners == CpInv => OwnersGetTheirs
<1>. SUFFICES ASSUME CpInv, NEW r \in Grid, task = "logprobs", at[r] = "done"
              PROVE  /\ Len(results[r]) = Passes
                     /\ \A p \in 1 .. Passes : results[r][p] = Own(r)
  BY DEF OwnersGetTheirs, Own
<1>1. CpStages
  BY DEF CpInv
<1>2. at[0] = "done"
  BY <1>1, StageAt
<1>3. Returned(Passes)
  BY <1>1, <1>2, StageAt
<1>4. PICK x : x = Own(r)
  OBVIOUS
<1>5. results[r] = [i \in 1 .. Passes |-> x] /\ Passes \in Nat
  BY <1>3, <1>4, DynamicCpAssumption DEF Returned
<1>. QED  BY <1>4, <1>5

\* Whatever group computed a sample, and wherever the samples were packed and sent,
\* every rank ends with the log-probabilities of its own samples in its own order.
THEOREM ComesHome == CpSpec => []OwnersGetTheirs
BY CpInvHolds, InvOwners, PTL

\* Ranks of a group that are at the same micro-batch agree on it.
LEMMA GroupAgrees ==
    ASSUME DefaultInputs, NEW a, Underway(a), NEW r \in Grid, InMbLoop(r),
           NEW q \in CpGroup(r), next[q] = next[r]
    PROVE  Current(q) = Current(r)
<1>1. PICK m \in 1 .. Number(a) : next[r] = m
  BY LoopIs
<1>2. a \in Assignments /\ q \in GroupIn(a, m, r)
  BY <1>1, LoopIs, CurrentIs
<1>3. /\ q \in Grid /\ Members(a, m, q) = Members(a, m, r)
      /\ GroupIn(a, m, q) = GroupIn(a, m, r)
  BY <1>2, GroupShares
<1>4. IdsIn(a, m, q) = IdsIn(a, m, r)
  BY <1>3 DEF IdsIn
<1>5. /\ Current(r) = PackOf(IdsIn(a, m, r), Cardinality(GroupIn(a, m, r)))
      /\ Current(q) = PackOf(IdsIn(a, m, q), Cardinality(GroupIn(a, m, q)))
  BY <1>1, <1>3, CurrentIs
<1>. QED  BY <1>3, <1>4, <1>5

\* The group of a rank that is furthest behind is complete.
LEMMA SomeoneLeads ==
    ASSUME DefaultInputs, NEW a, Underway(a), NEW s \in Grid, InMbLoop(s)
    PROVE  \E r \in Grid : Leads(r)
<1>. DEFINE T == {next[r] : r \in Grid}
<1>1. a \in Assignments /\ InStep(a) /\ Number(a) \in Nat
  BY LoopIs DEF Underway, Progress
<1>2. T \in SUBSET Nat /\ next[s] \in T /\ next[s] \in 1 .. Number(a)
  <2>1. \A r \in Grid : next[r] \in Nat
    BY LoopIs
  <2>. QED  BY <2>1, LoopIs
<1>3. PICK l \in Grid : \A r \in Grid : next[l] <= next[r]
  <2>. HIDE DEF T
  <2>1. Min(T) \in T /\ \A y \in T : Min(T) <= y
    BY <1>2, Least
  <2>. USE DEF T
  <2>2. PICK l \in Grid : Min(T) = next[l]
    BY <2>1
  <2>3. \A r \in Grid : next[r] \in T
    OBVIOUS
  <2>. HIDE DEF T
  <2>. QED  BY <2>1, <2>2, <2>3
<1>4. PICK m \in 1 .. Number(a) : next[l] = m
  <2>1. next[l] \in 1 .. Number(a) + 1 /\ next[l] <= next[s]
    BY <1>3, LoopIs
  <2>. QED  BY <1>1, <1>2, <2>1
<1>. DEFINE G == GroupIn(a, m, l)
<1>5. G \in Blocks /\ l \in G /\ G \subseteq Grid
  BY <1>1, GroupsAre, BlocksAre
<1>6. ASSUME NEW q \in G PROVE next[q] = m
  <2>1. (next[q] > m) <=> (next[l] > m)
    BY <1>1 DEF InStep
  <2>2. next[q] \in Nat /\ next[l] <= next[q]
    BY <1>3, <1>5, LoopIs
  <2>. QED  BY <1>4, <2>1, <2>2
<1>7. ASSUME NEW q \in G
      PROVE  /\ q \in Grid /\ InMbLoop(q) /\ CpGroup(q) = G
             /\ Packed(q) = PackTokens(a, m, l)
  <2>1. /\ q \in Grid /\ Members(a, m, q) = Members(a, m, l)
        /\ GroupIn(a, m, q) = G
    BY <1>1, GroupShares
  <2>2. next[q] = m /\ InMbLoop(q)
    BY <1>6, <2>1, LoopIs
  <2>3. CpGroup(q) = G /\ Packed(q) = PackTokens(a, m, q)
    BY <2>1, <2>2, CurrentIs
  <2>4. PackTokens(a, m, q) = PackTokens(a, m, l)
    BY <2>1 DEF PackTokens, IdsIn
  <2>. QED  BY <2>1, <2>2, <2>3, <2>4
<1>8. Min(G) \in G
  <2>1. G \in SUBSET Nat /\ G # {}
    BY <1>5, GridSizes
  <2>. QED  BY <2>1, Least
<1>. HIDE DEF G
<1>9. Meets(G)
  BY <1>7, <1>8 DEF Meets
<1>10. Leads(Min(G)) /\ Min(G) \in Grid
  BY <1>7, <1>8, <1>9 DEF Leads
<1>. QED  BY <1>10

LEMMA InvMeets == CpInv /\ task # "smart_padding" => RanksMeet
<1>. SUFFICES ASSUME CpInv, task # "smart_padding" PROVE RanksMeet
  OBVIOUS
<1>1. DefaultInputs /\ CpStages /\ 0 \in Grid
  BY GridSizes DEF CpInv, Grid
<1>2. GridAt("reroute") => RerouteLegal
  BY <1>1, RerouteIsLegal
<1>3. ASSUME task = "logprobs", \A r \in Grid : PastLoop(r) PROVE ReverseLegal
  <2>1. at[0] = "forward"
    BY <1>1, <1>3 DEF PastLoop
  <2>2. PICK a : Underway(a)
    BY <1>1, <2>1, StageAt
  <2>3. AtReturn(a)
    BY <1>3, <2>2 DEF AtReturn, AllPast
  <2>. QED  BY <1>1, <2>3, ReturnIsLegal
<1>4. ASSUME NEW r \in Grid, InMbLoop(r)
      PROVE  /\ \A q \in Grid : Len(packs[q]) = Len(packs[r])
             /\ \A q \in CpGroup(r) : next[q] = next[r] => Current(q) = Current(r)
             /\ \E q \in Grid : Leads(q)
  <2>1. at[0] = "forward"
    BY <1>1, <1>4, StageAt DEF InMbLoop
  <2>2. PICK a : Underway(a)
    BY <1>1, <2>1, StageAt
  <2>3. \A q \in Grid : Len(packs[q]) = Number(a)
    BY <1>1, <2>2, LoopIs
  <2>. QED  BY <1>1, <1>4, <2>2, <2>3, GroupAgrees, SomeoneLeads
<1>. QED  BY <1>2, <1>3, <1>4 DEF RanksMeet

\* With the default scheduler no rank is left waiting in a collective: the ends of
\* both all-to-alls agree on every size, the ranks of a group on what they compute,
\* and while any rank has micro-batches left some group is complete.
THEOREM GroupsMeet == CpSpec => [](task # "smart_padding" => RanksMeet)
BY CpInvHolds, InvMeets, PTL

\* A balanced run leaves the variables of the grid as they were.
TheOther == way = "balance_dp_seqlen" /\ task = "train" /\ CpStart
LEMMA TheOtherHolds == EitherSpec => [](TheOther \/ CpInv)
<1>1. EitherInit => TheOther \/ CpInv
  BY CpStarts DEF EitherInit, DynamicUnused, TheOther
<1>2. (TheOther \/ CpInv) /\ [EitherNext]_<<way, cpVars, vars>> => (TheOther \/ CpInv)'
  <2>. SUFFICES ASSUME TheOther \/ CpInv, [EitherNext]_<<way, cpVars, vars>>
                PROVE (TheOther \/ CpInv)'
    OBVIOUS
  <2>1. way' = way /\ (UNCHANGED cpVars \/ (way = "dynamic_cp" /\ CpNext))
    BY DEF EitherNext
  <2>2. CASE TheOther
    <3>1. UNCHANGED cpVars
      BY <2>1, <2>2 DEF TheOther
    <3>. QED  BY <2>1, <2>2, <3>1 DEF TheOther, CpStart, cpVars, batchVars, planVars
  <2>3. CASE CpInv
    BY <2>1, <2>3, CpKeeps
  <2>. QED  BY <2>2, <2>3
<1>. QED  BY <1>1, <1>2, PTL DEF EitherSpec

\* Both promises of the default scheduler where runs may also be balanced: the
\* specification that log_probs checks.
THEOREM EitherWayComesHome ==
    EitherSpec => [](OwnersGetTheirs /\ (task # "smart_padding" => RanksMeet))
<1>1. TheOther => OwnersGetTheirs /\ RanksMeet
  <2>. SUFFICES ASSUME TheOther PROVE OwnersGetTheirs /\ RanksMeet
    OBVIOUS
  <2>1. task = "train" /\ (\A r \in Grid : at[r] = "schedule") /\ 0 \in Grid
    BY GridSizes DEF TheOther, CpStart, Grid
  <2>. QED  BY <2>1 DEF OwnersGetTheirs, RanksMeet, GridAt, InMbLoop
<1>. QED  BY <1>1, TheOtherHolds, InvOwners, InvMeets, PTL

----------------------------------------------------------------------------
\* The smart_padding scheduler.

\* The powers of two do not depend on how many there are, grow, and divide each other.
LEMMA DoublingAgrees ==
    ASSUME NEW n \in Nat, NEW m \in Nat, n <= m, NEW j \in 0 .. n
    PROVE  Doubling(n)[j] = Doubling(m)[j]
<1>. DEFINE T == {i \in 0 .. n : Doubling(n)[i] # Doubling(m)[i]}
<1>. SUFFICES ASSUME T # {} PROVE FALSE
  OBVIOUS
<1>1. T \in SUBSET Nat
  OBVIOUS
<1>. HIDE DEF T
<1>2. PICK i \in T : \A k \in T : i <= k
  BY <1>1, Least
<1>. USE DEF T
<1>3. i \in 0 .. n /\ Doubling(n)[i] # Doubling(m)[i]
  OBVIOUS
<1>4. i # 0
  BY <1>3, DoublingIs
<1>5. i \in 1 .. n /\ i \in 1 .. m /\ i - 1 \in 0 .. n /\ ~ (i <= i - 1)
  BY <1>3, <1>4
<1>6. Doubling(n)[i - 1] = Doubling(m)[i - 1]
  BY <1>2, <1>5
<1>. HIDE DEF T
<1>7. Doubling(n)[i] = 2 * Doubling(n)[i - 1] /\ Doubling(m)[i] = 2 * Doubling(m)[i - 1]
  BY <1>5, DoublingIs
<1>. QED  BY <1>3, <1>6, <1>7

LEMMA DoublingGrows ==
    ASSUME NEW n \in Nat, NEW i \in 0 .. n, NEW j \in 0 .. n, i <= j
    PROVE  /\ \E q \in Nat \ {0} : Doubling(n)[j] = q * Doubling(n)[i]
           /\ i < j => Doubling(n)[i] < Doubling(n)[j]
<1>. DEFINE f == Doubling(n)
            Good(k) == /\ \E q \in Nat \ {0} : f[k] = q * f[i]
                       /\ i < k => f[i] < f[k]
                       /\ f[i] <= f[k]
            T == {k \in i .. n : ~ Good(k)}
<1>. SUFFICES ASSUME T # {} PROVE FALSE
  <2>1. j \in i .. n
    OBVIOUS
  <2>. QED  BY <2>1
<1>1. /\ \A k \in 0 .. n : f[k] \in Nat \ {0}
      /\ \A k \in 1 .. n : f[k] = 2 * f[k - 1]
  BY DoublingIs
<1>2. T \in SUBSET Nat
  OBVIOUS
<1>. HIDE DEF T, f
<1>3. PICK k \in T : \A m \in T : k <= m
  BY <1>2, Least
<1>. USE DEF T
<1>4. k \in i .. n /\ ~ Good(k)
  OBVIOUS
<1>5. k # i
  <2>. SUFFICES ASSUME k = i PROVE Good(i)
    BY <1>4
  <2>1. f[i] = 1 * f[i] /\ 1 \in Nat \ {0} /\ f[i] <= f[i]
    BY <1>1
  <2>. QED  BY <2>1
<1>6. k - 1 \in i .. n /\ k - 1 \in 0 .. n /\ k \in 1 .. n /\ ~ (k <= k - 1)
  BY <1>4, <1>5
<1>7. Good(k - 1)
  BY <1>3, <1>6
<1>8. PICK q \in Nat \ {0} : f[k - 1] = q * f[i]
  BY <1>7
<1>9. f[k] = 2 * f[k - 1] /\ f[k - 1] \in Nat \ {0} /\ f[i] \in Nat \ {0} /\ f[i] <= f[k - 1]
  BY <1>1, <1>6, <1>7
<1>10. f[k] = (2 * q) * f[i] /\ 2 * q \in Nat \ {0}
  BY <1>8, <1>9
<1>11. f[i] < f[k]
  BY <1>9
<1>12. f[i] <= f[k]
  BY <1>9
<1>. QED  BY <1>4, <1>10, <1>11, <1>12

LEMMA DoublingExceeds ==
    ASSUME NEW n \in Nat, NEW j \in 0 .. n
    PROVE  j < Doubling(n)[j]
<1>. DEFINE f == Doubling(n)
            T == {k \in 0 .. n : ~ (k < f[k])}
<1>. SUFFICES ASSUME T # {} PROVE FALSE
  OBVIOUS
<1>1. /\ f[0] = 1 /\ \A k \in 0 .. n : f[k] \in Nat \ {0}
      /\ \A k \in 1 .. n : f[k] = 2 * f[k - 1]
  BY DoublingIs
<1>2. T \in SUBSET Nat
  OBVIOUS
<1>. HIDE DEF T, f
<1>3. PICK k \in T : \A m \in T : k <= m
  BY <1>2, Least
<1>. USE DEF T
<1>4. k \in 1 .. n /\ ~ (k < f[k])
  BY <1>1
<1>5. k - 1 \in 0 .. n /\ ~ (k <= k - 1)
  BY <1>4
<1>6. k - 1 < f[k - 1]
  BY <1>3, <1>5
<1>7. f[k] = 2 * f[k - 1] /\ f[k - 1] \in Nat
  BY <1>1, <1>4, <1>5
<1>. QED  BY <1>4, <1>6, <1>7

\* Of two powers of two the smaller divides the larger.
LEMMA PowersDivide ==
    ASSUME NEW n \in Nat, NEW m \in Nat, NEW x \in Powers(n), NEW y \in Powers(m), x <= y
    PROVE  \E q \in Nat \ {0} : y = q * x
<1>1. PICK i \in 0 .. n, j \in 0 .. m : x = Doubling(n)[i] /\ y = Doubling(m)[j]
  BY DEF Powers
<1>2. PICK k \in Nat : n <= k /\ m <= k
  <2>1. n <= m \/ m <= n
    OBVIOUS
  <2>. QED  BY <2>1
<1>3. x = Doubling(k)[i] /\ y = Doubling(k)[j] /\ i \in 0 .. k /\ j \in 0 .. k
  BY <1>1, <1>2, DoublingAgrees
<1>4. i <= j
  <2>. SUFFICES ASSUME j < i PROVE FALSE
    OBVIOUS
  <2>1. Doubling(k)[j] < Doubling(k)[i]
    <3>1. j <= i
      OBVIOUS
    <3>. QED  BY <1>3, <3>1, DoublingGrows
  <2>2. x \in Nat /\ y \in Nat
    BY <1>3, DoublingIs
  <2>. QED  BY <1>3, <2>1, <2>2
<1>. QED  BY <1>3, <1>4, DoublingGrows

\* The power of two the scheduler takes.
CpIsPower == \E k \in Nat : Cp \in Powers(k)
SmartInputs ==
    /\ task = "smart_padding" /\ budget \in Budgets /\ seq_lens \in [Gids -> Originals]
    /\ \E n \in SmartCounts : offsets = OffsetsOf([d \in 1 .. Dp |-> n])

LEMMA SmartOffsets ==
    ASSUME SmartInputs
    PROVE  \E n \in Nat \ {0} :
              /\ n % Cp = 0 /\ offsets[Dp] \in Nat \ {0}
              /\ \A d \in Dps : Cardinality(GidsOf(d)) = n
              /\ \A d \in 0 .. Dp : offsets[d] = d * n
<1>1. PICK n \in SmartCounts : offsets = Cumulative([d \in 1 .. Dp |-> n])
  BY DEF SmartInputs, OffsetsOf
<1>2. n \in Nat \ {0} /\ n % Cp = 0
  BY DynamicCpAssumption DEF DynamicCpAssumption
<1>. DEFINE w == [d \in 1 .. Dp |-> n]
<1>3. w \in [1 .. Dp -> Nat] /\ Dp \in Nat \ {0}
  BY <1>2, GridSizes
<1>4. \A d \in 1 .. Dp : w[d] = n /\ w[d] > 0
  BY <1>2
<1>. HIDE DEF w
<1>5. /\ offsets \in [0 .. Dp -> Nat] /\ offsets[0] = 0
      /\ \A d \in 1 .. Dp : offsets[d] = offsets[d - 1] + w[d]
  BY <1>1, <1>3, CumulativeIs DEF w
<1>6. offsets[0] < offsets[Dp]
  <2>1. 0 \in 0 .. Dp /\ Dp \in 0 .. Dp /\ 0 <= Dp /\ 0 < Dp /\ Dp \in Nat
    BY <1>3
  <2>2. Cumulative(w)[0] < Cumulative(w)[Dp]
    BY <1>3, <1>4, <2>1, CumulativeGrows
  <2>. QED  BY <1>1, <2>2 DEF w
<1>7. offsets[Dp] \in Nat \ {0}
  <2>1. offsets[Dp] \in Nat
    BY <1>3, <1>5
  <2>. QED  BY <1>5, <1>6, <2>1
<1>8. ASSUME NEW d \in Dps PROVE Cardinality(GidsOf(d)) = n
  <2>1. d \in Nat /\ d + 1 \in 1 .. Dp /\ (d + 1) - 1 = d /\ d \in 0 .. Dp
    BY GridSizes
  <2>2. offsets[d] \in Nat /\ offsets[d + 1] = offsets[d] + n
    BY <1>4, <1>5, <2>1
  <2>3. PICK lo \in Nat : lo = offsets[d]
    BY <2>2
  <2>4. GidsOf(d) = lo .. lo + n - 1
    BY <1>2, <2>2, <2>3 DEF GidsOf
  <2>5. Cardinality(lo .. lo + n - 1) = IF lo <= lo + n - 1 THEN (lo + n - 1) - lo + 1 ELSE 0
    <3>1. lo \in Int /\ lo + n - 1 \in Int
      BY <1>2
    <3>. QED  BY <3>1, FS_Interval
  <2>. QED  BY <1>2, <2>4, <2>5
<1>9. ASSUME NEW d \in 0 .. Dp PROVE offsets[d] = d * n
  BY <1>1, <1>2, <1>3, <1>4, EvenlyCumulative DEF w
<1>. QED  BY <1>2, <1>7, <1>8, <1>9

LEMMA LongestIs ==
    ASSUME SmartInputs
    PROVE  MaxSeqlen \in Nat \ {0} /\ MaxSeqlen <= budget * Cp /\ budget \in Nat \ {0}
<1>1. budget \in Nat \ {0} /\ Cp \in Nat \ {0} /\ PadDiv = 2 * Cp
  BY GridSizes, DynamicCpAssumption DEF SmartInputs, DynamicCpAssumption, PadDiv
<1>2. PICK b \in Nat : b = budget * Cp
  BY <1>1
<1>3. ASSUME NEW g \in Gids PROVE Padded(g) \in 1 .. b
  <2>1. PICK l \in Nat \ {0} : l = seq_lens[g] /\ l \in Originals
    BY GridSizes DEF SmartInputs
  <2>2. PICK P \in Nat \ {0} : P = 2 * Cp
    BY <1>1
  <2>3. Padded(g) = RoundUp(l, P)
    BY <1>1, <2>1, <2>2 DEF Padded, RoundUp
  <2>4. RoundUp(l, P) \in Nat \ {0}
    BY RoundedUp
  <2>5. ((l + 2 * Cp - 1) \div (2 * Cp)) * 2 * Cp <= budget * Cp
    BY <2>1, DynamicCpAssumption DEF DynamicCpAssumption, SmartInputs
  <2>6. PICK q \in Nat : q = (l + P - 1) \div P
    <3>1. l + P - 1 \in Nat
      OBVIOUS
    <3>. QED  BY <3>1, Euclid
  <2>7. q * 2 * Cp <= b
    BY <1>2, <2>2, <2>5, <2>6
  <2>8. RoundUp(l, P) = q * 2 * Cp
    <3>1. RoundUp(l, P) = q * P
      BY <2>6 DEF RoundUp
    <3>2. q * (2 * Cp) = q * 2 * Cp
      BY <1>1
    <3>. QED  BY <2>2, <3>1, <3>2
  <2>. QED  BY <2>3, <2>4, <2>7, <2>8
<1>4. {Padded(g) : g \in Gids} \in SUBSET (1 .. b) /\ {Padded(g) : g \in Gids} # {}
  <2>1. 0 \in Gids
    BY SmartOffsets DEF Gids
  <2>. QED  BY <1>3, <2>1
<1>5. MaxSeqlen \in 1 .. b
  BY <1>4, Greatest DEF MaxSeqlen
<1>. QED  BY <1>1, <1>2, <1>5

LEMMA LocalIs ==
    ASSUME SmartInputs, CpIsPower
    PROVE  /\ LocalCpSize \in GroupSizes /\ LocalCpSize \in Nat \ {0}
           /\ \E h \in Nat \ {0} : Cp = h * LocalCpSize
           /\ NumPacked \in Nat \ {0}
<1>. DEFINE n == MaxSeqlen
            T == {s \in Powers(n) : s * budget >= n}
            L == LocalCpSize
<1>1. n \in Nat \ {0} /\ budget \in Nat \ {0} /\ n <= budget * Cp
  BY LongestIs
<1>2. PICK k \in Nat : Cp \in Powers(k)
  BY DEF CpIsPower
<1>3. PICK j \in 0 .. k : Cp = Doubling(k)[j]
  BY <1>2 DEF Powers
<1>4. Cp \in Nat \ {0} /\ Dp \in Nat \ {0}
  BY GridSizes
<1>. HIDE DEF n
<1>5. \A s \in Powers(n) : s \in Nat \ {0}
  BY <1>1, DoublingIs DEF Powers
<1>6. T \in SUBSET Nat
  BY <1>5
<1>7. T # {}
  <2>1. n \in 0 .. n /\ n \in Nat
    BY <1>1
  <2>2. n < Doubling(n)[n] /\ Doubling(n)[n] \in Powers(n)
    BY <2>1, DoublingExceeds DEF Powers
  <2>3. PICK s \in Nat : s = Doubling(n)[n]
    BY <1>5, <2>2
  <2>4. s * 1 <= s * budget
    BY <1>1
  <2>5. s * budget >= n
    BY <1>1, <2>2, <2>3, <2>4
  <2>. QED  BY <2>2, <2>3, <2>5
<1>. HIDE DEF T
<1>8. L = Min(T)
  BY DEF LocalCpSize, T, n
<1>. HIDE DEF L
<1>9. L \in T /\ \A s \in T : L <= s
  BY <1>6, <1>7, <1>8, Least
<1>10. L \in Powers(n) /\ L \in Nat \ {0} /\ L * budget >= n
  BY <1>5, <1>9 DEF T
<1>11. L <= Cp
  <2>1. CASE j <= n
    <3>1. Cp \in Powers(n)
      <4>1. n <= k \/ k <= n
        BY <1>1
      <4>2. j \in 0 .. n /\ j \in 0 .. k /\ n \in Nat
        BY <1>1, <2>1
      <4>3. Doubling(k)[j] = Doubling(n)[j]
        BY <4>1, <4>2, DoublingAgrees
      <4>. QED  BY <1>3, <4>2, <4>3 DEF Powers
    <3>2. Cp * budget >= n
      BY <1>1, <1>4
    <3>3. Cp \in T
      BY <3>1, <3>2 DEF T
    <3>. QED  BY <1>9, <3>3
  <2>2. CASE ~ (j <= n)
    <3>1. PICK i \in 0 .. n : L = Doubling(n)[i]
      BY <1>10 DEF Powers
    <3>2. n <= k /\ i \in 0 .. k /\ i < j /\ i <= j /\ n \in Nat
      BY <1>1, <2>2
    <3>3. L = Doubling(k)[i]
      BY <3>1, <3>2, DoublingAgrees
    <3>4. Doubling(k)[i] < Doubling(k)[j]
      BY <3>2, DoublingGrows
    <3>. QED  BY <1>3, <1>4, <1>10, <3>3, <3>4
  <2>. QED  BY <2>1, <2>2
<1>12. PICK h \in Nat \ {0} : Cp = h * L
  <2>1. n \in Nat
    BY <1>1
  <2>. QED  BY <1>2, <1>10, <1>11, <2>1, PowersDivide
<1>13. L \in GroupSizes
  <2>1. Total = (Dp * h) * L /\ Dp * h \in Nat
    BY <1>4, <1>10, <1>12 DEF Total
  <2>2. PICK t \in Nat : t = Dp * h
    BY <2>1
  <2>3. 0 \in 0 .. L - 1 /\ Total = t * L + 0 /\ Total \in Nat
    BY <1>10, <2>1, <2>2, GridSizes
  <2>4. Total % L = 0
    BY <1>10, <2>3, EuclidUnique
  <2>5. L <= Total
    <3>1. 1 * Cp <= Dp * Cp
      BY <1>4, Products
    <3>2. Cp <= Total
      BY <1>4, <3>1 DEF Total
    <3>. QED  BY <1>4, <1>10, <1>11, <3>2, GridSizes
  <2>6. L \in Powers(Total)
    <3>1. PICK i \in 0 .. n : L = Doubling(n)[i]
      BY <1>10 DEF Powers
    <3>2. i < L
      BY <1>1, <3>1, DoublingExceeds
    <3>3. i \in 0 .. Total /\ Total \in Nat /\ n \in Nat
      BY <1>1, <1>10, <2>5, <3>2, GridSizes
    <3>4. n <= Total \/ Total <= n
      BY <3>3
    <3>5. Doubling(n)[i] = Doubling(Total)[i]
      BY <3>3, <3>4, DoublingAgrees
    <3>. QED  BY <3>1, <3>3, <3>5 DEF Powers
  <2>. QED  BY <2>4, <2>5, <2>6 DEF GroupSizes
<1>14. NumPacked \in Nat \ {0}
  <2>1. PICK p \in Nat : p = L * budget
    BY <1>1, <1>10
  <2>2. PICK x \in Nat : x = p \div n
    BY <1>1, Euclid
  <2>3. \E y \in {x, 1} : \A z \in {x, 1} : y >= z
    <3>1. x >= 1 \/ 1 >= x
      OBVIOUS
    <3>. QED  BY <3>1
  <2>4. Max({x, 1}) \in {x, 1} /\ \A z \in {x, 1} : Max({x, 1}) >= z
    BY <2>3 DEF Max
  <2>5. NumPacked = Max({x, 1})
    BY <2>1, <2>2 DEF NumPacked, L, n
  <2>6. NumPacked \in {x, 1} /\ NumPacked >= 1
    BY <2>4, <2>5
  <2>. QED  BY <2>6
<1>. QED  BY <1>10, <1>12, <1>13, <1>14 DEF L

\* Where a rank stands among the groups of smart_padding's size.
LEMMA GroupPlace ==
    ASSUME SmartInputs, CpIsPower, NEW L \in Nat \ {0}, L = LocalCpSize,
           NEW h \in Nat \ {0}, Cp = h * L, NEW p \in Grid
    PROVE  /\ DpOf(p) \in Nat /\ GroupIdx(p) \in 0 .. h - 1
           /\ p \div L = DpOf(p) * h + GroupIdx(p)
<1>1. PICK d \in Nat : d = DpOf(p)
  BY GridPlaces, GridSizes
<1>2. PICK c \in Nat : c = CpOf(p) /\ c < Cp
  BY GridPlaces, GridSizes
<1>3. p = d * Cp + c
  BY <1>1, <1>2, GridPlaces DEF RankAt
<1>4. PICK x \in Nat, y \in 0 .. L - 1 : x = c \div L /\ c = x * L + y
  <2>1. c \div L \in Nat /\ c % L \in 0 .. L - 1 /\ c = (c \div L) * L + (c % L)
    BY Euclid
  <2>. QED  BY <2>1
<1>5. x < h
  <2>. SUFFICES ASSUME h <= x PROVE FALSE
    OBVIOUS
  <2>1. h * L <= x * L /\ h * L \in Nat /\ x * L \in Nat
    BY Products
  <2>. QED  BY <1>2, <1>4, <2>1
<1>6. p = (d * h + x) * L + y /\ d * h + x \in Nat
  <2>1. d * (h * L) = (d * h) * L
    OBVIOUS
  <2>2. PICK t \in Nat : t = d * h
    OBVIOUS
  <2>3. (t + x) * L = t * L + x * L /\ t * L \in Nat /\ x * L \in Nat
    BY Products
  <2>4. p = t * L + (x * L + y)
    BY <1>3, <1>4, <2>1, <2>2
  <2>. QED  BY <2>2, <2>3, <2>4
<1>7. PICK z \in Nat : z = d * h + x
  BY <1>6
<1>8. p \in Nat /\ p = z * L + y
  BY <1>6, <1>7, GridSizes
<1>9. p \div L = z
  BY <1>8, EuclidUnique
<1>10. GroupIdx(p) = x
  BY <1>2, <1>4 DEF GroupIdx
<1>. QED  BY <1>1, <1>5, <1>7, <1>9, <1>10

\* The ranks of a group of its size are of one dp index and one part of it.
LEMMA LocalGroups ==
    ASSUME SmartInputs, CpIsPower, NEW r \in Grid, NEW q \in Block(r, LocalCpSize)
    PROVE  q \in Grid /\ DpOf(q) = DpOf(r) /\ GroupIdx(q) = GroupIdx(r)
<1>1. PICK L \in Nat \ {0} : L = LocalCpSize
  BY LocalIs
<1>2. PICK h \in Nat \ {0} : Cp = h * L
  BY <1>1, LocalIs
<1>3. q \in Grid /\ q \div L = r \div L
  BY <1>1 DEF Block
<1>4. ASSUME NEW p \in Grid
      PROVE  /\ DpOf(p) \in Nat /\ GroupIdx(p) \in 0 .. h - 1
             /\ p \div L = DpOf(p) * h + GroupIdx(p)
  BY <1>1, <1>2, GroupPlace
<1>5. PICK z \in Nat : z = DpOf(r) * h + GroupIdx(r)
  BY <1>4
<1>6. z = DpOf(q) * h + GroupIdx(q) /\ DpOf(q) \in Nat /\ GroupIdx(q) \in 0 .. h - 1
  BY <1>3, <1>4, <1>5
<1>7. /\ z \div h = DpOf(r) /\ z % h = GroupIdx(r)
  <2>1. DpOf(r) \in Nat /\ GroupIdx(r) \in 0 .. h - 1
    BY <1>4
  <2>. QED  BY <1>5, <2>1, EuclidUnique
<1>8. /\ z \div h = DpOf(q) /\ z % h = GroupIdx(q)
  BY <1>6, EuclidUnique
<1>. QED  BY <1>3, <1>7, <1>8

\* The samples of a dp index divide among its groups.
LEMMA SmartParts ==
    ASSUME SmartInputs, CpIsPower, NEW n \in Nat \ {0}, n % Cp = 0,
           NEW h \in Nat \ {0}, Cp = h * LocalCpSize
    PROVE  /\ n \div h \in Nat \ {0} /\ n = (n \div h) * h /\ n = h * (n \div h)
           /\ Cp \div LocalCpSize = h
<1>1. PICK L \in Nat \ {0} : L = LocalCpSize /\ Cp = h * L
  <2>1. LocalCpSize \in Nat \ {0}
    BY LocalIs
  <2>. QED  BY <2>1
<1>2. n \div Cp \in Nat /\ n = (n \div Cp) * Cp + (n % Cp)
  <2>1. PICK C \in Nat \ {0} : C = Cp
    BY GridSizes
  <2>2. n \div C \in Nat /\ n = (n \div C) * C + (n % C)
    BY Euclid
  <2>. QED  BY <2>1, <2>2
<1>3. PICK c \in Nat : c = n \div Cp
  BY <1>2
<1>4. n = c * Cp
  BY <1>2, <1>3, GridSizes
<1>5. n = (c * L) * h /\ c * L \in Nat
  <2>1. c * (h * L) = (c * L) * h
    OBVIOUS
  <2>. QED  BY <1>1, <1>4, <2>1
<1>6. PICK x \in Nat : x = c * L
  BY <1>5
<1>7. 0 \in 0 .. h - 1 /\ n = x * h + 0 /\ n \in Nat
  BY <1>5, <1>6
<1>8. n \div h = x
  BY <1>7, EuclidUnique
<1>9. x # 0
  <2>1. 0 * h = 0
    OBVIOUS
  <2>. QED  BY <1>5, <1>6, <2>1
<1>10. Cp \div L = h
  <2>1. 0 \in 0 .. L - 1 /\ Cp = h * L + 0 /\ Cp \in Nat
    BY <1>1, GridSizes
  <2>. QED  BY <2>1, EuclidUnique
<1>11. x * h = h * x
  OBVIOUS
<1>. QED  BY <1>1, <1>5, <1>6, <1>8, <1>9, <1>10, <1>11

\* As many micro-batches on every rank, of groups of the one size.
SmartPack(p, k) ==
    \E f : p = [m \in 1 .. k |-> f[m]] /\ \A m \in 1 .. k : f[m].local_cp_size = LocalCpSize

LEMMA SmartPacksAre ==
    ASSUME SmartInputs, CpIsPower
    PROVE  \E k \in Nat : \A r \in Grid : SmartPack(SmartPacks(r), k)
<1>1. PICK n \in Nat \ {0} : n % Cp = 0 /\ \A d \in Dps : Cardinality(GidsOf(d)) = n
  BY SmartOffsets
<1>2. PICK h \in Nat \ {0} : Cp = h * LocalCpSize /\ Cp \div LocalCpSize = h
  BY <1>1, LocalIs, SmartParts
<1>. DEFINE M == n \div h
            packed == Min({NumPacked, M})
            k == (M + packed - 1) \div packed
<1>3. M \in Nat \ {0}
  BY <1>1, <1>2, SmartParts
<1>4. packed \in Nat \ {0}
  <2>1. {NumPacked, M} \in SUBSET Nat /\ {NumPacked, M} # {}
    BY <1>3, LocalIs
  <2>2. Min({NumPacked, M}) \in {NumPacked, M}
    BY <2>1, Least
  <2>. QED  BY <1>3, <2>2, LocalIs
<1>5. k \in Nat
  <2>. HIDE DEF M, packed
  <2>1. M + packed - 1 \in Nat
    BY <1>3, <1>4
  <2>. QED  BY <1>4, <2>1, Euclid
<1>6. ASSUME NEW r \in Grid PROVE SmartPack(SmartPacks(r), k)
  <2>. DEFINE all == [i \in 1 .. Cardinality(GidsOf(DpOf(r))) |-> offsets[DpOf(r)] + i - 1]
              parts == Len(all) \div (Cp \div LocalCpSize)
              mine == SubSeq(all, GroupIdx(r) * parts + 1, (GroupIdx(r) + 1) * parts)
              each == Min({NumPacked, parts})
              sizes == EvenSplit(parts, (parts + each - 1) \div each)
              ids(m) == Cut(mine, sizes, m)
              body(m) == Pack(ids(m), [i \in DOMAIN ids(m) |-> Sample(ids(m)[i])], LocalCpSize)
  <2>1. SmartPacks(r) = [m \in DOMAIN sizes |-> body(m)]
    BY DEF SmartPacks
  <2>2. Len(all) = n
    <3>1. Cardinality(GidsOf(DpOf(r))) = n
      BY <1>1, GridPlaces
    <3>. QED  BY <3>1
  <2>3. parts = M
    BY <1>2, <2>2
  <2>4. DOMAIN sizes = 1 .. k
    BY <2>3 DEF EvenSplit
  <2>5. \A m : body(m).local_cp_size = LocalCpSize
    BY DEF Pack
  <2>. HIDE DEF body, sizes, k
  <2>. DEFINE f == [m \in 1 .. k |-> body(m)]
  <2>6. f = [m \in 1 .. k |-> f[m]] /\ \A m \in 1 .. k : f[m] = body(m)
    OBVIOUS
  <2>7. SmartPacks(r) = f
    BY <2>1, <2>4
  <2>. HIDE DEF f
  <2>8. \A m \in 1 .. k : f[m].local_cp_size = LocalCpSize
    BY <2>5, <2>6
  <2>9. SmartPacks(r) = [m \in 1 .. k |-> f[m]]
    BY <2>6, <2>7
  <2>. QED  BY <2>8, <2>9 DEF SmartPack
<1>. QED  BY <1>5, <1>6

LEMMA SmartShares ==
    ASSUME NEW r, NEW q, DpOf(q) = DpOf(r), GroupIdx(q) = GroupIdx(r)
    PROVE  SmartPacks(q) = SmartPacks(r)
BY DEF SmartPacks

LEMMA SmartKept ==
    ASSUME UNCHANGED batchVars
    PROVE  /\ SmartInputs => SmartInputs'
           /\ LocalCpSize' = LocalCpSize
           /\ \A r : SmartPacks(r)' = SmartPacks(r)
<1>1. task' = task /\ offsets' = offsets /\ seq_lens' = seq_lens /\ budget' = budget
  BY DEF batchVars
<1>2. Gids' = Gids /\ \A d : GidsOf(d)' = GidsOf(d)
  BY <1>1 DEF Gids, GidsOf
<1>3. \A g : Padded(g)' = Padded(g) /\ Sample(g)' = Sample(g)
  BY <1>1 DEF Padded, PadDiv, Sample, Tokens
<1>4. MaxSeqlen' = MaxSeqlen
  BY <1>2, <1>3 DEF MaxSeqlen
<1>5. LocalCpSize' = LocalCpSize
  BY <1>1, <1>4 DEF LocalCpSize
<1>6. NumPacked' = NumPacked /\ \A r : GroupIdx(r)' = GroupIdx(r)
  BY <1>1, <1>4, <1>5 DEF NumPacked, GroupIdx
<1>7. \A ids, samples, size : Pack(ids, samples, size)' = Pack(ids, samples, size)
  BY <1>1, <1>3 DEF Pack
<1>8. ASSUME NEW r PROVE SmartPacks(r)' = SmartPacks(r)
  <2>. DEFINE all == [i \in 1 .. Cardinality(GidsOf(DpOf(r))) |-> offsets[DpOf(r)] + i - 1]
              parts == Len(all) \div (Cp \div LocalCpSize)
              mine == SubSeq(all, GroupIdx(r) * parts + 1, (GroupIdx(r) + 1) * parts)
              each == Min({NumPacked, parts})
              sizes == EvenSplit(parts, (parts + each - 1) \div each)
              ids(m) == Cut(mine, sizes, m)
              body(m) == Pack(ids(m), [i \in DOMAIN ids(m) |-> Sample(ids(m)[i])], LocalCpSize)
  <2>1. SmartPacks(r) = [m \in DOMAIN sizes |-> body(m)]
    BY DEF SmartPacks
  <2>2. SmartPacks(r)' = [m \in DOMAIN sizes |-> body(m)]'
    BY DEF SmartPacks
  <2>3. all' = all
    BY <1>1, <1>2
  <2>. HIDE DEF all
  <2>4. parts' = parts
    BY <1>5, <2>3
  <2>. HIDE DEF parts
  <2>5. mine' = mine /\ each' = each
    BY <1>6, <2>3, <2>4
  <2>. HIDE DEF mine, each
  <2>6. sizes' = sizes
    BY <2>4, <2>5 DEF EvenSplit, SizeOf
  <2>. HIDE DEF sizes
  <2>7. \A m : ids(m)' = ids(m)
    BY <2>5, <2>6 DEF Cut
  <2>. HIDE DEF ids
  <2>8. \A m : body(m)' = body(m)
    BY <1>3, <1>5, <1>7, <2>7
  <2>. HIDE DEF body
  <2>. QED  BY <2>1, <2>6, <2>8, <2>2
<1>. QED  BY <1>1, <1>2, <1>5, <1>8 DEF SmartInputs

\* Its stages: the members of a group always at the same micro-batch.
SmartLoop ==
    /\ GridAt("forward") /\ packs = [r \in Grid |-> SmartPacks(r)]
    /\ \A r \in Grid : next[r] \in Nat \ {0}
    /\ \A r \in Grid : \A q \in Block(r, LocalCpSize) : next[q] = next[r]
SmartStages ==
    \/ GridAt("schedule") /\ next = [r \in Grid |-> 1]
    \/ SmartLoop
    \/ GridAt("done")
SmartInv == task # "smart_padding" \/ (SmartInputs /\ SmartStages)

LEMMA SmartCurrent ==
    ASSUME SmartInputs, CpIsPower, SmartLoop, NEW r \in Grid, InMbLoop(r)
    PROVE  CpGroup(r) = Block(r, LocalCpSize)
<1>1. PICK k \in Nat : \A q \in Grid : SmartPack(SmartPacks(q), k)
  BY SmartPacksAre
<1>2. packs[r] = SmartPacks(r)
  BY DEF SmartLoop
<1>3. PICK f : /\ packs[r] = [m \in 1 .. k |-> f[m]]
               /\ \A m \in 1 .. k : f[m].local_cp_size = LocalCpSize
  BY <1>1, <1>2 DEF SmartPack
<1>4. next[r] <= Len(packs[r]) /\ next[r] \in Nat \ {0} /\ Len(packs[r]) = k
  BY <1>3 DEF InMbLoop, SmartLoop
<1>5. next[r] \in 1 .. k
  BY <1>4
<1>. QED  BY <1>3, <1>5 DEF CpGroup, Current

\* All of a rank's group is where it is, with the same micro-batches.
LEMMA SmartTogether ==
    ASSUME SmartInputs, CpIsPower, SmartLoop, NEW r \in Grid, InMbLoop(r),
           NEW q \in Block(r, LocalCpSize)
    PROVE  /\ q \in Grid /\ next[q] = next[r] /\ packs[q] = packs[r] /\ InMbLoop(q)
           /\ CpGroup(q) = Block(r, LocalCpSize)
<1>1. q \in Grid /\ DpOf(q) = DpOf(r) /\ GroupIdx(q) = GroupIdx(r)
  BY LocalGroups
<1>2. next[q] = next[r] /\ at[q] = "forward"
  BY <1>1 DEF SmartLoop, GridAt
<1>3. packs[q] = packs[r]
  BY <1>1, SmartShares DEF SmartLoop
<1>4. InMbLoop(q)
  BY <1>2, <1>3 DEF InMbLoop
<1>5. CpGroup(q) = Block(q, LocalCpSize)
  BY <1>1, <1>4, SmartCurrent
<1>. QED  BY <1>1, <1>2, <1>3, <1>4, <1>5 DEF Block

LEMMA SmartMeets ==
    ASSUME SmartInputs, CpIsPower, SmartLoop, NEW r \in Grid, InMbLoop(r)
    PROVE  /\ \A q \in Grid : Len(packs[q]) = Len(packs[r])
           /\ \A q \in CpGroup(r) : next[q] = next[r] => Current(q) = Current(r)
           /\ \E q \in Grid : Leads(q)
<1>. DEFINE G == Block(r, LocalCpSize)
<1>1. PICK k \in Nat : \A q \in Grid : SmartPack(SmartPacks(q), k)
  BY SmartPacksAre
<1>2. ASSUME NEW q \in Grid PROVE Len(packs[q]) = k
  <2>1. PICK f : packs[q] = [m \in 1 .. k |-> f[m]]
    BY <1>1 DEF SmartPack, SmartLoop
  <2>. QED  BY <2>1
<1>3. CpGroup(r) = G
  BY SmartCurrent
<1>4. \A q \in G : /\ q \in Grid /\ next[q] = next[r] /\ packs[q] = packs[r] /\ InMbLoop(q)
                   /\ CpGroup(q) = G
  BY SmartTogether
<1>5. Min(G) \in G
  <2>1. G \subseteq Grid /\ r \in G
    BY DEF Block
  <2>2. G \in SUBSET Nat /\ G # {}
    BY <2>1, GridSizes
  <2>. QED  BY <2>2, Least
<1>. HIDE DEF G
<1>6. \A q \in G : Current(q) = Current(r)
  BY <1>4 DEF Current
<1>7. Meets(G)
  BY <1>4, <1>5, <1>6 DEF Meets, Packed
<1>8. Min(G) \in Grid /\ Leads(Min(G))
  BY <1>4, <1>5, <1>7 DEF Leads
<1>. QED  BY <1>2, <1>3, <1>6, <1>8

LEMMA SmartSteps ==
    ASSUME SmartInputs, CpIsPower, SmartLoop, NEW r \in Grid, TrainMicroBatch(r)
    PROVE  SmartLoop'
<1>. DEFINE G == Block(r, LocalCpSize)
<1>1. CpGroup(r) = G
  BY SmartCurrent DEF TrainMicroBatch, Leads
<1>2. next' = [q \in Grid |-> IF q \in G THEN next[q] + 1 ELSE next[q]]
  BY <1>1 DEF TrainMicroBatch, Advance
<1>3. /\ \A q \in Grid : next[q] \in Nat \ {0}
      /\ \A s \in Grid : \A q \in Block(s, LocalCpSize) : next[q] = next[s]
  BY DEF SmartLoop
<1>4. ASSUME NEW s \in Grid, NEW q \in Block(s, LocalCpSize) PROVE next'[q] = next'[s]
  <2>1. q \in Grid /\ q \div LocalCpSize = s \div LocalCpSize
    BY DEF Block
  <2>2. q \in G <=> s \in G
    BY <2>1 DEF Block
  <2>3. next[q] = next[s]
    BY <1>3
  <2>. HIDE DEF G
  <2>. QED  BY <1>2, <2>1, <2>2, <2>3
<1>5. \A q \in Grid : next'[q] \in Nat \ {0}
  <2>. HIDE DEF G
  <2>. QED  BY <1>2, <1>3
<1>6. UNCHANGED batchVars /\ packs' = packs /\ at' = at
  BY DEF TrainMicroBatch
<1>7. \A s : Block(s, LocalCpSize)' = Block(s, LocalCpSize)
  <2>1. LocalCpSize' = LocalCpSize
    BY <1>6, SmartKept
  <2>. QED  BY <2>1 DEF Block
<1>8. packs' = [q \in Grid |-> SmartPacks(q)'] /\ GridAt("forward")'
  BY <1>6, SmartKept DEF SmartLoop, GridAt
<1>. QED  BY <1>4, <1>5, <1>7, <1>8 DEF SmartLoop

LEMMA SmartStarts == CpInit => SmartInv
<1>. SUFFICES ASSUME CpInit, task = "smart_padding" PROVE SmartInputs /\ SmartStages
  BY DEF SmartInv
<1>1. /\ budget \in Budgets /\ \E n \in SmartCounts : offsets = OffsetsOf([d \in 1 .. Dp |-> n])
      /\ \E of_dp \in [Dps -> Originals] :
            seq_lens = [g \in Gids |-> of_dp[CHOOSE d \in Dps : g \in GidsOf(d)]]
  BY DEF CpInit, Inputs
<1>2. \A g \in Gids : \E d \in Dps : g \in GidsOf(d)
  <2>1. PICK n \in SmartCounts : offsets = Cumulative([d \in 1 .. Dp |-> n])
    BY <1>1 DEF OffsetsOf
  <2>2. n \in Nat \ {0} /\ Dp \in Nat \ {0}
    BY GridSizes, DynamicCpAssumption DEF DynamicCpAssumption
  <2>. DEFINE w == [d \in 1 .. Dp |-> n]
  <2>3. w \in [1 .. Dp -> Nat] /\ \A d \in 1 .. Dp : w[d] = n
    BY <2>2
  <2>. HIDE DEF w
  <2>4. \A d \in 0 .. Dp : offsets[d] = d * n
    BY <2>1, <2>2, <2>3, EvenlyCumulative DEF w
  <2>5. ASSUME NEW g \in Gids PROVE \E d \in Dps : g \in GidsOf(d)
    <3>1. g \in Nat /\ g < Dp * n
      <4>1. g \in 0 .. Dp * n - 1 /\ Dp * n \in Nat
        BY <2>2, <2>4 DEF Gids
      <4>. QED  BY <4>1
    <3>2. PICK d \in Nat, i \in 0 .. n - 1 : g = d * n + i
      <4>1. g \div n \in Nat /\ g % n \in 0 .. n - 1 /\ g = (g \div n) * n + (g % n)
        BY <2>2, <3>1, Euclid
      <4>. QED  BY <4>1
    <3>3. d < Dp
      <4>. SUFFICES ASSUME Dp <= d PROVE FALSE
        BY <2>2
      <4>1. Dp * n <= d * n /\ Dp * n \in Nat /\ d * n \in Nat
        BY <2>2, Products
      <4>. QED  BY <2>2, <3>1, <3>2, <4>1
    <3>4. (d + 1) * n = d * n + n /\ d * n \in Nat
      BY <2>2, Products
    <3>5. d \in Dps /\ d \in 0 .. Dp /\ d + 1 \in 0 .. Dp
      BY <2>2, <3>3 DEF Dps
    <3>6. PICK lo \in Nat : lo = d * n
      BY <3>4
    <3>7. offsets[d] = lo /\ offsets[d + 1] = lo + n
      BY <2>4, <3>4, <3>5, <3>6
    <3>8. g \in lo .. (lo + n) - 1
      BY <2>2, <3>2, <3>6
    <3>. QED  BY <3>5, <3>7, <3>8 DEF GidsOf
  <2>. QED  BY <2>5
<1>3. seq_lens \in [Gids -> Originals]
  BY <1>1, <1>2
<1>4. SmartStages
  BY DEF CpInit, CpStart, SmartStages, GridAt
<1>. QED  BY <1>1, <1>3, <1>4 DEF SmartInputs

LEMMA SmartKeeps == ASSUME CpIsPower PROVE SmartInv /\ [CpNext]_cpVars => SmartInv'
<1>. SUFFICES ASSUME SmartInv, [CpNext]_cpVars PROVE SmartInv'
  OBVIOUS
<1>1. UNCHANGED batchVars
  BY DEF CpNext, cpVars, Schedule, Reroute, SelectLocally, ReduceGradients, ReturnLogprobs,
         ComputeLogprobs, TrainMicroBatch
<1>2. CASE task # "smart_padding"
  BY <1>1, <1>2 DEF SmartInv, batchVars
<1>3. CASE task = "smart_padding"
  <2>1. SmartInputs /\ SmartStages /\ SmartInputs' /\ 0 \in Grid
    BY <1>1, <1>3, SmartKept, GridSizes DEF SmartInv, Grid
  <2>2. LocalCpSize' = LocalCpSize /\ \A r : SmartPacks(r)' = SmartPacks(r)
    BY <1>1, SmartKept
  <2>3. \A s : Block(s, LocalCpSize)' = Block(s, LocalCpSize)
    BY <2>2 DEF Block
  <2>4. SmartStages'
    <3>1. CASE SelectLocally
      <4>1. next' = [r \in Grid |-> 1]
        BY <2>1, <3>1 DEF SmartStages, SmartLoop, SelectLocally, GridAt
      <4>2. packs' = [r \in Grid |-> SmartPacks(r)'] /\ GridAt("forward")'
        BY <2>2, <3>1 DEF SelectLocally, GridGoto, GridAt
      <4>3. \A s \in Grid : \A q \in Block(s, LocalCpSize) : next'[q] = next'[s]
        BY <4>1 DEF Block
      <4>4. \A s \in Grid : next'[s] \in Nat \ {0}
        BY <4>1
      <4>. QED  BY <2>3, <4>2, <4>3, <4>4 DEF SmartStages, SmartLoop
    <3>2. CASE Schedule \/ ReturnLogprobs
      BY <1>3, <3>2 DEF Schedule, ReturnLogprobs
    <3>3. CASE Reroute
      BY <2>1, <3>3 DEF Reroute, SmartStages, SmartLoop, GridAt
    <3>4. CASE ReduceGradients
      BY <3>4 DEF ReduceGradients, GridGoto, GridAt, SmartStages
    <3>5. ASSUME NEW r \in Grid, ComputeLogprobs(r) \/ TrainMicroBatch(r) PROVE SmartStages'
      <4>1. TrainMicroBatch(r)
        BY <1>3, <3>5 DEF ComputeLogprobs
      <4>2. at[r] = "forward"
        BY <4>1 DEF TrainMicroBatch, Leads, InMbLoop
      <4>3. SmartLoop
        BY <2>1, <4>2 DEF SmartStages, GridAt
      <4>. QED  BY <2>1, <4>1, <4>3, SmartSteps DEF SmartStages
    <3>6. CASE UNCHANGED cpVars
      <4>1. at' = at /\ next' = next /\ packs' = packs
        BY <3>6 DEF cpVars
      <4>2. SmartLoop => SmartLoop'
        BY <2>2, <2>3, <4>1 DEF SmartLoop, GridAt
      <4>. QED  BY <2>1, <4>1, <4>2 DEF SmartStages, GridAt
    <3>. QED  BY <3>1, <3>2, <3>3, <3>4, <3>5, <3>6 DEF CpNext
  <2>. QED  BY <2>1, <2>4 DEF SmartInv
<1>. QED  BY <1>2, <1>3

LEMMA SmartInvMeets ==
    ASSUME CpIsPower PROVE SmartInv /\ task = "smart_padding" => RanksMeet
<1>. SUFFICES ASSUME SmartInv, task = "smart_padding" PROVE RanksMeet
  OBVIOUS
<1>1. SmartInputs /\ SmartStages /\ 0 \in Grid
  BY GridSizes DEF SmartInv, Grid
<1>2. ~ GridAt("reroute")
  BY <1>1 DEF SmartStages, SmartLoop, GridAt
<1>3. ASSUME NEW r \in Grid, InMbLoop(r)
      PROVE  /\ \A q \in Grid : Len(packs[q]) = Len(packs[r])
             /\ \A q \in CpGroup(r) : next[q] = next[r] => Current(q) = Current(r)
             /\ \E q \in Grid : Leads(q)
  <2>1. SmartLoop
    BY <1>1, <1>3 DEF SmartStages, GridAt, InMbLoop
  <2>. QED  BY <1>1, <1>3, <2>1, SmartMeets
<1>. QED  BY <1>2, <1>3 DEF RanksMeet

\* With either scheduler no rank is left waiting, if the context-parallel size is a
\* power of two: smart_padding's groups then divide those of a dp index.
THEOREM AllGroupsMeet == ASSUME CpIsPower PROVE CpSpec => []RanksMeet
<1>1. SmartInv /\ [CpNext]_cpVars => SmartInv'
  BY SmartKeeps
<1>2. SmartInv /\ CpInv => RanksMeet
  BY SmartInvMeets, InvMeets
<1>. QED  BY <1>1, <1>2, SmartStarts, CpInvHolds, PTL DEF CpSpec

LEMMA TheOtherSmart == ASSUME CpIsPower PROVE EitherSpec => [](TheOther \/ SmartInv)
<1>1. EitherInit => TheOther \/ SmartInv
  BY SmartStarts DEF EitherInit, DynamicUnused, TheOther
<1>2. (TheOther \/ SmartInv) /\ [EitherNext]_<<way, cpVars, vars>> => (TheOther \/ SmartInv)'
  <2>. SUFFICES ASSUME TheOther \/ SmartInv, [EitherNext]_<<way, cpVars, vars>>
                PROVE (TheOther \/ SmartInv)'
    OBVIOUS
  <2>1. way' = way /\ (UNCHANGED cpVars \/ (way = "dynamic_cp" /\ CpNext))
    BY DEF EitherNext
  <2>2. CASE TheOther
    <3>1. UNCHANGED cpVars
      BY <2>1, <2>2 DEF TheOther
    <3>. QED  BY <2>1, <2>2, <3>1 DEF TheOther, CpStart, cpVars, batchVars, planVars
  <2>3. CASE SmartInv
    BY <2>1, <2>3, SmartKeeps
  <2>. QED  BY <2>2, <2>3
<1>. QED  BY <1>1, <1>2, PTL DEF EitherSpec

\* The same where runs may also be balanced.
THEOREM EitherWayMeets == ASSUME CpIsPower PROVE EitherSpec => []RanksMeet
<1>1. TheOther => RanksMeet
  <2>. SUFFICES ASSUME TheOther PROVE RanksMeet
    OBVIOUS
  <2>1. task = "train" /\ (\A r \in Grid : at[r] = "schedule") /\ 0 \in Grid
    BY GridSizes DEF TheOther, CpStart, Grid
  <2>. QED  BY <2>1 DEF RanksMeet, GridAt, InMbLoop
<1>2. CpInv /\ SmartInv => RanksMeet
  BY SmartInvMeets, InvMeets
<1>3. EitherSpec => [](TheOther \/ SmartInv)
  BY TheOtherSmart
<1>. QED  BY <1>1, <1>2, <1>3, TheOtherHolds, PTL

----------------------------------------------------------------------------
\* Counting.

\* Sets without a common item hold together as many as the sum of their sizes.
Together(S, n) == UNION {S[i] : i \in 0 .. n - 1}
Apart(S, n) == \A i, j \in 0 .. n - 1 : i # j => S[i] \cap S[j] = {}

LEMMA SumCounts ==
    ASSUME NEW n \in Nat, NEW f \in [0 .. n - 1 -> Nat], NEW S, Apart(S, n),
           \A i \in 0 .. n - 1 : IsFiniteSet(S[i]) /\ Cardinality(S[i]) = f[i]
    PROVE  Sum(f) = Cardinality(Together(S, n))
<1>. DEFINE w == [i \in 1 .. n |-> f[i - 1]]
            c == Cumulative(w)
            Right(j) == IsFiniteSet(Together(S, j)) /\ Cardinality(Together(S, j)) = c[j]
            T == {j \in 0 .. n : ~ Right(j)}
<1>1. Cardinality(DOMAIN f) = n
  <2>1. DOMAIN f = 0 .. n - 1 /\ 0 \in Int /\ n - 1 \in Int
    OBVIOUS
  <2>2. Cardinality(0 .. n - 1) = IF 0 > n - 1 THEN 0 ELSE n - 1 - 0 + 1
    BY <2>1, FS_Interval
  <2>. QED  BY <2>1, <2>2
<1>2. w \in [1 .. n -> Nat]
  <2>1. \A i \in 1 .. n : i - 1 \in 0 .. n - 1
    OBVIOUS
  <2>. QED  BY <2>1
<1>3. \A i \in 1 .. n : w[i] = f[i - 1]
  OBVIOUS
<1>4. Sum(f) = Cumulative(w)[Len(w)]
  BY <1>1 DEF Sum, WholeOf
<1>. HIDE DEF w
<1>5. Len(w) = n /\ c[0] = 0 /\ \A j \in 1 .. n : c[j] = c[j - 1] + w[j]
  BY <1>2, CumulativeIs
<1>6. Sum(f) = c[n]
  BY <1>4, <1>5
<1>. HIDE DEF c
<1>7. T = {}
  <2>. SUFFICES ASSUME T # {} PROVE FALSE
    OBVIOUS
  <2>1. T \in SUBSET Nat
    OBVIOUS
  <2>. HIDE DEF T
  <2>2. PICK i \in T : \A k \in T : i <= k
    BY <2>1, Least
  <2>. USE DEF T
  <2>3. i \in 0 .. n /\ ~ Right(i)
    OBVIOUS
  <2>4. i # 0
    <3>1. Together(S, 0) = {}
      BY DEF Together
    <3>. QED  BY <1>5, <2>3, <3>1, FS_EmptySet
  <2>5. i \in 1 .. n /\ i - 1 \in 0 .. n /\ ~ (i <= i - 1) /\ i - 1 \in 0 .. n - 1
    BY <2>3, <2>4
  <2>6. Right(i - 1)
    BY <2>2, <2>5
  <2>. HIDE DEF T
  <2>7. Together(S, i) = Together(S, i - 1) \cup S[i - 1]
    <3>1. \A j : j \in 0 .. i - 1 <=> j \in 0 .. (i - 1) - 1 \/ j = i - 1
      BY <2>5
    <3>. QED  BY <3>1 DEF Together
  <2>8. Together(S, i - 1) \cap S[i - 1] = {}
    <3>1. \A j \in 0 .. (i - 1) - 1 : j \in 0 .. n - 1 /\ j # i - 1
      BY <2>5
    <3>. QED  BY <2>5, <3>1 DEF Together, Apart
  <2>9. IsFiniteSet(S[i - 1]) /\ Cardinality(S[i - 1]) = w[i]
    BY <1>3, <2>5
  <2>10. /\ IsFiniteSet(Together(S, i))
         /\ Cardinality(Together(S, i)) = Cardinality(Together(S, i - 1)) + w[i] - Cardinality({})
    <3>. DEFINE U == Together(S, i - 1)
                V == S[i - 1]
    <3>1. IsFiniteSet(U) /\ IsFiniteSet(V) /\ Cardinality(V) = w[i] /\ U \cap V = {}
      BY <2>6, <2>8, <2>9
    <3>2. Together(S, i) = U \cup V
      BY <2>7
    <3>. HIDE DEF U, V
    <3>3. /\ IsFiniteSet(U \cup V)
          /\ Cardinality(U \cup V) = Cardinality(U) + Cardinality(V) - Cardinality(U \cap V)
      BY <3>1, FS_Union
    <3>. QED  BY <3>1, <3>2, <3>3 DEF U
  <2>11. w[i] \in Nat /\ Cardinality(Together(S, i - 1)) \in Nat /\ Cardinality({}) = 0
    BY <1>2, <2>5, <2>6, FS_CardinalityType, FS_EmptySet
  <2>12. Cardinality(Together(S, i)) = c[i - 1] + w[i]
    BY <2>6, <2>10, <2>11
  <2>. QED  BY <1>5, <2>3, <2>5, <2>10, <2>12
<1>8. n \in 0 .. n
  OBVIOUS
<1>. QED  BY <1>6, <1>7, <1>8

\* As many as the places they stand at.
LEMMA ImageCounts ==
    ASSUME NEW K, IsFiniteSet(K), NEW f, f = [i \in K |-> f[i]],
           \A i, j \in K : f[i] = f[j] => i = j, NEW S, S = {f[i] : i \in K}
    PROVE  IsFiniteSet(S) /\ Cardinality(S) = Cardinality(K)
<1>1. f \in [K -> S] /\ \A x \in S : \E i \in K : f[i] = x
  OBVIOUS
<1>2. f \in Bijection(K, S)
  BY <1>1 DEF Bijection, Injection, Surjection, IsInjective
<1>3. ExistsBijection(K, S)
  BY <1>2 DEF ExistsBijection
<1>. QED  BY <1>3, FS_Bijection

\* Every number up to the whole falls into one item.
LEMMA ItemAt ==
    ASSUME NEW n \in Nat, NEW w \in [1 .. n -> Nat], NEW p \in 1 .. Cumulative(w)[n]
    PROVE  \E i \in 1 .. n : \E k \in 1 .. w[i] : p = Cumulative(w)[i - 1] + k
<1>. DEFINE f == Cumulative(w)
            T == {i \in 1 .. n : p <= f[i]}
<1>1. /\ f \in [0 .. n -> Nat] /\ f[0] = 0
      /\ \A k \in 1 .. n : f[k] = f[k - 1] + w[k] /\ w[k] \in Nat
  BY CumulativeIs
<1>2. p \in Nat /\ p >= 1 /\ p <= f[n]
  BY <1>1
<1>. HIDE DEF f
<1>3. n \in T
  BY <1>1, <1>2
<1>4. T \in SUBSET Nat
  OBVIOUS
<1>. HIDE DEF T
<1>5. PICK i \in T : \A m \in T : i <= m
  BY <1>3, <1>4, Least
<1>. USE DEF T
<1>6. i \in 1 .. n /\ p <= f[i] /\ i - 1 \in 0 .. n
  OBVIOUS
<1>7. f[i - 1] < p
  <2>1. f[i - 1] \in Nat
    BY <1>1, <1>6
  <2>2. CASE i = 1
    BY <1>1, <1>2, <2>2
  <2>3. CASE i # 1
    <3>1. i - 1 \in 1 .. n /\ ~ (i <= i - 1)
      BY <1>6, <2>3
    <3>2. ~ (p <= f[i - 1])
      BY <1>5, <3>1
    <3>. QED  BY <1>2, <2>1, <3>2
  <2>. QED  BY <2>2, <2>3
<1>8. f[i] = f[i - 1] + w[i] /\ w[i] \in Nat /\ f[i - 1] \in Nat
  BY <1>1, <1>6
<1>9. p - f[i - 1] \in 1 .. w[i] /\ p = f[i - 1] + (p - f[i - 1])
  BY <1>2, <1>6, <1>7, <1>8
<1>. QED  BY <1>6, <1>9 DEF f

----------------------------------------------------------------------------
\* What a packed sequence holds.

TokenSet(g) == {Token(g, k) : k \in 1 .. seq_lens[g]}

\* Each token of the samples S once, and padding.
Spells(T, S) ==
    /\ \A i, j \in DOMAIN T : T[i] = T[j] /\ T[i] # PadToken => i = j
    /\ \A x : (\E g \in S : x \in TokenSet(g)) <=> (x # PadToken /\ \E k \in DOMAIN T : x = T[k])

LEMMA PackSpells ==
    ASSUME LensKnown, \A g \in Gids : g \in Nat, NEW n \in Nat, NEW ids \in [1 .. n -> Gids],
           \A i, j \in 1 .. n : ids[i] = ids[j] => i = j,
           NEW t, t = FlattenSeq(TokenLists(ids))
    PROVE  Spells(t, {ids[i] : i \in 1 .. n})
<1>. DEFINE w == PaddedOf(ids)
            c == Cumulative(w)
<1>1. /\ TokenLists(ids) \in [1 .. n -> Seq(AllTokens)]
      /\ LensOf(TokenLists(ids), n) = w
  BY TokensOfLists
<1>2. \A i \in 1 .. n : /\ TokenLists(ids)[i] = Tokens(ids[i]) /\ ids[i] \in Gids
                        /\ w[i] = Padded(ids[i])
  BY DEF TokenLists, PaddedOf
<1>. HIDE DEF w, c
<1>3. w \in [1 .. n -> Nat] /\ Flattened(AllTokens, n, TokenLists(ids), c, t)
  <2>1. /\ LensOf(TokenLists(ids), n) \in [1 .. n -> Nat]
        /\ Flattened(AllTokens, n, TokenLists(ids), Cumulative(LensOf(TokenLists(ids), n)), t)
    BY <1>1, FlattenIs
  <2>. QED  BY <1>1, <2>1 DEF c
<1>4. /\ c \in [0 .. n -> Nat] /\ c[0] = 0
      /\ \A i \in 1 .. n : c[i] = c[i - 1] + w[i]
  BY <1>3, CumulativeIs DEF c
<1>5. /\ t \in Seq(AllTokens) /\ Len(t) = c[n] /\ DOMAIN t = 1 .. c[n]
      /\ \A i \in 1 .. n : \A k \in 1 .. w[i] : t[c[i - 1] + k] = Tokens(ids[i])[k]
  <2>1. t \in Seq(AllTokens) /\ Len(t) = c[n] /\ DOMAIN t = 1 .. c[n]
    BY <1>3 DEF Flattened
  <2>2. \A i \in 1 .. n : Len(TokenLists(ids)[i]) = w[i]
    BY <1>1, <1>2 DEF LensOf
  <2>3. \A i \in 1 .. n : \A k \in 1 .. Len(TokenLists(ids)[i]) :
           t[c[i - 1] + k] = TokenLists(ids)[i][k]
    BY <1>3 DEF Flattened
  <2>4. ASSUME NEW i \in 1 .. n, NEW k \in 1 .. w[i] PROVE t[c[i - 1] + k] = Tokens(ids[i])[k]
    BY <1>2, <2>2, <2>3
  <2>. QED  BY <2>1, <2>4
\* What stands at a position of a sample.
<1>6. ASSUME NEW i \in 1 .. n, NEW k \in 1 .. w[i]
      PROVE  /\ k \in 1 .. seq_lens[ids[i]] => t[c[i - 1] + k] = Token(ids[i], k)
             /\ k \notin 1 .. seq_lens[ids[i]] => t[c[i - 1] + k] = PadToken
  <2>1. PICK g \in Gids : g = ids[i]
    BY <1>2
  <2>2. Tokens(g) = [l \in 1 .. Padded(g) |-> IF l <= seq_lens[g] THEN Token(g, l) ELSE PadToken]
    BY DEF Tokens
  <2>3. w[i] = Padded(g) /\ t[c[i - 1] + k] = Tokens(g)[k]
    BY <1>2, <1>5, <2>1
  <2>4. t[c[i - 1] + k] = IF k <= seq_lens[g] THEN Token(g, k) ELSE PadToken
    BY <2>2, <2>3
  <2>5. seq_lens[g] \in Nat /\ w[i] \in Nat
    BY <2>1, <2>3, PaddingIs
  <2>6. k \in 1 .. seq_lens[g] <=> k <= seq_lens[g]
    BY <2>5
  <2>. QED  BY <2>1, <2>4, <2>6
<1>7. ASSUME NEW p \in DOMAIN t
      PROVE  \E i \in 1 .. n : \E k \in 1 .. w[i] : p = c[i - 1] + k
  <2>1. p \in 1 .. Cumulative(w)[n]
    BY <1>5 DEF c
  <2>. QED  BY <1>3, <2>1, ItemAt DEF c
<1>8. ASSUME NEW p \in DOMAIN t, NEW q \in DOMAIN t, t[p] = t[q], t[p] # PadToken
      PROVE  p = q
  <2>1. PICK i \in 1 .. n : \E k \in 1 .. w[i] : p = c[i - 1] + k
    BY <1>7
  <2>2. PICK j \in 1 .. n : \E l \in 1 .. w[j] : q = c[j - 1] + l
    BY <1>7
  <2>8. PICK k \in 1 .. w[i] : p = c[i - 1] + k
    BY <2>1
  <2>9. PICK l \in 1 .. w[j] : q = c[j - 1] + l
    BY <2>2
  <2>3. Token(ids[i], k) = Token(ids[j], l)
    BY <1>6, <1>8, <2>8, <2>9
  <2>4. ids[i] = ids[j] /\ k = l
    BY <2>3 DEF Token
  <2>5. i = j
    BY <2>4
  <2>. QED  BY <2>4, <2>5, <2>8, <2>9
<1>9. ASSUME NEW p \in DOMAIN t, t[p] # PadToken
      PROVE  \E i \in 1 .. n : t[p] \in TokenSet(ids[i])
  <2>1. PICK i \in 1 .. n : \E k \in 1 .. w[i] : p = c[i - 1] + k
    BY <1>7
  <2>2. PICK k \in 1 .. w[i] : p = c[i - 1] + k
    BY <2>1
  <2>3. k \in 1 .. seq_lens[ids[i]] /\ t[p] = Token(ids[i], k)
    BY <1>6, <1>9, <2>2
  <2>. QED  BY <2>3 DEF TokenSet
<1>10. ASSUME NEW i \in 1 .. n, NEW x \in TokenSet(ids[i])
       PROVE  x # PadToken /\ \E p \in DOMAIN t : x = t[p]
  <2>1. PICK k \in 1 .. seq_lens[ids[i]] : x = Token(ids[i], k)
    BY DEF TokenSet
  <2>2. x # PadToken
    <3>1. k # 0
      OBVIOUS
    <3>. QED  BY <2>1, <3>1 DEF Token, PadToken
  <2>3. k \in 1 .. w[i]
    <3>1. seq_lens[ids[i]] \in Nat /\ Padded(ids[i]) \in Nat /\ seq_lens[ids[i]] <= Padded(ids[i])
      BY <1>2, PaddingIs
    <3>. QED  BY <1>2, <3>1
  <2>4. c[i - 1] + k \in DOMAIN t
    <3>1. i \in 0 .. n /\ i - 1 \in 0 .. n /\ n \in 0 .. n /\ i <= n
      OBVIOUS
    <3>2. c[i] <= c[n]
      BY <1>3, <3>1, CumulativeGrows DEF c
    <3>3. c[i] \in Nat /\ c[i - 1] \in Nat /\ c[n] \in Nat /\ w[i] \in Nat
      BY <1>3, <1>4, <3>1
    <3>4. c[i] = c[i - 1] + w[i]
      BY <1>4
    <3>5. PICK a \in Nat, b \in Nat, l \in Nat : a = c[i - 1] /\ b = c[n] /\ l = w[i]
      BY <3>3
    <3>6. a + l <= b /\ k \in 1 .. l
      BY <2>3, <3>2, <3>4, <3>5
    <3>7. a + k \in 1 .. b
      BY <3>6
    <3>. QED  BY <1>5, <3>5, <3>7
  <2>5. x = t[c[i - 1] + k]
    BY <1>6, <2>1, <2>3
  <2>. QED  BY <2>2, <2>4, <2>5
<1>. QED  BY <1>8, <1>9, <1>10 DEF Spells

----------------------------------------------------------------------------
\* How the members of a group share its packed sequence.

GroupAt(r, m) == Block(r, packs[r][m].local_cp_size)
IdsAt(r, m) == Range(packs[r][m].ids)
BatchTokens == UNION {TokenSet(g) : g \in Gids}

\* The tokens in rank r's shard of its m-th micro-batch.
Piece(T, start, w) == {T[start + k] : k \in 1 .. w} \ {PadToken}
ShareOf(r, m) ==
    LET T == packs[r][m].tokens
        G == GroupAt(r, m)
    IN Piece(T, (r - Min(G)) * (Len(T) \div Cardinality(G)), Len(T) \div Cardinality(G))

\* A micro-batch whose group is the x ranks from lo on, with w positions for each.
Shape(r, m, lo, x, w) ==
    /\ lo \in Nat /\ x \in Nat \ {0} /\ w \in Nat
    /\ GroupAt(r, m) = lo .. lo + x - 1 /\ r \in GroupAt(r, m) /\ GroupAt(r, m) \subseteq Grid
    /\ packs[r][m].tokens \in Seq(AllTokens) /\ Len(packs[r][m].tokens) = x * w
Whole(r, m) ==
    /\ \E lo, x, w : Shape(r, m, lo, x, w)
    /\ \A q \in GroupAt(r, m) :
          /\ m \in DOMAIN packs[q] /\ packs[q][m].tokens = packs[r][m].tokens
          /\ GroupAt(q, m) = GroupAt(r, m)
    /\ Spells(packs[r][m].tokens, IdsAt(r, m)) /\ IdsAt(r, m) \subseteq Gids
NoneTwice ==
    \A r, q \in Grid : \A m \in DOMAIN packs[r], n \in DOMAIN packs[q] :
        (\E g \in Gids : g \in IdsAt(r, m) /\ g \in IdsAt(q, n)) =>
            m = n /\ GroupAt(r, m) = GroupAt(q, n)
NoneLeft == \A g \in Gids : \E r \in Grid : \E m \in DOMAIN packs[r] : g \in IdsAt(r, m)
Shared ==
    /\ \A r \in Grid : /\ Len(packs[r]) \in Nat /\ DOMAIN packs[r] = 1 .. Len(packs[r])
                       /\ \A m \in DOMAIN packs[r] : Whole(r, m)
    /\ NoneTwice /\ NoneLeft

LEMMA ShareIs ==
    ASSUME NEW r \in Grid, NEW m, NEW lo, NEW x, NEW w, Shape(r, m, lo, x, w)
    PROVE  /\ r - lo \in 0 .. x - 1 /\ Min(GroupAt(r, m)) = lo /\ Cardinality(GroupAt(r, m)) = x
           /\ Len(packs[r][m].tokens) \div x = w
           /\ ShareOf(r, m) = Piece(packs[r][m].tokens, (r - lo) * w, w)
           /\ (r - lo) * w \in Nat
           /\ \A k \in 1 .. w : (r - lo) * w + k \in DOMAIN packs[r][m].tokens
<1>. DEFINE T == packs[r][m].tokens
            G == GroupAt(r, m)
<1>1. /\ lo \in Nat /\ x \in Nat \ {0} /\ w \in Nat /\ G = lo .. lo + x - 1 /\ r \in G
      /\ T \in Seq(AllTokens) /\ Len(T) = x * w /\ DOMAIN T = 1 .. x * w
  BY DEF Shape
<1>2. r \in Nat /\ r - lo \in 0 .. x - 1
  BY <1>1, GridSizes
<1>3. Min(G) = lo
  <2>1. G \in SUBSET Nat /\ G # {} /\ lo \in G
    BY <1>1
  <2>2. Min(G) \in G /\ Min(G) <= lo
    BY <2>1, Least
  <2>. QED  BY <1>1, <2>2
<1>4. Cardinality(G) = x
  <2>1. Cardinality(lo .. lo + x - 1) = IF lo <= lo + x - 1 THEN (lo + x - 1) - lo + 1 ELSE 0
    <3>1. lo \in Int /\ lo + x - 1 \in Int
      BY <1>1
    <3>. QED  BY <3>1, FS_Interval
  <2>. QED  BY <1>1, <2>1
<1>5. Len(T) \div x = w
  <2>1. PICK l \in Nat : l = x * w
    BY <1>1, Products
  <2>2. 0 \in 0 .. x - 1 /\ l = w * x + 0
    BY <1>1, <2>1
  <2>3. l \div x = w
    BY <1>1, <2>2, EuclidUnique
  <2>. QED  BY <1>1, <2>1, <2>3
<1>6. ShareOf(r, m) = Piece(T, (r - lo) * w, w)
  BY <1>3, <1>4, <1>5 DEF ShareOf
<1>. HIDE DEF T, G
<1>7. PICK c \in Nat : c = r - lo /\ c + 1 <= x
  BY <1>1, <1>2
<1>8. c * w \in Nat /\ (c + 1) * w = c * w + w /\ (c + 1) * w <= x * w /\ x * w \in Nat
  BY <1>1, <1>7, Products
<1>9. PICK b \in Nat, e \in Nat : b = c * w /\ e = x * w
  BY <1>8
<1>10. \A k \in 1 .. w : b + k \in 1 .. e
  BY <1>1, <1>8, <1>9
<1>. QED  BY <1>1, <1>2, <1>3, <1>4, <1>5, <1>6, <1>7, <1>8, <1>9, <1>10 DEF T, G

\* A shard holds tokens of the samples of its micro-batch.
LEMMA ShareSpells ==
    ASSUME Shared, NEW r \in Grid, NEW m \in DOMAIN packs[r], NEW z \in ShareOf(r, m)
    PROVE  /\ \E g \in IdsAt(r, m) : g \in Gids /\ z \in TokenSet(g)
           /\ z \in BatchTokens /\ z # PadToken
<1>1. Whole(r, m)
  BY DEF Shared
<1>2. PICK lo, x, w : Shape(r, m, lo, x, w)
  BY <1>1 DEF Whole
<1>. DEFINE T == packs[r][m].tokens
<1>3. ShareOf(r, m) = Piece(T, (r - lo) * w, w) /\ \A k \in 1 .. w : (r - lo) * w + k \in DOMAIN T
  BY <1>2, ShareIs
<1>4. Spells(T, IdsAt(r, m)) /\ IdsAt(r, m) \subseteq Gids
  BY <1>1 DEF Whole
<1>. HIDE DEF T
<1>5. PICK k \in 1 .. w : z = T[(r - lo) * w + k] /\ z # PadToken
  BY <1>3 DEF Piece
<1>6. \E p \in DOMAIN T : z = T[p]
  BY <1>3, <1>5
<1>7. \E g \in IdsAt(r, m) : z \in TokenSet(g)
  BY <1>4, <1>5, <1>6 DEF Spells
<1>. QED  BY <1>4, <1>5, <1>7 DEF BatchTokens

\* No token is in two of them.
LEMMA SharesApart ==
    ASSUME Shared, NEW r \in Grid, NEW m \in DOMAIN packs[r],
           NEW q \in Grid, NEW n \in DOMAIN packs[q],
           NEW z \in ShareOf(r, m), z \in ShareOf(q, n)
    PROVE  r = q /\ m = n
<1>1. m = n /\ GroupAt(r, m) = GroupAt(q, n)
  <2>1. PICK g \in IdsAt(r, m) : g \in Gids /\ z \in TokenSet(g)
    BY ShareSpells
  <2>2. PICK h \in IdsAt(q, n) : h \in Gids /\ z \in TokenSet(h)
    BY ShareSpells
  <2>3. g = h
    BY <2>1, <2>2 DEF TokenSet, Token
  <2>. QED  BY <2>1, <2>2, <2>3 DEF Shared, NoneTwice
<1>2. Whole(r, m)
  BY DEF Shared
<1>3. PICK lo, x, w : Shape(r, m, lo, x, w)
  BY <1>2 DEF Whole
<1>. DEFINE T == packs[r][m].tokens
<1>4. q \in GroupAt(r, m) /\ packs[q][m].tokens = T
  <2>1. q \in GroupAt(q, n)
    BY DEF GroupAt, Block
  <2>. QED  BY <1>1, <1>2, <2>1 DEF Whole
<1>5. Shape(q, m, lo, x, w)
  BY <1>1, <1>3, <1>4 DEF Shape
<1>6. /\ ShareOf(r, m) = Piece(T, (r - lo) * w, w) /\ r - lo \in 0 .. x - 1
      /\ \A k \in 1 .. w : (r - lo) * w + k \in DOMAIN T
  BY <1>3, ShareIs
<1>7. /\ ShareOf(q, m) = Piece(T, (q - lo) * w, w) /\ q - lo \in 0 .. x - 1
      /\ \A k \in 1 .. w : (q - lo) * w + k \in DOMAIN T
  BY <1>4, <1>5, ShareIs
<1>8. Spells(T, IdsAt(r, m)) /\ w \in Nat /\ lo \in Nat /\ r \in Nat /\ q \in Nat /\ x \in Nat
  BY <1>2, <1>3, GridSizes DEF Whole, Shape
<1>. HIDE DEF T
<1>9. PICK k \in 1 .. w : z = T[(r - lo) * w + k] /\ z # PadToken
  BY <1>6 DEF Piece
<1>10. PICK l \in 1 .. w : z = T[(q - lo) * w + l]
  BY <1>1, <1>7 DEF Piece
<1>11. (r - lo) * w + k = (q - lo) * w + l
  BY <1>6, <1>7, <1>8, <1>9, <1>10 DEF Spells
<1>12. PICK c \in Nat, d \in Nat : c = r - lo /\ d = q - lo
  BY <1>6, <1>7, <1>8
<1>13. PICK y \in Nat : y = c * w + (k - 1)
  BY <1>8, <1>12, Products
<1>14. w \in Nat \ {0} /\ k - 1 \in 0 .. w - 1 /\ l - 1 \in 0 .. w - 1
  BY <1>8
<1>15. y = d * w + (l - 1)
  <2>1. PICK b \in Nat, e \in Nat : b = c * w /\ e = d * w
    BY <1>8, <1>12, Products
  <2>2. b + k = e + l
    BY <1>11, <1>12, <2>1
  <2>. QED  BY <1>8, <1>13, <2>1, <2>2
<1>16. y \div w = c /\ y \div w = d
  <2>1. PICK i \in 0 .. w - 1, j \in 0 .. w - 1 : i = k - 1 /\ j = l - 1
    BY <1>14
  <2>2. y = c * w + i /\ y = d * w + j
    BY <1>13, <1>15, <2>1
  <2>. QED  BY <1>14, <2>2, EuclidUnique
<1>. QED  BY <1>1, <1>8, <1>12, <1>16

\* Every token of the batch is in one.
LEMMA SharesCover ==
    ASSUME Shared, NEW z \in BatchTokens
    PROVE  \E r \in Grid : \E m \in DOMAIN packs[r] : z \in ShareOf(r, m)
<1>1. PICK g \in Gids : z \in TokenSet(g)
  BY DEF BatchTokens
<1>2. PICK r \in Grid : \E m \in DOMAIN packs[r] : g \in IdsAt(r, m)
  BY DEF Shared, NoneLeft
<1>3. PICK m \in DOMAIN packs[r] : g \in IdsAt(r, m)
  BY <1>2
<1>4. Whole(r, m)
  BY DEF Shared
<1>5. PICK lo, x, w : Shape(r, m, lo, x, w)
  BY <1>4 DEF Whole
<1>. DEFINE T == packs[r][m].tokens
<1>6. PICK p \in DOMAIN T : z = T[p] /\ z # PadToken
  BY <1>1, <1>3, <1>4 DEF Whole, Spells
<1>7. /\ lo \in Nat /\ x \in Nat \ {0} /\ w \in Nat /\ T \in Seq(AllTokens) /\ Len(T) = x * w
      /\ GroupAt(r, m) = lo .. lo + x - 1
  BY <1>5 DEF Shape
<1>. HIDE DEF T
<1>8. PICK e \in Nat : e = x * w
  BY <1>7, Products
<1>9. p \in 1 .. e
  BY <1>6, <1>7, <1>8
<1>10. w # 0
  <2>1. x * 0 = 0
    BY <1>7
  <2>. QED  BY <1>8, <1>9, <2>1
<1>11. PICK c \in Nat, y \in 0 .. w - 1 : p - 1 = c * w + y
  <2>1. p - 1 \in Nat /\ w \in Nat \ {0}
    BY <1>7, <1>9, <1>10
  <2>. QED  BY <2>1, Euclid
<1>12. c < x
  <2>. SUFFICES ASSUME x <= c PROVE FALSE
    BY <1>7
  <2>1. x * w <= c * w /\ c * w \in Nat
    BY <1>7, Products
  <2>. QED  BY <1>7, <1>8, <1>9, <1>11, <2>1
<1>13. PICK q \in Nat : q = lo + c
  BY <1>7
<1>14. q \in GroupAt(r, m) /\ q - lo = c
  BY <1>7, <1>12, <1>13
<1>15. /\ q \in Grid /\ m \in DOMAIN packs[q] /\ packs[q][m].tokens = T
       /\ GroupAt(q, m) = GroupAt(r, m)
  BY <1>4, <1>5, <1>14 DEF Whole, Shape, T
<1>16. Shape(q, m, lo, x, w)
  BY <1>5, <1>14, <1>15 DEF Shape, T
<1>17. ShareOf(q, m) = Piece(T, c * w, w)
  BY <1>14, <1>15, <1>16, ShareIs
<1>18. y + 1 \in 1 .. w /\ c * w + (y + 1) = p
  <2>1. PICK b \in Nat : b = c * w
    BY <1>7, Products
  <2>. QED  BY <1>7, <1>9, <1>11, <2>1
<1>19. z \in Piece(T, c * w, w)
  BY <1>6, <1>18 DEF Piece
<1>. QED  BY <1>15, <1>17, <1>19

----------------------------------------------------------------------------
\* A rank counts its shards.

LEMMA CountsShare ==
    ASSUME Shared, NEW r \in Grid, NEW m \in DOMAIN packs[r], next[r] = m
    PROVE  /\ IsFiniteSet(ShareOf(r, m))
           /\ LocalTokens(CpGroup(r), r) = Cardinality(ShareOf(r, m))
<1>1. Whole(r, m)
  BY DEF Shared
<1>2. PICK lo, x, w : Shape(r, m, lo, x, w)
  BY <1>1 DEF Whole
<1>3. PICK T : T = packs[r][m].tokens
  OBVIOUS
<1>4. PICK b \in Nat : b = (r - lo) * w
  BY <1>2, ShareIs
<1>5. /\ ShareOf(r, m) = Piece(T, b, w) /\ \A k \in 1 .. w : b + k \in DOMAIN T
      /\ Min(GroupAt(r, m)) = lo /\ Cardinality(GroupAt(r, m)) = x /\ Len(T) \div x = w
  BY <1>2, <1>3, <1>4, ShareIs
<1>6. T \in Seq(AllTokens) /\ w \in Nat /\ Spells(T, IdsAt(r, m))
  BY <1>1, <1>2, <1>3 DEF Shape, Whole
<1>7. b + w <= Len(T)
  <2>1. CASE w = 0
    <3>1. r - lo \in Nat /\ (r - lo) * 0 = 0
      <4>1. r - lo \in 0 .. x - 1
        BY <1>2, ShareIs
      <4>. QED  BY <1>2, <4>1 DEF Shape
    <3>. QED  BY <1>4, <1>6, <2>1, <3>1
  <2>2. CASE w # 0
    <3>1. w \in 1 .. w
      BY <1>6, <2>2
    <3>2. b + w \in DOMAIN T
      BY <1>5, <3>1
    <3>. QED  BY <1>6, <3>2
  <2>. QED  BY <2>1, <2>2
<1>8. CpGroup(r) = GroupAt(r, m) /\ Packed(r) = T
  BY <1>3 DEF CpGroup, GroupAt, Packed, Current
<1>9. Shard(CpGroup(r), r) = [k \in 1 .. w |-> T[b + k]]
  <2>1. Shard(CpGroup(r), r) = SubSeq(T, b + 1, b + w)
    BY <1>4, <1>5, <1>8 DEF Shard, ShardStart
  <2>. QED  BY <1>6, <1>7, <2>1, Stretch
<1>. DEFINE K == {k \in 1 .. w : T[b + k] # PadToken}
            f == [k \in K |-> T[b + k]]
<1>10. LocalTokens(CpGroup(r), r) = Cardinality(K)
  <2>1. PICK s : s = [k \in 1 .. w |-> T[b + k]]
    OBVIOUS
  <2>2. LocalTokens(CpGroup(r), r) = Cardinality({k \in DOMAIN s : s[k] # PadToken})
    BY <1>9, <2>1 DEF LocalTokens, MaskCounted, OwnShard
  <2>3. {k \in DOMAIN s : s[k] # PadToken} = K
    BY <2>1
  <2>. QED  BY <2>2, <2>3
<1>11. IsFiniteSet(K)
  <2>1. K \subseteq 1 .. w /\ 1 \in Int /\ w \in Int
    BY <1>6
  <2>2. IsFiniteSet(1 .. w)
    BY <2>1, FS_Interval
  <2>. QED  BY <2>1, <2>2, FS_Subset
<1>12. \A i, j \in K : f[i] = f[j] => i = j
  <2>. SUFFICES ASSUME NEW i \in K, NEW j \in K, f[i] = f[j] PROVE i = j
    OBVIOUS
  <2>1. T[b + i] = T[b + j] /\ T[b + i] # PadToken /\ b + i \in DOMAIN T /\ b + j \in DOMAIN T
    BY <1>5
  <2>2. b + i = b + j
    BY <1>6, <2>1 DEF Spells
  <2>. QED  BY <1>4, <1>6, <2>2
<1>13. Piece(T, b, w) = {f[k] : k \in K}
  BY DEF Piece
<1>14. f = [k \in K |-> f[k]]
  OBVIOUS
<1>. HIDE DEF K, f
<1>15. IsFiniteSet(Piece(T, b, w)) /\ Cardinality(Piece(T, b, w)) = Cardinality(K)
  BY <1>11, <1>12, <1>13, <1>14, ImageCounts
<1>. QED  BY <1>5, <1>10, <1>15

\* What a rank has in the shards before its n-th.
Taken(r, n) == UNION {ShareOf(r, m) : m \in {k \in DOMAIN packs[r] : k < n}}

LEMMA TakenGrows ==
    ASSUME Shared, NEW r \in Grid, NEW n \in DOMAIN packs[r], IsFiniteSet(Taken(r, n)),
           IsFiniteSet(ShareOf(r, n))
    PROVE  /\ IsFiniteSet(Taken(r, n + 1))
           /\ Cardinality(Taken(r, n + 1)) = Cardinality(Taken(r, n)) + Cardinality(ShareOf(r, n))
<1>1. DOMAIN packs[r] = 1 .. Len(packs[r]) /\ Len(packs[r]) \in Nat
  BY DEF Shared
<1>2. {k \in DOMAIN packs[r] : k < n + 1} = {k \in DOMAIN packs[r] : k < n} \cup {n}
  BY <1>1
<1>3. PICK U, V : U = Taken(r, n) /\ V = ShareOf(r, n)
  OBVIOUS
<1>4. Taken(r, n + 1) = U \cup V
  BY <1>2, <1>3 DEF Taken
<1>5. U \cap V = {}
  <2>. SUFFICES ASSUME NEW z, z \in U, z \in V PROVE FALSE
    OBVIOUS
  <2>1. PICK k \in DOMAIN packs[r] : k < n /\ z \in ShareOf(r, k)
    BY <1>3 DEF Taken
  <2>2. z \in ShareOf(r, n)
    BY <1>3
  <2>3. k = n
    BY <2>1, <2>2, SharesApart
  <2>. QED  BY <1>1, <2>1, <2>3
<1>6. IsFiniteSet(U) /\ IsFiniteSet(V)
  BY <1>3
<1>7. /\ IsFiniteSet(U \cup V)
      /\ Cardinality(U \cup V) = Cardinality(U) + Cardinality(V) - Cardinality(U \cap V)
  BY <1>6, FS_Union
<1>8. Cardinality(U \cap V) = 0 /\ Cardinality(U) \in Nat /\ Cardinality(V) \in Nat
  BY <1>5, <1>6, FS_EmptySet, FS_CardinalityType
<1>9. Cardinality(U \cup V) = Cardinality(U) + Cardinality(V)
  BY <1>7, <1>8
<1>. QED  BY <1>3, <1>4, <1>7, <1>9

\* The count of every rank so far.
Counted ==
    /\ token_count = [r \in Grid |-> Cardinality(Taken(r, next[r]))]
    /\ \A r \in Grid : IsFiniteSet(Taken(r, next[r]))
Started == next = [r \in Grid |-> 1] /\ token_count = [r \in Grid |-> 0]

LEMMA CountStarts ==
    ASSUME \A r \in Grid : DOMAIN packs'[r] \subseteq Nat \ {0}, Started'
    PROVE  Counted'
<1>1. ASSUME NEW r \in Grid PROVE Taken(r, next[r])' = {}
  <2>1. next'[r] = 1
    BY DEF Started
  <2>2. {k \in DOMAIN packs'[r] : k < 1} = {}
    OBVIOUS
  <2>3. {k \in DOMAIN packs'[r] : k < next'[r]} = {}
    BY <2>1, <2>2
  <2>. QED  BY <2>3 DEF Taken
<1>2. Cardinality({}) = 0 /\ IsFiniteSet({})
  BY FS_EmptySet
<1>3. ASSUME NEW r \in Grid
      PROVE  Cardinality(Taken(r, next[r])') = 0 /\ IsFiniteSet(Taken(r, next[r])')
  BY <1>1, <1>2
<1>4. token_count' = [r \in Grid |-> 0]
  BY DEF Started
<1>5. token_count' = [r \in Grid |-> Cardinality(Taken(r, next[r])')]
  BY <1>3, <1>4
<1>. QED  BY <1>3, <1>5 DEF Counted

LEMMA TrainCounts ==
    ASSUME Shared, Counted, \A q \in Grid : next[q] \in Nat \ {0},
           NEW r \in Grid, TrainMicroBatch(r)
    PROVE  Counted'
<1>. DEFINE G == CpGroup(r)
<1>1. /\ Meets(G) /\ next' = [q \in Grid |-> IF q \in G THEN next[q] + 1 ELSE next[q]]
      /\ token_count' = [q \in Grid |->
             IF q \in G THEN token_count[q] + LocalTokens(G, q) ELSE token_count[q]]
      /\ packs' = packs
  BY DEF TrainMicroBatch, Leads, Advance
<1>2. \A q \in G : InMbLoop(q) /\ CpGroup(q) = G
  BY <1>1 DEF Meets
<1>. HIDE DEF G
<1>3. \A q \in Grid : \A n : Taken(q, n)' = Taken(q, n)
  BY <1>1 DEF Taken, ShareOf, GroupAt
<1>4. ASSUME NEW q \in Grid
      PROVE  /\ Taken(q, next[q])' = Taken(q, next'[q])
             /\ token_count'[q] = Cardinality(Taken(q, next'[q]))
             /\ IsFiniteSet(Taken(q, next'[q]))
  <2>1. token_count[q] = Cardinality(Taken(q, next[q])) /\ IsFiniteSet(Taken(q, next[q]))
    BY DEF Counted
  <2>2. Taken(q, next[q])' = Taken(q, next'[q])
    BY <1>1 DEF Taken, ShareOf, GroupAt
  <2>3. CASE q \in G
    <3>1. next[q] \in DOMAIN packs[q]
      <4>1. next[q] <= Len(packs[q])
        BY <1>2, <2>3 DEF InMbLoop
      <4>2. DOMAIN packs[q] = 1 .. Len(packs[q]) /\ Len(packs[q]) \in Nat
        BY DEF Shared
      <4>. QED  BY <4>1, <4>2
    <3>2. PICK m : m = next[q]
      OBVIOUS
    <3>3. LocalTokens(G, q) = Cardinality(ShareOf(q, m)) /\ IsFiniteSet(ShareOf(q, m))
      BY <1>2, <2>3, <3>1, <3>2, CountsShare
    <3>4. /\ IsFiniteSet(Taken(q, m + 1))
          /\ Cardinality(Taken(q, m + 1)) = Cardinality(Taken(q, m)) + Cardinality(ShareOf(q, m))
      BY <2>1, <3>1, <3>2, <3>3, TakenGrows
    <3>5. next'[q] = m + 1 /\ token_count'[q] = token_count[q] + LocalTokens(G, q)
      BY <1>1, <2>3, <3>2
    <3>. QED  BY <2>1, <2>2, <3>2, <3>3, <3>4, <3>5
  <2>4. CASE q \notin G
    BY <1>1, <2>1, <2>2, <2>4
  <2>. QED  BY <2>3, <2>4
<1>5. token_count' = [q \in Grid |-> Cardinality(Taken(q, next[q])')]
  <2>1. token_count' = [q \in Grid |-> token_count'[q]]
    BY <1>1
  <2>2. \A q \in Grid : token_count'[q] = Cardinality(Taken(q, next[q])')
    BY <1>4
  <2>. QED  BY <2>1, <2>2
<1>6. \A q \in Grid : IsFiniteSet(Taken(q, next[q])')
  BY <1>4
<1>. QED  BY <1>5, <1>6 DEF Counted

\* When all ranks have gone through theirs, every token is counted once.
LEMMA AllCounted ==
    ASSUME Shared, Counted, \A q \in Grid : next[q] \in Nat \ {0}, AllPast, LensKnown,
           offsets[Dp] \in Nat
    PROVE  Sum(token_count) = Sum(seq_lens)
<1>1. Total \in Nat /\ Grid = 0 .. Total - 1
  BY GridSizes DEF Grid
<1>2. PICK S : S = [r \in Grid |-> Taken(r, next[r])]
  OBVIOUS
<1>3. \A r \in Grid : /\ S[r] = Taken(r, next[r]) /\ IsFiniteSet(S[r])
                      /\ token_count[r] = Cardinality(S[r])
  BY <1>2 DEF Counted
<1>4. \A r \in Grid : \A z : z \in S[r] <=> \E m \in DOMAIN packs[r] : z \in ShareOf(r, m)
  <2>. SUFFICES ASSUME NEW r \in Grid
                PROVE  Taken(r, next[r]) = UNION {ShareOf(r, m) : m \in DOMAIN packs[r]}
    BY <1>3
  <2>1. next[r] > Len(packs[r])
    BY DEF AllPast, PastLoop
  <2>2. DOMAIN packs[r] = 1 .. Len(packs[r]) /\ Len(packs[r]) \in Nat
    BY DEF Shared
  <2>3. {k \in DOMAIN packs[r] : k < next[r]} = DOMAIN packs[r]
    BY <2>1, <2>2
  <2>. QED  BY <2>3 DEF Taken
<1>5. Apart(S, Total)
  <2>. SUFFICES ASSUME NEW r \in Grid, NEW q \in Grid, r # q, NEW z, z \in S[r], z \in S[q]
                PROVE  FALSE
    BY <1>1 DEF Apart
  <2>1. PICK m \in DOMAIN packs[r] : z \in ShareOf(r, m)
    BY <1>4
  <2>2. PICK n \in DOMAIN packs[q] : z \in ShareOf(q, n)
    BY <1>4
  <2>. QED  BY <2>1, <2>2, SharesApart
<1>6. Together(S, Total) = BatchTokens
  <2>1. \A z : z \in Together(S, Total) <=> \E r \in Grid : z \in S[r]
    BY <1>1 DEF Together
  <2>2. ASSUME NEW z, NEW r \in Grid, z \in S[r] PROVE z \in BatchTokens
    <3>1. PICK m \in DOMAIN packs[r] : z \in ShareOf(r, m)
      BY <1>4, <2>2
    <3>. QED  BY <3>1, ShareSpells
  <2>3. ASSUME NEW z \in BatchTokens PROVE \E r \in Grid : z \in S[r]
    BY <1>4, SharesCover
  <2>. QED  BY <2>1, <2>2, <2>3
<1>7. Sum(token_count) = Cardinality(BatchTokens)
  <2>1. token_count \in [0 .. Total - 1 -> Nat]
    <3>1. token_count = [r \in Grid |-> token_count[r]]
      BY DEF Counted
    <3>2. \A r \in Grid : token_count[r] \in Nat
      BY <1>3, FS_CardinalityType
    <3>. QED  BY <1>1, <3>1, <3>2
  <2>2. \A i \in 0 .. Total - 1 : IsFiniteSet(S[i]) /\ Cardinality(S[i]) = token_count[i]
    BY <1>1, <1>3
  <2>. QED  BY <1>1, <1>5, <1>6, <2>1, <2>2, SumCounts
<1>8. PICK n \in Nat : n = offsets[Dp] /\ Gids = 0 .. n - 1
  BY DEF Gids
<1>9. PICK P : P = [g \in Gids |-> TokenSet(g)]
  OBVIOUS
<1>10. \A g \in Gids : P[g] = TokenSet(g)
  BY <1>9
<1>11. seq_lens \in [0 .. n - 1 -> Nat] /\ \A g \in Gids : seq_lens[g] \in Nat
  BY <1>8, GridSizes DEF LensKnown
<1>12. \A g \in Gids : IsFiniteSet(P[g]) /\ Cardinality(P[g]) = seq_lens[g]
  <2>. SUFFICES ASSUME NEW g \in Gids
                PROVE  IsFiniteSet(TokenSet(g)) /\ Cardinality(TokenSet(g)) = seq_lens[g]
    BY <1>10
  <2>1. PICK l \in Nat : l = seq_lens[g]
    BY <1>11
  <2>2. IsFiniteSet(1 .. l) /\ Cardinality(1 .. l) = l
    <3>1. 1 \in Int /\ l \in Int
      OBVIOUS
    <3>2. IsFiniteSet(1 .. l) /\ Cardinality(1 .. l) = IF 1 <= l THEN l - 1 + 1 ELSE 0
      BY ONLY <3>1, FS_Interval
    <3>. QED  BY <3>2
  <2>3. PICK f : f = [k \in 1 .. l |-> Token(g, k)]
    OBVIOUS
  <2>4. f = [k \in 1 .. l |-> f[k]] /\ TokenSet(g) = {f[k] : k \in 1 .. l}
    BY <2>1, <2>3 DEF TokenSet
  <2>5. \A i, j \in 1 .. l : f[i] = f[j] => i = j
    BY <2>3 DEF Token
  <2>6. IsFiniteSet(TokenSet(g)) /\ Cardinality(TokenSet(g)) = Cardinality(1 .. l)
    BY <2>2, <2>4, <2>5, ImageCounts
  <2>. QED  BY <2>1, <2>2, <2>6
<1>13. Apart(P, n)
  <2>. SUFFICES ASSUME NEW g \in Gids, NEW h \in Gids, g # h, NEW z, z \in P[g], z \in P[h]
                PROVE  FALSE
    BY <1>8 DEF Apart
  <2>. QED  BY <1>10 DEF TokenSet, Token
<1>14. Together(P, n) = BatchTokens
  BY <1>8, <1>10 DEF Together, BatchTokens
<1>15. Sum(seq_lens) = Cardinality(BatchTokens)
  BY <1>8, <1>11, <1>12, <1>13, <1>14, SumCounts
<1>. QED  BY <1>7, <1>15

\* No sample stands twice in a micro-batch.
LEMMA IdsDiffer ==
    ASSUME DefaultInputs, NEW a \in Assignments, NEW m \in 1 .. Number(a), NEW r \in Grid,
           NEW i \in 1 .. IdsCount(a, m, r), NEW j \in 1 .. IdsCount(a, m, r),
           IdsIn(a, m, r)[i] = IdsIn(a, m, r)[j]
    PROVE  i = j
<1>1. PICK M : M = Members(a, m, r)
  OBVIOUS
<1>2. PICK L : L = IdsIn(a, m, r)
  OBVIOUS
<1>3. PICK n \in Nat : n = Cardinality(M) /\ n = IdsCount(a, m, r)
  BY <1>1, IdsAre DEF IdsCount
<1>4. L \in [1 .. n -> M] /\ \A g \in M : \E k \in 1 .. n : L[k] = g
  <2>1. /\ IdsIn(a, m, r) \in [1 .. Cardinality(Members(a, m, r)) -> Members(a, m, r)]
        /\ \A g \in Members(a, m, r) :
              /\ Place(IdsIn(a, m, r), g) \in 1 .. Cardinality(Members(a, m, r))
              /\ IdsIn(a, m, r)[Place(IdsIn(a, m, r), g)] = g
    BY IdsAre
  <2>2. L \in [1 .. n -> M] /\ \A g \in M : Place(L, g) \in 1 .. n /\ L[Place(L, g)] = g
    BY <1>1, <1>2, <1>3, <2>1
  <2>. QED  BY <2>2
<1>5. L \in Surjection(1 .. n, M)
  BY <1>4 DEF Surjection
<1>6. IsFiniteSet(1 .. n) /\ Cardinality(1 .. n) = Cardinality(M)
  <2>1. 1 \in Int /\ n \in Int
    OBVIOUS
  <2>2. IsFiniteSet(1 .. n) /\ Cardinality(1 .. n) = IF 1 <= n THEN n - 1 + 1 ELSE 0
    BY <2>1, FS_Interval
  <2>. QED  BY <1>3, <2>2
<1>7. L \in Injection(1 .. n, M)
  BY <1>5, <1>6, FS_SurjSameCardinalityImpliesInj
<1>. QED  BY <1>2, <1>3, <1>7 DEF Injection, IsInjective

\* The micro-batches of a plan deal out the batch.
LEMMA PlanPackIs ==
    ASSUME DefaultInputs, NEW a, Underway(a), NEW r \in Grid
    PROVE  /\ Len(packs[r]) = Number(a) /\ DOMAIN packs[r] = 1 .. Number(a)
           /\ Number(a) \in Nat \ {0} /\ a \in Assignments
           /\ \A m \in 1 .. Number(a) :
                 /\ packs[r][m].tokens = PackTokens(a, m, r)
                 /\ GroupAt(r, m) = GroupIn(a, m, r)
                 /\ IdsAt(r, m) = Members(a, m, r)
<1>1. a \in Assignments /\ packs = [q \in Grid |-> PlanPacks(a, q)]
  BY DEF Underway, ByPlan
<1>2. Number(a) \in Nat \ {0} /\ Len(packs[r]) = Number(a)
  BY LoopIs
<1>3. packs[r] = PlanPacks(a, r)
  BY <1>1
<1>4. DOMAIN packs[r] = 1 .. Number(a)
  BY <1>3 DEF PlanPacks
<1>5. ASSUME NEW m \in 1 .. Number(a)
      PROVE  /\ packs[r][m].tokens = PackTokens(a, m, r)
             /\ GroupAt(r, m) = GroupIn(a, m, r)
             /\ IdsAt(r, m) = Members(a, m, r)
  <2>1. packs[r][m] = PackOf(IdsIn(a, m, r), Cardinality(GroupIn(a, m, r)))
    BY <1>3 DEF PlanPacks
  <2>2. /\ packs[r][m].tokens = PackTokens(a, m, r)
        /\ packs[r][m].local_cp_size = Cardinality(GroupIn(a, m, r))
        /\ packs[r][m].ids = IdsIn(a, m, r)
    BY <2>1 DEF PackOf, PackTokens
  <2>3. GroupIn(a, m, r) \in Blocks /\ r \in GroupIn(a, m, r)
    BY <1>1, GroupsAre
  <2>4. GroupAt(r, m) = GroupIn(a, m, r)
    BY <2>2, <2>3, BlocksAre DEF GroupAt
  <2>5. IdsAt(r, m) = Members(a, m, r)
    BY <1>1, <2>2, IdsAre DEF IdsAt
  <2>. QED  BY <2>2, <2>4, <2>5
<1>. QED  BY <1>1, <1>2, <1>4, <1>5

LEMMA PlanWhole ==
    ASSUME DefaultInputs, NEW a, Underway(a), NEW r \in Grid, NEW m \in 1 .. Number(a)
    PROVE  Whole(r, m)
<1>1. PICK G : G = GroupIn(a, m, r)
  OBVIOUS
<1>2. PICK t : t = PackTokens(a, m, r)
  OBVIOUS
<1>3. /\ a \in Assignments /\ packs[r][m].tokens = t /\ GroupAt(r, m) = G
      /\ IdsAt(r, m) = Members(a, m, r)
  BY <1>1, <1>2, PlanPackIs
<1>4. G \in Blocks /\ r \in G /\ Members(a, m, r) \subseteq Gids
  BY <1>1, <1>3, GroupsAre
<1>5. \E lo, x, w : Shape(r, m, lo, x, w)
  <2>1. PICK k : k = Cardinality(G)
    OBVIOUS
  <2>2. t \in Seq(AllTokens) /\ k \in Nat \ {0} /\ \E x \in Nat \ {0} : Len(t) = k * x
    BY <1>1, <1>2, <1>3, <2>1, PackDivides
  <2>3. PICK w \in Nat \ {0} : Len(t) = k * w
    BY <2>2
  <2>4. G \subseteq Grid /\ \E lo \in Nat : G = lo .. lo + k - 1
    BY <1>4, <2>1, BlocksAre
  <2>5. PICK lo \in Nat : G = lo .. lo + k - 1
    BY <2>4
  <2>6. Shape(r, m, lo, k, w)
    BY <1>3, <1>4, <2>2, <2>3, <2>4, <2>5 DEF Shape
  <2>. QED  BY <2>6
<1>6. ASSUME NEW q \in G
      PROVE  /\ m \in DOMAIN packs[q] /\ packs[q][m].tokens = t /\ GroupAt(q, m) = G
  <2>1. q \in Grid /\ Members(a, m, q) = Members(a, m, r) /\ GroupIn(a, m, q) = G
    BY <1>1, <1>3, GroupShares
  <2>2. PackTokens(a, m, q) = t
    BY <1>2, <2>1 DEF PackTokens, IdsIn
  <2>. QED  BY <2>1, <2>2, PlanPackIs
<1>7. Spells(t, Members(a, m, r))
  <2>1. PICK n \in Nat : n = IdsCount(a, m, r)
    BY <1>3, PackLists
  <2>2. PICK L : L = IdsIn(a, m, r)
    OBVIOUS
  <2>3. L \in [1 .. n -> Gids] /\ t = FlattenSeq(TokenLists(L))
    BY <1>2, <1>3, <2>1, <2>2, PackLists DEF PackTokens
  <2>4. \A i, j \in 1 .. n : L[i] = L[j] => i = j
    BY <1>3, <2>1, <2>2, IdsDiffer
  <2>5. {L[i] : i \in 1 .. n} = Members(a, m, r)
    <3>1. Range(L) = Members(a, m, r)
      BY <1>3, <2>2, IdsAre
    <3>. QED  BY <2>3, <3>1 DEF Range
  <2>6. LensKnown /\ \A g \in Gids : g \in Nat
    BY DefaultKnown, OwnersAre
  <2>7. Spells(t, {L[i] : i \in 1 .. n})
    BY <2>3, <2>4, <2>6, PackSpells
  <2>. QED  BY <2>5, <2>7
<1>. QED  BY <1>3, <1>4, <1>5, <1>6, <1>7 DEF Whole

LEMMA PlanShares ==
    ASSUME DefaultInputs, NEW a, Underway(a)
    PROVE  Shared
<1>1. ASSUME NEW r \in Grid
      PROVE  /\ Len(packs[r]) \in Nat /\ DOMAIN packs[r] = 1 .. Len(packs[r])
             /\ \A m \in DOMAIN packs[r] : Whole(r, m)
  <2>1. Len(packs[r]) = Number(a) /\ DOMAIN packs[r] = 1 .. Number(a) /\ Number(a) \in Nat
    BY PlanPackIs
  <2>. QED  BY <2>1, PlanWhole
<1>2. a \in Assignments
  BY DEF Underway, ByPlan
<1>3. NoneTwice
  <2>. SUFFICES ASSUME NEW r \in Grid, NEW q \in Grid,
                       NEW m \in DOMAIN packs[r], NEW n \in DOMAIN packs[q],
                       NEW g \in Gids, g \in IdsAt(r, m), g \in IdsAt(q, n)
                PROVE  m = n /\ GroupAt(r, m) = GroupAt(q, n)
    BY DEF NoneTwice
  <2>1. m \in 1 .. Number(a) /\ GroupAt(r, m) = GroupIn(a, m, r) /\ g \in Members(a, m, r)
    BY PlanPackIs
  <2>2. n \in 1 .. Number(a) /\ GroupAt(q, n) = GroupIn(a, n, q) /\ g \in Members(a, n, q)
    BY PlanPackIs
  <2>3. a[g][2] = GroupIn(a, m, r)
    BY <1>2, <2>1, GroupsAre
  <2>4. a[g][2] = GroupIn(a, n, q)
    BY <1>2, <2>2, GroupsAre
  <2>5. a[g][1] = m /\ a[g][1] = n
    BY <2>1, <2>2 DEF Members
  <2>. QED  BY <2>1, <2>2, <2>3, <2>4, <2>5
<1>4. NoneLeft
  <2>. SUFFICES ASSUME NEW g \in Gids
                PROVE  \E r \in Grid : \E m \in DOMAIN packs[r] : g \in IdsAt(r, m)
    BY DEF NoneLeft
  <2>1. DOMAIN a = Gids /\ a[g][1] \in 1 .. Number(a) /\ a[g][2] \in Blocks
    BY <1>2, AssignmentIs
  <2>2. PICK m \in 1 .. Number(a) : a[g][1] = m
    BY <2>1
  <2>3. PICK r \in Grid : r \in a[g][2]
    <3>1. Max(a[g][2]) \in a[g][2] /\ a[g][2] \subseteq Grid
      BY <2>1, LastOfBlock, BlocksAre
    <3>. QED  BY <3>1
  <2>4. g \in Members(a, m, r)
    BY <2>1, <2>2, <2>3 DEF Members
  <2>5. m \in DOMAIN packs[r] /\ g \in IdsAt(r, m)
    BY <2>4, PlanPackIs
  <2>. QED  BY <2>5
<1>. QED  BY <1>1, <1>3, <1>4 DEF Shared

\* An even split has all of what it splits.
LEMMA EvenSplitIs ==
    ASSUME NEW n \in Nat, NEW k \in Nat \ {0}
    PROVE  EvenSplit(n, k) \in [1 .. k -> Nat] /\ Cumulative(EvenSplit(n, k))[k] = n
<1>. DEFINE w == EvenSplit(n, k)
            f == Cumulative(w)
<1>1. PICK q \in Nat, e \in 0 .. k - 1 : q = n \div k /\ e = n % k /\ n = q * k + e
  BY Euclid
<1>2. \A i \in 1 .. k : w[i] = q + IF i <= e THEN 1 ELSE 0
  BY <1>1 DEF EvenSplit, SizeOf
<1>3. w \in [1 .. k -> Nat]
  <2>1. w = [i \in 1 .. k |-> w[i]]
    BY DEF EvenSplit
  <2>2. \A i \in 1 .. k : w[i] \in Nat
    BY <1>2
  <2>. QED  BY <2>1, <2>2
<1>. HIDE DEF w
<1>4. /\ f \in [0 .. k -> Nat] /\ f[0] = 0
      /\ \A j \in 1 .. k : f[j] = f[j - 1] + w[j]
  BY <1>3, CumulativeIs
<1>. HIDE DEF f
<1>. DEFINE Extra(j) == IF j <= e THEN j ELSE e
            T == {j \in 0 .. k : f[j] # j * q + Extra(j)}
<1>5. T = {}
  <2>. SUFFICES ASSUME T # {} PROVE FALSE
    OBVIOUS
  <2>1. T \in SUBSET Nat
    OBVIOUS
  <2>. HIDE DEF T
  <2>2. PICK j \in T : \A m \in T : j <= m
    BY <2>1, Least
  <2>. USE DEF T
  <2>3. j \in 0 .. k /\ f[j] # j * q + Extra(j)
    OBVIOUS
  <2>4. j # 0
    <3>1. 0 * q = 0 /\ Extra(0) = 0
      BY <1>1
    <3>. QED  BY <1>4, <2>3, <3>1
  <2>5. PICK i \in Nat : j = i + 1 /\ i \in 0 .. k /\ i < j
    <3>1. j - 1 \in Nat /\ j = (j - 1) + 1 /\ j - 1 \in 0 .. k /\ j - 1 < j
      BY <2>3, <2>4
    <3>. QED  BY <3>1
  <2>6. i \notin T
    BY <2>2, <2>5
  <2>7. f[i] = i * q + Extra(i)
    BY <2>5, <2>6
  <2>8. j \in 1 .. k /\ j - 1 = i
    BY <2>3, <2>5
  <2>9. f[j] = f[i] + w[j] /\ w[j] = q + IF j <= e THEN 1 ELSE 0
    BY <1>2, <1>4, <2>8
  <2>10. j * q = i * q + q /\ i * q \in Nat /\ j * q \in Nat
    BY <2>5, Products
  <2>11. PICK a \in Nat, b \in Nat : a = i * q /\ b = j * q
    BY <2>10
  <2>12. f[j] = a + q + Extra(i) + (IF j <= e THEN 1 ELSE 0) /\ b = a + q
    <3>1. Extra(i) \in Nat
      BY <1>1, <2>5
    <3>. QED  BY <2>7, <2>9, <2>10, <2>11, <3>1
  <2>13. Extra(i) + (IF j <= e THEN 1 ELSE 0) = Extra(j)
    <3>1. e \in Nat /\ j = i + 1 /\ i \in Nat
      BY <1>1, <2>5
    <3>2. CASE j <= e
      BY <3>1, <3>2
    <3>3. CASE ~ (j <= e)
      <4>1. Extra(i) = e
        BY <3>1, <3>3
      <4>. QED  BY <3>1, <3>3, <4>1
    <3>. QED  BY <3>2, <3>3
  <2>14. f[j] = b + Extra(j)
    <3>1. Extra(i) \in Nat /\ Extra(j) \in Nat
      BY <1>1, <2>5
    <3>. HIDE DEF Extra
    <3>. QED  BY <2>12, <2>13, <3>1
  <2>. QED  BY <2>3, <2>11, <2>14
<1>6. f[k] = k * q + e
  <2>1. k \in 0 .. k /\ Extra(k) = e
    BY <1>1
  <2>. QED  BY <1>5, <2>1
<1>7. k * q = q * k
  OBVIOUS
<1>. QED  BY <1>1, <1>3, <1>6, <1>7 DEF f, w

----------------------------------------------------------------------------
\* The n numbers from b on, such as the gids of a dp index, of a rank's part of
\* them or of a micro-batch.
RunOf(b, n) == [k \in 1 .. n |-> b + k - 1]

LEMMA RunIs ==
    ASSUME NEW b \in Nat, NEW n \in Nat
    PROVE  RunOf(b, n) \in Seq(Nat) /\ RunOf(b, n) \in [1 .. n -> Nat] /\ Len(RunOf(b, n)) = n
<1>1. PICK r : r = RunOf(b, n)
  OBVIOUS
<1>2. r = [k \in 1 .. n |-> b + k - 1]
  BY <1>1 DEF RunOf
<1>3. \A i \in 1 .. n : b + i - 1 \in Nat
  OBVIOUS
<1>4. r \in [1 .. n -> Nat]
  BY <1>2, <1>3
<1>5. r \in Seq(Nat) /\ Len(r) = n
  BY <1>4
<1>. QED  BY <1>1, <1>4, <1>5

RunInRun(b, n, a, m) == SubSeq(RunOf(b, n), a + 1, a + m) = RunOf(b + a, m)

LEMMA RunOfRun ==
    ASSUME NEW n \in Nat, NEW b \in Nat, NEW a \in Nat, NEW m \in Nat, a + m <= n
    PROVE  RunInRun(b, n, a, m)
<1>1. PICK r : r = RunOf(b, n)
  OBVIOUS
<1>2. r \in Seq(Nat) /\ Len(r) = n
  BY <1>1, RunIs
<1>3. SubSeq(r, a + 1, a + m) = [k \in 1 .. m |-> r[a + k]]
  BY <1>2, Stretch
<1>4. \A k \in 1 .. m : r[a + k] = (b + a) + k - 1
  <2>1. \A k \in 1 .. m : a + k \in 1 .. n
    OBVIOUS
  <2>. QED  BY <1>1, <2>1 DEF RunOf
<1>5. [k \in 1 .. m |-> r[a + k]] = [k \in 1 .. m |-> (b + a) + k - 1]
  BY <1>4
<1>. QED  BY <1>1, <1>3, <1>5 DEF RunOf, RunInRun

\* A run of M samples cut into K runs of s[m] each.
CutsUp(s, K, M) == M \in Nat /\ K \in Nat /\ s \in [1 .. K -> Nat] /\ Cumulative(s)[K] = M
CutIsRun(b, M, s, m) == Cut(RunOf(b, M), s, m) = RunOf(b + Cumulative(s)[m - 1], s[m])
LEMMA CutOfRun ==
    ASSUME NEW M, NEW K, NEW s, CutsUp(s, K, M), NEW b \in Nat, NEW m \in 1 .. K
    PROVE  CutIsRun(b, M, s, m)
<1>. M \in Nat /\ K \in Nat /\ s \in [1 .. K -> Nat] /\ Cumulative(s)[K] = M
  BY DEF CutsUp
<1>1. PICK c : c = Cumulative(s)
  OBVIOUS
<1>2. c \in [0 .. K -> Nat] /\ c[m] = c[m - 1] + s[m] /\ c[K] = M
  BY <1>1, CumulativeIs
<1>3. m \in 0 .. K /\ m - 1 \in 0 .. K /\ K \in 0 .. K /\ m <= K
  OBVIOUS
<1>4. c[m] <= c[K]
  BY <1>1, <1>3, CumulativeGrows
<1>5. PICK a \in Nat, l \in Nat : a = c[m - 1] /\ l = s[m]
  BY <1>2, <1>3
<1>6. c[m] = a + l /\ a + l <= M
  BY <1>2, <1>3, <1>4, <1>5
<1>7. SubSeq(RunOf(b, M), a + 1, a + l) = RunOf(b + a, l)
  <2>1. RunInRun(b, M, a, l)
    BY <1>6, RunOfRun
  <2>. QED  BY <2>1 DEF RunInRun
<1>8. Cut(RunOf(b, M), s, m) = SubSeq(RunOf(b, M), a + 1, a + l)
  BY <1>1, <1>5, <1>6 DEF Cut
<1>. QED  BY <1>1, <1>5, <1>7, <1>8 DEF CutIsRun

----------------------------------------------------------------------------
\* The slices of smart_padding: W groups with M samples each, in K micro-batches
\* of as many samples as s says.

Slices(M, K, s, L, W) ==
    /\ M \in Nat \ {0} /\ K \in Nat /\ s \in [1 .. K -> Nat] /\ Cumulative(s)[K] = M
    /\ L \in Nat \ {0} /\ L = LocalCpSize /\ L \in GroupSizes
    /\ W \in Nat \ {0} /\ Total = W * L /\ offsets[Dp] = W * M
SliceIds(M, s, z, m) == RunOf(z * M + Cumulative(s)[m - 1], s[m])
SlicePacks(M, K, s, L, r) == [m \in 1 .. K |-> PackOf(SliceIds(M, s, r \div L, m), L)]

\* What the scheduler makes are such slices.
LEMMA SmartSliced ==
    ASSUME SmartInputs, CpIsPower
    PROVE  \E M, K, s, L, W :
              /\ Slices(M, K, s, L, W)
              /\ \A r \in Grid :
                    SmartPacks(r) = SlicePacks(M, K, s, L, r)
<1>1. PICK n \in Nat \ {0} : /\ n % Cp = 0 /\ \A d \in Dps : Cardinality(GidsOf(d)) = n
                             /\ \A d \in 0 .. Dp : offsets[d] = d * n
  BY SmartOffsets
<1>2. PICK L \in Nat \ {0}, h \in Nat \ {0} : L = LocalCpSize /\ Cp = h * L /\ L \in GroupSizes
  <2>1. LocalCpSize \in GroupSizes /\ LocalCpSize \in Nat \ {0}
    BY LocalIs
  <2>2. PICK h \in Nat \ {0} : Cp = h * LocalCpSize
    BY LocalIs
  <2>. QED  BY <2>1, <2>2
<1>3. PICK M \in Nat \ {0} : M = n \div h /\ n = M * h /\ n = h * M /\ Cp \div L = h
  BY <1>1, <1>2, SmartParts
<1>4. PICK packed \in Nat \ {0} : packed = Min({NumPacked, M})
  <2>1. {NumPacked, M} \in SUBSET Nat /\ {NumPacked, M} # {}
    BY <1>3, LocalIs
  <2>2. Min({NumPacked, M}) \in {NumPacked, M}
    BY <2>1, Least
  <2>. QED  BY <2>2, LocalIs
<1>5. PICK K \in Nat \ {0} : K = (M + packed - 1) \div packed
  <2>1. PICK y \in Nat : y = M + packed - 1 /\ y >= packed
    OBVIOUS
  <2>2. y \div packed \in Nat /\ y % packed \in 0 .. packed - 1
        /\ y = (y \div packed) * packed + (y % packed)
    BY Euclid
  <2>3. PICK k \in Nat : k = y \div packed
    BY <2>2
  <2>4. k # 0
    <3>1. 0 * packed = 0
      OBVIOUS
    <3>. QED  BY <2>1, <2>2, <2>3, <3>1
  <2>. QED  BY <2>1, <2>3, <2>4
<1>6. PICK s \in [1 .. K -> Nat] : s = EvenSplit(M, K) /\ Cumulative(s)[K] = M
  BY EvenSplitIs
<1>7. PICK W \in Nat \ {0} : Total = W * L /\ offsets[Dp] = W * M
  <2>1. Dp * (h * L) = (Dp * h) * L /\ Dp * (h * M) = (Dp * h) * M /\ Dp * h \in Nat \ {0}
    BY GridSizes
  <2>2. Total = Dp * (h * L)
    BY <1>2 DEF Total
  <2>3. offsets[Dp] = Dp * (h * M)
    <3>1. Dp \in 0 .. Dp
      BY GridSizes
    <3>. QED  BY <1>1, <1>3, <3>1
  <2>. QED  BY <2>1, <2>2, <2>3
<1>8. Slices(M, K, s, L, W)
  BY <1>2, <1>6, <1>7 DEF Slices
<1>9. ASSUME NEW r \in Grid
      PROVE  SmartPacks(r) = SlicePacks(M, K, s, L, r)
  <2>. DEFINE all == [i \in 1 .. Cardinality(GidsOf(DpOf(r))) |-> offsets[DpOf(r)] + i - 1]
              parts == Len(all) \div (Cp \div LocalCpSize)
              mine == SubSeq(all, GroupIdx(r) * parts + 1, (GroupIdx(r) + 1) * parts)
              each == Min({NumPacked, parts})
              sizes == EvenSplit(parts, (parts + each - 1) \div each)
              ids(m) == Cut(mine, sizes, m)
              body(m) == Pack(ids(m), [i \in DOMAIN ids(m) |-> Sample(ids(m)[i])], LocalCpSize)
  <2>1. SmartPacks(r) = [m \in DOMAIN sizes |-> body(m)]
    BY DEF SmartPacks
  <2>2. PICK d \in Nat : d = DpOf(r) /\ d \in 0 .. Dp /\ d \in Dps
    <3>1. DpOf(r) \in Dps /\ DpOf(r) \in Nat /\ DpOf(r) + 1 \in 1 .. Dp /\ Dp \in Nat
      BY GridPlaces, GridSizes
    <3>2. DpOf(r) \in 0 .. Dp
      BY <3>1
    <3>. QED  BY <3>1, <3>2
  <2>3. PICK o \in Nat : o = d * n /\ o = offsets[DpOf(r)]
    <3>1. PICK y \in Nat : y = d * n
      BY Products
    <3>2. offsets[d] = d * n
      BY <1>1, <2>2
    <3>. QED  BY <2>2, <3>1, <3>2
  <2>4. all = RunOf(o, n)
    BY <1>1, <2>2, <2>3 DEF RunOf
  <2>. HIDE DEF all
  <2>5. Len(all) = n
    BY <2>4, RunIs
  <2>6. parts = M
    BY <1>2, <1>3, <2>5
  <2>7. PICK x \in 0 .. h - 1 : x = GroupIdx(r) /\ r \div L = d * h + x
    BY <1>2, <2>2, GroupPlace
  <2>8. mine = RunOf(o + x * M, M)
    <3>1. x \in Nat /\ x + 1 <= h /\ M \in Nat /\ n \in Nat
      OBVIOUS
    <3>2. (x + 1) * M <= n /\ (x + 1) * M = x * M + M
      BY <1>3, <3>1, Products
    <3>3. PICK y \in Nat : y = x * M /\ (x + 1) * M = y + M /\ y + M <= n
      BY <3>1, <3>2, Products
    <3>4. SubSeq(RunOf(o, n), y + 1, y + M) = RunOf(o + y, M)
      <4>1. RunInRun(o, n, y, M)
        BY <3>1, <3>3, RunOfRun
      <4>. QED  BY <4>1 DEF RunInRun
    <3>. QED  BY <2>4, <2>6, <2>7, <3>3, <3>4
  <2>9. sizes = s
    BY <1>4, <1>5, <1>6, <2>6
  <2>10. PICK z \in Nat, b \in Nat : z = r \div L /\ b = z * M /\ b = o + x * M
    <3>1. PICK t \in Nat : t = d * h
      BY Products
    <3>2. (t + x) * M = t * M + x * M /\ t * M \in Nat /\ x * M \in Nat /\ (t + x) * M \in Nat
      BY Products
    <3>3. t * M = o
      <4>1. d * (h * M) = (d * h) * M
        BY GridSizes
      <4>. QED  BY <1>3, <2>3, <3>1, <4>1
    <3>4. PICK z \in Nat, b \in Nat : z = t + x /\ b = z * M
      BY <3>1, <3>2
    <3>5. z = r \div L
      BY <2>7, <3>1, <3>4
    <3>6. b = o + x * M
      BY <3>2, <3>3, <3>4
    <3>. QED  BY <3>4, <3>5, <3>6
  <2>. HIDE DEF mine, sizes
  <2>11. mine = RunOf(b, M)
    BY <2>8, <2>10
  <2>12. ASSUME NEW m \in 1 .. K PROVE ids(m) = SliceIds(M, s, z, m)
    <3>1. Cut(RunOf(b, M), s, m) = RunOf(b + Cumulative(s)[m - 1], s[m])
      <4>1. CutsUp(s, K, M) /\ b \in Nat
        BY <1>6 DEF CutsUp
      <4>2. CutIsRun(b, M, s, m)
        BY ONLY <4>1, m \in 1 .. K, CutOfRun
      <4>. QED  BY <4>2 DEF CutIsRun
    <3>. QED  BY <2>9, <2>10, <2>11, <3>1 DEF SliceIds
  <2>13. \A m : body(m) = PackOf(ids(m), L)
    <3>. SUFFICES ASSUME NEW m PROVE body(m) = PackOf(ids(m), L)
      OBVIOUS
    <3>. HIDE DEF ids
    <3>1. PICK y, S : y = ids(m) /\ S = [i \in DOMAIN y |-> Sample(y[i])]
      OBVIOUS
    <3>2. Pack(y, S, L) = PackOf(y, L)
      BY <3>1, PackIs
    <3>. QED  BY <1>2, <3>1, <3>2
  <2>14. DOMAIN sizes = 1 .. K
    BY <2>9
  <2>. HIDE DEF body, ids
  <2>15. SmartPacks(r) = [m \in 1 .. K |-> body(m)]
    BY <2>1, <2>14
  <2>16. \A m \in 1 .. K : body(m) = PackOf(SliceIds(M, s, z, m), L)
    BY <2>12, <2>13
  <2>. QED  BY <2>10, <2>15, <2>16 DEF SlicePacks
<1>. QED  BY <1>8, <1>9

Sliced(M, K, s, L, W) ==
    Slices(M, K, s, L, W) /\ \A r \in Grid : packs[r] = SlicePacks(M, K, s, L, r)

LEMMA SliceOf ==
    ASSUME NEW M, NEW K, NEW s, NEW L, NEW W, Slices(M, K, s, L, W), NEW r \in Grid
    PROVE  r \div L \in Nat /\ r \div L < W
<1>1. L \in Nat \ {0} /\ W \in Nat /\ Total = W * L /\ r \in Nat
  BY GridSizes DEF Slices
<1>2. PICK z \in Nat, y \in 0 .. L - 1 : z = r \div L /\ r = z * L + y
  BY <1>1, Euclid
<1>3. r < Total /\ Total \in Nat
  BY GridSizes DEF Grid
<1>4. z < W
  <2>. SUFFICES ASSUME W <= z PROVE FALSE
    BY <1>1
  <2>1. W * L <= z * L /\ z * L \in Nat
    BY <1>1, Products
  <2>. QED  BY <1>1, <1>2, <1>3, <2>1
<1>. QED  BY <1>2, <1>4

\* A micro-batch of a slice: its samples are M of the batch's, in order.
LEMMA SlicePackIs ==
    ASSUME NEW M, NEW K, NEW s, NEW L, NEW W, Sliced(M, K, s, L, W),
           NEW r \in Grid, NEW m \in 1 .. K
    PROVE  /\ packs[r][m].tokens = FlattenSeq(TokenLists(SliceIds(M, s, r \div L, m)))
           /\ GroupAt(r, m) = Block(r, L)
           /\ IdsAt(r, m) = Range(SliceIds(M, s, r \div L, m))
<1>1. packs[r][m] = PackOf(SliceIds(M, s, r \div L, m), L)
  BY DEF Sliced, SlicePacks
<1>. QED  BY <1>1 DEF PackOf, GroupAt, IdsAt

LEMMA SliceLength ==
    ASSUME NEW M, NEW K, NEW s, NEW L, NEW W, Sliced(M, K, s, L, W), NEW r \in Grid
    PROVE  Len(packs[r]) = K /\ DOMAIN packs[r] = 1 .. K /\ K \in Nat
<1>1. PICK f : f = packs[r]
  OBVIOUS
<1>2. f = [m \in 1 .. K |-> f[m]]
  <2>1. f = [m \in 1 .. K |-> PackOf(SliceIds(M, s, r \div L, m), L)]
    BY <1>1 DEF Sliced, SlicePacks
  <2>. QED  BY <2>1
<1>3. K \in Nat
  BY DEF Sliced, Slices
<1>4. Len(f) = K /\ DOMAIN f = 1 .. K
  BY <1>2, <1>3
<1>. QED  BY <1>1, <1>3, <1>4

LEMMA ItemStart ==
    ASSUME NEW K \in Nat, NEW s \in [1 .. K -> Nat], NEW m \in 1 .. K
    PROVE  Cumulative(s)[m - 1] \in Nat
<1>1. Cumulative(s) \in [0 .. K -> Nat] /\ m - 1 \in 0 .. K
  BY CumulativeIs
<1>. QED  BY <1>1

LEMMA SliceIdsAre ==
    ASSUME NEW M, NEW K, NEW s, NEW L, NEW W, Slices(M, K, s, L, W),
           NEW z \in Nat, z < W, NEW m \in 1 .. K,
           NEW ids, ids = SliceIds(M, s, z, m)
    PROVE  /\ s[m] \in Nat /\ ids \in [1 .. s[m] -> Gids]
           /\ \A i \in 1 .. s[m] :
                 /\ Cumulative(s)[m - 1] + i \in 1 .. M
                 /\ ids[i] = z * M + (Cumulative(s)[m - 1] + i - 1)
<1>1. /\ M \in Nat \ {0} /\ K \in Nat /\ s \in [1 .. K -> Nat] /\ Cumulative(s)[K] = M
      /\ W \in Nat /\ offsets[Dp] = W * M
  BY DEF Slices
<1>2. PICK c : c = Cumulative(s)
  OBVIOUS
<1>3. c \in [0 .. K -> Nat] /\ c[m] = c[m - 1] + s[m] /\ c[K] = M
  BY <1>1, <1>2, CumulativeIs
<1>4. m \in 0 .. K /\ m - 1 \in 0 .. K /\ K \in 0 .. K /\ m <= K
  BY <1>1
<1>5. c[m] <= c[K]
  BY <1>1, <1>2, <1>4, CumulativeGrows
<1>6. PICK a \in Nat, l \in Nat : a = c[m - 1] /\ l = s[m] /\ a + l <= M
  BY <1>1, <1>3, <1>4, <1>5
<1>7. PICK b \in Nat, e \in Nat : b = z * M /\ e = W * M /\ b + M <= e
  <2>1. z * M \in Nat /\ W * M \in Nat /\ (z + 1) * M = z * M + M /\ z + 1 \in Nat /\ z + 1 <= W
    BY <1>1, Products
  <2>2. (z + 1) * M <= W * M
    BY <1>1, <2>1, Products
  <2>. QED  BY <2>1, <2>2
<1>8. ids = RunOf(b + a, l)
  BY <1>2, <1>6, <1>7 DEF SliceIds
<1>9. ids = [k \in 1 .. l |-> (b + a) + k - 1]
  BY <1>8 DEF RunOf
<1>10. Gids = 0 .. e - 1
  BY <1>1, <1>7 DEF Gids
<1>11. \A i \in 1 .. l : a + i \in 1 .. M /\ ids[i] = b + (a + i - 1) /\ ids[i] \in Gids
  <2>. SUFFICES ASSUME NEW i \in 1 .. l
                PROVE  a + i \in 1 .. M /\ ids[i] = b + (a + i - 1) /\ ids[i] \in Gids
    OBVIOUS
  <2>1. ids[i] = (b + a) + i - 1
    BY <1>9
  <2>2. PICK y \in Int : y = ids[i]
    BY <2>1
  <2>3. a + i \in 1 .. M /\ y = b + (a + i - 1)
    <3>1. M \in Nat /\ a \in Nat /\ l \in Nat /\ a + l <= M /\ b \in Nat
      BY <1>1, <1>6, <1>7
    <3>2. a + i \in 1 .. M
      BY <3>1
    <3>3. y = (b + a) + i - 1
      BY <2>1, <2>2
    <3>. QED  BY <3>1, <3>2, <3>3
  <2>4. y \in 0 .. e - 1
    <3>1. M \in Nat
      BY <1>1
    <3>. QED  BY <1>7, <2>3, <3>1
  <2>. QED  BY <1>7, <1>10, <2>2, <2>3, <2>4
<1>12. ids \in [1 .. l -> Gids]
  BY <1>9, <1>11
<1>. QED  BY <1>2, <1>6, <1>7, <1>11, <1>12

\* The slice and the micro-batch of a sample.
LEMMA SliceAt ==
    ASSUME NEW M, NEW K, NEW s, NEW L, NEW W, Sliced(M, K, s, L, W),
           NEW r \in Grid, NEW m \in 1 .. K, NEW g \in IdsAt(r, m)
    PROVE  /\ g \in Gids /\ g \div M = r \div L
           /\ \E i \in 1 .. s[m] : (g % M) + 1 = Cumulative(s)[m - 1] + i
<1>1. Slices(M, K, s, L, W) /\ M \in Nat \ {0}
  BY DEF Sliced, Slices
<1>2. PICK z \in Nat : z = r \div L /\ z < W
  BY <1>1, SliceOf
<1>3. PICK ids : ids = SliceIds(M, s, z, m)
  OBVIOUS
<1>4. /\ ids \in [1 .. s[m] -> Gids]
      /\ \A i \in 1 .. s[m] : /\ Cumulative(s)[m - 1] + i \in 1 .. M
                              /\ ids[i] = z * M + (Cumulative(s)[m - 1] + i - 1)
  BY <1>1, <1>2, <1>3, SliceIdsAre
<1>5. g \in Range(ids)
  BY <1>2, <1>3, SlicePackIs
<1>6. PICK i \in 1 .. s[m] : g = ids[i]
  BY <1>4, <1>5 DEF Range
<1>7. PICK p \in 1 .. M : p = Cumulative(s)[m - 1] + i
  BY <1>4
<1>8. PICK y \in 0 .. M - 1 : y = p - 1
  BY <1>1
<1>9. PICK b \in Nat : b = z * M
  BY <1>1, Products
<1>10. ids[i] = b + (Cumulative(s)[m - 1] + i - 1)
  BY <1>4, <1>9
<1>11. PICK a \in Nat : a = Cumulative(s)[m - 1]
  <2>1. K \in Nat /\ s \in [1 .. K -> Nat]
    BY <1>1 DEF Slices
  <2>. QED  BY <2>1, ItemStart
<1>12. i \in Nat
  <2>1. s[m] \in Nat
    BY <1>1, <1>2, <1>3, SliceIdsAre
  <2>. QED  BY <2>1
<1>13. g = b + y
  BY <1>6, <1>7, <1>8, <1>10, <1>11, <1>12
<1>14. g = z * M + y /\ g \in Nat
  BY <1>8, <1>9, <1>13
<1>15. g \div M = z /\ g % M = y
  <2>1. M \in Nat \ {0} /\ z \in Nat /\ y \in 0 .. M - 1 /\ g \in Nat /\ g = z * M + y
    BY <1>1, <1>2, <1>8, <1>14
  <2>2. \A u \in Nat : u = z * M + y => u \div M = z /\ u % M = y
    BY <2>1, EuclidUnique
  <2>. QED  BY <2>1, <2>2
<1>16. (g % M) + 1 = p
  BY <1>8, <1>15
<1>. QED  BY <1>2, <1>4, <1>6, <1>7, <1>15, <1>16

\* A place in a slice is in one micro-batch.
LEMMA InOneItem ==
    ASSUME NEW K \in Nat, NEW s \in [1 .. K -> Nat], NEW m \in 1 .. K, NEW n \in 1 .. K, m < n,
           NEW i \in 1 .. s[m], NEW j \in 1 .. s[n]
    PROVE  Cumulative(s)[m - 1] + i # Cumulative(s)[n - 1] + j
<1>1. PICK c : c = Cumulative(s)
  OBVIOUS
<1>2. c \in [0 .. K -> Nat] /\ c[m] = c[m - 1] + s[m]
  BY <1>1, CumulativeIs
<1>3. m \in 0 .. K /\ m - 1 \in 0 .. K /\ n - 1 \in 0 .. K /\ m <= n - 1
  OBVIOUS
<1>4. c[m] <= c[n - 1]
  BY <1>1, <1>3, CumulativeGrows
<1>5. PICK a \in Nat, l \in Nat, b \in Nat : a = c[m - 1] /\ l = s[m] /\ b = c[n - 1]
  BY <1>2, <1>3
<1>6. a + l <= b /\ i \in 1 .. l /\ j >= 1 /\ j \in Nat
  BY <1>2, <1>4, <1>5
<1>7. a + i # b + j
  BY <1>6
<1>. QED  BY <1>1, <1>5, <1>7

LEMMA SliceWhole ==
    ASSUME LensKnown, NEW M, NEW K, NEW s, NEW L, NEW W, Sliced(M, K, s, L, W),
           NEW j \in Nat, PadDiv = j * L, NEW r \in Grid, NEW m \in 1 .. K
    PROVE  Whole(r, m)
<1>1. Slices(M, K, s, L, W) /\ M \in Nat \ {0} /\ L \in Nat \ {0} /\ L \in GroupSizes
  BY DEF Sliced, Slices
<1>2. PICK z \in Nat : z = r \div L /\ z < W
  BY <1>1, SliceOf
<1>3. PICK ids : ids = SliceIds(M, s, z, m)
  OBVIOUS
<1>4. PICK n \in Nat : n = s[m]
  BY <1>1, <1>2, SliceIdsAre
<1>5. /\ ids \in [1 .. n -> Gids]
      /\ \A i \in 1 .. n : ids[i] = z * M + (Cumulative(s)[m - 1] + i - 1)
  BY <1>1, <1>2, <1>3, <1>4, SliceIdsAre
<1>6. PICK t : t = FlattenSeq(TokenLists(ids))
  OBVIOUS
<1>7. packs[r][m].tokens = t /\ GroupAt(r, m) = Block(r, L) /\ IdsAt(r, m) = Range(ids)
  BY <1>2, <1>3, <1>6, SlicePackIs
<1>8. Range(ids) = {ids[i] : i \in 1 .. n} /\ Range(ids) \subseteq Gids
  BY <1>5 DEF Range
<1>9. \A g \in Gids : g \in Nat
  <2>1. offsets[Dp] = W * M /\ W \in Nat
    BY <1>1 DEF Slices
  <2>2. PICK e \in Nat : e = W * M
    BY <1>1, <2>1, Products
  <2>. QED  BY <2>1, <2>2 DEF Gids
<1>10. \A i, k \in 1 .. n : ids[i] = ids[k] => i = k
  <2>1. PICK b \in Nat : b = z * M
    BY <1>1, Products
  <2>2. PICK a : a = Cumulative(s)[m - 1]
    OBVIOUS
  <2>3. a \in Nat
    <3>1. K \in Nat /\ s \in [1 .. K -> Nat]
      BY <1>1 DEF Slices
    <3>. QED  BY <2>2, <3>1, ItemStart
  <2>4. \A i \in 1 .. n : ids[i] = b + (a + i - 1)
    BY <1>5, <2>1, <2>2
  <2>. QED  BY <2>3, <2>4
<1>11. Spells(t, Range(ids))
  <2>1. ids \in [1 .. n -> Gids]
    BY <1>5
  <2>2. LensKnown
    OBVIOUS
  <2>3. Spells(t, {ids[i] : i \in 1 .. n})
    BY ONLY n \in Nat, <2>1, <2>2, <1>6, <1>9, <1>10, PackSpells
  <2>. QED  BY <1>8, <2>3
<1>12. \E w \in Nat : t \in Seq(AllTokens) /\ Len(t) = L * w
  <2>1. CASE n # 0
    <3>1. n \in Nat \ {0} /\ t \in Seq(AllTokens) /\ \E x \in Nat \ {0} : Len(t) = L * x
      <4>1. n \in Nat \ {0}
        BY <2>1
      <4>. QED  BY <1>1, <1>5, <1>6, <4>1, PackEven
    <3>. QED  BY <3>1
  <2>2. CASE n = 0
    <3>1. PICK u : u = TokenLists(ids)
      OBVIOUS
    <3>2. u \in [1 .. n -> Seq(AllTokens)]
      BY <1>5, <3>1, TokensOfLists
    <3>3. /\ LensOf(u, n) \in [1 .. n -> Nat]
          /\ Flattened(AllTokens, n, u, Cumulative(LensOf(u, n)), t)
      BY <1>6, <3>1, <3>2, FlattenIs
    <3>4. t \in Seq(AllTokens) /\ Len(t) = Cumulative(LensOf(u, n))[n]
      BY <3>3 DEF Flattened
    <3>5. Cumulative(LensOf(u, n))[0] = 0
      BY <3>3, CumulativeIs
    <3>6. L * 0 = 0
      BY <1>1
    <3>. QED  BY <2>2, <3>4, <3>5, <3>6
  <2>. QED  BY <2>1, <2>2
<1>13. PICK w \in Nat : t \in Seq(AllTokens) /\ Len(t) = L * w
  BY <1>12
<1>14. PICK lo \in Nat : Block(r, L) = lo .. lo + L - 1
  BY <1>1, BlockIs
<1>15. Block(r, L) \subseteq Grid /\ r \in Block(r, L)
  BY <1>1, BlockIs
<1>16. Shape(r, m, lo, L, w)
  BY <1>1, <1>7, <1>13, <1>14, <1>15 DEF Shape
<1>17. ASSUME NEW q \in Block(r, L)
       PROVE  /\ m \in DOMAIN packs[q] /\ packs[q][m].tokens = t /\ GroupAt(q, m) = Block(r, L)
  <2>1. q \in Grid /\ q \div L = z
    BY <1>2 DEF Block
  <2>2. DOMAIN packs[q] = 1 .. K
    BY <2>1, SliceLength
  <2>3. packs[q][m].tokens = t /\ GroupAt(q, m) = Block(q, L)
    BY <1>3, <1>6, <2>1, SlicePackIs
  <2>4. Block(q, L) = Block(r, L)
    BY <1>2, <2>1 DEF Block
  <2>. QED  BY <2>2, <2>3, <2>4
<1>. QED  BY <1>7, <1>8, <1>11, <1>16, <1>17 DEF Whole

LEMMA SlicesShare ==
    ASSUME LensKnown, NEW M, NEW K, NEW s, NEW L, NEW W, Sliced(M, K, s, L, W),
           NEW j \in Nat, PadDiv = j * L
    PROVE  Shared
<1>1. /\ Slices(M, K, s, L, W) /\ M \in Nat \ {0} /\ L \in Nat \ {0} /\ W \in Nat \ {0}
      /\ K \in Nat /\ s \in [1 .. K -> Nat] /\ Cumulative(s)[K] = M
      /\ offsets[Dp] = W * M /\ Total = W * L
  BY DEF Sliced, Slices
<1>2. ASSUME NEW r \in Grid
      PROVE  /\ Len(packs[r]) \in Nat /\ DOMAIN packs[r] = 1 .. Len(packs[r])
             /\ \A m \in DOMAIN packs[r] : Whole(r, m)
  BY SliceLength, SliceWhole
<1>3. NoneTwice
  <2>. SUFFICES ASSUME NEW r \in Grid, NEW q \in Grid,
                       NEW m \in DOMAIN packs[r], NEW n \in DOMAIN packs[q],
                       NEW g \in Gids, g \in IdsAt(r, m), g \in IdsAt(q, n)
                PROVE  m = n /\ GroupAt(r, m) = GroupAt(q, n)
    BY DEF NoneTwice
  <2>1. m \in 1 .. K /\ n \in 1 .. K
    BY SliceLength
  <2>2. /\ g \div M = r \div L
        /\ \E i \in 1 .. s[m] : (g % M) + 1 = Cumulative(s)[m - 1] + i
    BY <2>1, SliceAt
  <2>3. /\ g \div M = q \div L
        /\ \E i \in 1 .. s[n] : (g % M) + 1 = Cumulative(s)[n - 1] + i
    BY <2>1, SliceAt
  <2>4. PICK i \in 1 .. s[m] : (g % M) + 1 = Cumulative(s)[m - 1] + i
    BY <2>2
  <2>5. PICK k \in 1 .. s[n] : (g % M) + 1 = Cumulative(s)[n - 1] + k
    BY <2>3
  <2>6. ~ (m < n) /\ ~ (n < m)
    <3>1. K \in Nat /\ s \in [1 .. K -> Nat]
      BY <1>1
    <3>2. ASSUME m < n PROVE FALSE
      <4>1. Cumulative(s)[m - 1] + i # Cumulative(s)[n - 1] + k
        BY <2>1, <2>4, <2>5, <3>1, <3>2, InOneItem
      <4>. QED  BY <2>4, <2>5, <4>1
    <3>3. ASSUME n < m PROVE FALSE
      <4>1. Cumulative(s)[n - 1] + k # Cumulative(s)[m - 1] + i
        BY <2>1, <2>4, <2>5, <3>1, <3>3, InOneItem
      <4>. QED  BY <2>4, <2>5, <4>1
    <3>. QED  BY <3>2, <3>3
  <2>7. m = n
    BY <2>1, <2>6
  <2>8. GroupAt(r, m) = Block(r, L) /\ GroupAt(q, n) = Block(q, L)
    BY <2>1, SlicePackIs
  <2>9. Block(r, L) = Block(q, L)
    BY <2>2, <2>3 DEF Block
  <2>. QED  BY <2>7, <2>8, <2>9
<1>4. NoneLeft
  <2>. SUFFICES ASSUME NEW g \in Gids
                PROVE  \E r \in Grid : \E m \in DOMAIN packs[r] : g \in IdsAt(r, m)
    BY DEF NoneLeft
  <2>1. PICK e \in Nat : e = W * M /\ g \in 0 .. e - 1
    <3>1. W * M \in Nat
      BY <1>1
    <3>. QED  BY <1>1, <3>1 DEF Gids
  <2>2. PICK z \in Nat, y \in 0 .. M - 1 : g = z * M + y
    <3>1. g \in Nat
      BY <2>1
    <3>2. g \div M \in Nat /\ g % M \in 0 .. M - 1 /\ g = (g \div M) * M + (g % M)
      BY <1>1, <3>1, Euclid
    <3>. QED  BY <3>2
  <2>3. z < W
    <3>. SUFFICES ASSUME W <= z PROVE FALSE
      BY <1>1
    <3>1. W * M <= z * M /\ z * M \in Nat
      BY <1>1, Products
    <3>. QED  BY <2>1, <2>2, <3>1
  <2>4. PICK r \in Grid : r \div L = z
    <3>1. z * L \in Nat /\ (z + 1) * L = z * L + L /\ z + 1 \in Nat /\ z + 1 <= W
      BY <1>1, <2>3, Products
    <3>2. (z + 1) * L <= W * L
      BY <1>1, <3>1, Products
    <3>3. PICK r \in Nat : r = z * L
      BY <3>1
    <3>4. r < Total /\ Total \in Nat
      BY <1>1, <3>1, <3>2, <3>3, GridSizes
    <3>5. r \in Grid
      BY <3>4 DEF Grid
    <3>6. 0 \in 0 .. L - 1 /\ r = z * L + 0
      BY <1>1, <3>1, <3>3
    <3>7. r \div L = z
      BY <1>1, <3>6, EuclidUnique
    <3>. QED  BY <3>5, <3>7
  <2>5. PICK m \in 1 .. K : \E i \in 1 .. s[m] : y + 1 = Cumulative(s)[m - 1] + i
    <3>1. y + 1 \in 1 .. Cumulative(s)[K] /\ K \in Nat /\ s \in [1 .. K -> Nat]
      BY <1>1
    <3>2. PICK x \in 1 .. Cumulative(s)[K] : x = y + 1
      BY <3>1
    <3>3. \E m \in 1 .. K : \E i \in 1 .. s[m] : x = Cumulative(s)[m - 1] + i
      BY ONLY <3>1, x \in 1 .. Cumulative(s)[K], ItemAt
    <3>. QED  BY <3>2, <3>3
  <2>6. PICK i \in 1 .. s[m] : y + 1 = Cumulative(s)[m - 1] + i
    BY <2>5
  <2>7. PICK ids : ids = SliceIds(M, s, z, m)
    OBVIOUS
  <2>8. /\ s[m] \in Nat /\ ids \in [1 .. s[m] -> Gids]
        /\ ids[i] = z * M + (Cumulative(s)[m - 1] + i - 1)
    <3>1. /\ s[m] \in Nat /\ ids \in [1 .. s[m] -> Gids]
          /\ \A k \in 1 .. s[m] :
                /\ Cumulative(s)[m - 1] + k \in 1 .. M
                /\ ids[k] = z * M + (Cumulative(s)[m - 1] + k - 1)
      <4>1. m \in 1 .. K /\ z \in Nat /\ z < W /\ Slices(M, K, s, L, W)
        BY <1>1, <2>2, <2>3, <2>5
      <4>. QED  BY <2>7, <4>1, SliceIdsAre
    <3>. QED  BY <3>1
  <2>9. ids[i] = g
    <3>1. PICK a \in Nat : a = Cumulative(s)[m - 1]
      <4>1. K \in Nat /\ s \in [1 .. K -> Nat] /\ m \in 1 .. K
        BY <1>1, <2>5
      <4>. QED  BY <4>1, ItemStart
    <3>2. PICK b \in Nat : b = z * M
      BY <1>1, Products
    <3>3. g = b + y /\ y \in Nat /\ i \in Nat /\ y + 1 = a + i
      BY <1>1, <2>2, <2>6, <2>8, <3>1, <3>2
    <3>4. ids[i] = b + (a + i - 1)
      BY <2>8, <3>1, <3>2
    <3>. QED  BY <3>3, <3>4
  <2>10. IdsAt(r, m) = Range(ids) /\ DOMAIN packs[r] = 1 .. K
    BY <2>4, <2>7, SlicePackIs, SliceLength
  <2>11. g \in Range(ids)
    BY <2>8, <2>9 DEF Range
  <2>. QED  BY <2>10, <2>11
<1>. QED  BY <1>2, <1>3, <1>4 DEF Shared

LEMMA SmartDealt ==
    ASSUME SmartInputs, CpIsPower, SmartLoop
    PROVE  Shared
<1>1. PICK M, K, s, L, W :
        /\ Slices(M, K, s, L, W)
        /\ \A r \in Grid : SmartPacks(r) = SlicePacks(M, K, s, L, r)
  BY SmartSliced
<1>2. Sliced(M, K, s, L, W)
  BY <1>1 DEF SmartLoop, Sliced
<1>3. LensKnown
  BY DEF SmartInputs, LensKnown
<1>4. \E j \in Nat : PadDiv = j * L
  <2>1. L = LocalCpSize /\ L \in Nat
    BY <1>1 DEF Slices
  <2>2. PICK h \in Nat \ {0} : Cp = h * LocalCpSize
    BY LocalIs
  <2>3. PadDiv = 2 * Cp
    BY DEF PadDiv, SmartInputs
  <2>4. (h + h) * L = h * L + h * L /\ h * L \in Nat /\ h + h \in Nat
    BY <2>1, Products
  <2>5. PadDiv = (h + h) * L
    BY <2>1, <2>2, <2>3, <2>4
  <2>. QED  BY <2>4, <2>5
<1>. QED  BY <1>2, <1>3, <1>4, SlicesShare

----------------------------------------------------------------------------
\* The counts in every stage.

\* What both schedulers have established: the shards share out the batch.
Dealt ==
    /\ LensKnown /\ offsets[Dp] \in Nat /\ \A r \in Grid : at[r] = at[0]
    /\ at[0] \in {"schedule", "reroute"} => next = [r \in Grid |-> 1]
    /\ at[0] = "forward" => Shared /\ \A r \in Grid : next[r] \in Nat \ {0}
TokenInv ==
    /\ at[0] \in {"schedule", "reroute"} => token_count = [r \in Grid |-> 0]
    /\ at[0] = "forward" => Counted
    /\ at[0] = "done" => Sum(token_count) = Sum(seq_lens)

LEMMA DefaultDealt == CpInv /\ task # "smart_padding" => Dealt
<1>. SUFFICES ASSUME DefaultInputs, CpStages PROVE Dealt
  BY DEF CpInv
<1>1. LensKnown /\ offsets[Dp] \in Nat
  BY DefaultKnown, OffsetsAre, GridSizes
<1>2. \A r \in Grid : at[r] = at[0]
  BY StageAt
<1>3. at[0] \in {"schedule", "reroute"} => next = [r \in Grid |-> 1]
  BY StageAt DEF Planned, Fresh
<1>4. ASSUME at[0] = "forward" PROVE Shared /\ \A r \in Grid : next[r] \in Nat \ {0}
  <2>1. PICK a : Underway(a)
    BY <1>4, StageAt
  <2>2. Shared
    BY <2>1, PlanShares
  <2>3. ASSUME NEW r \in Grid PROVE next[r] \in Nat \ {0}
    <3>1. next[r] \in 1 .. Number(a) + 1 /\ Number(a) \in Nat
      BY <2>1, LoopIs
    <3>. QED  BY <3>1
  <2>. QED  BY <2>2, <2>3
<1>. QED  BY <1>1, <1>2, <1>3, <1>4 DEF Dealt

LEMMA SmartlyDealt == ASSUME CpIsPower PROVE SmartInv /\ task = "smart_padding" => Dealt
<1>. SUFFICES ASSUME SmartInputs, SmartStages PROVE Dealt
  BY DEF SmartInv
<1>1. LensKnown
  BY DEF SmartInputs, LensKnown
<1>2. offsets[Dp] \in Nat
  BY SmartOffsets
<1>3. 0 \in Grid
  BY GridSizes DEF Grid
<1>4. \A r \in Grid : at[r] = at[0]
  BY <1>3 DEF SmartStages, SmartLoop, GridAt
<1>5. at[0] # "reroute" /\ (at[0] = "schedule" => next = [r \in Grid |-> 1])
  BY <1>3 DEF SmartStages, SmartLoop, GridAt
<1>6. at[0] = "forward" => SmartLoop
  BY <1>3 DEF SmartStages, GridAt
<1>7. at[0] = "forward" => Shared /\ \A r \in Grid : next[r] \in Nat \ {0}
  BY <1>6, SmartDealt DEF SmartLoop
<1>. QED  BY <1>1, <1>2, <1>4, <1>5, <1>7 DEF Dealt

LEMMA TokensKept ==
    ASSUME TokenInv, UNCHANGED <<at, packs, next, token_count, seq_lens>>
    PROVE  TokenInv'
<1>1. Counted => Counted'
  <2>1. \A r : Taken(r, next[r])' = Taken(r, next[r])
    BY DEF Taken, ShareOf, GroupAt
  <2>. QED  BY <2>1 DEF Counted
<1>2. at' = at /\ token_count' = token_count /\ seq_lens' = seq_lens
  OBVIOUS
<1>3. Sum(token_count)' = Sum(token_count) /\ Sum(seq_lens)' = Sum(seq_lens)
  BY <1>2
<1>. QED  BY <1>1, <1>2, <1>3 DEF TokenInv

LEMMA TokensStart ==
    ASSUME TokenInv, Dealt, at[0] \in {"schedule", "reroute"}, Dealt', GridGoto("forward"),
           UNCHANGED <<next, token_count>>
    PROVE  TokenInv'
<1>1. 0 \in Grid
  BY GridSizes DEF Grid
<1>2. at'[0] = "forward"
  BY <1>1 DEF GridGoto
<1>3. Started'
  BY DEF TokenInv, Dealt, Started
<1>4. ASSUME NEW r \in Grid PROVE DOMAIN packs'[r] \subseteq Nat \ {0}
  <2>1. Shared'
    BY <1>2 DEF Dealt
  <2>2. Len(packs'[r]) \in Nat /\ DOMAIN packs'[r] = 1 .. Len(packs'[r])
    BY <2>1 DEF Shared
  <2>. QED  BY <2>2
<1>5. Counted'
  BY <1>3, <1>4, CountStarts
<1>. QED  BY <1>2, <1>5 DEF TokenInv

LEMMA TokensKeep ==
    ASSUME task # "logprobs", TokenInv, Dealt, [CpNext]_cpVars, Dealt'
    PROVE  TokenInv'
<1>1. 0 \in Grid
  BY GridSizes DEF Grid
<1>2. CASE Schedule
  <2>1. at'[0] = "reroute" /\ at[0] = "schedule" /\ token_count' = token_count
    BY <1>1, <1>2 DEF Schedule, GridAt, GridGoto
  <2>. QED  BY <2>1 DEF TokenInv
<1>3. CASE Reroute
  <2>1. at[0] = "reroute" /\ GridGoto("forward") /\ UNCHANGED <<next, token_count>>
    BY <1>1, <1>3 DEF Reroute, GridAt
  <2>. QED  BY <2>1, TokensStart
<1>4. CASE SelectLocally
  <2>1. at[0] = "schedule" /\ GridGoto("forward") /\ UNCHANGED <<next, token_count>>
    BY <1>1, <1>4 DEF SelectLocally, GridAt
  <2>. QED  BY <2>1, TokensStart
<1>5. CASE ReduceGradients
  <2>1. /\ AllPast /\ at'[0] = "done"
        /\ token_count' = token_count /\ seq_lens' = seq_lens
    BY <1>1, <1>5 DEF ReduceGradients, AllPast, GridGoto, batchVars
  <2>2. at[0] = "forward"
    BY <1>1, <2>1 DEF AllPast, PastLoop
  <2>3. Sum(token_count) = Sum(seq_lens)
    BY <2>1, <2>2, AllCounted DEF TokenInv, Dealt
  <2>. QED  BY <2>1, <2>3 DEF TokenInv
<1>6. CASE \E r \in Grid : TrainMicroBatch(r)
  <2>1. PICK r \in Grid : TrainMicroBatch(r)
    BY <1>6
  <2>2. at' = at /\ at[r] = "forward"
    BY <2>1 DEF TrainMicroBatch, Leads, InMbLoop
  <2>3. at[0] = "forward"
    BY <2>2 DEF Dealt
  <2>4. Counted'
    BY <2>1, <2>3, TrainCounts DEF TokenInv, Dealt
  <2>. QED  BY <2>2, <2>3, <2>4 DEF TokenInv
<1>7. CASE UNCHANGED cpVars
  BY <1>7, TokensKept DEF cpVars, batchVars
<1>8. ~ ReturnLogprobs /\ \A r : ~ ComputeLogprobs(r)
  BY DEF ReturnLogprobs, ComputeLogprobs
<1>. QED  BY <1>2, <1>3, <1>4, <1>5, <1>6, <1>7, <1>8 DEF CpNext

\* Where groups are known to fit: with the default scheduler always.
GroupsFit == task # "smart_padding" \/ CpIsPower
DealtInv == CpInv /\ (CpIsPower => SmartInv)
OnceInv == DealtInv /\ (GroupsFit /\ task # "logprobs" => TokenInv)

LEMMA DealtIs == DealtInv /\ GroupsFit => Dealt
BY DefaultDealt, SmartlyDealt DEF DealtInv, GroupsFit

LEMMA OnceStarts == CpInit => OnceInv
<1>. SUFFICES ASSUME CpInit PROVE OnceInv
  OBVIOUS
<1>1. DealtInv
  BY CpStarts, SmartStarts DEF DealtInv
<1>2. TokenInv
  <2>1. at[0] = "schedule" /\ token_count = [r \in Grid |-> 0]
    BY GridSizes DEF CpInit, CpStart, Grid
  <2>. QED  BY <2>1 DEF TokenInv
<1>. QED  BY <1>1, <1>2 DEF OnceInv

LEMMA OnceKeeps == OnceInv /\ [CpNext]_cpVars => OnceInv'
<1>. SUFFICES ASSUME OnceInv, [CpNext]_cpVars PROVE OnceInv'
  OBVIOUS
<1>1. DealtInv'
  BY CpKeeps, SmartKeeps DEF OnceInv, DealtInv
<1>2. task' = task
  BY DEF CpNext, Schedule, Reroute, SelectLocally, ReduceGradients, ReturnLogprobs,
         ComputeLogprobs, TrainMicroBatch, cpVars, batchVars
<1>3. ASSUME GroupsFit', task' # "logprobs" PROVE TokenInv'
  <2>1. GroupsFit /\ task # "logprobs"
    BY <1>2, <1>3 DEF GroupsFit
  <2>2. Dealt /\ TokenInv
    BY <2>1, DealtIs DEF OnceInv
  <2>3. Dealt'
    <3>1. (DealtInv /\ GroupsFit => Dealt)'
      BY DealtIs, PTL
    <3>. QED  BY <1>1, <1>3, <3>1
  <2>. QED  BY <2>1, <2>2, <2>3, TokensKeep
<1>. QED  BY <1>1, <1>3 DEF OnceInv

LEMMA OnceIs == OnceInv => (GroupsFit => EachTokenOnce)
<1>. SUFFICES ASSUME OnceInv, GroupsFit, task # "logprobs", GridAt("done")
              PROVE  Sum(token_count) = Sum(seq_lens)
  BY DEF EachTokenOnce
<1>1. at[0] = "done"
  BY GridSizes DEF GridAt, Grid
<1>. QED  BY <1>1 DEF OnceInv, TokenInv

\* The denominators that the ranks add up count every token once: the shards that
\* the ranks counted are all of the batch and have no token in common, however
\* the groups differ in size.  For smart_padding the context-parallel size is a
\* power of two, as for the meeting of its groups.
THEOREM CountedOnce == CpSpec => [](GroupsFit => EachTokenOnce)
BY OnceStarts, OnceKeeps, OnceIs, PTL DEF CpSpec

LEMMA TheOtherOnce == EitherSpec => [](TheOther \/ OnceInv)
<1>1. EitherInit => TheOther \/ OnceInv
  BY OnceStarts DEF EitherInit, DynamicUnused, TheOther
<1>2. (TheOther \/ OnceInv) /\ [EitherNext]_<<way, cpVars, vars>> => (TheOther \/ OnceInv)'
  <2>. SUFFICES ASSUME TheOther \/ OnceInv, [EitherNext]_<<way, cpVars, vars>>
                PROVE (TheOther \/ OnceInv)'
    OBVIOUS
  <2>1. way' = way /\ (UNCHANGED cpVars \/ (way = "dynamic_cp" /\ CpNext))
    BY DEF EitherNext
  <2>2. CASE TheOther
    <3>1. UNCHANGED cpVars
      BY <2>1, <2>2 DEF TheOther
    <3>. QED  BY <2>1, <2>2, <3>1 DEF TheOther, CpStart, cpVars, batchVars, planVars
  <2>3. CASE OnceInv
    BY <2>1, <2>3, OnceKeeps
  <2>. QED  BY <2>2, <2>3
<1>. QED  BY <1>1, <1>2, PTL DEF EitherSpec

\* The same where runs may also be balanced.
THEOREM EitherWayCounts == EitherSpec => [](GroupsFit => EachTokenOnce)
<1>1. TheOther => EachTokenOnce
  <2>. SUFFICES ASSUME TheOther PROVE EachTokenOnce
    OBVIOUS
  <2>1. (\A r \in Grid : at[r] = "schedule") /\ 0 \in Grid
    BY GridSizes DEF TheOther, CpStart, Grid
  <2>. QED  BY <2>1 DEF EachTokenOnce, GridAt
<1>. QED  BY <1>1, TheOtherOnce, OnceIs, PTL

----------------------------------------------------------------------------
\* The shapes of the round's variables.

\* A list with an entry per place.
LEMMA ListsOfPlaces ==
    ASSUME NEW S, NEW f \in [Places -> S]
    PROVE  f \in Seq(S) /\ Len(f) = Local
<1>1. Places = 1 .. Local /\ Local \in Nat
  BY Sizes DEF Places
<1>. QED  BY <1>1

LEMMA RowsShaped ==
    ASSUME PlanInv
    PROVE  BinRows \in [Ranks -> Seq(Row)]
<1>. SUFFICES ASSUME NEW r \in Ranks PROVE BinRows[r] \in Seq(Row)
  BY DEF BinRows
<1>1. BinRows[r] \in [Places -> Row]
  BY DEF BinRows, PlanInv, Row
<1>. QED  BY <1>1, ListsOfPlaces

LEMMA OwnShaped == OwnRows \in [Ranks -> Seq(Row)] /\ HomeRows \in [Ranks -> Seq(Row)]
<1>1. ASSUME NEW r \in Ranks PROVE OwnRows[r] \in Seq(Row) /\ HomeRows[r] \in Seq(Row)
  <2>1. OwnRows[r] \in [Places -> Row] /\ HomeRows[r] \in [Places -> Row]
    BY SamplePlaces DEF OwnRows, HomeRows, Row
  <2>. QED  BY <2>1, ListsOfPlaces
<1>. QED  BY <1>1 DEF OwnRows, HomeRows

\* A parcel is a list of rows.
LEMMA BufferShaped ==
    ASSUME PlanInv, rows = OwnRows \/ rows = DoneRows, NEW s \in Ranks, NEW r \in Ranks
    PROVE  Buffer(s, r) \in Seq(Row)
<1>1. PICK c \in Nat : /\ DOMAIN Due(s, r) = 1 .. c
                       /\ \A i \in 1 .. c : Due(s, r)[i] \in Places
  <2>1. PICK c \in Nat : /\ DOMAIN PositionsIn(r, s) = 1 .. c /\ DOMAIN FromTo(s, r) = 1 .. c
                         /\ \A k \in 1 .. c : /\ PositionsIn(r, s)[k] \in Places
                                              /\ FromTo(s, r)[k] \in Samples
    BY Parcels
  <2>2. DOMAIN SendTo(s, r) = 1 .. c /\ \A k \in 1 .. c : SendTo(s, r)[k] \in Places
    BY <2>1, SamplePlaces DEF SendTo
  <2>3. CASE leg = "rebalance"
    BY <2>2, <2>3 DEF Due
  <2>4. CASE leg # "rebalance"
    <3>1. PICK e \in Nat : /\ DOMAIN PositionsIn(s, r) = 1 .. e
                           /\ \A k \in 1 .. e : PositionsIn(s, r)[k] \in Places
      BY Parcels
    <3>. QED  BY <2>4, <3>1 DEF Due, RestoreSendTo
  <2>. QED  BY <2>3, <2>4
<1>2. \A i \in Places : rows[s][i] \in Row
  <2>1. CASE rows = OwnRows
    <3>1. OwnRows \in [Ranks -> Seq(Row)] /\ OwnRows[s] \in [Places -> Row]
      BY OwnShaped, SamplePlaces DEF OwnRows, Row
    <3>. QED  BY <2>1, <3>1
  <2>2. CASE rows = DoneRows
    <3>1. DoneRows[s] \in [Places -> Row]
      BY DEF DoneRows, PlanInv, Row
    <3>. QED  BY <2>2, <3>1
  <2>. QED  BY <2>1, <2>2
<1>3. Buffer(s, r) = [i \in 1 .. c |-> rows[s][Due(s, r)[i]]]
  BY <1>1 DEF Buffer
<1>4. \A i \in 1 .. c : rows[s][Due(s, r)[i]] \in Row
  BY <1>1, <1>2
<1>. QED  BY <1>3, <1>4

\* The micro-batches that the method makes are sets of places.
LEMMA PartsPlaced ==
    ASSUME Working, NEW r \in Ranks, NEW k \in Nat, Asserts(r, k)
    PROVE  Parts(r, k) \in Seq(SUBSET Places)
<1>1. DOMAIN PaddedLens(r) = Places
  BY WorkingRows DEF PaddedLens
<1>2. \A i \in 1 .. k : Parts(r, k)[i] \subseteq Places
  BY <1>1 DEF Asserts, Checked
<1>3. Parts(r, k) = [i \in 1 .. k |-> Parts(r, k)[i]]
  BY PartsShape DEF Parts
<1>. QED  BY <1>2, <1>3

\* The round begins in shape.
LEMMA PlanTypeStarts == Init => PlanTypeOK
<1>. SUFFICES ASSUME Init PROVE PlanTypeOK
  OBVIOUS
<1>1. rows = OwnRows /\ Local \in Nat
  BY Sizes DEF Init, Start, OwnRows
<1>2. <<>> \in Seq(Samples) /\ <<>> \in Seq(Row) /\ <<>> \in Seq(SUBSET Places) /\ 0 \in 0 .. Local
  BY <1>1
<1>. QED  BY <1>1, <1>2, OwnShaped DEF Init, Start, NoRows, PlanTypeOK

\* Each step keeps the shapes.
LEMMA ExchangeTyped ==
    ASSUME RoundInv, PlanTypeOK, NEW p \in Ranks, NEW q \in Ranks, Post(p) \/ Receive(p, q)
    PROVE  PlanTypeOK'
<1>1. UNCHANGED <<lens, cp_size, leg, bins, rows, num_mb, groups, next_mb>>
  BY DEF Post, Receive, packVars
<1>2. CASE Post(p)
  <2>1. PlanInv /\ (rows = OwnRows \/ rows = DoneRows)
    <3>1. Sending \/ Returning
      BY <1>2, Stages DEF RoundInv, Post
    <3>. QED  BY <3>1 DEF Sending, Unbegun, Returning, Exchanging
  <2>2. \A d \in Ranks : Buffer(p, d) \in Seq(Row)
    BY <2>1, BufferShaped
  <2>3. chan' \in [Ranks -> [Ranks -> Seq(Row)]]
    <3>1. [d \in Ranks |-> IF d = p THEN <<>> ELSE Buffer(p, d)] \in [Ranks -> Seq(Row)]
      BY <2>2
    <3>. QED  BY <1>2, <3>1 DEF Post, PlanTypeOK
  <2>4. got' \in [Ranks -> [Ranks -> Seq(Row)]]
    BY <1>2, <2>2 DEF Post, PlanTypeOK
  <2>5. pc' \in [Ranks -> Pcs]
    BY <1>2 DEF Post, Goto, PlanTypeOK, Pcs
  <2>. QED  BY <1>1, <2>3, <2>4, <2>5 DEF PlanTypeOK, Pcs
<1>3. CASE Receive(p, q)
  <2>1. chan[q][p] \in Seq(Row) /\ <<>> \in Seq(Row)
    BY DEF PlanTypeOK
  <2>2. got' \in [Ranks -> [Ranks -> Seq(Row)]] /\ chan' \in [Ranks -> [Ranks -> Seq(Row)]]
    BY <1>3, <2>1 DEF Receive, PlanTypeOK
  <2>. QED  BY <1>1, <1>3, <2>2 DEF Receive, PlanTypeOK
<1>. QED  BY <1>2, <1>3

LEMMA PlanAndRowsTyped ==
    ASSUME RoundInv, PlanTypeOK, GatherSeqlens \/ Assemble
    PROVE  PlanTypeOK'
<1>1. CASE GatherSeqlens
  <2>1. /\ UNCHANGED <<lens, cp_size, leg, rows, chan, got, num_mb, groups, next_mb>>
        /\ pc' \in [Ranks -> Pcs]
    BY <1>1 DEF GatherSeqlens, AllGoto, wireVars, packVars, Pcs
  <2>2. bins' \in [Ranks -> Seq(Samples)]
    <3>. DEFINE parts == karmarkar_karp(lens, DpSize, TRUE)
    <3>1. CASE Checked(parts, lens, DpSize, TRUE)
      <4>1. lens \in [Samples -> Lengths] /\ bins' = [r \in Ranks |-> Ordered(parts[r + 1])]
        BY <1>1, <3>1 DEF GatherSeqlens, PlanTypeOK
      <4>. HIDE DEF parts
      <4>2. PlanInv'
        BY <3>1, <4>1, PlanMade
      <4>3. \A r \in Ranks : bins'[r] \in [Places -> Samples]
        BY <4>2 DEF PlanInv
      <4>. QED  BY <4>1, <4>3, ListsOfPlaces
    <3>2. CASE ~ Checked(parts, lens, DpSize, TRUE)
      BY <1>1, <3>2 DEF GatherSeqlens, PlanTypeOK
    <3>. QED  BY <3>1, <3>2
  <2>. QED  BY <2>1, <2>2 DEF PlanTypeOK, Pcs
<1>2. CASE Assemble
  <2>1. /\ UNCHANGED <<lens, cp_size, leg, bins, chan, num_mb, groups, next_mb>>
        /\ got' = [r \in Ranks |-> NoRows] /\ pc' \in [Ranks -> Pcs]
    BY <1>2 DEF Assemble, AllGoto, packVars, Pcs
  <2>2. rows' \in [Ranks -> Seq(Row)]
    <3>1. Sending => PlanInv
      BY DEF Sending, Exchanging
    <3>. QED  BY <1>2, <3>1, AssembledRows, RowsShaped, OwnShaped
  <2>3. got' \in [Ranks -> [Ranks -> Seq(Row)]]
    BY <2>1 DEF NoRows
  <2>. QED  BY <2>1, <2>2, <2>3 DEF PlanTypeOK, Pcs
<1>. QED  BY <1>1, <1>2

LEMMA PackTyped ==
    ASSUME RoundInv, PlanTypeOK, NEW p \in Ranks, PackLocally(p)
    PROVE  PlanTypeOK'
<1>1. Working
  BY Stages DEF RoundInv, PackLocally
<1>. DEFINE ends == {k \in 1 .. Len(rows[p]) :
                       /\ LowerBound(PaddedLens(p), Budget) <= k
                       /\ Asserts(p, k) => WithinBudget(p, k)}
<1>2. /\ UNCHANGED <<lens, cp_size, leg, bins, rows, chan, got, next_mb>>
      /\ \/ Goto(p, "failed") /\ UNCHANGED <<num_mb, groups>>
         \/ /\ ends # {} /\ Asserts(p, Min(ends))
            /\ num_mb' = [num_mb EXCEPT ![p] = Min(ends)]
            /\ groups' = [groups EXCEPT ![p] = Parts(p, Min(ends))]
            /\ Goto(p, "reduce")
  BY DEF PackLocally, wireVars
<1>3. ends # {} => Min(ends) \in 1 .. Local
  <2>1. Len(rows[p]) = Local /\ Local \in Nat
    BY <1>1, WorkingRows, Sizes
  <2>2. ends \subseteq 1 .. Len(rows[p])
    OBVIOUS
  <2>. HIDE DEF ends
  <2>3. ends \in SUBSET Nat
    BY <2>1, <2>2
  <2>4. ends # {} => Min(ends) \in ends
    BY <2>3, Least
  <2>. QED  BY <2>1, <2>2, <2>4
<1>. HIDE DEF ends
<1>4. pc' \in [Ranks -> Pcs]
  BY <1>2 DEF Goto, PlanTypeOK, Pcs
<1>5. Local \in Nat /\ \A k \in 1 .. Local : k \in Nat /\ k \in 0 .. Local
  BY Sizes
<1>6. num_mb' \in [Ranks -> 0 .. Local]
  BY <1>2, <1>3, <1>5 DEF PlanTypeOK
<1>7. groups' \in [Ranks -> Seq(SUBSET Places)]
  <2>1. CASE UNCHANGED groups
    BY <2>1 DEF PlanTypeOK
  <2>2. CASE /\ ends # {} /\ Asserts(p, Min(ends))
             /\ groups' = [groups EXCEPT ![p] = Parts(p, Min(ends))]
    <3>1. Parts(p, Min(ends)) \in Seq(SUBSET Places)
      BY <1>1, <1>3, <1>5, <2>2, PartsPlaced
    <3>. QED  BY <2>2, <3>1 DEF PlanTypeOK
  <2>. QED  BY <1>2, <2>1, <2>2
<1>. QED  BY <1>2, <1>4, <1>6, <1>7 DEF PlanTypeOK, Pcs

LEMMA ReduceTyped ==
    ASSUME RoundInv, PlanTypeOK, AllReduce
    PROVE  PlanTypeOK'
<1>1. Working
  BY OneRank, Stages DEF RoundInv, AllReduce, AllAt
<1>2. /\ pc' = [r \in Ranks |-> IF Agrees(r) THEN "forward" ELSE "failed"]
      /\ num_mb' = [r \in Ranks |-> Target(r)]
      /\ groups' = [r \in Ranks |-> IF Agrees(r) /\ Target(r) # num_mb[r]
                                    THEN Parts(r, Target(r)) ELSE groups[r]]
      /\ UNCHANGED <<lens, cp_size, leg, bins, rows, chan, got, next_mb>>
  BY DEF AllReduce, wireVars
<1>3. \A r \in Ranks : Target(r) \in 0 .. Local /\ Target(r) \in Nat
  <2>. DEFINE S == {num_mb[q] : q \in Ranks}
  <2>1. S \in SUBSET (1 .. Local) /\ S # {} /\ Local \in Nat
    <3>1. \A q \in Ranks : num_mb[q] \in 1 .. Local
      BY <1>1 DEF AllReduce, AllAt, Working, PackInv, HasPacked
    <3>. QED  BY <3>1, OneRank, Sizes
  <2>2. \A r \in Ranks : Target(r) = Max(S)
    BY DEF Target
  <2>. HIDE DEF S
  <2>3. PICK n \in 1 .. Local : n = Max(S)
    <3>1. Max(S) \in S
      BY <2>1, Greatest
    <3>. QED  BY <2>1, <3>1
  <2>4. \A r \in Ranks : Target(r) = n
    BY <2>2, <2>3
  <2>5. n \in 0 .. Local /\ n \in Nat
    BY <2>1, <2>3
  <2>. QED  BY <2>4, <2>5
<1>4. groups' \in [Ranks -> Seq(SUBSET Places)]
  <2>1. ASSUME NEW r \in Ranks, Agrees(r), Target(r) # num_mb[r]
        PROVE  Parts(r, Target(r)) \in Seq(SUBSET Places)
    <3>1. Asserts(r, Target(r))
      BY <2>1 DEF Agrees
    <3>. QED  BY <1>1, <1>3, <3>1, PartsPlaced
  <2>. QED  BY <1>2, <2>1 DEF PlanTypeOK
<1>5. pc' \in [Ranks -> Pcs] /\ num_mb' \in [Ranks -> 0 .. Local]
  BY <1>2, <1>3 DEF Pcs
<1>. QED  BY <1>2, <1>4, <1>5 DEF PlanTypeOK, Pcs

LEMMA LoopTyped ==
    ASSUME PlanTypeOK, NEW p \in Ranks, Forward \/ AttachLogprobs(p) \/ StartRestore
    PROVE  PlanTypeOK'
<1>1. CASE Forward
  <2>1. /\ next_mb' = [r \in Ranks |-> next_mb[r] + 1]
        /\ UNCHANGED <<lens, cp_size, leg, pc, bins, rows, chan, got, num_mb, groups>>
        /\ \A r \in Ranks : next_mb[r] < num_mb[r]
    BY <1>1 DEF Forward, wireVars, MayForward, InLoop
  <2>2. next_mb' \in [Ranks -> 0 .. Local]
    <3>1. ASSUME NEW r \in Ranks PROVE next_mb[r] + 1 \in 0 .. Local
      <4>1. next_mb[r] \in 0 .. Local /\ num_mb[r] \in 0 .. Local /\ next_mb[r] < num_mb[r]
        BY <2>1 DEF PlanTypeOK
      <4>. QED  BY <4>1, Sizes
    <3>. QED  BY <2>1, <3>1
  <2>. QED  BY <2>1, <2>2 DEF PlanTypeOK
<1>2. CASE AttachLogprobs(p)
  <2>1. /\ rows' = [rows EXCEPT ![p] =
                      [i \in DOMAIN rows[p] |->
                         [rows[p][i] EXCEPT !.logprobs = rows[p][SampleOrder(p, i)].of]]]
        /\ pc' = [pc EXCEPT ![p] = "computed"]
        /\ UNCHANGED <<lens, cp_size, leg, bins, chan, got, num_mb, groups, next_mb>>
    BY <1>2 DEF AttachLogprobs, Goto, wireVars, packVars
  <2>2. PICK n \in Nat : rows[p] \in [1 .. n -> Row]
    BY DEF PlanTypeOK
  <2>3. \A i \in 1 .. n : [rows[p][i] EXCEPT !.logprobs = rows[p][i].of] \in Row
    BY <2>2 DEF Row
  <2>4. [i \in 1 .. n |-> [rows[p][i] EXCEPT !.logprobs = rows[p][i].of]] \in Seq(Row)
    BY <2>3
  <2>5. rows' = [rows EXCEPT ![p] =
                   [i \in 1 .. n |-> [rows[p][i] EXCEPT !.logprobs = rows[p][i].of]]]
    BY <2>1, <2>2 DEF SampleOrder
  <2>6. rows' \in [Ranks -> Seq(Row)]
    BY <2>4, <2>5 DEF PlanTypeOK
  <2>7. pc' \in [Ranks -> Pcs]
    BY <2>1 DEF PlanTypeOK, Pcs
  <2>. QED  BY <2>1, <2>6, <2>7 DEF PlanTypeOK, Pcs
<1>3. CASE StartRestore
  BY <1>3 DEF StartRestore, AllGoto, wireVars, packVars, PlanTypeOK
<1>. QED  BY <1>1, <1>2, <1>3

LEMMA PlanTypeKept == RoundInv /\ PlanTypeOK /\ [Next]_vars => PlanTypeOK'
<1>. SUFFICES ASSUME RoundInv, PlanTypeOK, [Next]_vars PROVE PlanTypeOK'
  OBVIOUS
<1>1. CASE UNCHANGED vars
  BY <1>1 DEF vars, PlanTypeOK
<1>2. CASE \E p \in Ranks : Forward \/ AttachLogprobs(p) \/ StartRestore
  BY <1>2, LoopTyped
<1>3. CASE \E p, q \in Ranks : Post(p) \/ Receive(p, q)
  BY <1>3, ExchangeTyped
<1>4. CASE GatherSeqlens \/ Assemble
  BY <1>4, PlanAndRowsTyped
<1>5. CASE \E p \in Ranks : PackLocally(p)
  BY <1>5, PackTyped
<1>6. CASE AllReduce
  BY <1>6, ReduceTyped
<1>. QED  BY <1>1, <1>2, <1>3, <1>4, <1>5, <1>6, OneRank DEF Next

\* The variables of the round keep their types: no rank counts more micro-batches than
\* it has samples, none goes past its last one, and a micro-batch is a set of places.
THEOREM RoundTypeCorrect == Spec => []PlanTypeOK
BY PlanTypeStarts, PlanTypeKept, RoundHolds, PTL DEF Spec

----------------------------------------------------------------------------
\* The shapes of the variables of dynamic context parallelism.

TypedPack(p) ==
    /\ p.ids \in Seq(Gids) /\ Len(p.tokens) = WholeOf(p.padded) /\ p.local_cp_size \in 1 .. Total
PacksTyped ==
    \A r \in Grid : /\ Len(packs[r]) \in Nat /\ DOMAIN packs[r] = 1 .. Len(packs[r])
                    /\ \A m \in DOMAIN packs[r] : TypedPack(packs[r][m])
ComputedTyped ==
    \A r \in Grid : /\ DOMAIN computed[r] \subseteq Gids
                    /\ \A g \in DOMAIN computed[r] : Len(computed[r][g]) = seq_lens[g]

LEMMA ListedPack ==
    ASSUME LensKnown, NEW n \in Nat, NEW ids \in [1 .. n -> Gids], NEW size \in GroupSizes
    PROVE  TypedPack(PackOf(ids, size))
<1>1. PICK w : w = PaddedOf(ids)
  OBVIOUS
<1>2. TokenLists(ids) \in [1 .. n -> Seq(AllTokens)] /\ LensOf(TokenLists(ids), n) = w
  BY <1>1, TokensOfLists
<1>3. Len(FlattenSeq(TokenLists(ids))) = Cumulative(w)[n]
  BY <1>2, FlattenIs DEF Flattened
<1>4. Len(w) = n
  <2>1. w = [i \in 1 .. n |-> Padded(ids[i])]
    BY <1>1 DEF PaddedOf
  <2>. QED  BY <2>1
<1>5. ids \in Seq(Gids) /\ size \in 1 .. Total
  BY SizesAre
<1>. QED  BY <1>1, <1>3, <1>4, <1>5 DEF TypedPack, PackOf, WholeOf

\* What both schedulers have a rank compute has its shape.
LEMMA PlanPacksTyped ==
    ASSUME DefaultInputs, NEW a, Underway(a)
    PROVE  PacksTyped
<1>1. ASSUME NEW r \in Grid
      PROVE  /\ Len(packs[r]) \in Nat /\ DOMAIN packs[r] = 1 .. Len(packs[r])
             /\ \A m \in DOMAIN packs[r] : TypedPack(packs[r][m])
  <2>1. /\ Len(packs[r]) = Number(a) /\ DOMAIN packs[r] = 1 .. Number(a)
        /\ Number(a) \in Nat /\ a \in Assignments
    BY PlanPackIs
  <2>2. packs[r] = PlanPacks(a, r)
    BY DEF Underway, ByPlan
  <2>3. ASSUME NEW m \in 1 .. Number(a) PROVE TypedPack(packs[r][m])
    <3>1. packs[r][m] = PackOf(IdsIn(a, m, r), Cardinality(GroupIn(a, m, r)))
      BY <2>2 DEF PlanPacks
    <3>2. Cardinality(GroupIn(a, m, r)) \in GroupSizes
      BY <2>1, GroupsAre, BlocksAre
    <3>3. PICK n \in Nat : IdsIn(a, m, r) \in [1 .. n -> Gids]
      BY <2>1, PackLists
    <3>. QED  BY <3>1, <3>2, <3>3, DefaultKnown, ListedPack
  <2>. QED  BY <2>1, <2>3
<1>. QED  BY <1>1 DEF PacksTyped

LEMMA SlicePacksTyped ==
    ASSUME SmartInputs, CpIsPower, SmartLoop
    PROVE  PacksTyped
<1>1. PICK M, K, s, L, W :
        /\ Slices(M, K, s, L, W)
        /\ \A r \in Grid : SmartPacks(r) = SlicePacks(M, K, s, L, r)
  BY SmartSliced
<1>2. Sliced(M, K, s, L, W) /\ L \in GroupSizes
  BY <1>1 DEF SmartLoop, Sliced, Slices
<1>3. LensKnown
  BY DEF SmartInputs, LensKnown
<1>4. ASSUME NEW r \in Grid
      PROVE  /\ Len(packs[r]) \in Nat /\ DOMAIN packs[r] = 1 .. Len(packs[r])
             /\ \A m \in DOMAIN packs[r] : TypedPack(packs[r][m])
  <2>1. Len(packs[r]) = K /\ DOMAIN packs[r] = 1 .. K /\ K \in Nat
    BY <1>2, SliceLength
  <2>2. ASSUME NEW m \in 1 .. K PROVE TypedPack(packs[r][m])
    <3>1. PICK z \in Nat : z = r \div L /\ z < W
      BY <1>1, SliceOf
    <3>2. PICK ids : ids = SliceIds(M, s, z, m)
      OBVIOUS
    <3>3. packs[r][m] = PackOf(ids, L)
      BY <1>2, <3>1, <3>2 DEF Sliced, SlicePacks
    <3>4. s[m] \in Nat /\ ids \in [1 .. s[m] -> Gids]
      BY <1>1, <3>1, <3>2, SliceIdsAre
    <3>. QED  BY <1>2, <1>3, <3>3, <3>4, ListedPack
  <2>. QED  BY <2>1, <2>2
<1>. QED  BY <1>4 DEF PacksTyped

LEMMA DealtTyped == DealtInv /\ GroupsFit /\ at[0] = "forward" => PacksTyped
<1>. SUFFICES ASSUME DealtInv, GroupsFit, at[0] = "forward" PROVE PacksTyped
  OBVIOUS
<1>1. CASE task # "smart_padding"
  <2>1. DefaultInputs /\ CpStages
    BY <1>1 DEF DealtInv, CpInv
  <2>2. PICK a : Underway(a)
    BY <2>1, StageAt
  <2>. QED  BY <2>1, <2>2, PlanPacksTyped
<1>2. CASE task = "smart_padding"
  <2>1. CpIsPower /\ SmartInputs /\ SmartStages
    BY <1>2 DEF DealtInv, SmartInv, GroupsFit
  <2>2. SmartLoop
    BY <2>1, GridSizes DEF SmartStages, GridAt, Grid
  <2>. QED  BY <2>1, <2>2, SlicePacksTyped
<1>. QED  BY <1>1, <1>2

\* During the passes: what is computed, and how many passes have ended.
LEMMA PassTyped ==
    ASSUME CpInv, task = "logprobs", at[0] = "forward"
    PROVE  ComputedTyped /\ \E p : PassesDone(p)
<1>1. DefaultInputs /\ CpStages
  BY DEF CpInv
<1>2. PICK a : Underway(a)
  BY <1>1, StageAt
<1>3. computed = [r \in Grid |-> Known(Seen(a, r, next[r]))] /\ DOMAIN a = Gids
  BY <1>1, <1>2, AssignmentIs DEF Underway, Progress, ByPlan
<1>4. \A g \in Gids : Len(Logprobs(g)) = seq_lens[g]
  BY <1>1, DefaultKnown, TokensAre
<1>5. ASSUME NEW r \in Grid
      PROVE  /\ DOMAIN computed[r] \subseteq Gids
             /\ \A g \in DOMAIN computed[r] : Len(computed[r][g]) = seq_lens[g]
  <2>1. PICK S : S = Seen(a, r, next[r])
    OBVIOUS
  <2>2. S \subseteq Gids
    BY <1>3, <2>1 DEF Seen
  <2>3. computed[r] = [g \in S |-> Logprobs(g)]
    BY <1>3, <2>1 DEF Known
  <2>. QED  BY <1>4, <2>2, <2>3
<1>6. \E p : PassesDone(p)
  BY <1>2 DEF Underway
<1>. QED  BY <1>5, <1>6 DEF ComputedTyped

LEMMA PassTypedIs == CpInv /\ task = "logprobs" /\ at[0] = "forward" => ComputedTyped
BY PassTyped

\* The shapes in parts.
StepsTyped ==
    \A r \in Grid : /\ next[r] \in 1 .. Len(packs[r]) + 1
                    /\ \A m \in DOMAIN packs[r] : TypedPack(packs[r][m])
FixedTyped ==
    /\ task \in {"logprobs", "train", "smart_padding"} /\ seq_lens \in [Gids -> Originals]
    /\ at \in [Grid -> {"schedule", "reroute", "forward", "done"}]
    /\ Len(sample_id_groups) <= MaxMbs
ResultsTyped == \A r \in Grid : Len(results[r]) <= Passes

LEMMA CpTypeIs ==
    CpTypeOK <=> /\ FixedTyped /\ StepsTyped /\ ComputedTyped /\ ResultsTyped
                 /\ token_count \in [Grid -> Nat]
BY DEF CpTypeOK, FixedTyped, StepsTyped, TypedPack, ComputedTyped, ResultsTyped

\* It begins in shape.
LEMMA CpTypeStarts ==
    ASSUME CpStart, task \in {"logprobs", "train", "smart_padding"}, LensKnown
    PROVE  CpTypeOK
<1>1. FixedTyped
  <2>1. Len(sample_id_groups) = 0 /\ MaxMbs \in Nat
    BY DynamicCpAssumption DEF CpStart, DynamicCpAssumption
  <2>. QED  BY <2>1 DEF FixedTyped, CpStart, LensKnown
<1>2. StepsTyped
  BY DEF StepsTyped, CpStart
<1>3. ComputedTyped
  BY DEF ComputedTyped, CpStart, Empty
<1>4. ResultsTyped
  <2>1. Passes \in Nat /\ Len(<<>>) = 0
    BY DynamicCpAssumption DEF DynamicCpAssumption
  <2>2. \A r \in Grid : Len(results[r]) = 0
    BY <2>1 DEF CpStart
  <2>. QED  BY <2>1, <2>2 DEF ResultsTyped
<1>. QED  BY <1>1, <1>2, <1>3, <1>4, CpTypeIs DEF CpStart

\* The steps that make the packs and the others.
LEMMA PackingTyped ==
    ASSUME CpTypeOK, Dealt, PacksTyped', Reroute \/ SelectLocally
    PROVE  CpTypeOK'
<1>1. /\ UNCHANGED <<task, offsets, seq_lens, next, computed, token_count, results>>
      /\ GridGoto("forward")
      /\ sample_id_groups' = <<>> \/ sample_id_groups' = sample_id_groups
  BY DEF Reroute, SelectLocally, batchVars, planVars
<1>2. next' = [r \in Grid |-> 1]
  <2>1. at[0] \in {"reroute", "schedule"}
    BY GridSizes DEF Reroute, SelectLocally, GridAt, Grid
  <2>. QED  BY <1>1, <2>1 DEF Dealt
<1>3. StepsTyped'
  <2>1. \A r \in Grid : Len(packs'[r]) \in Nat
    BY DEF PacksTyped
  <2>2. ASSUME NEW r \in Grid PROVE next'[r] \in 1 .. Len(packs'[r]) + 1
    BY <1>2, <2>1
  <2>. QED  BY <2>2 DEF StepsTyped, PacksTyped
<1>4. FixedTyped'
  <2>1. Len(<<>>) = 0 /\ MaxMbs \in Nat
    BY DynamicCpAssumption DEF DynamicCpAssumption
  <2>2. Len(sample_id_groups') <= MaxMbs
    BY <1>1, <2>1, CpTypeIs DEF FixedTyped
  <2>. QED  BY <1>1, <2>2, CpTypeIs DEF FixedTyped, GridGoto, Gids
<1>5. ComputedTyped' /\ ResultsTyped' /\ token_count' \in [Grid -> Nat]
  BY <1>1, CpTypeIs DEF ComputedTyped, ResultsTyped, Gids
<1>6. (CpTypeOK <=> /\ FixedTyped /\ StepsTyped /\ ComputedTyped /\ ResultsTyped
                    /\ token_count \in [Grid -> Nat])'
  BY CpTypeIs, PTL
<1>. QED  BY <1>3, <1>4, <1>5, <1>6

\* A micro-batch takes the members of a group to the next one.
LEMMA GroupTyped ==
    ASSUME StepsTyped, PacksTyped, NEW G, Meets(G), Advance(G),
           UNCHANGED <<packs, offsets>>
    PROVE  StepsTyped'
<1>1. ASSUME NEW q \in Grid PROVE next'[q] \in 1 .. Len(packs[q]) + 1
  <2>1. next[q] \in 1 .. Len(packs[q]) + 1 /\ Len(packs[q]) \in Nat
    BY DEF StepsTyped, PacksTyped
  <2>2. CASE q \in G
    <3>1. next[q] <= Len(packs[q]) /\ next'[q] = next[q] + 1
      BY <2>2 DEF Meets, InMbLoop, Advance
    <3>. QED  BY <2>1, <3>1
  <2>3. CASE q \notin G
    BY <2>1, <2>3 DEF Advance
  <2>. QED  BY <2>2, <2>3
<1>2. \A p : TypedPack(p)' = TypedPack(p)
  BY DEF TypedPack, Gids
<1>. QED  BY <1>1, <1>2 DEF StepsTyped

LEMMA MicroBatchTyped ==
    ASSUME CpTypeOK, PacksTyped, OnceInv', GroupsFit', NEW r \in Grid, at[0] = "forward",
           ComputeLogprobs(r) \/ TrainMicroBatch(r)
    PROVE  CpTypeOK'
<1>1. /\ UNCHANGED <<task, offsets, seq_lens, at, sample_id_groups, packs, results>>
      /\ Meets(CpGroup(r)) /\ Advance(CpGroup(r))
  BY DEF ComputeLogprobs, TrainMicroBatch, Leads, batchVars, planVars
<1>2. StepsTyped'
  BY <1>1, GroupTyped, CpTypeIs
<1>3. ComputedTyped'
  <2>1. CASE task = "logprobs"
    <3>1. (CpInv /\ task = "logprobs" /\ at[0] = "forward" => ComputedTyped)'
      BY PassTypedIs, PTL
    <3>. QED  BY <1>1, <2>1, <3>1 DEF OnceInv, DealtInv
  <2>2. CASE task # "logprobs"
    <3>1. computed' = computed
      BY <2>2 DEF ComputeLogprobs, TrainMicroBatch
    <3>. QED  BY <1>1, <3>1, CpTypeIs DEF ComputedTyped, Gids
  <2>. QED  BY <2>1, <2>2
<1>4. token_count' \in [Grid -> Nat]
  <2>1. CASE task = "logprobs"
    <3>1. token_count' = token_count
      BY <2>1 DEF ComputeLogprobs, TrainMicroBatch
    <3>. QED  BY <3>1 DEF CpTypeOK
  <2>2. CASE task # "logprobs"
    <3>1. Counted'
      BY <1>1, <2>2 DEF OnceInv, TokenInv
    <3>2. \A q \in Grid : IsFiniteSet(Taken(q, next[q])')
      BY <3>1 DEF Counted
    <3>3. \A q \in Grid : Cardinality(Taken(q, next[q])') \in Nat
      BY <3>2, FS_CardinalityType
    <3>. QED  BY <3>1, <3>3 DEF Counted
  <2>. QED  BY <2>1, <2>2
<1>5. FixedTyped' /\ ResultsTyped'
  BY <1>1, CpTypeIs DEF FixedTyped, ResultsTyped, Gids
<1>6. (CpTypeOK <=> /\ FixedTyped /\ StepsTyped /\ ComputedTyped /\ ResultsTyped
                    /\ token_count \in [Grid -> Nat])'
  BY CpTypeIs, PTL
<1>. QED  BY <1>2, <1>3, <1>4, <1>5, <1>6

LEMMA ReturnTyped ==
    ASSUME CpTypeOK, PacksTyped, CpInv, at[0] = "forward", ReturnLogprobs
    PROVE  CpTypeOK'
<1>1. /\ task = "logprobs" /\ computed' = [r \in Grid |-> Empty]
      /\ UNCHANGED <<task, offsets, seq_lens, sample_id_groups, packs, token_count>>
      /\ next' = [r \in Grid |-> 1] \/ next' = next
      /\ at' = at \/ GridGoto("done")
      /\ results' = [r \in Grid |->
            Append(results[r], [i \in 1 .. Cardinality(GidsOf(DpOf(r))) |->
                                  BroughtBack(r, offsets[DpOf(r)] + i - 1)])]
  BY DEF ReturnLogprobs, batchVars, planVars
<1>2. FixedTyped'
  BY <1>1, CpTypeIs DEF FixedTyped, GridGoto, Gids
<1>3. StepsTyped'
  <2>1. \A p : TypedPack(p)' = TypedPack(p)
    BY <1>1 DEF TypedPack, Gids
  <2>2. ASSUME NEW r \in Grid PROVE next'[r] \in 1 .. Len(packs[r]) + 1
    <3>1. next[r] \in 1 .. Len(packs[r]) + 1 /\ Len(packs[r]) \in Nat
      BY CpTypeIs DEF StepsTyped, PacksTyped
    <3>. QED  BY <1>1, <3>1
  <2>. QED  BY <1>1, <2>1, <2>2, CpTypeIs DEF StepsTyped
<1>4. ComputedTyped'
  BY <1>1 DEF ComputedTyped, Empty
<1>5. ResultsTyped'
  <2>1. PICK p \in Nat : p <= Passes - 1 /\ Returned(p) /\ Passes \in Nat
    <3>1. \E p : PassesDone(p)
      BY <1>1, PassTyped
    <3>2. Passes \in Nat
      BY DynamicCpAssumption DEF DynamicCpAssumption
    <3>. QED  BY <3>1, <3>2 DEF PassesDone
  <2>2. ASSUME NEW r \in Grid PROVE Len(results'[r]) <= Passes
    <3>1. PICK x, y : results[r] = [i \in 1 .. p |-> x] /\ results'[r] = Append(results[r], y)
      BY <1>1, <2>1 DEF Returned
    <3>2. Len(results'[r]) = p + 1
      BY <3>1
    <3>. QED  BY <2>1, <3>2
  <2>. QED  BY <2>2 DEF ResultsTyped
<1>6. (CpTypeOK <=> /\ FixedTyped /\ StepsTyped /\ ComputedTyped /\ ResultsTyped
                    /\ token_count \in [Grid -> Nat])'
  BY CpTypeIs, PTL
<1>. QED  BY <1>1, <1>2, <1>3, <1>4, <1>5, <1>6, CpTypeIs

LEMMA OutsideTyped ==
    ASSUME CpTypeOK, CpInv, Schedule \/ ReduceGradients \/ UNCHANGED cpVars
    PROVE  CpTypeOK'
<1>1. /\ UNCHANGED <<task, offsets, seq_lens, packs, next, computed, token_count, results>>
      /\ at' = at \/ GridGoto("reroute") \/ GridGoto("done")
  BY DEF Schedule, ReduceGradients, cpVars, batchVars
<1>2. Len(sample_id_groups') <= MaxMbs
  <2>1. CASE Schedule
    <3>1. PICK a \in Assignments : sample_id_groups' = GroupsOf(a)
      BY <2>1 DEF Schedule
    <3>2. DefaultInputs
      BY <2>1 DEF Schedule, CpInv
    <3>3. Number(a) \in 1 .. MaxMbs
      BY <3>2, AssignmentIs
    <3>4. PICK f : sample_id_groups' = [m \in 1 .. Number(a) |-> f[m]]
      <4>1. GroupsOf(a) = [m \in 1 .. Number(a) |-> GroupsOf(a)[m]]
        BY DEF GroupsOf, Number
      <4>. QED  BY <3>1, <4>1
    <3>5. Len(sample_id_groups') = Number(a)
      BY <3>3, <3>4
    <3>6. MaxMbs \in Nat
      BY DynamicCpAssumption DEF DynamicCpAssumption
    <3>. QED  BY <3>3, <3>5, <3>6
  <2>2. CASE ~ Schedule
    <3>1. sample_id_groups' = sample_id_groups
      BY <2>2 DEF ReduceGradients, cpVars, planVars
    <3>. QED  BY <3>1 DEF CpTypeOK
  <2>. QED  BY <2>1, <2>2
<1>. QED  BY <1>1, <1>2 DEF CpTypeOK, GridGoto, Gids

\* The invariant.
CpTypeInv == OnceInv /\ (GroupsFit => CpTypeOK)

LEMMA CpTypeInit == CpInit => CpTypeInv
<1>. SUFFICES ASSUME CpInit PROVE CpTypeInv
  OBVIOUS
<1>1. OnceInv
  BY OnceStarts
<1>2. LensKnown
  BY SmartStarts, CpStarts, DefaultKnown DEF CpInv, SmartInv, SmartInputs, LensKnown
<1>3. CpTypeOK
  BY <1>2, CpTypeStarts DEF CpInit, Inputs
<1>. QED  BY <1>1, <1>3 DEF CpTypeInv

LEMMA CpTypeKept == CpTypeInv /\ [CpNext]_cpVars => CpTypeInv'
<1>. SUFFICES ASSUME CpTypeInv, [CpNext]_cpVars PROVE CpTypeInv'
  OBVIOUS
<1>1. OnceInv /\ OnceInv'
  BY OnceKeeps DEF CpTypeInv
<1>2. task' = task
  BY DEF CpNext, Schedule, Reroute, SelectLocally, ReduceGradients, ReturnLogprobs,
         ComputeLogprobs, TrainMicroBatch, cpVars, batchVars
<1>3. ASSUME GroupsFit' PROVE CpTypeOK'
  <2>1. GroupsFit /\ CpTypeOK /\ DealtInv /\ DealtInv' /\ CpInv
    BY <1>1, <1>2, <1>3 DEF CpTypeInv, GroupsFit, OnceInv, DealtInv
  <2>2. Dealt /\ 0 \in Grid
    BY <2>1, DealtIs, GridSizes DEF Grid
  <2>3. at[0] = "forward" => PacksTyped
    BY <2>1, DealtTyped
  <2>4. (DealtInv /\ GroupsFit /\ at[0] = "forward" => PacksTyped)'
    BY DealtTyped, PTL
  <2>5. CASE Schedule \/ ReduceGradients \/ UNCHANGED cpVars
    BY <2>1, <2>5, OutsideTyped
  <2>6. CASE Reroute \/ SelectLocally
    <3>1. at'[0] = "forward"
      BY <2>2, <2>6 DEF Reroute, SelectLocally, GridGoto
    <3>. QED  BY <1>3, <2>1, <2>2, <2>4, <2>6, <3>1, PackingTyped
  <2>7. CASE ReturnLogprobs
    <3>1. at[0] = "forward"
      BY <2>2, <2>7 DEF ReturnLogprobs, PastLoop
    <3>. QED  BY <2>1, <2>3, <2>7, <3>1, ReturnTyped
  <2>8. ASSUME NEW r \in Grid, ComputeLogprobs(r) \/ TrainMicroBatch(r) PROVE CpTypeOK'
    <3>1. at[r] = "forward"
      BY <2>8 DEF ComputeLogprobs, TrainMicroBatch, Leads, InMbLoop
    <3>2. at[0] = "forward"
      BY <2>2, <3>1 DEF Dealt
    <3>. QED  BY <1>1, <1>3, <2>1, <2>3, <2>8, <3>2, MicroBatchTyped
  <2>. QED  BY <2>5, <2>6, <2>7, <2>8 DEF CpNext
<1>. QED  BY <1>1, <1>3 DEF CpTypeInv

\* The variables of dynamic context parallelism keep their types: a packed micro-batch
\* is as long as its padded samples, a group fits the grid, no rank goes past its last
\* micro-batch, and what is computed for a sample has the sample's length.
THEOREM DynamicTypeCorrect == CpSpec => [](GroupsFit => CpTypeOK)
<1>1. CpTypeInv => (GroupsFit => CpTypeOK)
  BY DEF CpTypeInv
<1>. QED  BY <1>1, CpTypeInit, CpTypeKept, PTL DEF CpSpec

\* The variables of both ways, for the specification in which a run takes one: each
\* keeps the types, the unused ones because they stay as they began, at values that
\* exist where there are lengths and context-parallel sizes.
THEOREM EitherWayTypeCorrect ==
    ASSUME Lengths # {}, CpSizes # {}, Originals # {}
    PROVE  EitherSpec => [](GroupsFit => TypeOK)
<1>. DEFINE Round == PlanTypeOK /\ (way = "balance_dp_seqlen" => RoundInv)
            Dynamic == /\ GroupsFit => CpTypeOK
                       /\ way = "dynamic_cp" => OnceInv
            Inv == way \in {"balance_dp_seqlen", "dynamic_cp"} /\ Round /\ Dynamic
<1>1. EitherInit => Inv
  <2>. SUFFICES ASSUME EitherInit PROVE Inv
    OBVIOUS
  <2>1. Min(Lengths) \in Lengths /\ Min(CpSizes) \in CpSizes /\ Min(Originals) \in Originals
    <3>1. Lengths \in SUBSET Nat /\ CpSizes \in SUBSET Nat /\ Originals \in SUBSET Nat
      BY BatchPlanAssumption, GridSizes DEF BatchPlanAssumption
    <3>. QED  BY <3>1, Least
  <2>2. CASE way = "balance_dp_seqlen" /\ Init /\ DynamicUnused
    <3>1. Round
      BY <2>2, PlanTypeStarts, InitRound
    <3>2. CpTypeOK
      BY <2>1, <2>2, CpTypeStarts DEF DynamicUnused, LensKnown
    <3>. QED  BY <2>2, <3>1, <3>2
  <2>3. CASE way = "dynamic_cp" /\ CpInit /\ BalancedUnused
    <3>1. Init
      BY <2>1, <2>3 DEF BalancedUnused, Init
    <3>2. PlanTypeOK
      BY <3>1, PlanTypeStarts
    <3>3. CpTypeInv
      BY <2>3, CpTypeInit
    <3>. QED  BY <2>3, <3>2, <3>3 DEF CpTypeInv
  <2>. QED  BY <2>2, <2>3 DEF EitherInit
<1>2. Inv /\ [EitherNext]_<<way, cpVars, vars>> => Inv'
  <2>. SUFFICES ASSUME Inv, [EitherNext]_<<way, cpVars, vars>> PROVE Inv'
    OBVIOUS
  <2>1. way' = way
    BY DEF EitherNext
  <2>2. [Next]_vars /\ [CpNext]_cpVars
    BY DEF EitherNext
  <2>3. CASE way = "balance_dp_seqlen"
    <3>1. UNCHANGED cpVars
      BY <2>3 DEF EitherNext
    <3>2. Round'
      BY <2>1, <2>2, <2>3, NextRound, PlanTypeKept
    <3>3. Dynamic'
      BY <2>1, <2>3, <3>1 DEF cpVars, batchVars, planVars, CpTypeOK, GroupsFit, Gids
    <3>. QED  BY <2>1, <3>2, <3>3
  <2>4. CASE way = "dynamic_cp"
    <3>1. UNCHANGED vars
      BY <2>4 DEF EitherNext
    <3>2. Round'
      BY <2>1, <2>4, <3>1 DEF vars, PlanTypeOK
    <3>3. CpTypeInv'
      BY <2>2, <2>4, CpTypeKept DEF CpTypeInv
    <3>. QED  BY <2>1, <3>2, <3>3 DEF CpTypeInv
  <2>. QED  BY <2>3, <2>4
<1>3. Inv => (GroupsFit => TypeOK)
  BY DEF TypeOK
<1>. QED  BY <1>1, <1>2, <1>3, PTL DEF EitherSpec

===============================================================================
