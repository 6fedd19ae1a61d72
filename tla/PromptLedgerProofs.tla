-------------------------- MODULE PromptLedgerProofs --------------------------
(***************************************************************************)
(* The ledger keeps its books, for any step size, run length and pattern   *)
(* of reads, checkpoints and restarts.                                     *)
(***************************************************************************)
EXTENDS PromptLedger, FiniteSetTheorems, TLAPS

\* LedgerAssumption is constant: carrying it makes every step lemma stand alone.
LedgerInv == LedgerAssumption /\ TypeOK /\ Balanced

LEMMA EmptyBooks == LedgerAssumption => BalancedBooks(0, {}, 0)
<1>. SUFFICES ASSUME LedgerAssumption PROVE BalancedBooks(0, {}, 0)
  OBVIOUS
<1>1. IsFiniteSet({}) /\ Cardinality({}) = 0
  BY FS_EmptySet
<1>2. 0 * StepSize = 0
  BY DEF LedgerAssumption
<1>. QED  BY <1>1, <1>2 DEF BalancedBooks

LEMMA InitLedgerInv == LedgerAssumption /\ Init => LedgerInv
<1>. SUFFICES ASSUME LedgerAssumption, Init PROVE LedgerInv
  OBVIOUS
<1>1. TypeOK
  BY DEF LedgerAssumption, Init, TypeOK
<1>2. Balanced
  BY EmptyBooks DEF Init, Balanced
<1>. QED  BY <1>1, <1>2 DEF LedgerInv

LEMMA StreamGrows ==
    ASSUME NEW a \in Nat, NEW b \in Nat, a <= b
    PROVE  0 .. a - 1 \subseteq 0 .. b - 1
OBVIOUS

LEMMA ReadLedgerInv == LedgerInv /\ Read => LedgerInv'
<1>. SUFFICES ASSUME LedgerInv, Read PROVE LedgerInv'
  OBVIOUS
<1>1. PICK n \in 1 .. MaxRead : read' = read + n
  BY DEF Read
<1>2. /\ read \in Nat /\ read' \in Nat /\ read <= read'
      /\ UNCHANGED <<trained, step, saved>>
  BY <1>1 DEF LedgerAssumption, LedgerInv, TypeOK, Read
<1>3. TypeOK'
  BY <1>2 DEF LedgerInv, TypeOK
<1>4. 0 .. read - 1 \subseteq 0 .. read' - 1
  <2>1. read \in Nat /\ read' \in Nat /\ read <= read'
    BY <1>2
  <2>. QED  BY <2>1, StreamGrows
<1>5. Balanced'
  <2>1. BalancedBooks(read, trained, step)
    BY DEF LedgerInv, Balanced
  <2>2. BalancedBooks(read', trained, step)
    BY <1>4, <2>1 DEF BalancedBooks
  <2>. QED  BY <1>2, <2>2 DEF LedgerInv, Balanced
<1>. QED  BY <1>3, <1>5 DEF LedgerInv

\* The one step that changes the books: what is owed is disjoint from what is
\* trained, so the two cardinalities add up.
LEMMA TrainStepLedgerInv == LedgerInv /\ TrainStep => LedgerInv'
<1>. SUFFICES ASSUME LedgerInv, TrainStep PROVE LedgerInv'
  OBVIOUS
<1>. USE DEF LedgerAssumption, LedgerInv
<1>1. PICK S \in SUBSET Owed : Cardinality(S) = StepSize /\ trained' = trained \cup S
  BY DEF TrainStep
<1>2. /\ read \in Nat /\ step \in 0 .. MaxStep /\ step < MaxStep
      /\ step' = step + 1 /\ UNCHANGED <<read, saved>>
      /\ BalancedBooks(read, trained, step)
  BY DEF LedgerInv, TypeOK, Balanced, TrainStep
<1>3. S \subseteq 0 .. read - 1 /\ S \cap trained = {}
  BY <1>1 DEF Owed
<1>4. IsFiniteSet(0 .. read - 1)
  BY <1>2, FS_Interval
<1>5. IsFiniteSet(S) /\ IsFiniteSet(trained)
  BY <1>2, <1>3, <1>4, FS_Subset DEF BalancedBooks
<1>6. /\ IsFiniteSet(trained \cup S)
      /\ Cardinality(trained \cup S)
           = Cardinality(trained) + Cardinality(S) - Cardinality(trained \cap S)
  BY <1>5, FS_Union
<1>7. trained \cap S = {} /\ Cardinality({}) = 0
  BY <1>3, FS_EmptySet
<1>8. Cardinality(trained) = step * StepSize
  BY <1>2 DEF BalancedBooks
<1>9. Cardinality(trained \cup S) = (step + 1) * StepSize
  <2>1. step * StepSize \in Nat /\ (step + 1) * StepSize = step * StepSize + StepSize
    BY <1>2
  <2>. DEFINE booked == step * StepSize
  <2>2. booked \in Nat /\ Cardinality(trained) = booked /\ StepSize \in Nat
    BY <1>8, <2>1
  <2>3. Cardinality(trained \cup S) = Cardinality(trained) + StepSize - 0
    BY <1>1, <1>6, <1>7
  <2>. HIDE DEF booked
  <2>4. Cardinality(trained \cup S) = booked + StepSize
    BY <2>2, <2>3
  <2>. QED  BY <2>1, <2>4 DEF booked
<1>10. BalancedBooks(read, trained, step)'
  <2>1. trained \cup S \subseteq 0 .. read - 1
    BY <1>2, <1>3 DEF BalancedBooks
  <2>2. BalancedBooks(read, trained \cup S, step + 1)
    BY <1>6, <1>9, <2>1 DEF BalancedBooks
  <2>. QED  BY <1>1, <1>2, <2>2 DEF BalancedBooks
<1>11. Balanced'
  BY <1>2, <1>10 DEF LedgerInv, Balanced, BalancedBooks
<1>12. TypeOK'
  <2>1. step' \in 0 .. MaxStep
    BY <1>2
  <2>2. trained' \in SUBSET Nat
    BY <1>1, <1>2, <1>3 DEF LedgerInv, TypeOK
  <2>. QED  BY <1>2, <2>1, <2>2 DEF LedgerInv, TypeOK
<1>. QED  BY <1>11, <1>12 DEF LedgerInv

LEMMA SaveLedgerInv == LedgerInv /\ Save => LedgerInv'
<1>. SUFFICES ASSUME LedgerInv, Save PROVE LedgerInv'
  OBVIOUS
<1>. DEFINE entry == [read |-> read, trained |-> trained]
<1>1. /\ UNCHANGED <<read, trained, step>>
      /\ saved' = [s \in DOMAIN saved \cup {step} |-> IF s = step THEN entry ELSE saved[s]]
      /\ step \in 1 .. MaxStep
  BY DEF LedgerAssumption, LedgerInv, TypeOK, Save
<1>2. entry \in Entry
  BY DEF LedgerInv, TypeOK, Entry
<1>3. entry.read = read /\ entry.trained = trained
  OBVIOUS
<1>. HIDE DEF entry
<1>4. TypeOK'
  BY <1>1, <1>2 DEF LedgerInv, TypeOK
<1>5. \A s \in DOMAIN saved' : BalancedBooks(saved'[s].read, saved'[s].trained, s)
  BY <1>1, <1>3 DEF LedgerInv, Balanced
<1>6. Balanced'
  BY <1>1, <1>5 DEF LedgerInv, Balanced, BalancedBooks
<1>. QED  BY <1>4, <1>6 DEF LedgerInv

LEMMA RestartLedgerInv == LedgerInv /\ Restart => LedgerInv'
<1>. SUFFICES ASSUME LedgerInv, Restart PROVE LedgerInv'
  OBVIOUS
<1>1. UNCHANGED saved
  BY DEF Restart
<1>2. CASE DOMAIN saved = {} /\ read' = 0 /\ trained' = {} /\ step' = 0
  <2>1. TypeOK'
    BY <1>1, <1>2 DEF LedgerAssumption, LedgerInv, TypeOK
  <2>2. Balanced'
    BY <1>1, <1>2, EmptyBooks DEF LedgerInv, Balanced, BalancedBooks
  <2>. QED  BY <2>1, <2>2 DEF LedgerInv
<1>3. CASE \E s \in DOMAIN saved :
              read' = saved[s].read /\ trained' = saved[s].trained /\ step' = s
  <2>1. PICK s \in DOMAIN saved :
            read' = saved[s].read /\ trained' = saved[s].trained /\ step' = s
    BY <1>3
  <2>2. /\ saved[s] \in Entry /\ s \in 1 .. MaxStep
        /\ BalancedBooks(saved[s].read, saved[s].trained, s)
    BY DEF LedgerInv, TypeOK, Balanced
  <2>3. TypeOK'
    BY <1>1, <2>1, <2>2 DEF LedgerAssumption, LedgerInv, TypeOK, Entry
  <2>4. Balanced'
    BY <1>1, <2>1, <2>2 DEF LedgerInv, Balanced, BalancedBooks
  <2>. QED  BY <2>3, <2>4 DEF LedgerInv
<1>. QED  BY <1>2, <1>3 DEF Restart

\* However prompts are read, saved and resumed, n completed steps have trained
\* exactly n * StepSize distinct prompts, in memory and in every checkpoint.
THEOREM LedgerStaysBalanced == LedgerAssumption /\ Spec => []Balanced
<1>1. LedgerAssumption /\ Init => LedgerInv
  BY InitLedgerInv
<1>2. LedgerInv /\ [Next]_ledgerVars => LedgerInv'
  <2>1. LedgerInv /\ UNCHANGED ledgerVars => LedgerInv'
    BY DEF LedgerAssumption, LedgerInv, TypeOK, Balanced, BalancedBooks, ledgerVars
  <2>. QED  BY <2>1, ReadLedgerInv, TrainStepLedgerInv, SaveLedgerInv, RestartLedgerInv DEF Next
<1>3. LedgerInv => Balanced
  BY DEF LedgerInv
<1>. QED  BY <1>1, <1>2, <1>3, PTL DEF Spec
=============================================================================
