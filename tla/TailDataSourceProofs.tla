------------------------ MODULE TailDataSourceProofs ------------------------
(***************************************************************************)
(* Proofs about TailDataSource: for every epoch length, step size and      *)
(* over-dispatch the resumed data source serves one stream and owes every  *)
(* microbatch it read and did not train exactly once.                      *)
(***************************************************************************)
EXTENDS TailDataSource, SequenceTheorems, WellFoundedInduction, TLAPS

----------------------------------------------------------------------------
\* Arithmetic of an epoch.

LEMMA Euclid ==
    ASSUME NEW a \in Nat, NEW b \in Nat \ {0}
    PROVE  a \div b \in Nat /\ a % b \in 0 .. b - 1 /\ a = (a \div b) * b + (a % b)
<1>1. a \div b \in Nat
  OBVIOUS
<1>2. a % b \in 0 .. b - 1
  OBVIOUS
<1>3. a % b \in Int /\ a \div b \in Int
  BY <1>1, <1>2
<1>4. a = (a \div b) * b + (a % b)
  <2>1. PICK q \in Int, r \in Int : q = a \div b /\ r = a % b
    BY <1>3
  <2>2. a = q * b + r
    BY <2>1
  <2>. QED  BY <2>1, <2>2
<1>. QED  BY <1>1, <1>2, <1>4

LEMMA Division ==
    ASSUME NEW n \in Nat
    PROVE  /\ n \div EpochLen \in Nat /\ n % EpochLen \in 0 .. EpochLen - 1
           /\ n = (n \div EpochLen) * EpochLen + (n % EpochLen)
<1>1. EpochLen \in Nat \ {0}
  BY TailDataSourceAssumption DEF TailDataSourceAssumption
<1>. QED  BY <1>1, Euclid

LEMMA Product ==
    ASSUME NEW a \in Nat, NEW b \in Nat
    PROVE  /\ a * EpochLen \in Nat
           /\ (a + b) * EpochLen = a * EpochLen + b * EpochLen
           /\ (a + 1) * EpochLen = a * EpochLen + EpochLen
           /\ b > 0 => b * EpochLen >= EpochLen
<1>. EpochLen \in Nat
  BY TailDataSourceAssumption DEF TailDataSourceAssumption
<1>1. a * EpochLen \in Nat /\ (a + 1) * EpochLen = a * EpochLen + EpochLen
  OBVIOUS
<1>2. (a + b) * EpochLen = a * EpochLen + b * EpochLen
  OBVIOUS
<1>3. ASSUME b > 0 PROVE b * EpochLen >= EpochLen
  <2>1. b - 1 \in Nat /\ b = (b - 1) + 1
    BY <1>3
  <2>2. PICK c \in Nat : b = c + 1
    BY <2>1
  <2>3. (c + 1) * EpochLen = c * EpochLen + EpochLen /\ c * EpochLen \in Nat
    OBVIOUS
  <2>. QED  BY <2>2, <2>3
<1>. QED  BY <1>1, <1>2, <1>3

\* A place of an epoch is determined by its position in the stream.
LEMMA PositionDecides ==
    ASSUME NEW e \in Nat, NEW f \in Nat,
           NEW i \in 0 .. EpochLen - 1, NEW j \in 0 .. EpochLen - 1,
           e * EpochLen + i = f * EpochLen + j
    PROVE  e = f /\ i = j
<1>. EpochLen \in Nat
  BY TailDataSourceAssumption DEF TailDataSourceAssumption
<1>1. ASSUME NEW a \in Nat, NEW b \in Nat, NEW x \in 0 .. EpochLen - 1, NEW y \in 0 .. EpochLen - 1,
             a * EpochLen + x = b * EpochLen + y, a < b
      PROVE  FALSE
  <2>1. PICK d \in Nat : b = a + d /\ d > 0
    <3>1. b - a \in Nat /\ b = a + (b - a) /\ b - a > 0
      BY <1>1
    <3>. QED  BY <3>1
  <2>2. b * EpochLen = a * EpochLen + d * EpochLen /\ d * EpochLen >= EpochLen
    BY <2>1, Product
  <2>3. a * EpochLen \in Nat /\ d * EpochLen \in Nat
    BY Product
  <2>. QED  BY <1>1, <2>2, <2>3
<1>2. e = f
  BY <1>1
<1>3. e * EpochLen \in Nat
  BY Product
<1>. QED  BY <1>2, <1>3

Pos(m) == m.epoch * EpochLen + m.at
StreamAt(n) == At((n - 1) \div EpochLen, (n - 1) % EpochLen)

LEMMA PosNat ==
    ASSUME NEW m \in Microbatch PROVE Pos(m) \in Nat
<1>1. m.epoch \in Nat /\ m.at \in Nat
  BY TailDataSourceAssumption DEF Microbatch, TailDataSourceAssumption
<1>2. m.epoch * EpochLen \in Nat
  BY <1>1, Product
<1>. QED  BY <1>1, <1>2 DEF Pos

LEMMA PosOfStream ==
    ASSUME NEW m \in Microbatch, NEW n \in Nat, Pos(m) = n
    PROVE  m = StreamAt(n + 1)
<1>1. /\ n = (n \div EpochLen) * EpochLen + (n % EpochLen)
      /\ n \div EpochLen \in Nat /\ n % EpochLen \in 0 .. EpochLen - 1
  BY Division
<1>2. m.epoch \in Nat /\ m.at \in 0 .. EpochLen - 1 /\ m = [epoch |-> m.epoch, at |-> m.at]
  BY DEF Microbatch
<1>5. m.epoch * EpochLen + m.at = (n \div EpochLen) * EpochLen + (n % EpochLen)
  BY <1>1 DEF Pos
<1>3. m.epoch = n \div EpochLen /\ m.at = n % EpochLen
  BY <1>1, <1>2, <1>5, PositionDecides
<1>4. (n + 1) - 1 = n
  OBVIOUS
<1>. QED  BY <1>2, <1>3, <1>4 DEF StreamAt, At

----------------------------------------------------------------------------
\* The invariant.

\* A snapshot that has been written: it is from a step that is behind, and its
\* books balance on their own.
Entry == [total_dl_consumed : Nat, current_epoch : Nat, buffer : Seq(Microbatch)]
EntryBooks(s) == snapshots[s].total_dl_consumed = s * NumMb + Len(snapshots[s].buffer)
SnapshotsOK ==
    \A s \in DOMAIN snapshots :
        /\ s \in 1 .. step /\ snapshots[s] \in Entry /\ EntryBooks(s)
        /\ snapshots[s].total_dl_consumed <= total_dl_consumed

SnapshotsGrow ==
    \A r, s \in DOMAIN snapshots :
        r <= s => snapshots[r].total_dl_consumed <= snapshots[s].total_dl_consumed

\* The first get_batch opens the iterator, and a step is fetched before it is
\* trained and trained before it is saved.
PcOK ==
    /\ train_iter # NoIter => current_epoch \in Nat
    /\ train_iter = NoIter => total_dl_consumed = 0 /\ pc = "fetch"
    /\ pc = "train" => step < MaxStep /\ Len(held) >= NumMb
    /\ pc = "save" => step >= 1

Books ==
    /\ total_dl_consumed = step * NumMb + Len(buffer) + Len(held)
    /\ Len(served) = total_dl_consumed

CountInv == TypeOK /\ SnapshotsOK /\ SnapshotsGrow /\ PcOK /\ Books

\* The cursor is where the stream is, and so is that of every snapshot that
\* does not end an epoch; what is owed is distinct and behind the cursor.
Owed(s, total) == /\ IsInjective(s)
                  /\ \A i \in DOMAIN s : Pos(s[i]) < total
CursorOK == train_iter # NoIter => /\ current_epoch = train_iter.epoch
                                   /\ Pos(train_iter) = total_dl_consumed
GoodEntry(e) ==
    /\ AtEpochEnd(e.total_dl_consumed) \/ e.current_epoch = e.total_dl_consumed \div EpochLen
    /\ Owed(e.buffer, e.total_dl_consumed)
StreamInv ==
    ~ boundary => /\ CursorOK
                  /\ \A n \in DOMAIN served : served[n] = StreamAt(n)
                  /\ Owed(buffer \o held, total_dl_consumed)
                  /\ \A s \in DOMAIN snapshots : GoodEntry(snapshots[s])

LEMMA InitInv == Init => CountInv /\ StreamInv
<1>. SUFFICES ASSUME Init PROVE CountInv /\ StreamInv
  OBVIOUS
<1>. USE TailDataSourceAssumption DEF TailDataSourceAssumption
<1>1. TypeOK
  <2>1. sampler \in [epoch : Nat, start_index : 0 .. EpochLen - 1]
    BY DEF Init
  <2>2. buffer \in Seq(Microbatch) /\ held \in Seq(Microbatch) /\ served \in Seq(Microbatch)
    BY EmptySeq DEF Init
  <2>3. DOMAIN snapshots \in SUBSET (1 .. MaxStep)
    BY DEF Init, EmptyDict
  <2>4. /\ train_iter \in [epoch : Nat, at : 0 .. EpochLen] \cup {NoIter}
        /\ current_epoch \in Nat \cup {-1} /\ total_dl_consumed \in Nat
    BY DEF Init
  <2>5. /\ step \in 0 .. MaxStep /\ pc \in {"fetch", "train", "save"}
        /\ restarts \in 0 .. MaxRestarts
    BY DEF Init
  <2>6. boundary \in BOOLEAN
    BY Zenon DEF Init
  <2>. QED  BY <2>1, <2>2, <2>3, <2>4, <2>5, <2>6 DEF TypeOK
<1>2. SnapshotsOK /\ SnapshotsGrow /\ PcOK
  BY DEF Init, SnapshotsOK, SnapshotsGrow, PcOK, EmptyDict, NoIter
<1>3. Books
  BY DEF Init, Books
<1>4. buffer \o held = <<>>
  BY DEF Init
<1>5. StreamInv
  BY <1>4 DEF Init, StreamInv, CursorOK, Owed, IsInjective, EmptyDict
<1>. QED  BY <1>1, <1>2, <1>3, <1>5 DEF CountInv

----------------------------------------------------------------------------
\* What get_batch reads.

LEMMA FirstOK ==
    ASSUME CountInv
    PROVE  /\ FirstIter \in [epoch : Nat, at : 0 .. EpochLen] /\ FirstEpoch \in Nat
           /\ FirstIter # NoIter
<1>. USE TailDataSourceAssumption DEF TailDataSourceAssumption
<1>. QED  BY DEF CountInv, TypeOK, PcOK, FirstIter, FirstEpoch, At, NoIter

LEMMA CrossingsOK ==
    ASSUME CountInv
    PROVE  /\ Left \in 0 .. EpochLen /\ Crossings \in Nat
           /\ OverFireMb <= Left <=> Crossings = 0
           /\ Crossings # 0 => Crossings - 1 = (OverFireMb - Left - 1) \div EpochLen
           /\ OverFireMb > Left => OverFireMb - Left - 1 \in Nat
<1>. USE TailDataSourceAssumption DEF TailDataSourceAssumption
<1>1. Left \in 0 .. EpochLen
  BY FirstOK DEF Left
<1>2. OverFireMb > Left =>
        OverFireMb - Left - 1 \in Nat /\ (OverFireMb - Left - 1) \div EpochLen \in Nat
  BY <1>1, Division
<1>. QED  BY <1>1, <1>2 DEF Crossings

\* A fresh microbatch is a place of an epoch; when the cursor is right it is
\* the next of the stream.
LEMMA FreshOK ==
    ASSUME CountInv, NEW i \in 1 .. OverFireMb
    PROVE  /\ Fresh(i) \in Microbatch
           /\ StreamInv /\ ~ boundary => Pos(Fresh(i)) = total_dl_consumed + i - 1
<1>. USE TailDataSourceAssumption DEF TailDataSourceAssumption
<1>0. /\ FirstIter.epoch \in Nat /\ FirstIter.at \in 0 .. EpochLen /\ FirstEpoch \in Nat
      /\ Left = EpochLen - FirstIter.at
      /\ total_dl_consumed \in Nat
  BY FirstOK DEF Left, CountInv, TypeOK
<1>1. StreamInv /\ ~ boundary =>
        FirstEpoch = FirstIter.epoch /\ Pos(FirstIter) = total_dl_consumed
  BY DEF StreamInv, CursorOK, FirstIter, FirstEpoch, CountInv, PcOK, Pos, At
<1>2. CASE i <= Left
  <2>1. Fresh(i) = [epoch |-> FirstIter.epoch, at |-> FirstIter.at + i - 1]
    BY <1>2 DEF Fresh, At
  <2>2. FirstIter.at + i - 1 \in 0 .. EpochLen - 1
    BY <1>0, <1>2
  <2>3. FirstIter.epoch * EpochLen \in Nat
    BY <1>0, Product
  <2>4. Fresh(i) \in Microbatch
    BY <1>0, <2>1, <2>2 DEF Microbatch
  <2>5. Pos(Fresh(i)) = FirstIter.epoch * EpochLen + (FirstIter.at + i - 1)
    BY <2>1 DEF Pos
  <2>6. ASSUME StreamInv, ~ boundary PROVE Pos(Fresh(i)) = total_dl_consumed + i - 1
    <3>1. FirstIter.epoch * EpochLen + FirstIter.at = total_dl_consumed
      BY <1>1, <2>6 DEF Pos
    <3>. QED  BY <1>0, <2>3, <2>5, <3>1
  <2>. QED  BY <2>4, <2>6
<1>3. CASE i > Left
  <2>. DEFINE k == i - Left - 1
              q == k \div EpochLen
  <2>1. k \in Nat
    BY <1>0, <1>3
  <2>2. q \in Nat /\ k % EpochLen \in 0 .. EpochLen - 1 /\ k = q * EpochLen + (k % EpochLen)
    BY <2>1, Division
  <2>3. Fresh(i) = [epoch |-> FirstEpoch + 1 + q, at |-> 0 + (k % EpochLen)]
    BY <1>0, <1>3 DEF Fresh, At, NextOffset
  <2>4. /\ FirstEpoch * EpochLen \in Nat /\ q * EpochLen \in Nat
        /\ (FirstEpoch + 1 + q) * EpochLen = FirstEpoch * EpochLen + EpochLen + q * EpochLen
    <3>1. FirstEpoch + 1 \in Nat
      BY <1>0
    <3>2. (FirstEpoch + 1) * EpochLen = FirstEpoch * EpochLen + EpochLen
      BY <1>0, Product
    <3>3. (FirstEpoch + 1 + q) * EpochLen = (FirstEpoch + 1) * EpochLen + q * EpochLen
      BY <2>2, <3>1, Product
    <3>. QED  BY <1>0, <2>2, <3>2, <3>3, Product
  <2>5. Fresh(i).epoch = FirstEpoch + 1 + q /\ Fresh(i).at = k % EpochLen
    BY <2>2, <2>3
  <2>6. Fresh(i) \in Microbatch
    BY <1>0, <2>2, <2>3 DEF Microbatch
  <2>7. ASSUME StreamInv, ~ boundary PROVE Pos(Fresh(i)) = total_dl_consumed + i - 1
    <3>1. FirstEpoch * EpochLen + FirstIter.at = total_dl_consumed
      BY <1>1, <2>7 DEF Pos
    <3>2. Pos(Fresh(i)) = (FirstEpoch + 1 + q) * EpochLen + (k % EpochLen)
      BY <2>5 DEF Pos
    <3>. HIDE DEF q
    <3>3. Pos(Fresh(i)) = FirstEpoch * EpochLen + EpochLen + k
      BY <2>2, <2>4, <3>2
    <3>. QED  BY <1>0, <2>4, <3>1, <3>3
  <2>. QED  BY <2>6, <2>7
<1>. QED  BY <1>0, <1>2, <1>3

LEMMA IterAfterOK ==
    ASSUME CountInv
    PROVE  /\ IterAfter \in [epoch : Nat, at : 0 .. EpochLen] /\ EpochAfter \in Nat
           /\ StreamInv /\ ~ boundary =>
                EpochAfter = IterAfter.epoch /\ Pos(IterAfter) = total_dl_consumed + OverFireMb
<1>. USE TailDataSourceAssumption DEF TailDataSourceAssumption
<1>0. /\ FirstIter.epoch \in Nat /\ FirstIter.at \in 0 .. EpochLen /\ FirstEpoch \in Nat
      /\ Left = EpochLen - FirstIter.at
      /\ total_dl_consumed \in Nat
  BY FirstOK DEF Left, CountInv, TypeOK
<1>1. StreamInv /\ ~ boundary =>
        FirstEpoch = FirstIter.epoch /\ Pos(FirstIter) = total_dl_consumed
  BY DEF StreamInv, CursorOK, FirstIter, FirstEpoch, CountInv, PcOK, Pos, At
<1>2. CASE Crossings = 0
  <2>1. IterAfter = [epoch |-> FirstIter.epoch, at |-> FirstIter.at + OverFireMb]
    BY <1>2 DEF IterAfter, At
  <2>2. FirstIter.at + OverFireMb \in 0 .. EpochLen
    BY <1>0, <1>2, CrossingsOK
  <2>3. FirstIter.epoch * EpochLen \in Nat /\ EpochAfter = FirstEpoch
    BY <1>0, <1>2, Product DEF EpochAfter
  <2>. QED  BY <1>0, <1>1, <2>1, <2>2, <2>3 DEF Pos
<1>3. CASE Crossings # 0
  <2>. DEFINE k == OverFireMb - Left - 1
              q == k \div EpochLen
  <2>1. k \in Nat /\ Crossings = q + 1
    <3>1. OverFireMb > Left /\ Crossings - 1 = (OverFireMb - Left - 1) \div EpochLen
          /\ Crossings \in Nat
      BY <1>0, <1>3, CrossingsOK
    <3>2. k \in Nat
      BY <3>1, CrossingsOK
    <3>. QED  BY <3>1, <3>2, Division
  <2>2. q \in Nat /\ k % EpochLen \in 0 .. EpochLen - 1 /\ k = q * EpochLen + (k % EpochLen)
    BY <2>1, Division
  <2>3. q * EpochLen \in Nat /\ FirstEpoch * EpochLen \in Nat
    BY <1>0, <2>2, Product
  <2>. HIDE DEF q
  <2>4. Crossings - 1 = q
    BY <2>1, <2>2
  <2>5. IterAfter = [epoch |-> EpochAfter, at |-> 0 + OverFireMb - Left - q * EpochLen]
    BY <1>3, <2>4 DEF IterAfter, At, NextOffset
  <2>6. 0 + OverFireMb - Left - q * EpochLen = (k % EpochLen) + 1
    BY <1>0, <2>2, <2>3
  <2>7. IterAfter = [epoch |-> EpochAfter, at |-> (k % EpochLen) + 1]
    BY <2>5, <2>6
  <2>8. EpochAfter = FirstEpoch + 1 + q
    BY <1>0, <2>1, <2>2 DEF EpochAfter
  <2>9. IterAfter \in [epoch : Nat, at : 0 .. EpochLen] /\ EpochAfter \in Nat
    BY <1>0, <2>2, <2>7, <2>8
  <2>10. (FirstEpoch + 1 + q) * EpochLen = FirstEpoch * EpochLen + EpochLen + q * EpochLen
    <3>1. FirstEpoch + 1 \in Nat
      BY <1>0
    <3>2. (FirstEpoch + 1) * EpochLen = FirstEpoch * EpochLen + EpochLen
      BY <1>0, Product
    <3>3. (FirstEpoch + 1 + q) * EpochLen = (FirstEpoch + 1) * EpochLen + q * EpochLen
      BY <2>2, <3>1, Product
    <3>. QED  BY <3>2, <3>3
  <2>11. ASSUME StreamInv, ~ boundary PROVE Pos(IterAfter) = total_dl_consumed + OverFireMb
    <3>1. FirstEpoch * EpochLen + FirstIter.at = total_dl_consumed
      BY <1>1, <2>11 DEF Pos
    <3>2. Pos(IterAfter) = (FirstEpoch + 1 + q) * EpochLen + ((k % EpochLen) + 1)
      BY <2>7, <2>8 DEF Pos
    <3>3. Pos(IterAfter) = FirstEpoch * EpochLen + EpochLen + k + 1
      BY <2>2, <2>3, <2>10, <3>2
    <3>4. EpochLen + k + 1 = OverFireMb + FirstIter.at
      BY <1>0
    <3>. HIDE DEF k
    <3>. QED  BY <1>0, <2>1, <2>3, <3>1, <3>3, <3>4
  <2>. QED  BY <1>0, <1>1, <2>7, <2>9, <2>11
<1>. QED  BY <1>2, <1>3

----------------------------------------------------------------------------
\* Fetch.

LEMMA Joined ==
    ASSUME TypeOK
    PROVE  /\ buffer \o held \in Seq(Microbatch)
           /\ Len(buffer \o held) = Len(buffer) + Len(held)
           /\ Len(buffer) \in Nat /\ Len(held) \in Nat
BY ConcatProperties, LenProperties DEF TypeOK

\* The two ways Fetch goes.
FromBuffer ==
    LET buf == buffer \o held
    IN /\ Len(buf) >= NumMb
       /\ held' = SubSeq(buf, 1, NumMb)
       /\ buffer' = SubSeq(buf, NumMb + 1, Len(buf))
       /\ train_iter' = FirstIter /\ current_epoch' = FirstEpoch
       /\ UNCHANGED <<total_dl_consumed, sampler, served>>
Read ==
    /\ held' = [i \in 1 .. OverFireMb |-> Fresh(i)]
    /\ buffer' = buffer \o held
    /\ train_iter' = IterAfter /\ current_epoch' = EpochAfter
    /\ sampler' = [epoch |-> IF Crossings = 0 THEN sampler.epoch ELSE EpochAfter,
                   start_index |-> IF Crossings = 0 THEN sampler.start_index ELSE NextOffset]
    /\ served' = served \o [i \in 1 .. OverFireMb |-> Fresh(i)]
    /\ total_dl_consumed' = total_dl_consumed + OverFireMb
FetchFrame ==
    /\ pc = "fetch" /\ step < MaxStep /\ pc' = "train"
    /\ UNCHANGED <<step, snapshots, restarts, boundary>>

LEMMA FetchCases == Fetch => FetchFrame /\ (FromBuffer \/ Read)
BY DEF Fetch, FetchFrame, FromBuffer, Read

LEMMA FromBufferShape ==
    ASSUME TypeOK, FromBuffer
    PROVE  LET buf == buffer \o held
               n == Len(buf)
           IN /\ buffer' \in Seq(Microbatch) /\ held' \in Seq(Microbatch)
              /\ Len(held') = NumMb /\ Len(buffer') = n - NumMb
              /\ \A i \in 1 .. NumMb : held'[i] = buf[i]
              /\ \A i \in 1 .. n - NumMb : buffer'[i] = buf[NumMb + i]
<1>. USE TailDataSourceAssumption DEF TailDataSourceAssumption
<1>. DEFINE buf == buffer \o held
            n == Len(buf)
<1>1. buf \in Seq(Microbatch) /\ n \in Nat /\ NumMb \in Nat \ {0} /\ n >= NumMb
  BY Joined, LenProperties DEF FromBuffer
<1>2. \A i \in 1 .. n : buf[i] \in Microbatch
  BY <1>1, ElementOfSeq
<1>3. held' = SubSeq(buf, 1, NumMb) /\ buffer' = SubSeq(buf, NumMb + 1, n)
  BY DEF FromBuffer
<1>. HIDE DEF buf, n
<1>4. /\ held' \in Seq(Microbatch) /\ Len(held') = NumMb
      /\ \A i \in 1 .. NumMb : held'[i] = buf[i]
  <2>1. \A i \in 1 .. NumMb : buf[i] \in Microbatch
    BY <1>1, <1>2
  <2>2. /\ SubSeq(buf, 1, NumMb) \in Seq(Microbatch)
        /\ Len(SubSeq(buf, 1, NumMb)) = IF 1 <= NumMb THEN NumMb - 1 + 1 ELSE 0
        /\ \A i \in 1 .. NumMb - 1 + 1 : SubSeq(buf, 1, NumMb)[i] = buf[1 + i - 1]
    BY <1>1, <2>1, SubSeqProperties
  <2>. QED  BY <1>1, <1>3, <2>2
<1>5. /\ buffer' \in Seq(Microbatch) /\ Len(buffer') = n - NumMb
      /\ \A i \in 1 .. n - NumMb : buffer'[i] = buf[NumMb + i]
  <2>1. \A i \in NumMb + 1 .. n : buf[i] \in Microbatch
    BY <1>1, <1>2
  <2>2. /\ SubSeq(buf, NumMb + 1, n) \in Seq(Microbatch)
        /\ Len(SubSeq(buf, NumMb + 1, n)) =
             IF NumMb + 1 <= n THEN n - (NumMb + 1) + 1 ELSE 0
        /\ \A i \in 1 .. n - (NumMb + 1) + 1 :
             SubSeq(buf, NumMb + 1, n)[i] = buf[NumMb + 1 + i - 1]
    BY <1>1, <2>1, SubSeqProperties
  <2>. QED  BY <1>1, <1>3, <2>2
<1>. QED  BY <1>4, <1>5 DEF buf, n

\* A step served from the buffer owes the same microbatches in another order.
LEMMA RotationOwed ==
    ASSUME TypeOK, FromBuffer, NEW total, Owed(buffer \o held, total)
    PROVE  Owed(buffer' \o held', total)
<1>. USE TailDataSourceAssumption DEF TailDataSourceAssumption
<1>. DEFINE buf == buffer \o held
            n == Len(buf)
            new == buffer' \o held'
            from(i) == IF i <= n - NumMb THEN NumMb + i ELSE i - (n - NumMb)
<1>1. buf \in Seq(Microbatch) /\ n \in Nat /\ NumMb \in Nat \ {0} /\ n >= NumMb /\ DOMAIN buf = 1 .. n
  BY Joined, LenProperties DEF FromBuffer
<1>2. /\ buffer' \in Seq(Microbatch) /\ held' \in Seq(Microbatch)
      /\ Len(held') = NumMb /\ Len(buffer') = n - NumMb
      /\ \A i \in 1 .. NumMb : held'[i] = buf[i]
      /\ \A i \in 1 .. n - NumMb : buffer'[i] = buf[NumMb + i]
  BY FromBufferShape
<1>3. /\ new \in Seq(Microbatch) /\ Len(new) = Len(buffer') + Len(held')
      /\ \A i \in 1 .. Len(buffer') + Len(held') :
           new[i] = IF i <= Len(buffer') THEN buffer'[i] ELSE held'[i - Len(buffer')]
  BY <1>2, ConcatProperties
<1>4. DOMAIN new = 1 .. n
  BY <1>1, <1>2, <1>3, LenProperties
<1>. HIDE DEF buf, n, new
<1>5. \A i \in 1 .. n : from(i) \in 1 .. n /\ new[i] = buf[from(i)]
  <2>1. ASSUME NEW i \in 1 .. n, i <= n - NumMb PROVE from(i) \in 1 .. n /\ new[i] = buf[from(i)]
    <3>1. from(i) = NumMb + i /\ i \in 1 .. n - NumMb
      BY <1>1, <2>1
    <3>2. new[i] = buffer'[i]
      BY <1>1, <1>2, <1>3, <2>1
    <3>. QED  BY <1>1, <1>2, <3>1, <3>2
  <2>2. ASSUME NEW i \in 1 .. n, ~ (i <= n - NumMb)
        PROVE  from(i) \in 1 .. n /\ new[i] = buf[from(i)]
    <3>1. from(i) = i - (n - NumMb) /\ i - (n - NumMb) \in 1 .. NumMb
      BY <1>1, <2>2
    <3>2. new[i] = held'[i - (n - NumMb)]
      BY <1>1, <1>2, <1>3, <2>2
    <3>. QED  BY <1>1, <1>2, <3>1, <3>2
  <2>. QED  BY <2>1, <2>2
<1>6. \A i, j \in 1 .. n : from(i) = from(j) => i = j
  BY <1>1
<1>7. Owed(buf, total)
  BY DEF buf
<1>. HIDE DEF from
<1>8. Owed(new, total)
  <2>1. /\ \A i, j \in 1 .. n : buf[i] = buf[j] => i = j
        /\ \A i \in 1 .. n : Pos(buf[i]) < total
    BY <1>1, <1>7 DEF Owed, IsInjective
  <2>2. ASSUME NEW i \in 1 .. n, NEW j \in 1 .. n, new[i] = new[j] PROVE i = j
    BY <1>5, <1>6, <2>1, <2>2
  <2>3. ASSUME NEW i \in 1 .. n PROVE Pos(new[i]) < total
    <3>1. new[i] = buf[from(i)] /\ from(i) \in 1 .. n
      BY <1>5
    <3>. QED  BY <2>1, <3>1
  <2>. QED  BY <1>4, <2>2, <2>3 DEF Owed, IsInjective
<1>. QED  BY <1>8 DEF new

\* A step read from the dataloader owes its microbatches besides the old ones.
LEMMA ReadShape ==
    ASSUME CountInv, Read
    PROVE  /\ buffer' = buffer \o held /\ buffer' \in Seq(Microbatch)
           /\ Len(buffer') = Len(buffer) + Len(held)
           /\ held' \in Seq(Microbatch) /\ Len(held') = OverFireMb
           /\ \A i \in 1 .. OverFireMb : held'[i] = Fresh(i)
           /\ served' \in Seq(Microbatch) /\ Len(served') = Len(served) + OverFireMb
           /\ \A n \in 1 .. Len(served) + OverFireMb :
                served'[n] = IF n <= Len(served) THEN served[n] ELSE Fresh(n - Len(served))
<1>. USE TailDataSourceAssumption DEF TailDataSourceAssumption
<1>. DEFINE fresh == [i \in 1 .. OverFireMb |-> Fresh(i)]
<1>1. /\ fresh \in Seq(Microbatch) /\ Len(fresh) = OverFireMb
      /\ \A i \in 1 .. OverFireMb : fresh[i] = Fresh(i)
  <2>1. \A i \in 1 .. OverFireMb : Fresh(i) \in Microbatch
    BY FreshOK
  <2>2. fresh \in [1 .. OverFireMb -> Microbatch]
    BY <2>1
  <2>. QED  BY <2>2
<1>2. held' = fresh /\ served' = served \o fresh /\ buffer' = buffer \o held
  BY DEF Read
<1>3. served \in Seq(Microbatch)
  BY DEF CountInv, TypeOK
<1>. HIDE DEF fresh
<1>4. /\ served \o fresh \in Seq(Microbatch)
      /\ Len(served \o fresh) = Len(served) + Len(fresh)
      /\ \A n \in 1 .. Len(served) + Len(fresh) :
           (served \o fresh)[n] = IF n <= Len(served) THEN served[n] ELSE fresh[n - Len(served)]
  BY <1>1, <1>3, ConcatProperties
<1>5. Len(served) \in Nat
  BY <1>3, LenProperties
<1>6. \A n \in 1 .. Len(served) + OverFireMb :
        n > Len(served) => fresh[n - Len(served)] = Fresh(n - Len(served))
  BY <1>1, <1>5
<1>7. /\ served' \in Seq(Microbatch) /\ Len(served') = Len(served) + OverFireMb
      /\ \A n \in 1 .. Len(served) + OverFireMb :
           served'[n] = IF n <= Len(served) THEN served[n] ELSE fresh[n - Len(served)]
  BY <1>1, <1>2, <1>4
<1>8. \A n \in 1 .. Len(served) + OverFireMb :
        served'[n] = IF n <= Len(served) THEN served[n] ELSE Fresh(n - Len(served))
  <2>. TAKE n \in 1 .. Len(served) + OverFireMb
  <2>1. served'[n] = IF n <= Len(served) THEN served[n] ELSE fresh[n - Len(served)]
    BY <1>7
  <2>2. n \in Int /\ (~ n <= Len(served) => n > Len(served))
    BY <1>5
  <2>. QED  BY <1>6, <2>1, <2>2
<1>9. /\ buffer \o held \in Seq(Microbatch)
      /\ Len(buffer \o held) = Len(buffer) + Len(held)
  BY Joined DEF CountInv
<1>. QED  BY <1>1, <1>2, <1>7, <1>8, <1>9

LEMMA FetchCountInv == CountInv /\ Fetch => CountInv'
<1>. SUFFICES ASSUME CountInv, Fetch PROVE CountInv'
  OBVIOUS
<1>. USE TailDataSourceAssumption DEF TailDataSourceAssumption
<1>1. FetchFrame
  BY FetchCases
<1>2. CASE FromBuffer
  <2>1. /\ buffer' \in Seq(Microbatch) /\ held' \in Seq(Microbatch)
        /\ Len(held') = NumMb /\ Len(buffer') = Len(buffer \o held) - NumMb
    BY <1>2, FromBufferShape DEF CountInv
  <2>2. UNCHANGED <<total_dl_consumed, sampler, served, step, snapshots, restarts, boundary>>
    BY <1>1, <1>2 DEF FromBuffer, FetchFrame
  <2>3. /\ train_iter' \in [epoch : Nat, at : 0 .. EpochLen] /\ current_epoch' \in Nat
        /\ train_iter' # NoIter /\ pc' = "train" /\ step < MaxStep
    BY <1>1, <1>2, FirstOK DEF FromBuffer, FetchFrame
  <2>4. TypeOK'
    BY <2>1, <2>2, <2>3 DEF CountInv, TypeOK
  <2>5. SnapshotsOK' /\ SnapshotsGrow'
    BY <2>2 DEF CountInv, SnapshotsOK, SnapshotsGrow, EntryBooks
  <2>6. PcOK'
    BY <2>1, <2>2, <2>3 DEF PcOK
  <2>7. Books'
    <3>1. Len(buffer \o held) = Len(buffer) + Len(held) /\ Len(buffer) \in Nat /\ Len(held) \in Nat
      BY Joined DEF CountInv
    <3>2. step \in Nat /\ step * NumMb \in Nat
      BY DEF CountInv, TypeOK
    <3>. QED  BY <2>1, <2>2, <3>1, <3>2 DEF CountInv, Books
  <2>. QED  BY <2>4, <2>5, <2>6, <2>7 DEF CountInv
<1>3. CASE Read
  <2>1. /\ buffer' \in Seq(Microbatch) /\ held' \in Seq(Microbatch) /\ served' \in Seq(Microbatch)
        /\ Len(buffer') = Len(buffer) + Len(held) /\ Len(held') = OverFireMb
        /\ Len(served') = Len(served) + OverFireMb
    BY <1>3, ReadShape
  <2>2. /\ total_dl_consumed' = total_dl_consumed + OverFireMb
        /\ UNCHANGED <<step, snapshots, restarts, boundary>> /\ pc' = "train" /\ step < MaxStep
    BY <1>1, <1>3 DEF Read, FetchFrame
  <2>3. /\ train_iter' \in [epoch : Nat, at : 0 .. EpochLen] /\ current_epoch' \in Nat
        /\ train_iter' # NoIter
    BY <1>3, IterAfterOK DEF Read, NoIter
  <2>4. sampler' \in [epoch : Nat, start_index : 0 .. EpochLen - 1]
    BY <1>3, IterAfterOK DEF Read, NextOffset, CountInv, TypeOK
  <2>5. TypeOK'
    BY <2>1, <2>2, <2>3, <2>4 DEF CountInv, TypeOK
  <2>6. SnapshotsOK' /\ SnapshotsGrow'
    <3>1. \A s \in DOMAIN snapshots : snapshots[s].total_dl_consumed \in Nat
      BY DEF CountInv, SnapshotsOK, Entry
    <3>2. total_dl_consumed \in Nat /\ OverFireMb \in Nat
      BY DEF CountInv, TypeOK
    <3>3. \A s \in DOMAIN snapshots : snapshots[s].total_dl_consumed <= total_dl_consumed'
      BY <2>2, <3>1, <3>2 DEF CountInv, SnapshotsOK
    <3>. QED  BY <2>2, <3>3 DEF CountInv, SnapshotsOK, SnapshotsGrow, EntryBooks
  <2>7. PcOK'
    BY <2>1, <2>2, <2>3 DEF PcOK
  <2>8. Books'
    <3>1. Len(buffer) \in Nat /\ Len(held) \in Nat
      BY Joined DEF CountInv
    <3>2. step \in Nat /\ step * NumMb \in Nat
      BY DEF CountInv, TypeOK
    <3>. QED  BY <2>1, <2>2, <3>1, <3>2 DEF CountInv, Books
  <2>. QED  BY <2>5, <2>6, <2>7, <2>8 DEF CountInv
<1>. QED  BY <1>2, <1>3, FetchCases

LEMMA FetchStreamInv == CountInv /\ StreamInv /\ Fetch => StreamInv'
<1>. SUFFICES ASSUME CountInv, StreamInv, Fetch, ~ boundary PROVE StreamInv'
  BY FetchCases DEF StreamInv, FetchFrame
<1>. USE TailDataSourceAssumption DEF TailDataSourceAssumption
<1>1. FetchFrame
  BY FetchCases
<1>2. CASE FromBuffer
  <2>1. UNCHANGED <<total_dl_consumed, served, snapshots, boundary>>
    BY <1>1, <1>2 DEF FromBuffer, FetchFrame
  <2>2. Owed(buffer' \o held', total_dl_consumed)
    BY <1>2, RotationOwed DEF CountInv, StreamInv
  <2>3. CursorOK'
    <3>1. train_iter' = FirstIter /\ current_epoch' = FirstEpoch
      BY <1>2 DEF FromBuffer
    <3>. QED  BY <2>1, <3>1 DEF CursorOK, StreamInv, FirstIter, FirstEpoch, CountInv, PcOK, Pos, At
  <2>. QED  BY <2>1, <2>2, <2>3 DEF StreamInv
<1>3. CASE Read
  <2>. DEFINE total == total_dl_consumed
              old == buffer \o held
              new == buffer' \o held'
  <2>0. total \in Nat /\ Len(served) = total /\ OverFireMb \in Nat \ {0}
    BY DEF CountInv, TypeOK, Books
  <2>1. total' = total + OverFireMb /\ UNCHANGED <<snapshots, boundary>>
    BY <1>1, <1>3 DEF Read, FetchFrame
  <2>2. CursorOK'
    BY <1>3, <2>1, IterAfterOK DEF Read, CursorOK, Pos
  <2>3. /\ buffer' = old /\ buffer' \in Seq(Microbatch)
        /\ held' \in Seq(Microbatch) /\ Len(held') = OverFireMb
        /\ \A i \in 1 .. OverFireMb : held'[i] = Fresh(i)
        /\ served' \in Seq(Microbatch) /\ Len(served') = total + OverFireMb
        /\ \A n \in 1 .. total + OverFireMb :
             served'[n] = IF n <= total THEN served[n] ELSE Fresh(n - total)
    BY <1>3, <2>0, ReadShape
  <2>4. \A i \in 1 .. OverFireMb : Fresh(i) \in Microbatch /\ Pos(Fresh(i)) = total + i - 1
    BY FreshOK
  <2>5. \A n \in DOMAIN served' : served'[n] = StreamAt(n)
    <3>1. DOMAIN served' = 1 .. total + OverFireMb /\ DOMAIN served = 1 .. total
      BY <2>0, <2>3, LenProperties DEF CountInv, TypeOK
    <3>2. ASSUME NEW n \in 1 .. total PROVE served'[n] = StreamAt(n)
      <4>1. n \in DOMAIN served /\ n \in 1 .. total + OverFireMb /\ n <= total
        BY <2>0, <3>1, <3>2
      <4>2. served[n] = StreamAt(n)
        BY <4>1 DEF StreamInv
      <4>. QED  BY <2>3, <4>1, <4>2
    <3>3. ASSUME NEW n \in 1 .. total + OverFireMb, n > total PROVE served'[n] = StreamAt(n)
      <4>1. n - total \in 1 .. OverFireMb /\ n - 1 \in Nat /\ n = (n - 1) + 1
        BY <2>0, <3>3
      <4>2. Fresh(n - total) \in Microbatch /\ Pos(Fresh(n - total)) = n - 1
        BY <2>0, <2>4, <4>1
      <4>3. Fresh(n - total) = StreamAt((n - 1) + 1)
        BY <4>1, <4>2, PosOfStream
      <4>. QED  BY <2>0, <2>3, <3>3, <4>1, <4>3
    <3>. QED  BY <2>0, <3>1, <3>2, <3>3
  <2>6. Owed(new, total')
    <3>1. /\ new \in Seq(Microbatch) /\ Len(new) = Len(old) + OverFireMb
          /\ \A i \in 1 .. Len(old) + OverFireMb :
               new[i] = IF i <= Len(old) THEN old[i] ELSE held'[i - Len(old)]
      BY <2>3, ConcatProperties
    <3>2. old \in Seq(Microbatch) /\ Len(old) \in Nat
      BY <2>3, LenProperties
    <3>3. DOMAIN new = 1 .. Len(old) + OverFireMb /\ DOMAIN old = 1 .. Len(old)
      BY <3>1, <3>2, LenProperties
    <3>4. Owed(old, total)
      BY DEF StreamInv
    <3>. DEFINE n == Len(old)
    <3>. HIDE DEF old, new, n, total
    <3>5. /\ \A i \in 1 .. n : new[i] = old[i] /\ Pos(new[i]) < total
          /\ \A i, j \in 1 .. n : old[i] = old[j] => i = j
      <4>1. /\ \A i \in 1 .. n : Pos(old[i]) < total
            /\ \A i, j \in 1 .. n : old[i] = old[j] => i = j
        BY <3>3, <3>4 DEF Owed, IsInjective, n
      <4>2. \A i \in 1 .. n : new[i] = old[i]
        BY <2>0, <3>1, <3>2 DEF n
      <4>. QED  BY <4>1, <4>2
    <3>6. \A i \in n + 1 .. n + OverFireMb : Pos(new[i]) = total + (i - n) - 1
      <4>1. ASSUME NEW i \in n + 1 .. n + OverFireMb PROVE Pos(new[i]) = total + (i - n) - 1
        <5>1. i - n \in 1 .. OverFireMb /\ i \in 1 .. n + OverFireMb /\ ~ (i <= n)
          BY <3>2 DEF n
        <5>2. new[i] = Fresh(i - n)
          BY <2>3, <3>1, <5>1 DEF n
        <5>. QED  BY <2>4, <5>1, <5>2
      <4>. QED  BY <4>1
    <3>7. ASSUME NEW i \in 1 .. n + OverFireMb PROVE Pos(new[i]) < total + OverFireMb
      <4>1. new[i] \in Microbatch
        BY <3>1, ElementOfSeq DEF n
      <4>2. Pos(new[i]) \in Nat
        BY <4>1, PosNat
      <4>3. i \in 1 .. n \/ i \in n + 1 .. n + OverFireMb
        BY <2>0, <3>2 DEF n
      <4>. QED  BY <2>0, <3>2, <3>5, <3>6, <4>2, <4>3 DEF n
    <3>8. ASSUME NEW i \in 1 .. n + OverFireMb, NEW j \in 1 .. n + OverFireMb, new[i] = new[j]
          PROVE  i = j
      <4>1. Pos(new[i]) = Pos(new[j])
        BY <3>8
      <4>. QED  BY <2>0, <3>2, <3>5, <3>6, <3>8, <4>1 DEF n
    <3>. QED  BY <2>1, <3>3, <3>7, <3>8 DEF Owed, IsInjective, n
  <2>. QED  BY <2>1, <2>2, <2>5, <2>6 DEF StreamInv
<1>. QED  BY <1>2, <1>3, FetchCases

----------------------------------------------------------------------------
\* Train: the microbatches that are left keep their order.

LEMMA TrainShape ==
    ASSUME CountInv, Train
    PROVE  \E left \in [1 .. Len(held) - NumMb -> 1 .. Len(held)] :
              /\ \A i, j \in 1 .. Len(held) - NumMb : i < j => left[i] < left[j]
              /\ Len(held) - NumMb \in Nat
              /\ held' \in Seq(Microbatch) /\ Len(held') = Len(held) - NumMb
              /\ DOMAIN held' = 1 .. Len(held) - NumMb
              /\ \A i \in 1 .. Len(held) - NumMb : held'[i] = held[left[i]]
<1>. USE TailDataSourceAssumption DEF TailDataSourceAssumption
<1>. DEFINE n == Len(held) - NumMb
<1>1. held \in Seq(Microbatch) /\ Len(held) \in Nat /\ DOMAIN held = 1 .. Len(held)
  BY LenProperties DEF CountInv, TypeOK
<1>2. n \in Nat
  BY <1>1 DEF Train, CountInv, PcOK
<1>3. PICK left \in [1 .. n -> 1 .. Len(held)] :
          /\ \A i, j \in DOMAIN left : i < j => left[i] < left[j]
          /\ held' = [i \in DOMAIN left |-> held[left[i]]]
  BY <1>1 DEF Train
<1>4. DOMAIN left = 1 .. n
  BY <1>3
<1>5. \A i \in 1 .. n : held[left[i]] \in Microbatch
  BY <1>1, <1>3, ElementOfSeq
<1>6. held' \in [1 .. n -> Microbatch] /\ \A i \in 1 .. n : held'[i] = held[left[i]]
  BY <1>3, <1>4, <1>5
<1>7. held' \in Seq(Microbatch) /\ Len(held') = n
  BY <1>2, <1>6
<1>. QED  BY <1>2, <1>3, <1>4, <1>6, <1>7

LEMMA TrainCountInv == CountInv /\ Train => CountInv'
<1>. SUFFICES ASSUME CountInv, Train PROVE CountInv'
  OBVIOUS
<1>. USE TailDataSourceAssumption DEF TailDataSourceAssumption
<1>1. Len(held) - NumMb \in Nat /\ held' \in Seq(Microbatch) /\ Len(held') = Len(held) - NumMb
  BY TrainShape
<1>2. /\ step' = step + 1 /\ pc' = "save" /\ pc = "train"
      /\ UNCHANGED <<sampler, train_iter, current_epoch, total_dl_consumed, buffer, served,
                     snapshots, restarts, boundary>>
  BY DEF Train
<1>3. step \in Nat /\ step < MaxStep
  BY <1>2 DEF CountInv, TypeOK, PcOK
<1>4. TypeOK'
  BY <1>1, <1>2, <1>3 DEF CountInv, TypeOK
<1>5. SnapshotsOK' /\ SnapshotsGrow'
  BY <1>2, <1>3 DEF CountInv, SnapshotsOK, SnapshotsGrow, EntryBooks
<1>6. PcOK'
  BY <1>2, <1>3 DEF CountInv, PcOK
<1>7. Books'
  <2>1. step * NumMb \in Nat /\ (step + 1) * NumMb = step * NumMb + NumMb
    BY <1>3
  <2>2. Len(buffer) \in Nat /\ Len(held) \in Nat
    BY Joined DEF CountInv
  <2>3. /\ total_dl_consumed = step * NumMb + Len(buffer) + Len(held)
        /\ Len(served) = total_dl_consumed
    BY DEF CountInv, Books
  <2>4. step' * NumMb = step * NumMb + NumMb
    BY <1>2, <2>1
  <2>5. Len(held') = Len(held) - NumMb /\ Len(buffer') = Len(buffer)
        /\ total_dl_consumed' = total_dl_consumed /\ served' = served
    BY <1>1, <1>2
  <2>6. step * NumMb + Len(buffer) + Len(held)
          = (step * NumMb + NumMb) + Len(buffer) + (Len(held) - NumMb)
    BY <2>1, <2>2
  <2>. QED  BY <2>3, <2>4, <2>5, <2>6 DEF Books
<1>. QED  BY <1>4, <1>5, <1>6, <1>7 DEF CountInv

LEMMA TrainStreamInv == CountInv /\ StreamInv /\ Train => StreamInv'
<1>. SUFFICES ASSUME CountInv, StreamInv, Train PROVE StreamInv'
  OBVIOUS
<1>0. boundary' = boundary
  BY DEF Train
<1>. SUFFICES ASSUME ~ boundary PROVE StreamInv'
  BY <1>0 DEF StreamInv
<1>. USE TailDataSourceAssumption DEF TailDataSourceAssumption
<1>1. UNCHANGED <<train_iter, current_epoch, total_dl_consumed, buffer, served, snapshots, boundary>>
  BY DEF Train
<1>2. CursorOK'
  BY <1>1 DEF StreamInv, CursorOK, Pos
<1>3. Owed(buffer' \o held', total_dl_consumed)
  <2>. DEFINE n == Len(held) - NumMb
              b == Len(buffer)
              old == buffer \o held
              new == buffer' \o held'
  <2>1. PICK left \in [1 .. n -> 1 .. Len(held)] :
            /\ \A i, j \in 1 .. n : i < j => left[i] < left[j]
            /\ n \in Nat
            /\ held' \in Seq(Microbatch) /\ Len(held') = n
            /\ \A i \in 1 .. n : held'[i] = held[left[i]]
    BY TrainShape
  <2>. DEFINE from(i) == IF i <= b THEN i ELSE b + left[i - b]
  <2>2. /\ buffer \in Seq(Microbatch) /\ held \in Seq(Microbatch)
        /\ b \in Nat /\ Len(held) \in Nat
    BY LenProperties DEF CountInv, TypeOK
  <2>3. /\ old \in Seq(Microbatch) /\ Len(old) = b + Len(held)
        /\ \A i \in 1 .. b + Len(held) : old[i] = IF i <= b THEN buffer[i] ELSE held[i - b]
    BY <2>2, ConcatProperties
  <2>4. /\ new \in Seq(Microbatch) /\ Len(new) = b + n
        /\ \A i \in 1 .. b + n : new[i] = IF i <= b THEN buffer[i] ELSE held'[i - b]
    <3>1. buffer' = buffer /\ held' \in Seq(Microbatch) /\ Len(held') = n
      BY <1>1, <2>1
    <3>. HIDE DEF n
    <3>2. /\ buffer \o held' \in Seq(Microbatch) /\ Len(buffer \o held') = b + n
          /\ \A i \in 1 .. b + n :
               (buffer \o held')[i] = IF i <= b THEN buffer[i] ELSE held'[i - b]
      BY <2>2, <3>1, ConcatProperties
    <3>. QED  BY <3>1, <3>2
  <2>5. DOMAIN old = 1 .. b + Len(held) /\ DOMAIN new = 1 .. b + n
    BY <2>3, <2>4, LenProperties
  <2>6. Owed(old, total_dl_consumed)
    BY DEF StreamInv
  <2>. HIDE DEF n, b, old, new
  <2>7. ASSUME NEW i \in 1 .. b + n
        PROVE  from(i) \in 1 .. b + Len(held) /\ new[i] = old[from(i)]
    <3>1. CASE i <= b
      <4>1. from(i) = i /\ i \in 1 .. b + Len(held)
        BY <2>1, <2>2, <3>1
      <4>2. new[i] = buffer[i] /\ old[i] = buffer[i]
        BY <2>3, <2>4, <3>1, <4>1
      <4>. QED  BY <4>1, <4>2
    <3>2. CASE ~ (i <= b)
      <4>1. i - b \in 1 .. n /\ left[i - b] \in 1 .. Len(held) /\ from(i) = b + left[i - b]
        BY <2>1, <2>2, <3>2
      <4>2. new[i] = held[left[i - b]]
        BY <2>1, <2>4, <3>2, <4>1
      <4>3. from(i) \in 1 .. b + Len(held) /\ ~ (from(i) <= b) /\ from(i) - b = left[i - b]
        BY <2>2, <4>1
      <4>. QED  BY <2>3, <4>2, <4>3
    <3>. QED  BY <3>1, <3>2
  <2>8. ASSUME NEW i \in 1 .. b + n, NEW j \in 1 .. b + n, i < j
        PROVE  from(i) < from(j)
    <3>1. CASE j <= b
      BY <2>1, <2>2, <2>8, <3>1
    <3>2. CASE i <= b /\ ~ (j <= b)
      <4>1. j - b \in 1 .. n /\ left[j - b] \in 1 .. Len(held)
        BY <2>1, <2>2, <3>2
      <4>. QED  BY <2>2, <3>2, <4>1
    <3>3. CASE ~ (i <= b) /\ ~ (j <= b)
      <4>1. i - b \in 1 .. n /\ j - b \in 1 .. n /\ i - b < j - b
        BY <2>1, <2>2, <2>8, <3>3
      <4>2. left[i - b] < left[j - b] /\ left[i - b] \in Nat /\ left[j - b] \in Nat
        BY <2>1, <2>2, <4>1
      <4>. QED  BY <2>2, <3>3, <4>2
    <3>. QED  BY <2>1, <2>2, <2>8, <3>1, <3>2, <3>3
  <2>9. /\ \A i \in 1 .. b + Len(held) : Pos(old[i]) < total_dl_consumed
        /\ \A i, j \in 1 .. b + Len(held) : old[i] = old[j] => i = j
    BY <2>5, <2>6 DEF Owed, IsInjective
  <2>. HIDE DEF from
  <2>10. ASSUME NEW i \in 1 .. b + n, NEW j \in 1 .. b + n, new[i] = new[j] PROVE i = j
    <3>1. from(i) = from(j) /\ from(i) \in 1 .. b + Len(held) /\ from(j) \in 1 .. b + Len(held)
      BY <2>7, <2>9, <2>10
    <3>2. ~ (from(i) < from(j)) /\ ~ (from(j) < from(i))
      BY <2>2, <3>1
    <3>. QED  BY <2>1, <2>2, <2>8, <3>2
  <2>11. ASSUME NEW i \in 1 .. b + n PROVE Pos(new[i]) < total_dl_consumed
    BY <2>7, <2>9
  <2>12. Owed(new, total_dl_consumed)
    BY <2>5, <2>10, <2>11 DEF Owed, IsInjective
  <2>. QED  BY <2>12 DEF new
<1>. QED  BY <1>1, <1>2, <1>3 DEF StreamInv

----------------------------------------------------------------------------
\* Save.

LEMMA SaveCountInv == CountInv /\ (Save \/ SkipSave) => CountInv'
<1>. SUFFICES ASSUME CountInv, Save \/ SkipSave PROVE CountInv'
  OBVIOUS
<1>. USE TailDataSourceAssumption DEF TailDataSourceAssumption
<1>1. /\ pc = "save" /\ pc' = "fetch"
      /\ UNCHANGED <<sampler, train_iter, current_epoch, total_dl_consumed, buffer, held, step,
                     served, restarts, boundary>>
  BY DEF Save, SkipSave
<1>2. step \in 1 .. MaxStep /\ step \in Nat /\ total_dl_consumed \in Nat /\ train_iter # NoIter
      /\ current_epoch \in Nat
  BY <1>1 DEF CountInv, TypeOK, PcOK
<1>3. DOMAIN snapshots' \in SUBSET (1 .. MaxStep) /\ SnapshotsOK' /\ SnapshotsGrow'
  <2>1. CASE SkipSave
    BY <1>1, <2>1 DEF SkipSave, CountInv, TypeOK, SnapshotsOK, SnapshotsGrow, EntryBooks
  <2>2. CASE Save
    <3>. DEFINE entry == [total_dl_consumed |-> total_dl_consumed,
                          current_epoch |-> current_epoch, buffer |-> SavedBuffer]
    <3>1. /\ DOMAIN snapshots' = DOMAIN snapshots \cup {step}
          /\ snapshots'[step] = entry
          /\ \A s \in DOMAIN snapshots : s # step => snapshots'[s] = snapshots[s]
      BY <2>2 DEF Save
    <3>2. SavedBuffer \in Seq(Microbatch) /\ Len(SavedBuffer) = Len(buffer) + Len(held)
          /\ Len(buffer) \in Nat /\ Len(held) \in Nat
      BY Joined DEF CountInv, SavedBuffer
    <3>3. /\ entry \in Entry /\ entry.total_dl_consumed = total_dl_consumed
          /\ entry.buffer = SavedBuffer
      BY <1>2, <3>2 DEF Entry
    <3>. HIDE DEF entry
    <3>4. entry.total_dl_consumed = step * NumMb + Len(entry.buffer)
      <4>1. step * NumMb \in Nat
        BY <1>2
      <4>. QED  BY <3>2, <3>3, <4>1 DEF CountInv, Books
    <3>5. ASSUME NEW s \in DOMAIN snapshots'
          PROVE  /\ s \in 1 .. step /\ snapshots'[s] \in Entry
                 /\ snapshots'[s].total_dl_consumed = s * NumMb + Len(snapshots'[s].buffer)
                 /\ snapshots'[s].total_dl_consumed <= total_dl_consumed
      <4>1. CASE s = step
        <5>1. snapshots'[s] = entry
          BY <3>1, <4>1
        <5>2. total_dl_consumed <= total_dl_consumed /\ step \in 1 .. step
          BY <1>2
        <5>. QED  BY <3>3, <3>4, <4>1, <5>1, <5>2
      <4>2. CASE s # step
        BY <3>1, <4>2 DEF CountInv, SnapshotsOK, EntryBooks
      <4>. QED  BY <4>1, <4>2
    <3>6. SnapshotsOK'
      BY <1>1, <3>5 DEF SnapshotsOK, EntryBooks
    <3>7. DOMAIN snapshots' \in SUBSET (1 .. MaxStep)
      BY <1>2, <3>1 DEF CountInv, TypeOK
    <3>8. ASSUME NEW r \in DOMAIN snapshots', NEW s \in DOMAIN snapshots', r <= s
          PROVE  snapshots'[r].total_dl_consumed <= snapshots'[s].total_dl_consumed
      <4>1. CASE s = step
        BY <1>2, <3>1, <3>3, <3>5, <4>1
      <4>2. CASE s # step
        <5>1. s \in DOMAIN snapshots /\ s \in 1 .. step /\ r \in 1 .. step /\ r # step
          BY <1>2, <3>1, <3>5, <3>8, <4>2
        <5>2. r \in DOMAIN snapshots /\ snapshots'[r] = snapshots[r] /\ snapshots'[s] = snapshots[s]
          BY <3>1, <4>2, <5>1
        <5>. QED  BY <3>8, <5>1, <5>2 DEF CountInv, SnapshotsGrow
      <4>. QED  BY <4>1, <4>2
    <3>9. SnapshotsGrow'
      BY <3>8 DEF SnapshotsGrow
    <3>. QED  BY <3>6, <3>7, <3>9
  <2>. QED  BY <2>1, <2>2
<1>4. TypeOK'
  BY <1>1, <1>3 DEF CountInv, TypeOK
<1>5. PcOK' /\ Books'
  BY <1>1, <1>2 DEF CountInv, PcOK, Books
<1>. QED  BY <1>3, <1>4, <1>5 DEF CountInv

\* The cursor that is saved lies in the epoch it was counted in.
LEMMA CursorEpoch ==
    ASSUME CountInv, CursorOK, train_iter # NoIter
    PROVE  \/ AtEpochEnd(total_dl_consumed)
           \/ current_epoch = total_dl_consumed \div EpochLen
<1>. USE TailDataSourceAssumption DEF TailDataSourceAssumption
<1>1. /\ train_iter.epoch \in Nat /\ train_iter.at \in 0 .. EpochLen
      /\ train_iter.epoch * EpochLen + train_iter.at = total_dl_consumed
      /\ current_epoch = train_iter.epoch /\ total_dl_consumed \in Nat
  BY DEF CountInv, TypeOK, CursorOK, Pos
<1>2. CASE train_iter.at < EpochLen
  <2>1. /\ total_dl_consumed = (total_dl_consumed \div EpochLen) * EpochLen
                                + (total_dl_consumed % EpochLen)
        /\ total_dl_consumed \div EpochLen \in Nat
        /\ total_dl_consumed % EpochLen \in 0 .. EpochLen - 1
    BY <1>1, Division
  <2>2. train_iter.at \in 0 .. EpochLen - 1
    BY <1>1, <1>2
  <2>3. train_iter.epoch = total_dl_consumed \div EpochLen
    BY <1>1, <2>1, <2>2, PositionDecides
  <2>. QED  BY <1>1, <2>3
<1>3. CASE train_iter.at = EpochLen
  <2>. DEFINE q == total_dl_consumed \div EpochLen
              r == total_dl_consumed % EpochLen
  <2>1. q \in Nat /\ r \in 0 .. EpochLen - 1 /\ total_dl_consumed = q * EpochLen + r
    BY <1>1, Division
  <2>. HIDE DEF q, r
  <2>2. (train_iter.epoch + 1) * EpochLen = train_iter.epoch * EpochLen + EpochLen
        /\ train_iter.epoch * EpochLen \in Nat
    BY <1>1, Product
  <2>3. PICK e \in Nat : e = train_iter.epoch + 1
    BY <1>1
  <2>4. e * EpochLen = q * EpochLen + r /\ e * EpochLen \in Nat
    BY <1>1, <1>3, <2>1, <2>2, <2>3
  <2>5. r = 0
    <3>1. \A i, j \in 0 .. EpochLen - 1 :
            e * EpochLen + i = q * EpochLen + j => i = j
      BY <2>1, PositionDecides
    <3>2. 0 \in 0 .. EpochLen - 1 /\ e * EpochLen + 0 = e * EpochLen
      BY <2>4
    <3>. QED  BY <2>1, <2>4, <3>1, <3>2
  <2>6. total_dl_consumed > 0
    BY <1>1, <1>3, <2>2
  <2>. QED  BY <2>5, <2>6 DEF AtEpochEnd, r
<1>. QED  BY <1>1, <1>2, <1>3

LEMMA SaveStreamInv == CountInv /\ StreamInv /\ (Save \/ SkipSave) => StreamInv'
<1>. SUFFICES ASSUME CountInv, StreamInv, Save \/ SkipSave, ~ boundary PROVE StreamInv'
  BY DEF StreamInv, Save, SkipSave
<1>1. /\ pc = "save"
      /\ UNCHANGED <<train_iter, current_epoch, total_dl_consumed, buffer, held, served, boundary>>
  BY DEF Save, SkipSave
<1>2. /\ CursorOK' /\ Owed(buffer' \o held', total_dl_consumed')
      /\ \A n \in DOMAIN served' : served'[n] = StreamAt(n)
  BY <1>1 DEF StreamInv, CursorOK, Owed, IsInjective, Pos
<1>3. \A s \in DOMAIN snapshots' : GoodEntry(snapshots'[s])
  <2>1. CASE SkipSave
    BY <2>1 DEF SkipSave, StreamInv
  <2>2. CASE Save
    <3>1. /\ DOMAIN snapshots' = DOMAIN snapshots \cup {step}
          /\ snapshots'[step].total_dl_consumed = total_dl_consumed
          /\ snapshots'[step].current_epoch = current_epoch
          /\ snapshots'[step].buffer = buffer \o held
          /\ \A s \in DOMAIN snapshots : s # step => snapshots'[s] = snapshots[s]
      BY <2>2 DEF Save, SavedBuffer
    <3>2. train_iter # NoIter
      BY <1>1 DEF CountInv, PcOK
    <3>3. GoodEntry(snapshots'[step])
      BY <3>1, <3>2, CursorEpoch DEF GoodEntry, StreamInv
    <3>4. ASSUME NEW s \in DOMAIN snapshots, s # step PROVE GoodEntry(snapshots'[s])
      BY <3>1, <3>4 DEF StreamInv
    <3>. QED  BY <3>1, <3>3, <3>4
  <2>. QED  BY <2>1, <2>2
<1>. QED  BY <1>1, <1>2, <1>3 DEF StreamInv

----------------------------------------------------------------------------
\* A relaunch.

LEMMA LatestExists ==
    ASSUME CountInv, DOMAIN snapshots # {}
    PROVE  Latest \in DOMAIN snapshots /\ \A r \in DOMAIN snapshots : r <= Latest
<1>. USE TailDataSourceAssumption DEF TailDataSourceAssumption
<1>. DEFINE T == {MaxStep - s : s \in DOMAIN snapshots}
<1>1. DOMAIN snapshots \subseteq 1 .. MaxStep
  BY DEF CountInv, TypeOK
<1>2. T \subseteq Nat /\ T # {}
  BY <1>1
<1>3. \E x \in T : \A y \in T : ~ (<<y, x>> \in OpToRel(<, Nat))
  BY <1>2, NatLessThanWellFounded, WFMin
<1>4. PICK x \in T : \A y \in T : ~ (<<y, x>> \in OpToRel(<, Nat))
  BY <1>3
<1>5. \A y \in T : ~ (y < x)
  BY <1>2, <1>4 DEF OpToRel
<1>6. PICK s \in DOMAIN snapshots : x = MaxStep - s
  OBVIOUS
<1>7. ASSUME NEW r \in DOMAIN snapshots PROVE r <= s
  <2>1. MaxStep - r \in T /\ r \in Nat /\ s \in Nat
    BY <1>1
  <2>2. ~ (MaxStep - r < MaxStep - s)
    BY <1>5, <1>6, <2>1
  <2>. QED  BY <2>1, <2>2
<1>. QED  BY <1>6, <1>7 DEF Latest

LEMMA RestartInv == CountInv /\ StreamInv /\ Restart => CountInv' /\ StreamInv'
<1>. SUFFICES ASSUME CountInv, StreamInv, Restart PROVE CountInv' /\ StreamInv'
  OBVIOUS
<1>. USE TailDataSourceAssumption DEF TailDataSourceAssumption
<1>0. /\ held' = <<>> /\ pc' = "fetch" /\ UNCHANGED snapshots
      /\ restarts' \in 0 .. MaxRestarts
  BY DEF Restart, CountInv, TypeOK
<1>1. CASE DOMAIN snapshots = {}
  <2>1. /\ sampler' = [epoch |-> 0, start_index |-> 0]
        /\ train_iter' = NoIter /\ current_epoch' = -1 /\ total_dl_consumed' = 0
        /\ buffer' = <<>> /\ step' = 0 /\ served' = <<>> /\ boundary' = FALSE
    BY <1>1 DEF Restart
  <2>2. TypeOK'
    <3>1. sampler' \in [epoch : Nat, start_index : 0 .. EpochLen - 1]
      BY <2>1
    <3>2. /\ buffer' \in Seq(Microbatch) /\ held' \in Seq(Microbatch)
          /\ served' \in Seq(Microbatch)
      BY <1>0, <2>1, EmptySeq
    <3>3. /\ train_iter' \in [epoch : Nat, at : 0 .. EpochLen] \cup {NoIter}
          /\ current_epoch' \in Nat \cup {-1} /\ total_dl_consumed' \in Nat
          /\ step' \in 0 .. MaxStep /\ pc' \in {"fetch", "train", "save"}
      BY <1>0, <2>1
    <3>4. boundary' \in BOOLEAN
      BY <2>1, Zenon
    <3>. QED  BY <1>0, <3>1, <3>2, <3>3, <3>4 DEF CountInv, TypeOK
  <2>3. SnapshotsOK' /\ SnapshotsGrow' /\ PcOK' /\ Books'
    BY <1>0, <1>1, <2>1 DEF SnapshotsOK, SnapshotsGrow, PcOK, Books
  <2>4. buffer' \o held' = <<>>
    BY <1>0, <2>1
  <2>5. StreamInv'
    BY <1>0, <1>1, <2>1, <2>4 DEF StreamInv, CursorOK, Owed, IsInjective
  <2>. QED  BY <2>2, <2>3, <2>5 DEF CountInv
<1>2. CASE DOMAIN snapshots # {}
  <2>. DEFINE state == snapshots[Latest]
              total == state.total_dl_consumed
              resumed == ResumePoint(total)
  <2>1. /\ Latest \in DOMAIN snapshots /\ \A r \in DOMAIN snapshots : r <= Latest
        /\ DOMAIN snapshots \subseteq 1 .. MaxStep
    BY <1>2, LatestExists DEF CountInv, TypeOK
  <2>2. /\ state \in Entry /\ Latest \in 1 .. step /\ total <= total_dl_consumed
        /\ total = Latest * NumMb + Len(state.buffer)
    BY <2>1 DEF CountInv, SnapshotsOK, EntryBooks
  <2>3. total \in Nat /\ state.current_epoch \in Nat /\ state.buffer \in Seq(Microbatch)
    BY <2>2 DEF Entry
  <2>14. ASSUME NEW n \in 1 .. total PROVE n \in 1 .. total_dl_consumed
    <3>1. total <= total_dl_consumed
      BY <2>2
    <3>2. total \in Nat /\ total_dl_consumed \in Nat
      BY <2>3 DEF CountInv, TypeOK
    <3>. HIDE DEF total
    <3>. QED  BY <3>1, <3>2
  <2>4. /\ sampler' = resumed
        /\ train_iter' = At(resumed.epoch, resumed.start_index)
        /\ current_epoch' = state.current_epoch
        /\ total_dl_consumed' = total /\ buffer' = state.buffer /\ step' = Latest
        /\ served' = SubSeq(served, 1, total)
        /\ boundary' = (boundary \/ AtEpochEnd(total))
    BY <1>2 DEF Restart
  <2>5. /\ total \div EpochLen \in Nat /\ total % EpochLen \in 0 .. EpochLen - 1
        /\ total = (total \div EpochLen) * EpochLen + (total % EpochLen)
    BY <2>3, Division
  <2>6. resumed = [epoch |-> total \div EpochLen, start_index |-> total % EpochLen]
    BY DEF ResumePoint
  <2>. HIDE DEF state, total, resumed
  <2>7. /\ served' \in Seq(Microbatch) /\ Len(served') = total
        /\ \A n \in 1 .. total : served'[n] = served[n]
    <3>1. /\ served \in Seq(Microbatch) /\ Len(served) = total_dl_consumed
          /\ total_dl_consumed \in Nat
      BY DEF CountInv, TypeOK, Books
    <3>2. ASSUME NEW i \in 1 .. total PROVE served[i] \in Microbatch
      BY <2>14, <3>1, ElementOfSeq
    <3>3. /\ SubSeq(served, 1, total) \in Seq(Microbatch)
          /\ Len(SubSeq(served, 1, total)) = IF 1 <= total THEN total - 1 + 1 ELSE 0
          /\ \A i \in 1 .. total - 1 + 1 : SubSeq(served, 1, total)[i] = served[1 + i - 1]
      BY <2>3, <3>2, SubSeqProperties
    <3>4. \A i \in 1 .. total : served[1 + i - 1] = served[i]
      BY <2>3
    <3>. QED  BY <2>3, <2>4, <3>3, <3>4
  <2>8. /\ train_iter' = [epoch |-> total \div EpochLen, at |-> total % EpochLen]
        /\ train_iter' # NoIter
    BY <2>4, <2>5, <2>6 DEF At, NoIter
  <2>9. TypeOK'
    <3>1. sampler' \in [epoch : Nat, start_index : 0 .. EpochLen - 1]
      BY <2>4, <2>5, <2>6
    <3>2. train_iter' \in [epoch : Nat, at : 0 .. EpochLen]
      BY <2>5, <2>8
    <3>3. held' \in Seq(Microbatch)
      BY <1>0, EmptySeq
    <3>4. boundary' \in BOOLEAN
      BY <2>4, Zenon DEF AtEpochEnd
    <3>5. step' \in 0 .. MaxStep
      BY <2>1, <2>4
    <3>. QED  BY <1>0, <2>3, <2>4, <2>7, <3>1, <3>2, <3>3, <3>4, <3>5 DEF CountInv, TypeOK
  <2>10. SnapshotsOK' /\ SnapshotsGrow'
    <3>1. ASSUME NEW s \in DOMAIN snapshots
          PROVE  s \in 1 .. Latest /\ snapshots[s].total_dl_consumed <= total
      <4>1. s \in Int /\ s >= 1 /\ s <= Latest /\ Latest \in Int
        BY <2>1 DEF CountInv, TypeOK
      <4>2. snapshots[s].total_dl_consumed <= snapshots[Latest].total_dl_consumed
        BY <2>1, <4>1 DEF CountInv, SnapshotsGrow
      <4>. QED  BY <4>1, <4>2 DEF total, state
    <3>. QED  BY <1>0, <2>4, <3>1 DEF CountInv, SnapshotsOK, SnapshotsGrow, EntryBooks
  <2>11. PcOK'
    BY <1>0, <2>3, <2>4, <2>8 DEF PcOK
  <2>12. Books'
    <3>1. Len(held') = 0
      BY <1>0
    <3>2. Latest * NumMb \in Nat /\ Len(state.buffer) \in Nat
      BY <2>1, <2>3, LenProperties
    <3>3. buffer' = state.buffer /\ step' = Latest /\ total_dl_consumed' = total
      BY <2>3, <2>4
    <3>4. total = Latest * NumMb + Len(state.buffer)
      BY <2>2
    <3>5. total = Latest * NumMb + Len(state.buffer) + 0
      BY <3>2, <3>4
    <3>6. Len(served') = total
      BY <2>7
    <3>. QED  BY <3>1, <3>3, <3>5, <3>6 DEF Books
  <2>13. StreamInv'
    <3>. SUFFICES ASSUME ~ boundary' PROVE StreamInv'
      BY DEF StreamInv
    <3>1. ~ boundary /\ ~ AtEpochEnd(total)
      BY <2>4
    <3>2. GoodEntry(state)
      BY <2>1, <3>1 DEF StreamInv, state
    <3>3. CursorOK'
      <4>1. current_epoch' = total \div EpochLen
        BY <2>4, <3>1, <3>2 DEF GoodEntry, total
      <4>2. Pos(train_iter)' = total
        BY <2>5, <2>8 DEF Pos
      <4>. QED  BY <2>4, <2>8, <4>1, <4>2 DEF CursorOK
    <3>4. \A n \in DOMAIN served' : served'[n] = StreamAt(n)
      <4>1. DOMAIN served' = 1 .. total /\ DOMAIN served = 1 .. total_dl_consumed
        BY <2>7, LenProperties DEF CountInv, TypeOK, Books
      <4>4. \A n \in DOMAIN served : served[n] = StreamAt(n)
        BY <3>1 DEF StreamInv
      <4>5. ASSUME NEW n \in DOMAIN served' PROVE served'[n] = StreamAt(n)
        <5>1. n \in 1 .. total
          BY <4>1
        <5>2. n \in DOMAIN served
          BY <2>14, <4>1, <5>1
        <5>. QED  BY <2>7, <4>4, <5>1, <5>2
      <4>. QED  BY <4>5
    <3>5. Owed(buffer' \o held', total_dl_consumed')
      <4>1. buffer' \o held' = state.buffer
        BY <1>0, <2>3, <2>4, ConcatEmptySeq
      <4>. QED  BY <2>4, <3>2, <4>1 DEF GoodEntry, total
    <3>. QED  BY <1>0, <3>1, <3>3, <3>4, <3>5 DEF StreamInv
  <2>. QED  BY <2>9, <2>10, <2>11, <2>12, <2>13 DEF CountInv
<1>. QED  BY <1>1, <1>2

----------------------------------------------------------------------------
LEMMA NextInv == CountInv /\ StreamInv /\ [Next]_vars => CountInv' /\ StreamInv'
<1>. SUFFICES ASSUME CountInv, StreamInv, [Next]_vars PROVE CountInv' /\ StreamInv'
  OBVIOUS
<1>1. CASE UNCHANGED vars
  <2>1. CountInv'
    BY <1>1 DEF CountInv, TypeOK, SnapshotsOK, SnapshotsGrow, EntryBooks, PcOK, Books, vars
  <2>2. StreamInv'
    BY <1>1 DEF StreamInv, CursorOK, Owed, IsInjective, GoodEntry, Pos, vars
  <2>. QED  BY <2>1, <2>2
<1>2. CASE Next
  BY <1>1, <1>2, FetchCountInv, FetchStreamInv, TrainCountInv, TrainStreamInv, SaveCountInv,
     SaveStreamInv, RestartInv DEF Next, Terminated
<1>. QED  BY <1>1, <1>2

\* The cursor, the buffer and the history keep their shapes over any number of
\* steps, epochs and relaunches.
THEOREM DataSourceTypeCorrect == Spec => []TypeOK
<1>1. CountInv => TypeOK
  BY DEF CountInv
<1>. QED  BY <1>1, InitInv, NextInv, PTL DEF Spec

\* As long as no relaunch resumed at the very end of an epoch, the data source
\* serves the endless stream, every microbatch once and in order.
THEOREM StreamIsExact == Spec => []StreamExact
<1>1. StreamInv => StreamExact
  BY DEF StreamInv, StreamExact, StreamAt
<1>. QED  BY <1>1, InitInv, NextInv, PTL DEF Spec

\* What was read is trained, buffered or in hand, after every relaunch too, and
\* nothing is owed twice.
THEOREM NothingIsLost == Spec => []NothingLost
<1>1. CountInv /\ StreamInv => NothingLost
  BY DEF CountInv, Books, StreamInv, Owed, NothingLost
<1>. QED  BY <1>1, InitInv, NextInv, PTL DEF Spec
=============================================================================
