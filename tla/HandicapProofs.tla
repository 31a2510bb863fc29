---------------------------- MODULE HandicapProofs ----------------------------
(***************************************************************************)
(* Proofs about HandicapIndex and the caps, whatever the calculation is;   *)
(* then about RoundScoring, which shares no state with it: the strokes a   *)
(* hole is given, and what a stroke fewer does to the differential; then   *)
(* about the calculation, over the records MCHandicap changes, of any      *)
(* length.  Its walk and its sums are recursive functions: what holds of   *)
(* them is shown by induction on the position in the record, a well-       *)
(* founded order applied to the set of positions at which it holds.        *)
(***************************************************************************)
EXTENDS MCHandicap, SequenceTheorems, FiniteSetTheorems, FunctionTheorems,
        WellFoundedInduction, TLAPS

(* Half of a number, truncated: what the soft cap computes. *)
LEMMA Half ==
  ASSUME NEW n \in Int
  PROVE  /\ Truncate(n, 2) \in Int
         /\ 2 * Truncate(n, 2) <= n + 1
         /\ n - 1 <= 2 * Truncate(n, 2)
         /\ n >= 0 => 2 * Truncate(n, 2) <= n
<1>1. CASE n >= 0
  BY <1>1, SMT DEF Truncate
<1>2. CASE n < 0
  <2>1. Truncate(n, 2) = -((-n) \div 2)
    BY <1>2, SMT DEF Truncate
  <2>2. -n \in Nat
    BY <1>2, SMT
  <2>3. 2 * ((-n) \div 2) <= -n /\ -n <= 2 * ((-n) \div 2) + 1 /\ (-n) \div 2 \in Int
    BY <2>2, SMT
  <2>4. QED
    BY <1>2, <2>1, <2>3, SMT
<1>3. QED
  BY <1>1, <1>2

(* The half of more than twice m is at least m. *)
LEMMA HalfAbove ==
  ASSUME NEW m \in Int, NEW n \in Int, 2 * m + 1 <= n
  PROVE  Truncate(n, 2) \in Int /\ m <= Truncate(n, 2)
<1>1. Truncate(n, 2) \in Int /\ n - 1 <= 2 * Truncate(n, 2)
  BY Half
<1>2. QED
  BY <1>1, SMT

(* Truncation keeps order. *)
LEMMA HalfMonotone ==
  ASSUME NEW m \in Int, NEW n \in Int, m <= n
  PROVE  Truncate(m, 2) <= Truncate(n, 2)
<1>1. CASE m >= 0
  BY <1>1, SMT DEF Truncate
<1>2. CASE n < 0
  BY <1>2, SMT DEF Truncate
<1>3. CASE m < 0 /\ n >= 0
  BY <1>3, SMT DEF Truncate
<1>4. QED
  BY <1>1, <1>2, <1>3, SMT

(* What applyWhsCaps promises (whs-calculation.ts:258-287): an index, never above
   the one calculated, and never more than the hard cap above the low. *)
THEOREM CapsBound ==
  ASSUME NEW raw \in Int, NEW least \in Int
  PROVE  /\ applyWhsCaps(raw, least) \in Int
         /\ applyWhsCaps(raw, least) <= raw
         /\ applyWhsCaps(raw, least) <= least + HardCap
<1>1. least # NULL
  BY ConstantsType
<1>2. CASE raw > least + SoftCap
  <2>1. least + SoftCap + raw \in Int /\ least + SoftCap + raw <= 2 * raw - 1
    BY <1>2, SMT DEF SoftCap
  <2>2. /\ Truncate(least + SoftCap + raw, 2) \in Int
        /\ Truncate(least + SoftCap + raw, 2) <= raw
    BY <2>1, Half, SMT
  <2>3. QED
    BY <1>1, <1>2, <2>2, SMT DEF applyWhsCaps, Lesser, SoftCap, HardCap
<1>3. CASE ~(raw > least + SoftCap)
  BY <1>1, <1>3, SMT DEF applyWhsCaps, Lesser, SoftCap, HardCap
<1>4. QED
  BY <1>2, <1>3

(* The caps keep the order of the indexes calculated: of two records, the one
   with the lower raw index has the lower or the same capped one, also across the
   soft threshold and where the half is truncated. *)
THEOREM CapsMonotone ==
  ASSUME NEW a \in Int, NEW b \in Int, a <= b, NEW least \in Int
  PROVE  applyWhsCaps(a, least) <= applyWhsCaps(b, least)
<1> DEFINE soft == least + SoftCap
           softened(raw) == IF raw > soft THEN Truncate(soft + raw, 2) ELSE raw
<1>1. least # NULL /\ soft \in Int
  BY ConstantsType, SMT DEF SoftCap
<1>2. softened(a) \in Int /\ softened(b) \in Int /\ softened(a) <= softened(b)
  <2> HIDE DEF soft
  <2>1. CASE a > soft
    <3>1. soft + a \in Int /\ soft + b \in Int /\ soft + a <= soft + b /\ b > soft
      BY <1>1, <2>1, SMT
    <3>2. QED
      BY <2>1, <3>1, Half, HalfMonotone
  <2>2. CASE ~(a > soft) /\ b > soft
    <3>1. soft + b \in Int /\ 2 * soft + 1 <= soft + b
      BY <1>1, <2>2, SMT
    <3>2. Truncate(soft + b, 2) \in Int /\ soft <= Truncate(soft + b, 2)
      BY <1>1, <3>1, HalfAbove
    <3>3. QED
      BY <1>1, <2>2, <3>2, SMT
  <2>3. CASE ~(b > soft)
    BY <1>1, <2>3, SMT
  <2>4. QED
    BY <2>1, <2>2, <2>3
<1>3. /\ applyWhsCaps(a, least) = Lesser(softened(a), least + HardCap)
      /\ applyWhsCaps(b, least) = Lesser(softened(b), least + HardCap)
  BY <1>1 DEF applyWhsCaps
<1> HIDE DEF softened
<1>4. QED
  BY <1>2, <1>3, SMT DEF Lesser, HardCap

-----------------------------------------------------------------------------
(* The history has no row of a later time, and its last row is the index; the low
   is at most every row in the window of the last row, however old the rows before
   it: the minimum was taken for that window. *)
LastRow == history[Len(history)]

DatesInv == \A i \in DOMAIN history : history[i].on <= clock

LowInv ==
  history # <<>> =>
    /\ index = LastRow.index
    /\ \A i \in Recent(history, LastRow.on) : low <= history[i].index

IInv == TypeOK /\ DatesInv /\ LowInv /\ IndexWithinHardCap

(* Init: no history, no index. *)
LEMMA InitIInv == Init => IInv
BY ConstantsType DEF Init, IInv, TypeOK, DatesInv, LowInv, IndexWithinHardCap, Calculated, Record

(* A recorded change keeps the invariant, if a calculated value is within the hard
   cap of the low it was calculated with and is dated by the clock. *)
LEMMA ChangeKeeps ==
  ASSUME IInv, record' \in Record, clock' = clock,
         NEW value \in Int, NEW on \in Int, on <= clock, NEW method \in Methods,
         RecordChange(value, on, method),
         method = "calculated" => on = clock /\ (low # NULL => value <= low + HardCap)
  PROVE  IInv'
<1> USE DEF IInv
<1>1. CASE index = value
  BY <1>1 DEF RecordChange, TypeOK, DatesInv, LowInv, IndexWithinHardCap, Calculated, LastRow, Recent
<1>2. CASE index # value
  <2> DEFINE row == [index |-> value, on |-> on, method |-> method]
  <2>1. row \in Row /\ history \in Seq(Row)
    BY DEF Row, TypeOK
  <2>2. /\ history' = Append(history, row)
        /\ index' = value
    BY <1>2 DEF RecordChange
  <2>3. PICK i \in Recent(history', on) :
          /\ \A j \in Recent(history', on) : history'[i].index <= history'[j].index
          /\ low' = history'[i].index
    BY <1>2 DEF RecordChange
  <2>4. /\ history' \in Seq(Row) /\ Len(history') = Len(history) + 1
        /\ history'[Len(history')] = row
        /\ \A k \in 1 .. Len(history) : history'[k] = history[k]
        /\ DOMAIN history' = 1 .. Len(history) + 1 /\ DOMAIN history = 1 .. Len(history)
        /\ Len(history) \in Nat /\ history' # <<>>
    BY <2>1, <2>2, AppendProperties
  <2>5. \A k \in DOMAIN history' : history'[k] \in Row
    BY <2>4
  <2>6. i \in DOMAIN history' /\ low' \in Int
    BY <2>3, <2>5 DEF Recent, Row
  <2>7. TypeOK'
    <3>1. index' # NULL /\ low' # NULL
      BY <2>2, <2>6, ConstantsType
    <3>2. QED
      BY <2>2, <2>4, <2>6, <3>1 DEF TypeOK
  <2>8. DatesInv'
    BY <2>4 DEF DatesInv, TypeOK
  <2>9. LowInv'
    BY <2>2, <2>3, <2>4 DEF LowInv, LastRow, Recent
  <2>10. IndexWithinHardCap'
    <3> SUFFICES ASSUME method = "calculated" PROVE value <= low' + HardCap
      BY <2>2, <2>4 DEF IndexWithinHardCap, Calculated
    <3>1. CASE i = Len(history')
      BY <2>3, <2>4, <3>1, SMT DEF HardCap
    <3>2. CASE i # Len(history')
      <4>1. i \in 1 .. Len(history) /\ history # <<>>
        BY <2>4, <2>6, <3>2
      <4>2. low # NULL /\ low \in Int
        BY <4>1 DEF TypeOK
      <4>3. /\ history[i] \in Row /\ LastRow \in Row
            /\ LastRow.on <= clock /\ history[i].on >= clock - Window
        <5>1. history[i] \in Row /\ LastRow \in Row /\ LastRow.on <= clock
          BY <2>1, <2>4, <4>1 DEF DatesInv, LastRow
        <5>2. history'[i].on >= on - Window /\ history'[i] = history[i]
          BY <2>3, <2>4, <4>1 DEF Recent
        <5>3. QED
          BY <5>1, <5>2
      <4>4. history[i].on >= LastRow.on - Window
        <5>1. /\ history[i].on \in Int /\ LastRow.on \in Int
              /\ clock \in Int /\ Window \in Int
          BY <4>3, ConstantsType DEF TypeOK, Row
        <5> HIDE DEF LastRow
        <5>2. QED
          BY <4>3, <5>1, SMT
      <4>5. low <= history[i].index
        BY <2>4, <4>1, <4>4 DEF LowInv, Recent
      <4>6. low' = history[i].index /\ history[i].index \in Int
        BY <2>3, <2>4, <4>1, <4>3 DEF Row
      <4>7. value <= low + HardCap
        BY <4>2
      <4>8. QED
        BY <4>2, <4>5, <4>6, <4>7, SMT DEF HardCap
    <3>3. QED
      BY <3>1, <3>2
  <2>11. QED
    BY <2>7, <2>8, <2>9, <2>10
<1>3. QED
  BY <1>1, <1>2

(* A recalculation records a change that the cap bounds, or nothing. *)
LEMMA RecalculateKeeps ==
  ASSUME IInv, record' \in Record, clock' = clock, NEW rec \in Record, Recalculate(rec)
  PROVE  IInv'
<1>1. CASE RawIndex(rec) = NULL
  BY <1>1 DEF Recalculate, IInv, TypeOK, DatesInv, LowInv, IndexWithinHardCap, Calculated,
     LastRow, Recent
<1>2. CASE RawIndex(rec) # NULL
  <2> DEFINE value == applyWhsCaps(RawIndex(rec), low)
  <2>1. RawIndex(rec) \in Int
    BY <1>2, RawIndexType
  <2>2. value \in Int /\ (low # NULL => value <= low + HardCap)
    <3>1. CASE low = NULL
      BY <2>1, <3>1 DEF applyWhsCaps
    <3>2. CASE low # NULL
      BY <2>1, <3>2, CapsBound DEF IInv, TypeOK
    <3>3. QED
      BY <3>1, <3>2
  <2>3. RecordChange(value, clock, "calculated")
    BY <1>2 DEF Recalculate
  <2>4. clock \in Int /\ clock <= clock /\ "calculated" \in Methods
    BY DEF IInv, TypeOK, Methods
  <2> HIDE DEF value
  <2>5. QED
    BY <2>2, <2>3, <2>4, ChangeKeeps
<1>3. QED
  BY <1>1, <1>2

(* Each action of the player's row, history, record and clock. *)
LEMMA NextIInv == IInv /\ [Next]_vars => IInv'
<1> SUFFICES ASSUME IInv, [Next]_vars PROVE IInv'
  OBVIOUS
<1>1. ASSUME NEW r \in Round, NEW d \in Differential, Approve(r, d) PROVE IInv'
  <2>1. record' \in Record /\ clock' = clock /\ Recalculate(record')
    BY <1>1 DEF Approve, IInv, TypeOK, Record
  <2>2. QED
    BY <2>1, RecalculateKeeps
<1>2. ASSUME NEW r \in Round, Retract(r) PROVE IInv'
  <2>1. record' \in Record /\ clock' = clock /\ Recalculate(record')
    BY <1>2 DEF Retract, IInv, TypeOK, Record
  <2>2. QED
    BY <2>1, RecalculateKeeps
<1>3. ASSUME NEW r \in Round, NEW d \in Differential, Correct(r, d) PROVE IInv'
  BY <1>3 DEF Correct, IInv, TypeOK, Record, DatesInv, LowInv, IndexWithinHardCap, Calculated,
     LastRow, Recent
<1>4. CASE RecalculateAfterCorrection
  <2>1. record' = record /\ record \in Record /\ clock' = clock /\ Recalculate(record)
    BY <1>4 DEF RecalculateAfterCorrection, IInv, TypeOK
  <2>2. QED
    BY <2>1, RecalculateKeeps
<1>5. ASSUME NEW value \in OverrideIndex, NEW waited \in {0, 1}, Override(value, waited) PROVE IInv'
  <2>1. /\ record' \in Record /\ clock' = clock
        /\ RecordChange(value, clock - waited, "manual_override")
    BY <1>5 DEF Override, IInv, TypeOK
  <2>2. /\ value \in Int /\ clock - waited \in Int /\ clock - waited <= clock
        /\ "manual_override" \in Methods
    BY <1>5, ConstantsType DEF IInv, TypeOK, Methods
  <2>3. QED
    BY <2>1, <2>2, ChangeKeeps
<1>6. CASE Tick
  <2>1. clock \in Nat /\ clock' = clock + 1 /\ UNCHANGED <<record, index, low, history>>
    BY <1>6 DEF Tick, IInv, TypeOK
  <2>2. DatesInv'
    <3>1. \A i \in DOMAIN history : history[i] \in Row /\ history[i].on <= clock
      BY DEF IInv, TypeOK, DatesInv
    <3>2. QED
      BY <2>1, <3>1 DEF DatesInv, Row
  <2>3. QED
    BY <2>1, <2>2 DEF IInv, TypeOK, LowInv, IndexWithinHardCap, Calculated, LastRow, Recent
<1>7. CASE UNCHANGED vars
  BY <1>7 DEF vars, IInv, TypeOK, DatesInv, LowInv, IndexWithinHardCap, Calculated, LastRow, Recent
<1>8. QED
  BY <1>1, <1>2, <1>3, <1>4, <1>5, <1>6, <1>7 DEF Next

(* The last row is in its own window. *)
LEMMA LowIsLowest == IInv => LowBoundsIndex
<1> SUFFICES ASSUME IInv, index # NULL PROVE low <= index
  BY DEF LowBoundsIndex
<1>1. history # <<>> /\ history \in Seq(Row)
  BY DEF IInv, TypeOK
<1>2. Len(history) \in DOMAIN history /\ LastRow \in Row
  BY <1>1 DEF LastRow
<1>3. LastRow.on >= LastRow.on - Window
  BY <1>2, ConstantsType, SMT DEF Row
<1>4. QED
  BY <1>1, <1>2, <1>3 DEF IInv, LowInv, LastRow, Recent

-----------------------------------------------------------------------------
(* The invariant holds in every state the code reaches, whatever RawIndex computes. *)
THEOREM Invariant == Spec => []IInv
BY InitIInv, NextIInv, PTL DEF Spec

(* The player's row and history keep their types, and a player has an index and a
   Low Handicap Index exactly if the history has a row. *)
THEOREM TypeCorrect == Spec => []TypeOK
<1>1. IInv => TypeOK
  BY DEF IInv
<1>2. QED
  BY <1>1, Invariant, PTL

(* The stored Low Handicap Index is never above the index. *)
THEOREM LowCorrect == Spec => []LowBoundsIndex
BY LowIsLowest, Invariant, PTL

(* A calculated index is within the hard cap of the Low Handicap Index stored with
   it, for every calculation, window and history. *)
THEOREM HardCapHolds == Spec => []IndexWithinHardCap
<1>1. IInv => IndexWithinHardCap
  BY DEF IInv
<1>2. QED
  BY <1>1, Invariant, PTL

-----------------------------------------------------------------------------
(* Strokes received *)

(* Dealt one by one, h strokes reach hole i as often as the division says, and once
   more if i is among the remainder: the j-th time, with stroke (j - 1) * n + i. *)
LEMMA DealtTimes ==
  ASSUME NEW n \in {9, 18}, NEW h \in Nat, NEW i \in 1 .. n
  PROVE  Cardinality({j \in 1 .. h : ((j - 1) % n) + 1 = i})
           = h \div n + (IF i <= h % n THEN 1 ELSE 0)
<1>1. DEFINE S == {j \in 1 .. h : ((j - 1) % n) + 1 = i}
             times == h \div n + (IF i <= h % n THEN 1 ELSE 0)
             stroke == [k \in 1 .. times |-> (k - 1) * n + i]
<1>2. times \in Nat
  <2>1. CASE n = 9
    BY <2>1, SMT
  <2>2. CASE n = 18
    BY <2>2, SMT
  <2>3. QED
    BY <2>1, <2>2
<1>3. ASSUME NEW k \in 1 .. times
      PROVE  (k - 1) * n + i \in S
  <2>1. CASE n = 9
    BY <2>1, SMT
  <2>2. CASE n = 18
    BY <2>2, SMT
  <2>3. QED
    BY <2>1, <2>2
<1>4. ASSUME NEW j \in S
      PROVE  \E k \in 1 .. times : (k - 1) * n + i = j
  <2>1. DEFINE k == (j - 1) \div n + 1
  <2>2. k \in 1 .. times /\ (k - 1) * n + i = j
    <3>1. CASE n = 9
      BY <3>1, SMT
    <3>2. CASE n = 18
      BY <3>2, SMT
    <3>3. QED
      BY <3>1, <3>2
  <2>3. QED
    BY <2>2
<1>5. ASSUME NEW k \in 1 .. times, NEW l \in 1 .. times, (k - 1) * n + i = (l - 1) * n + i
      PROVE  k = l
  <2>1. CASE n = 9
    BY <1>2, <1>5, <2>1, SMT
  <2>2. CASE n = 18
    BY <1>2, <1>5, <2>2, SMT
  <2>3. QED
    BY <2>1, <2>2
<1> HIDE DEF S, times
<1>6. stroke \in Bijection(1 .. times, S)
  BY <1>3, <1>4, <1>5, Fun_IsBij
<1>7. QED
  BY <1>2, <1>6, FS_CountingElements DEF S, times, ExistsBijection

(* Dealing them back starts from the easiest hole: hole i is the (n + 1 - i)-th. *)
LEMMA Dealt ==
  ASSUME handicap \in Int, HoleCount \in {9, 18}, NEW i \in 1 .. HoleCount
  PROVE  computeStrokesReceived(handicap, i, HoleCount) = DealtTo(i)
<1>1. DEFINE h == RoundHalfUp(handicap)
             n == HoleCount
<1>2. h \in Int
  BY SMT DEF RoundHalfUp
<1> HIDE DEF h
<1>3. CASE h >= 0
  <2>1. h \in Nat
    BY <1>2, <1>3
  <2>2. DealtTo(i) = h \div n + (IF i <= h % n THEN 1 ELSE 0)
    BY <1>3, <2>1, DealtTimes DEF DealtTo, h
  <2>3. QED
    BY <1>3, <2>2 DEF computeStrokesReceived, h
<1>4. CASE h < 0
  <2>1. -h \in Nat /\ ~(h >= 0)
    BY <1>2, <1>4
  <2>2. DEFINE e == n + 1 - i
  <2>3. e \in 1 .. n
    OBVIOUS
  <2>4. Cardinality({j \in 1 .. -h : ((j - 1) % n) + 1 = e})
          = (-h) \div n + (IF e <= (-h) % n THEN 1 ELSE 0)
    BY <2>1, <2>3, DealtTimes
  <2>5. ASSUME NEW j \in 1 .. -h
        PROVE  n - ((j - 1) % n) = i <=> ((j - 1) % n) + 1 = e
    <3>1. CASE n = 9
      BY <2>1, <3>1, SMT
    <3>2. CASE n = 18
      BY <2>1, <3>2, SMT
    <3>3. QED
      BY <3>1, <3>2
  <2>6. {j \in 1 .. -h : n - ((j - 1) % n) = i} = {j \in 1 .. -h : ((j - 1) % n) + 1 = e}
    BY <2>5
  <2>7. DealtTo(i) = - ((-h) \div n + (IF e <= (-h) % n THEN 1 ELSE 0))
    BY <2>1, <2>4, <2>6 DEF DealtTo, h
  <2>8. computeStrokesReceived(handicap, i, HoleCount) =
          - ((-h) \div n) - (IF i > n - ((-h) % n) THEN 1 ELSE 0)
    BY <2>1 DEF computeStrokesReceived, h
  <2>9. /\ (-h) \div n \in Int
        /\ e <= (-h) % n <=> i > n - ((-h) % n)
    <3>1. CASE n = 9
      BY <2>1, <3>1, SMT
    <3>2. CASE n = 18
      BY <2>1, <3>2, SMT
    <3>3. QED
      BY <3>1, <3>2
  <2> HIDE DEF e, n
  <2>10. QED
    BY <2>7, <2>8, <2>9, SMT
<1>5. QED
  BY <1>2, <1>3, <1>4

(* The round's playing handicap is one it may have. *)
HandicapIsPlayable == handicap \in Handicaps

(* The strokes a hole is given are those it would get if they were handed out one by
   one, or taken back, for every handicap, on nine holes and on eighteen. *)
THEOREM StrokesDealt == ScoringSpec => []StrokesAreDealt
<1>1. ScoringInit => HandicapIsPlayable
  BY DEF ScoringInit, HandicapIsPlayable
<1>2. HandicapIsPlayable /\ [ScoringNext]_scoringVars => HandicapIsPlayable'
  <2>1. [ScoringNext]_scoringVars => handicap' = handicap
    BY ZenonT(20) DEF ScoringNext, scoringVars, ReplaceHoles, ReadTee, WriteScore, EntryFails
  <2>2. QED
    BY <2>1 DEF HandicapIsPlayable
<1>3. HandicapIsPlayable => StrokesAreDealt
  <2>1. HoleCount \in {9, 18} /\ (HandicapIsPlayable => handicap \in Int)
    BY ScoringAssumption DEF HandicapIsPlayable
  <2>2. ASSUME handicap \in Int, NEW i \in 1 .. HoleCount
        PROVE  computeStrokesReceived(handicap, i, HoleCount) = DealtTo(i)
    BY <2>1, <2>2, Dealt
  <2>3. QED
    BY <2>1, <2>2 DEF StrokesAreDealt
<1>4. QED
  BY <1>1, <1>2, <1>3, PTL DEF ScoringSpec

-----------------------------------------------------------------------------
(* Fewer strokes on a hole *)

LEMMA DivMonotone ==
  ASSUME NEW a \in Int, NEW b \in Int, NEW d \in Nat \ {0}, a <= b
  PROVE  a \div d <= b \div d /\ a \div d \in Int /\ b \div d \in Int
<1>1. DEFINE p == a \div d
             q == b \div d
<1>2. p \in Int /\ q \in Int /\ d * p <= a /\ b < d * (q + 1)
  BY SMT
<1> HIDE DEF p, q
<1>3. d * p < d * (q + 1)
  BY <1>2, SMT
<1>4. p < q + 1
  BY <1>2, <1>3, SMT
<1>5. QED
  BY <1>2, <1>4, SMT DEF p, q

(* toFixed keeps the order. *)
LEMMA ToFixedMonotone ==
  ASSUME NEW a \in Int, NEW b \in Int, NEW d \in Nat \ {0}, a <= b
  PROVE  ToFixed(a, d) <= ToFixed(b, d)
<1>1. 2 * d \in Nat \ {0}
  OBVIOUS
<1>2. CASE a >= 0
  BY <1>1, <1>2, DivMonotone DEF ToFixed
<1>3. CASE b < 0
  <2>1. (d - 2 * b) \div (2 * d) <= (d - 2 * a) \div (2 * d)
        /\ (d - 2 * b) \div (2 * d) \in Int /\ (d - 2 * a) \div (2 * d) \in Int
    BY <1>1, DivMonotone
  <2>2. ~(a >= 0) /\ ~(b >= 0)
    BY <1>3
  <2>3. QED
    BY <2>1, <2>2 DEF ToFixed
<1>4. CASE a < 0 /\ b >= 0
  <2>1. 0 \div (2 * d) <= (2 * b + d) \div (2 * d) /\ (2 * b + d) \div (2 * d) \in Int
    BY <1>1, <1>4, DivMonotone
  <2>2. 0 \div (2 * d) <= (d - 2 * a) \div (2 * d) /\ (d - 2 * a) \div (2 * d) \in Int
    BY <1>1, <1>4, DivMonotone
  <2>3. 0 \div (2 * d) = 0
    BY <1>1
  <2>4. QED
    BY <1>4, <2>1, <2>2, <2>3 DEF ToFixed
<1>5. QED
  BY <1>2, <1>3, <1>4

(* And so does the differential of a score. *)
LEMMA DifferentialMonotone ==
  ASSUME NEW a \in Int, NEW b \in Int, a <= b,
         NEW rating, rating.course \in Int, rating.slope \in Nat \ {0}, NEW pcc \in Int
  PROVE  computeScoreDifferential(a, rating, pcc) <= computeScoreDifferential(b, rating, pcc)
<1>1. /\ 11300 * (10 * (a - pcc) - rating.course) \in Int
      /\ 11300 * (10 * (b - pcc) - rating.course) \in Int
      /\ 11300 * (10 * (a - pcc) - rating.course) <= 11300 * (10 * (b - pcc) - rating.course)
  OBVIOUS
<1>2. ToFixed(11300 * (10 * (a - pcc) - rating.course), rating.slope)
        <= ToFixed(11300 * (10 * (b - pcc) - rating.course), rating.slope)
  BY <1>1, ToFixedMonotone
<1>3. QED
  BY <1>2 DEF computeScoreDifferential

LEMMA MinMaxOfTwo ==
  ASSUME NEW a \in Int, NEW b \in Int
  PROVE  /\ Max({a, b}) = IF a >= b THEN a ELSE b
         /\ Min({a, b}) = IF a <= b THEN a ELSE b
<1>1. DEFINE top == IF a >= b THEN a ELSE b
             least == IF a <= b THEN a ELSE b
<1>2. \A x \in {a, b} : (\A y \in {a, b} : x >= y) <=> x = top
  OBVIOUS
<1>3. \A x \in {a, b} : (\A y \in {a, b} : x <= y) <=> x = least
  OBVIOUS
<1>4. top \in {a, b} /\ least \in {a, b}
  OBVIOUS
<1> HIDE DEF top, least
<1>5. Max({a, b}) = top
  BY <1>2, <1>4 DEF Max
<1>6. Min({a, b}) = least
  BY <1>3, <1>4 DEF Min
<1>7. QED
  BY <1>5, <1>6 DEF top, least

LEMMA ReceivedIsInt ==
  ASSUME NEW h \in Int, NEW i \in Int, NEW n \in {9, 18}
  PROVE  computeStrokesReceived(h, i, n) \in Int
<1>1. RoundHalfUp(h) \in Int
  BY SMT DEF RoundHalfUp
<1>2. CASE n = 9
  BY <1>1, <1>2, SMT DEF computeStrokesReceived
<1>3. CASE n = 18
  BY <1>1, <1>3, SMT DEF computeStrokesReceived
<1>4. QED
  BY <1>2, <1>3

(* A stroke fewer on one hole never makes the round's differential worse, whatever the
   other holes sum up to, the handicap, the hole, the ratings and the PCC: the cap on the
   hole and the rounding of the differential keep the order. *)
LEMMA FewerStrokesNeverHurt ==
  ASSUME NEW others \in Int, NEW s \in Int, NEW h \in Int, NEW n \in {9, 18},
         NEW hole, hole.par \in Int, hole.strokeIndex \in Int,
         NEW rating, rating.course \in Int, rating.slope \in Nat \ {0}, NEW pcc \in Int
  PROVE  computeScoreDifferential(
           others + computeNetDoubleBogeyAdjustedScore(s, h, hole, n), rating, pcc)
         <= computeScoreDifferential(
           others + computeNetDoubleBogeyAdjustedScore(s + 1, h, hole, n), rating, pcc)
<1>1. DEFINE received == computeStrokesReceived(h, hole.strokeIndex, n)
             cap == Max({1, hole.par + 2 + received})
             with(k) == computeNetDoubleBogeyAdjustedScore(k, h, hole, n)
<1>2. received \in Int
  BY ReceivedIsInt
<1>3. cap \in Int
  BY <1>2, MinMaxOfTwo
<1> HIDE DEF received
<1>4. \A k \in Int : with(k) = IF k <= cap THEN k ELSE cap
  <2>1. ASSUME NEW k \in Int PROVE with(k) = Min({k, cap})
    BY DEF computeNetDoubleBogeyAdjustedScore, received
  <2> HIDE DEF cap, with
  <2>2. QED
    BY <1>3, <2>1, MinMaxOfTwo
<1> HIDE DEF cap, with
<1>5. with(s) \in Int /\ with(s + 1) \in Int /\ with(s) <= with(s + 1)
  BY <1>3, <1>4
<1>6. others + with(s) \in Int /\ others + with(s + 1) \in Int
      /\ others + with(s) <= others + with(s + 1)
  BY <1>5
<1>7. computeScoreDifferential(others + with(s), rating, pcc)
        <= computeScoreDifferential(others + with(s + 1), rating, pcc)
  BY <1>6, DifferentialMonotone
<1>8. QED
  BY <1>7 DEF with

-----------------------------------------------------------------------------
(* Induction over the natural numbers, for a set in the place of a property. *)
Below == {p \in Nat \X Nat : p[1] < p[2]}

LEMMA BelowIsWellFounded == IsWellFoundedOn(Below, Nat)
BY NatLessThanWellFounded DEF OpToRel, Below

LEMMA AllNumbers ==
  ASSUME NEW S, 0 \in S, \A n \in Nat : n \in S => n + 1 \in S
  PROVE  Nat \subseteq S
<1>1. SUFFICES ASSUME Nat \ S # {} PROVE FALSE
  OBVIOUS
<1>2. PICK n \in Nat \ S : \A m \in Nat \ S : ~(<<m, n>> \in Below)
  BY <1>1, BelowIsWellFounded, WFMin
<1>3. n # 0 /\ n - 1 \in Nat /\ <<n - 1, n>> \in Below /\ (n - 1) + 1 = n
  BY <1>2 DEF Below
<1>4. QED
  BY <1>2, <1>3

(* A recursion over a set D whose elements have a rank: an element of rank zero has
   the value base, another one what step makes of the value of the one before it. *)
Recurs(it, D, rank, before, base, step) ==
  \A s \in D : it[s] = IF rank[s] = 0 THEN base ELSE step[s][it[before[s]]]

LEMMA RecursionExists ==
  ASSUME NEW D, NEW V, NEW rank \in [D -> Nat], NEW before \in [D -> D],
         \A s \in D : rank[s] # 0 => rank[before[s]] = rank[s] - 1,
         NEW base \in V, NEW step \in [D -> [V -> V]],
         NEW top \in Nat, \A s \in D : rank[s] <= top
  PROVE  \E it \in [D -> V] : Recurs(it, D, rank, before, base, step)
<1> DEFINE Value(it, s) == IF rank[s] = 0 THEN base ELSE step[s][it[before[s]]]
           Upto(it, n) == \A s \in D : rank[s] <= n => it[s] = Value(it, s)
           N == {n \in Nat : \E it \in [D -> V] : Upto(it, n)}
<1>1. 0 \in N
  <2> DEFINE flat == [s \in D |-> base]
  <2>1. flat \in [D -> V] /\ Upto(flat, 0)
    OBVIOUS
  <2> HIDE DEF flat, Upto
  <2>2. QED
    BY <2>1
<1>2. ASSUME NEW n \in Nat, n \in N PROVE n + 1 \in N
  <2>1. PICK it \in [D -> V] : Upto(it, n)
    BY <1>2
  <2> DEFINE more == [s \in D |-> IF rank[s] = n + 1 THEN step[s][it[before[s]]] ELSE it[s]]
  <2>2. more \in [D -> V]
    OBVIOUS
  <2>3. ASSUME NEW s \in D, rank[s] <= n + 1 PROVE more[s] = Value(more, s)
    <3>1. CASE rank[s] = n + 1
      <4>1. before[s] \in D /\ rank[before[s]] = n
        BY <3>1
      <4>2. more[before[s]] = it[before[s]]
        BY <4>1
      <4>3. more[s] = step[s][it[before[s]]] /\ rank[s] # 0
        BY <3>1
      <4> HIDE DEF more
      <4>4. QED
        BY <4>2, <4>3
    <3>2. CASE rank[s] # n + 1
      <4>1. more[s] = it[s] /\ rank[s] <= n
        BY <2>3, <3>2
      <4>2. rank[s] # 0 => more[before[s]] = it[before[s]]
        <5>1. rank[s] # 0 => before[s] \in D /\ rank[before[s]] # n + 1
          BY <4>1
        <5>2. QED
          BY <5>1
      <4>3. QED
        BY <2>1, <4>1, <4>2
    <3>3. QED
      BY <3>1, <3>2
  <2> HIDE DEF more, Value
  <2>4. QED
    BY <2>2, <2>3
<1>3. Nat \subseteq N
  <2> HIDE DEF N
  <2>1. QED
    BY <1>1, <1>2, AllNumbers
<1>4. PICK it \in [D -> V] : Upto(it, top)
  BY <1>3
<1>5. QED
  BY <1>4 DEF Recurs

-----------------------------------------------------------------------------
(* The sum of a function over a finite set: what MapThenSumSet computes by taking out
   one chosen element after the other, and which element is taken first is all one. *)
Pick(s) == CHOOSE x \in s : TRUE

Sums(it, f, S) == it = [s \in SUBSET S |-> IF s = {} THEN 0 ELSE f[Pick(s)] + it[s \ {Pick(s)}]]

Total(f, S) == (CHOOSE it : Sums(it, f, S))[S]

LEMMA Taken ==
  ASSUME NEW s, IsFiniteSet(s), s # {}, NEW x \in s
  PROVE  /\ Pick(s) \in s
         /\ IsFiniteSet(s \ {x}) /\ Cardinality(s \ {x}) = Cardinality(s) - 1
         /\ Cardinality(s) \in Nat \ {0}
<1>1. Pick(s) \in s
  BY DEF Pick
<1>2. QED
  BY <1>1, FS_RemoveElement, FS_CardinalityType, FS_EmptySet

LEMMA SumsExist ==
  ASSUME NEW S, IsFiniteSet(S), NEW f, \A x \in S : f[x] \in Int
  PROVE  \E it \in [SUBSET S -> Int] : Sums(it, f, S)
<1> DEFINE D == SUBSET S
           rank == [s \in D |-> Cardinality(s)]
           before == [s \in D |-> IF s = {} THEN s ELSE s \ {Pick(s)}]
           step == [s \in D |-> [v \in Int |-> IF s = {} THEN v ELSE f[Pick(s)] + v]]
           top == Cardinality(S)
<1>1. \A s \in D : IsFiniteSet(s) /\ Cardinality(s) \in Nat /\ Cardinality(s) <= top
  BY FS_Subset, FS_CardinalityType
<1>2. \A s \in D : s # {} => Pick(s) \in s
  BY DEF Pick
<1>3. rank \in [D -> Nat] /\ before \in [D -> D] /\ step \in [D -> [Int -> Int]]
  <2>1. rank \in [D -> Nat] /\ before \in [D -> D]
    BY <1>1
  <2>2. \A s \in D : [v \in Int |-> IF s = {} THEN v ELSE f[Pick(s)] + v] \in [Int -> Int]
    <3>1. \A s \in D : s # {} => f[Pick(s)] \in Int
      BY <1>2
    <3>2. QED
      BY <3>1
  <2>3. QED
    BY <2>1, <2>2
<1>4. \A s \in D : rank[s] = 0 <=> s = {}
  BY <1>1, FS_EmptySet
<1>5. ASSUME NEW s \in D, rank[s] # 0 PROVE rank[before[s]] = rank[s] - 1
  <2>1. s # {} /\ Pick(s) \in s /\ IsFiniteSet(s)
    BY <1>1, <1>2, <1>4, <1>5
  <2>2. Cardinality(s \ {Pick(s)}) = Cardinality(s) - 1
    BY <2>1, Taken
  <2>3. before[s] = s \ {Pick(s)} /\ before[s] \in D
    BY <2>1
  <2>4. QED
    BY <2>2, <2>3
<1>6. top \in Nat
  BY FS_CardinalityType
<1>7. \A s \in D : rank[s] <= top
  BY <1>1
<1> HIDE DEF D, rank, before, step, top
<1>8. PICK it \in [D -> Int] : \A s \in D :
        it[s] = IF rank[s] = 0 THEN 0 ELSE step[s][it[before[s]]]
  <2>1. \A s \in D : rank[s] # 0 => rank[before[s]] = rank[s] - 1
    BY <1>5
  <2>2. 0 \in Int
    OBVIOUS
  <2>3. \E it \in [D -> Int] : Recurs(it, D, rank, before, 0, step)
    BY <1>3, <1>6, <1>7, <2>1, <2>2, RecursionExists
  <2>4. QED
    BY <2>3 DEF Recurs
<1>9. ASSUME NEW s \in D
       PROVE  it[s] = IF s = {} THEN 0 ELSE f[Pick(s)] + it[s \ {Pick(s)}]
  <2>1. CASE s = {}
    BY <1>4, <1>8, <2>1
  <2>2. CASE s # {}
    <3>1. before[s] = s \ {Pick(s)} /\ before[s] \in D
      BY <1>2, <2>2 DEF before, D
    <3>2. it[before[s]] \in Int
      BY <1>8, <3>1
    <3>3. step[s][it[before[s]]] = f[Pick(s)] + it[before[s]]
      BY <2>2, <3>2 DEF step
    <3>4. QED
      BY <1>4, <1>8, <2>2, <3>1, <3>3
  <2>3. QED
    BY <2>1, <2>2
<1>10. Sums(it, f, S)
  <2>1. it = [s \in D |-> it[s]]
    BY <1>8
  <2>2. QED
    BY <1>9, <2>1 DEF Sums, D
<1>11. QED
  BY <1>10 DEF D

LEMMA SumsAgree ==
  ASSUME NEW S, IsFiniteSet(S), NEW f, NEW it, Sums(it, f, S),
         NEW T \in SUBSET S, NEW other, Sums(other, f, T)
  PROVE  it[T] = other[T]
<1> DEFINE N == {n \in Nat : \A s \in SUBSET T : Cardinality(s) = n => it[s] = other[s]}
<1>1. \A s \in SUBSET T : /\ IsFiniteSet(s) /\ Cardinality(s) \in Nat /\ s \in SUBSET S
                          /\ Cardinality(s) = 0 <=> s = {}
  BY FS_Subset, FS_CardinalityType, FS_EmptySet
<1>2. \A s \in SUBSET T :
        /\ it[s] = IF s = {} THEN 0 ELSE f[Pick(s)] + it[s \ {Pick(s)}]
        /\ other[s] = IF s = {} THEN 0 ELSE f[Pick(s)] + other[s \ {Pick(s)}]
  BY DEF Sums
<1>3. 0 \in N
  BY <1>1, <1>2
<1>4. ASSUME NEW n \in Nat, n \in N PROVE n + 1 \in N
  <2>1. ASSUME NEW s \in SUBSET T, Cardinality(s) = n + 1 PROVE it[s] = other[s]
    <3>1. IsFiniteSet(s) /\ s # {}
      BY <1>1, <2>1
    <3>2. Pick(s) \in s
      BY <3>1 DEF Pick
    <3>3. Cardinality(s \ {Pick(s)}) = n /\ s \ {Pick(s)} \in SUBSET T
      BY <2>1, <3>1, <3>2, Taken
    <3>4. it[s \ {Pick(s)}] = other[s \ {Pick(s)}]
      BY <1>4, <3>3
    <3>5. QED
      BY <1>2, <3>1, <3>4
  <2>2. QED
    BY <2>1
<1>5. Nat \subseteq N
  <2> HIDE DEF N
  <2>1. QED
    BY <1>3, <1>4, AllNumbers
<1>6. QED
  BY <1>1, <1>5

LEMMA TotalOfPart ==
  ASSUME NEW S, IsFiniteSet(S), NEW f, \A x \in S : f[x] \in Int,
         NEW it, Sums(it, f, S), NEW T \in SUBSET S
  PROVE  it[T] = Total(f, T)
<1>1. IsFiniteSet(T) /\ \A x \in T : f[x] \in Int
  BY FS_Subset
<1>2. \E other : Sums(other, f, T)
  BY <1>1, SumsExist
<1>3. Sums(CHOOSE other : Sums(other, f, T), f, T)
  BY <1>2
<1>4. QED
  BY <1>3, SumsAgree DEF Total

LEMMA TotalPicked ==
  ASSUME NEW S, IsFiniteSet(S), NEW f, \A x \in S : f[x] \in Int
  PROVE  /\ Total(f, S) = IF S = {} THEN 0 ELSE f[Pick(S)] + Total(f, S \ {Pick(S)})
         /\ Total(f, S) \in Int
<1>1. PICK it \in [SUBSET S -> Int] : Sums(it, f, S)
  BY SumsExist
<1>2. \A T \in SUBSET S : it[T] = Total(f, T)
  BY <1>1, TotalOfPart
<1>3. it[S] = IF S = {} THEN 0 ELSE f[Pick(S)] + it[S \ {Pick(S)}]
  BY <1>1 DEF Sums
<1>4. S \in SUBSET S /\ S \ {Pick(S)} \in SUBSET S
  OBVIOUS
<1>5. QED
  BY <1>1, <1>2, <1>3, <1>4

(* Any element may be taken out first. *)
LEMMA TotalTaken ==
  ASSUME NEW S, IsFiniteSet(S), NEW f, \A x \in S : f[x] \in Int
  PROVE  \A x \in S : Total(f, S) = f[x] + Total(f, S \ {x})
<1> DEFINE N == {n \in Nat : \A s \in SUBSET S : Cardinality(s) = n =>
                   \A x \in s : Total(f, s) = f[x] + Total(f, s \ {x})}
<1>1. \A s \in SUBSET S : /\ IsFiniteSet(s) /\ Cardinality(s) \in Nat
                          /\ Cardinality(s) = 0 <=> s = {}
                          /\ \A x \in s : f[x] \in Int
  BY FS_Subset, FS_CardinalityType, FS_EmptySet
<1>2. \A s \in SUBSET S :
        /\ Total(f, s) = IF s = {} THEN 0 ELSE f[Pick(s)] + Total(f, s \ {Pick(s)})
        /\ Total(f, s) \in Int
  BY <1>1, TotalPicked
<1>3. 0 \in N
  BY <1>1
<1>4. ASSUME NEW n \in Nat, n \in N PROVE n + 1 \in N
  <2>1. ASSUME NEW s \in SUBSET S, Cardinality(s) = n + 1, NEW x \in s
        PROVE  Total(f, s) = f[x] + Total(f, s \ {x})
    <3> DEFINE p == Pick(s)
    <3>1. IsFiniteSet(s) /\ s # {}
      BY <1>1
    <3>2. p \in s
      BY DEF Pick
    <3>3. /\ Cardinality(s \ {p}) = n /\ s \ {p} \in SUBSET S
          /\ Cardinality(s \ {x}) = n /\ s \ {x} \in SUBSET S
      BY <2>1, <3>1, <3>2, Taken
    <3>4. Total(f, s) = f[p] + Total(f, s \ {p})
      BY <1>2, <3>1
    <3> HIDE DEF p
    <3>5. CASE p = x
      BY <3>4, <3>5
    <3>6. CASE p # x
      <4>1. x \in s \ {p} /\ p \in s \ {x}
        BY <3>2, <3>6
      <4>2. Total(f, s \ {p}) = f[x] + Total(f, (s \ {p}) \ {x})
        BY <1>4, <3>3, <4>1
      <4>3. Total(f, s \ {x}) = f[p] + Total(f, (s \ {x}) \ {p})
        BY <1>4, <3>3, <4>1
      <4>4. (s \ {p}) \ {x} = (s \ {x}) \ {p} /\ (s \ {p}) \ {x} \in SUBSET S
        OBVIOUS
      <4>5. f[x] \in Int /\ f[p] \in Int /\ Total(f, (s \ {p}) \ {x}) \in Int
        BY <1>2, <3>2, <4>4
      <4>6. Total(f, s \ {x}) = f[p] + Total(f, (s \ {p}) \ {x})
        BY <4>3, <4>4
      <4>7. QED
        BY <3>4, <4>2, <4>5, <4>6
    <3>7. QED
      BY <3>5, <3>6
  <2>2. QED
    BY <2>1
<1>5. Nat \subseteq N
  <2> HIDE DEF N
  <2>1. QED
    BY <1>3, <1>4, AllNumbers
<1>6. QED
  BY <1>1, <1>5

-----------------------------------------------------------------------------
(* A better hole *)

ScoresAreNumbers ==
  /\ handicap \in Handicaps /\ tee \in Tees
  /\ DOMAIN card = Holes /\ DOMAIN entry = Entries
  /\ \A n \in Holes : card[n] # NoScore => card[n].adjusted \in Int
  /\ \A e \in Entries : entry[e] # NoScore => entry[e].adjusted \in Int

LEMMA AdjustmentIsInt ==
  ASSUME handicap \in Handicaps, tee \in Tees, NEW n \in DOMAIN tee, NEW s \in Int
  PROVE  computeHoleAdjustment(n, s) \in Int
<1>1. HoleCount \in {9, 18} /\ handicap \in Int /\ tee[n].par \in Int /\ tee[n].strokeIndex \in Int
  BY ScoringAssumption
<1>2. DEFINE received == computeStrokesReceived(handicap, tee[n].strokeIndex, HoleCount)
             cap == Max({1, tee[n].par + 2 + received})
<1>3. received \in Int
  BY <1>1, ReceivedIsInt
<1> HIDE DEF received
<1>4. cap \in Int
  BY <1>1, <1>3, MinMaxOfTwo
<1>5. computeHoleAdjustment(n, s) = Min({s, cap})
  BY DEF computeHoleAdjustment, computeNetDoubleBogeyAdjustedScore, received
<1> HIDE DEF cap
<1>6. QED
  BY <1>4, <1>5, MinMaxOfTwo

LEMMA ScoresStayNumbers == ScoresAreNumbers /\ [ScoringNext]_scoringVars => ScoresAreNumbers'
<1> SUFFICES ASSUME ScoresAreNumbers, [ScoringNext]_scoringVars PROVE ScoresAreNumbers'
  OBVIOUS
<1>1. ASSUME UNCHANGED scoringVars PROVE ScoresAreNumbers'
  BY <1>1, SMT DEF ScoresAreNumbers, scoringVars
<1>2. ASSUME ReplaceHoles PROVE ScoresAreNumbers'
  BY <1>2, SMT DEF ScoresAreNumbers, ReplaceHoles
<1>3. ASSUME NEW e \in Entries, ReadTee(e) PROVE ScoresAreNumbers'
  <2>1. PICK n \in Holes, s \in Strokes :
          /\ HasHole(n)
          /\ entry' = [entry EXCEPT ![e] =
               [hole |-> n, strokes |-> s, adjusted |-> computeHoleAdjustment(n, s)]]
    BY <1>3 DEF ReadTee
  <2>2. s \in Int
    BY ScoringAssumption
  <2>3. computeHoleAdjustment(n, s) \in Int
    BY <2>1, <2>2, AdjustmentIsInt DEF ScoresAreNumbers, HasHole
  <2>4. \A f \in Entries : entry'[f] = IF f = e THEN
           [hole |-> n, strokes |-> s, adjusted |-> computeHoleAdjustment(n, s)] ELSE entry[f]
    BY <2>1 DEF ScoresAreNumbers
  <2>5. handicap' = handicap /\ tee' = tee /\ card' = card /\ DOMAIN entry' = DOMAIN entry
    BY <1>3, <2>1 DEF ReadTee
  <2>6. QED
    BY <2>3, <2>4, <2>5 DEF ScoresAreNumbers
<1>4. ASSUME NEW e \in Entries, WriteScore(e) PROVE ScoresAreNumbers'
  BY <1>4, SMT DEF ScoresAreNumbers, WriteScore
<1>5. ASSUME NEW e \in Entries, EntryFails(e) PROVE ScoresAreNumbers'
  BY <1>5, SMT DEF ScoresAreNumbers, EntryFails
<1>6. QED
  BY <1>1, <1>2, <1>3, <1>4, <1>5 DEF ScoringNext

(* The adjusted gross score is the sum over the scored holes. *)
LEMMA GrossIsTotal ==
  ASSUME IsFiniteSet(Scored), \A n \in Scored : card[n].adjusted \in Int
  PROVE  AdjustedGross = Total([n \in Scored |-> card[n].adjusted], Scored)
<1> DEFINE f == [n \in Scored |-> card[n].adjusted]
           P(it) == it = [s \in SUBSET Scored |->
             IF s = {} THEN 0
             ELSE card[CHOOSE x \in s : TRUE].adjusted + it[s \ {CHOOSE x \in s : TRUE}]]
<1>1. AdjustedGross = (CHOOSE it : P(it))[Scored]
  BY DEF AdjustedGross, MapThenSumSet, MapThenFoldSet
<1>2. ASSUME NEW it PROVE P(it) <=> Sums(it, f, Scored)
  <2>1. ASSUME NEW s \in SUBSET Scored
        PROVE (IF s = {} THEN 0
             ELSE card[CHOOSE x \in s : TRUE].adjusted + it[s \ {CHOOSE x \in s : TRUE}])
              = IF s = {} THEN 0 ELSE f[Pick(s)] + it[s \ {Pick(s)}]
    <3>1. s # {} => Pick(s) \in Scored
      BY DEF Pick
    <3>2. s # {} => f[Pick(s)] = card[Pick(s)].adjusted
      BY <3>1
    <3> HIDE DEF f
    <3>3. QED
      BY <3>2 DEF Pick
  <2> HIDE DEF f
  <2>2. QED
    BY <2>1 DEF Sums
<1>3. \A n \in Scored : f[n] \in Int
  OBVIOUS
<1> HIDE DEF P, f
<1>4. \E it : P(it)
  BY <1>2, <1>3, SumsExist
<1>5. P(CHOOSE it : P(it))
  BY <1>4
<1>6. Sums(CHOOSE it : P(it), f, Scored)
  BY <1>2, <1>5
<1>7. Scored \in SUBSET Scored
  OBVIOUS
<1>8. (CHOOSE it : P(it))[Scored] = Total(f, Scored)
  BY <1>3, <1>6, <1>7, TotalOfPart
<1>9. QED
  BY <1>1, <1>8 DEF f

(* One stroke fewer on a hole never makes the round's differential worse, whatever has
   been entered for the other holes, and however the tee was edited meanwhile. *)
THEOREM BetterHole == ScoringSpec => []BetterHoleNeverHurts
<1>1. ScoringInit => ScoresAreNumbers
  BY DEF ScoringInit, ScoresAreNumbers
<1>2. ScoresAreNumbers => BetterHoleNeverHurts
  <2> SUFFICES ASSUME ScoresAreNumbers,
                      NEW n \in Scored, NEW r \in Ratings, NEW pcc \in {-1, 0, 3},
                      HasHole(n), NEW s \in Strokes
               PROVE  computeScoreDifferential(
                        AdjustedGross - card[n].adjusted + computeHoleAdjustment(n, s), r, pcc)
                      <= computeScoreDifferential(
                        AdjustedGross - card[n].adjusted + computeHoleAdjustment(n, s + 1), r, pcc)
    BY DEF BetterHoleNeverHurts
  <2>1. Scored \subseteq 1 .. 18
    BY ScoringAssumption DEF Scored, Holes
  <2>2. IsFiniteSet(Scored)
    <3>1. Scored \in SUBSET Nat /\ 18 \in Nat /\ \A m \in Scored : m <= 18
      BY <2>1
    <3>2. QED
      BY <3>1, FS_BoundedSetOfNaturals
  <2>3. \A m \in Scored : card[m].adjusted \in Int
    BY DEF Scored, ScoresAreNumbers
  <2>4. AdjustedGross \in Int
    <3> DEFINE f == [m \in Scored |-> card[m].adjusted]
    <3>1. \A m \in Scored : f[m] \in Int
      BY <2>3
    <3>2. AdjustedGross = Total(f, Scored)
      BY <2>2, <2>3, GrossIsTotal
    <3> HIDE DEF f
    <3>3. QED
      BY <2>2, <3>1, <3>2, TotalPicked
  <2>5. /\ HoleCount \in {9, 18} /\ handicap \in Int /\ s \in Int
        /\ tee[n].par \in Int /\ tee[n].strokeIndex \in Int
        /\ r.course \in Int /\ r.slope \in Nat \ {0} /\ pcc \in Int
    BY ScoringAssumption DEF ScoresAreNumbers, HasHole
  <2> DEFINE others == AdjustedGross - card[n].adjusted
  <2>6. others \in Int
    BY <2>3, <2>4
  <2> HIDE DEF others
  <2>7. computeScoreDifferential(others + computeHoleAdjustment(n, s), r, pcc)
         <= computeScoreDifferential(others + computeHoleAdjustment(n, s + 1), r, pcc)
    BY <2>5, <2>6, FewerStrokesNeverHurt DEF computeHoleAdjustment
  <2>8. QED
    BY <2>7 DEF others
<1>3. QED
  BY <1>1, <1>2, ScoresStayNumbers, PTL DEF ScoringSpec

-----------------------------------------------------------------------------
(* The walk over the rounds, oldest first *)

Start == [resolved |-> {}, pending |-> NULL]

Step(before, rec, r) ==
  CASE rec[r] = NULL -> before
    [] rec[r] # NULL /\ r \notin NineHole ->
         [before EXCEPT !.resolved = @ \cup {Score(rec[r], {r}, r)}]
    [] rec[r] # NULL /\ r \in NineHole /\ before.pending = NULL ->
         [before EXCEPT !.pending = r]
    [] OTHER -> PairUp(before, rec, r)

Walked(w, rec, n) ==
  /\ w[0] = Start
  /\ \A r \in 1 .. n : w[r] = Step(w[r - 1], rec, r)

Scores == [value : Int, rounds : SUBSET Nat, playedAt : Nat]

(* What the walk may have found: nine holes that wait have been approved. *)
Found(rec, n) ==
  {f \in [resolved : SUBSET Scores, pending : (1 .. n) \cup {NULL}] :
     /\ IsFiniteSet(f.resolved)
     /\ f.pending # NULL => f.pending \in NineHole /\ rec[f.pending] \in Int}

Records(n) == [1 .. n -> Int \cup {NULL}]

LEMMA NullIsNoNumber == NULL \notin Int
BY ConstantsType

(* The four cases of a step. *)
Cases(f, rec, r) ==
  /\ rec[r] = NULL => Step(f, rec, r) = f
  /\ rec[r] # NULL /\ r \notin NineHole =>
       Step(f, rec, r) = [resolved |-> f.resolved \cup {Score(rec[r], {r}, r)},
                          pending |-> f.pending]
  /\ rec[r] # NULL /\ r \in NineHole /\ f.pending = NULL =>
       Step(f, rec, r) = [resolved |-> f.resolved, pending |-> r]
  /\ rec[r] # NULL /\ r \in NineHole /\ f.pending # NULL =>
       Step(f, rec, r) =
         [resolved |-> f.resolved \cup {Score(rec[f.pending] + rec[r], {f.pending, r}, r)},
          pending |-> NULL]

LEMMA FieldsSet ==
  ASSUME NEW a, NEW b, NEW R, NEW p
  PROVE  LET f == [resolved |-> a, pending |-> b]
         IN  /\ [f EXCEPT !.resolved = R] = [resolved |-> R, pending |-> b]
             /\ [f EXCEPT !.pending = p] = [resolved |-> a, pending |-> p]
OBVIOUS

LEMMA StepCases ==
  ASSUME NEW n, NEW rec, NEW f \in Found(rec, n), NEW r
  PROVE  Cases(f, rec, r)
<1>1. f = [resolved |-> f.resolved, pending |-> f.pending]
  BY DEF Found
<1>2. rec[r] # NULL /\ r \notin NineHole =>
        Step(f, rec, r) = [f EXCEPT !.resolved = @ \cup {Score(rec[r], {r}, r)}]
  BY DEF Step
<1>3. rec[r] # NULL /\ r \in NineHole /\ f.pending = NULL =>
        Step(f, rec, r) = [f EXCEPT !.pending = r]
  BY DEF Step
<1>4. rec[r] # NULL /\ r \in NineHole /\ f.pending # NULL =>
        Step(f, rec, r) = PairUp(f, rec, r)
  BY DEF Step
<1>5. rec[r] = NULL => Step(f, rec, r) = f
  BY DEF Step
<1>6. [f EXCEPT !.resolved = @ \cup {Score(rec[r], {r}, r)}]
        = [resolved |-> f.resolved \cup {Score(rec[r], {r}, r)}, pending |-> f.pending]
      /\ [f EXCEPT !.pending = r] = [resolved |-> f.resolved, pending |-> r]
  <2> DEFINE R == f.resolved \cup {Score(rec[r], {r}, r)}
  <2>1. [f EXCEPT !.resolved = @ \cup {Score(rec[r], {r}, r)}] = [f EXCEPT !.resolved = R]
    OBVIOUS
  <2> HIDE DEF R
  <2>2. /\ [f EXCEPT !.resolved = R] = [resolved |-> R, pending |-> f.pending]
        /\ [f EXCEPT !.pending = r] = [resolved |-> f.resolved, pending |-> r]
    BY <1>1, FieldsSet
  <2>3. QED
    BY <2>1, <2>2 DEF R
<1>7. QED
  BY <1>2, <1>3, <1>4, <1>5, <1>6, Zenon DEF PairUp, Cases

LEMMA IsFound ==
  ASSUME NEW n, NEW rec, NEW R, NEW p,
         R \subseteq Scores, IsFiniteSet(R), p \in (1 .. n) \cup {NULL},
         p # NULL => p \in NineHole /\ rec[p] \in Int
  PROVE  [resolved |-> R, pending |-> p] \in Found(rec, n)
<1> DEFINE f == [resolved |-> R, pending |-> p]
<1>1. f \in [resolved : SUBSET Scores, pending : (1 .. n) \cup {NULL}]
  OBVIOUS
<1>2. f.resolved = R /\ f.pending = p
  OBVIOUS
<1> HIDE DEF f
<1>3. QED
  BY <1>1, <1>2 DEF Found, f

LEMMA StepFinds ==
  ASSUME NEW n \in Nat, NEW rec \in Records(n), NEW f \in Found(rec, n), NEW r \in 1 .. n
  PROVE  Step(f, rec, r) \in Found(rec, n)
<1>1. /\ IsFiniteSet(f.resolved) /\ f.resolved \subseteq Scores
      /\ f.pending \in (1 .. n) \cup {NULL}
      /\ f.pending # NULL => f.pending \in NineHole /\ rec[f.pending] \in Int
  BY DEF Found
<1>2. \A x : IsFiniteSet(f.resolved \cup {x})
  BY <1>1, FS_AddElement
<1>3. rec[r] # NULL => rec[r] \in Int
  BY DEF Records
<1> Cases(f, rec, r)
  BY StepCases
<1>4. CASE rec[r] = NULL
  BY <1>4 DEF Cases
<1>5. CASE rec[r] # NULL /\ r \notin NineHole
  <2>1. Score(rec[r], {r}, r) \in Scores
    BY <1>3, <1>5 DEF Score, Scores
  <2> DEFINE x == Score(rec[r], {r}, r)
  <2>2. Step(f, rec, r) = [resolved |-> f.resolved \cup {x}, pending |-> f.pending]
    BY <1>5 DEF Cases
  <2>3. x \in Scores
    BY <2>1
  <2> HIDE DEF x
  <2>4. QED
    <3>1. f.resolved \cup {x} \subseteq Scores
      BY <1>1, <2>3
    <3>2. QED
      BY <1>1, <1>2, <2>2, <3>1, IsFound
<1>6. CASE rec[r] # NULL /\ r \in NineHole /\ f.pending = NULL
  <2>1. Step(f, rec, r) = [resolved |-> f.resolved, pending |-> r]
    BY <1>6 DEF Cases
  <2>2. QED
    BY <1>1, <1>3, <1>6, <2>1, IsFound
<1>7. CASE rec[r] # NULL /\ r \in NineHole /\ f.pending # NULL
  <2>1. rec[f.pending] + rec[r] \in Int /\ {f.pending, r} \in SUBSET Nat /\ r \in Nat
    BY <1>1, <1>3, <1>7
  <2>2. Score(rec[f.pending] + rec[r], {f.pending, r}, r) \in Scores
    BY <2>1 DEF Score, Scores
  <2> DEFINE x == Score(rec[f.pending] + rec[r], {f.pending, r}, r)
  <2>3. Step(f, rec, r) = [resolved |-> f.resolved \cup {x}, pending |-> NULL]
    BY <1>7 DEF Cases
  <2>4. x \in Scores
    BY <2>2
  <2> HIDE DEF x
  <2>5. QED
    <3>1. f.resolved \cup {x} \subseteq Scores
      BY <1>1, <2>4
    <3>2. QED
      BY <1>1, <1>2, <2>3, <3>1, IsFound
<1>8. QED
  BY <1>4, <1>5, <1>6, <1>7

(* The loop's states exist, and Walk is the last of them. *)
LEMMA WalkExists ==
  ASSUME NEW n \in Nat, NEW rec \in Records(n)
  PROVE  \E w \in [0 .. n -> Found(rec, n)] : Walked(w, rec, n) /\ Walk(rec) = w[n]
<1> DEFINE D == 0 .. n
           rank == [s \in D |-> s]
           before == [s \in D |-> IF s = 0 THEN 0 ELSE s - 1]
           step == [s \in D |-> [f \in Found(rec, n) |->
                      IF s = 0 THEN f ELSE Step(f, rec, s)]]
           P(w) == w = [r \in 0 .. Cardinality(DOMAIN rec) |->
                     IF r = 0 THEN Start ELSE Step(w[r - 1], rec, r)]
<1>1. Walk(rec) = (CHOOSE w : P(w))[Cardinality(DOMAIN rec)]
  BY DEF Walk, Start, Step
<1>2. Cardinality(DOMAIN rec) = n
  BY FS_Interval DEF Records
<1>3. rank \in [D -> Nat] /\ before \in [D -> D] /\ \A s \in D : rank[s] <= n
  OBVIOUS
<1>4. \A s \in D : rank[s] # 0 => rank[before[s]] = rank[s] - 1
  OBVIOUS
<1>5. step \in [D -> [Found(rec, n) -> Found(rec, n)]]
  <2>1. ASSUME NEW s \in D, NEW f \in Found(rec, n)
        PROVE  (IF s = 0 THEN f ELSE Step(f, rec, s)) \in Found(rec, n)
    <3>1. s # 0 => s \in 1 .. n
      OBVIOUS
    <3>2. QED
      BY <3>1, StepFinds
  <2>2. QED
    BY <2>1
<1>6. Start \in Found(rec, n)
  BY FS_EmptySet DEF Start, Found
<1>7. PICK w \in [D -> Found(rec, n)] : Recurs(w, D, rank, before, Start, step)
  <2> HIDE DEF D, rank, before, step
  <2>1. QED
    BY <1>3, <1>4, <1>5, <1>6, RecursionExists
<1>8. \A s \in D : w[s] = IF s = 0 THEN Start ELSE Step(w[s - 1], rec, s)
  <2>1. ASSUME NEW s \in D
        PROVE  w[s] = IF s = 0 THEN Start ELSE Step(w[s - 1], rec, s)
    <3>1. w[s] = IF rank[s] = 0 THEN Start ELSE step[s][w[before[s]]]
      BY <1>7 DEF Recurs
    <3>2. CASE s = 0
      BY <3>1, <3>2
    <3>3. CASE s # 0
      <4>1. before[s] = s - 1 /\ s - 1 \in D /\ rank[s] = s
        BY <3>3
      <4>2. w[s - 1] \in Found(rec, n)
        BY <1>7, <4>1
      <4>3. step[s][w[s - 1]] = Step(w[s - 1], rec, s)
        BY <3>3, <4>2
      <4> HIDE DEF step, before, rank, D
      <4>4. QED
        BY <3>1, <3>3, <4>1, <4>3
    <3>4. QED
      BY <3>2, <3>3
  <2>2. QED
    BY <2>1
<1>9. P(w)
  <2>1. w = [s \in D |-> w[s]]
    BY <1>7
  <2>2. QED
    BY <1>2, <1>8, <2>1
<1>10. ASSUME NEW v, P(v) PROVE \A k \in D : v[k] = w[k]
  <2> DEFINE N == {k \in Nat : k \in D => v[k] = w[k]}
  <2>1. \A k \in D : v[k] = IF k = 0 THEN Start ELSE Step(v[k - 1], rec, k)
    BY <1>2, <1>10
  <2>2. 0 \in N
    BY <1>8, <2>1
  <2>3. ASSUME NEW k \in Nat, k \in N PROVE k + 1 \in N
    <3>1. k + 1 \in D => k \in D /\ (k + 1) - 1 = k /\ k + 1 # 0
      OBVIOUS
    <3>2. QED
      BY <1>8, <2>1, <2>3, <3>1
  <2>4. Nat \subseteq N
    <3> HIDE DEF N
    <3>1. QED
      BY <2>2, <2>3, AllNumbers
  <2>5. QED
    BY <2>4
<1>11. P(CHOOSE v : P(v))
  <2> HIDE DEF P
  <2>1. QED
    BY <1>9
<1>12. Walk(rec) = w[n]
  <2>1. n \in D
    OBVIOUS
  <2> HIDE DEF P, D
  <2>2. QED
    BY <1>1, <1>2, <1>10, <1>11, <2>1
<1>13. Walked(w, rec, n)
  BY <1>8 DEF Walked
<1>14. QED
  BY <1>7, <1>12, <1>13

-----------------------------------------------------------------------------
(* Aged scores *)

(* What two walks found is the same but for what round r completed by itself. *)
SameBut(f, g, r) ==
  /\ f.pending = g.pending /\ f.pending # r
  /\ \A x : x.playedAt # r => (x \in f.resolved <=> x \in g.resolved)

LEMMA StepsKeepSame ==
  ASSUME NEW n \in Nat, NEW rec \in Records(n), NEW changed \in Records(n), NEW r \in 1 .. n,
         r \notin NineHole, \A k \in 1 .. n : k # r => changed[k] = rec[k],
         NEW f \in Found(rec, n), NEW g \in Found(changed, n), SameBut(f, g, r), NEW k \in 1 .. n
  PROVE  SameBut(Step(f, rec, k), Step(g, changed, k), r)
<1>1. Cases(f, rec, k) /\ Cases(g, changed, k)
  BY StepCases
<1>2. r # NULL /\ k # NULL
  BY NullIsNoNumber
<1>3. \A x : x.playedAt # r => (x \in f.resolved <=> x \in g.resolved)
  BY DEF SameBut
<1>4. f.pending = g.pending /\ f.pending # r
  BY DEF SameBut
<1>5. CASE k = r
  <2>1. \A v : Score(v, {r}, r).playedAt = r
    BY DEF Score
  <2>2. /\ Step(f, rec, k).pending = f.pending
        /\ \A x : x.playedAt # r => (x \in Step(f, rec, k).resolved <=> x \in f.resolved)
    <3>1. CASE rec[k] = NULL
      BY <1>1, <3>1 DEF Cases
    <3>2. CASE rec[k] # NULL
      <4> DEFINE y == Score(rec[k], {r}, r)
      <4>1. Step(f, rec, k) = [resolved |-> f.resolved \cup {y}, pending |-> f.pending]
        BY <1>1, <1>5, <3>2 DEF Cases
      <4>2. y.playedAt = r
        BY <2>1
      <4> HIDE DEF y
      <4>3. QED
        BY <4>1, <4>2
    <3>3. QED
      BY <3>1, <3>2
  <2>3. /\ Step(g, changed, k).pending = g.pending
        /\ \A x : x.playedAt # r => (x \in Step(g, changed, k).resolved <=> x \in g.resolved)
    <3>1. CASE changed[k] = NULL
      BY <1>1, <3>1 DEF Cases
    <3>2. CASE changed[k] # NULL
      <4> DEFINE y == Score(changed[k], {r}, r)
      <4>1. Step(g, changed, k) = [resolved |-> g.resolved \cup {y}, pending |-> g.pending]
        BY <1>1, <1>5, <3>2 DEF Cases
      <4>2. y.playedAt = r
        BY <2>1
      <4> HIDE DEF y
      <4>3. QED
        BY <4>1, <4>2
    <3>3. QED
      BY <3>1, <3>2
  <2>4. QED
    BY <1>3, <1>4, <2>2, <2>3 DEF SameBut
<1>6. CASE k # r
  <2>1. changed[k] = rec[k]
    BY <1>6
  <2>2. CASE rec[k] = NULL
    BY <1>1, <2>1, <2>2 DEF Cases
  <2>3. CASE rec[k] # NULL /\ k \notin NineHole
    <3> DEFINE y == Score(rec[k], {k}, k)
    <3>1. /\ Step(f, rec, k) = [resolved |-> f.resolved \cup {y}, pending |-> f.pending]
          /\ Step(g, changed, k) = [resolved |-> g.resolved \cup {y}, pending |-> g.pending]
      BY <1>1, <2>1, <2>3 DEF Cases
    <3> HIDE DEF y
    <3>2. QED
      BY <1>3, <1>4, <3>1 DEF SameBut
  <2>4. CASE rec[k] # NULL /\ k \in NineHole /\ f.pending = NULL
    <3>1. /\ Step(f, rec, k) = [resolved |-> f.resolved, pending |-> k]
          /\ Step(g, changed, k) = [resolved |-> g.resolved, pending |-> k]
      BY <1>1, <1>4, <2>1, <2>4 DEF Cases
    <3>2. QED
      BY <1>3, <1>6, <3>1 DEF SameBut
  <2>5. CASE rec[k] # NULL /\ k \in NineHole /\ f.pending # NULL
    <3> DEFINE y == Score(rec[f.pending] + rec[k], {f.pending, k}, k)
    <3>1. f.pending \in 1 .. n /\ changed[f.pending] = rec[f.pending]
      BY <1>4, <2>5 DEF Found
    <3>2. /\ Step(f, rec, k) = [resolved |-> f.resolved \cup {y}, pending |-> NULL]
          /\ Step(g, changed, k) = [resolved |-> g.resolved \cup {y}, pending |-> NULL]
      BY <1>1, <1>4, <2>1, <2>5, <3>1 DEF Cases
    <3> HIDE DEF y
    <3>3. QED
      BY <1>2, <1>3, <3>2 DEF SameBut
  <2>6. QED
    BY <2>2, <2>3, <2>4, <2>5
<1>7. QED
  BY <1>5, <1>6

LEMMA WalksStaySame ==
  ASSUME NEW n \in Nat, NEW rec \in Records(n), NEW changed \in Records(n), NEW r \in 1 .. n,
         r \notin NineHole, \A k \in 1 .. n : k # r => changed[k] = rec[k]
  PROVE  /\ SameBut(Walk(rec), Walk(changed), r)
         /\ Walk(rec) \in Found(rec, n) /\ Walk(changed) \in Found(changed, n)
<1>1. PICK w \in [0 .. n -> Found(rec, n)] : Walked(w, rec, n) /\ Walk(rec) = w[n]
  BY WalkExists
<1>2. PICK v \in [0 .. n -> Found(changed, n)] : Walked(v, changed, n) /\ Walk(changed) = v[n]
  BY WalkExists
<1> DEFINE N == {k \in Nat : k <= n => SameBut(w[k], v[k], r)}
<1>3. 0 \in N
  <2>1. NULL # r
    BY NullIsNoNumber
  <2>2. w[0] = Start /\ v[0] = Start
    BY <1>1, <1>2 DEF Walked
  <2>3. QED
    BY <2>1, <2>2 DEF SameBut, Start
<1>4. ASSUME NEW k \in Nat, k \in N PROVE k + 1 \in N
  <2> SUFFICES ASSUME k + 1 <= n PROVE SameBut(w[k + 1], v[k + 1], r)
    OBVIOUS
  <2>1. k + 1 \in 1 .. n /\ k \in 0 .. n /\ (k + 1) - 1 = k /\ SameBut(w[k], v[k], r)
    BY <1>4
  <2>2. w[k + 1] = Step(w[k], rec, k + 1) /\ v[k + 1] = Step(v[k], changed, k + 1)
    BY <1>1, <1>2, <2>1 DEF Walked
  <2>3. w[k] \in Found(rec, n) /\ v[k] \in Found(changed, n)
    BY <2>1
  <2>4. QED
    BY <2>1, <2>2, <2>3, StepsKeepSame
<1>5. Nat \subseteq N
  <2> HIDE DEF N
  <2>1. QED
    BY <1>3, <1>4, AllNumbers
<1>6. QED
  BY <1>1, <1>2, <1>5

(* The scores considered are the same, if enough of them are more recent than r. *)
LEMMA EnoughMoreRecent ==
  ASSUME NEW A, NEW B, IsFiniteSet(A), IsFiniteSet(B), A \subseteq Scores, B \subseteq Scores,
         NEW r \in Nat, \A x : x.playedAt # r => (x \in A <=> x \in B),
         Cardinality({e \in A : e.playedAt > r}) >= MaxEffective
  PROVE  {d \in A : Cardinality({e \in A : e.playedAt > d.playedAt}) < MaxEffective}
         = {d \in B : Cardinality({e \in B : e.playedAt > d.playedAt}) < MaxEffective}
<1> DEFINE After(X, d) == {e \in X : e.playedAt > d}
<1>1. \A x \in A \cup B : x.playedAt \in Nat
  BY DEF Scores
<1>2. \A d \in Nat : d >= r => After(A, d) = After(B, d)
  BY <1>1
<1>3. After(A, r) = After(B, r) /\ IsFiniteSet(After(A, r))
  BY <1>2, FS_Subset
<1>4. ASSUME NEW X \in {A, B}, NEW d \in X, d.playedAt <= r
      PROVE  ~(Cardinality(After(X, d.playedAt)) < MaxEffective)
  <2>1. After(X, r) \subseteq After(X, d.playedAt) /\ IsFiniteSet(After(X, d.playedAt))
    <3>1. d.playedAt \in Nat /\ \A x \in X : x.playedAt \in Nat
      BY <1>1
    <3>2. IsFiniteSet(X) /\ After(X, d.playedAt) \subseteq X
      OBVIOUS
    <3>3. IsFiniteSet(After(X, d.playedAt))
      BY <3>2, FS_Subset
    <3>4. QED
      BY <1>4, <3>1, <3>3
  <2>2. Cardinality(After(X, r)) >= MaxEffective
    BY <1>3
  <2> HIDE DEF After
  <2>3. Cardinality(After(X, r)) <= Cardinality(After(X, d.playedAt))
    BY <2>1, FS_Subset
  <2>4. /\ Cardinality(After(X, d.playedAt)) \in Nat
        /\ Cardinality(After(X, r)) \in Nat /\ MaxEffective \in Nat
    BY <1>3, <2>1, FS_CardinalityType, CalculationAssumption
  <2>5. QED
    BY <2>2, <2>3, <2>4
<1>5. ASSUME NEW d \in A \cup B, d.playedAt > r
      PROVE  /\ d \in A <=> d \in B
             /\ After(A, d.playedAt) = After(B, d.playedAt)
  BY <1>1, <1>2, <1>5
<1>6. ASSUME NEW X \in {A, B}, NEW d \in X, Cardinality(After(X, d.playedAt)) < MaxEffective
      PROVE  d.playedAt > r
  BY <1>1, <1>4, <1>6
<1> HIDE DEF After
<1>7. {d \in A : Cardinality(After(A, d.playedAt)) < MaxEffective}
       = {d \in B : Cardinality(After(B, d.playedAt)) < MaxEffective}
  BY <1>5, <1>6
<1>8. QED
  BY <1>7 DEF After

(* The index of the scores considered. *)
IndexOf(scores) ==
  LET n       == Cardinality(scores)
      entries == {row \in CountTable : row.min <= n /\ n <= row.max}
      line    == CHOOSE row \in entries : TRUE
      average == Truncate(MapThenSumSet(LAMBDA d : d.value, Lowest(scores, line.count)), line.count)
  IN IF entries = {} THEN NULL ELSE Truncate((average + line.adjustment) * 96, 10000)

LEMMA IndexOfEffective == ASSUME NEW rec PROVE calculateHandicapIndex(rec) = IndexOf(Effective(rec))
BY DEF calculateHandicapIndex, IndexOf

LongIsRecord == long \in [LongRound -> LongDifferential \cup {NULL}]

LEMMA LongRecords == \A rec \in [LongRound -> LongDifferential \cup {NULL}] :
                       LongLast \in Nat /\ rec \in Records(LongLast)
BY LongAssumption DEF LongRound, Records

LEMMA LongStaysRecord == LongIsRecord /\ [MCNext]_<<vars, long, scoringVars, part>> => LongIsRecord'
BY DEF LongIsRecord, MCNext, LongNext, ApproveLong, RetractLong, CorrectLong

(* Once the scores considered are all more recent, an 18-hole round has no influence on
   the index. *)
THEOREM AgedInert == MCSpec => []AgedScoresAreInert
<1>1. MCInit => LongIsRecord
  BY DEF MCInit, LongInit, LongIsRecord
<1>2. LongIsRecord => AgedScoresAreInert
  <2> SUFFICES ASSUME LongIsRecord,
                      NEW r \in LongRound \ NineHole, NEW d \in LongDifferential \cup {NULL},
                      Cardinality({e \in Walk(long).resolved : e.playedAt > r}) >= MaxEffective
               PROVE  calculateHandicapIndex([long EXCEPT ![r] = d]) = calculateHandicapIndex(long)
    BY DEF AgedScoresAreInert
  <2> DEFINE n == LongLast
             changed == [long EXCEPT ![r] = d]
             A == Walk(long).resolved
             B == Walk(changed).resolved
  <2>1. n \in Nat /\ long \in Records(n) /\ changed \in Records(n)
    <3>1. changed \in [LongRound -> LongDifferential \cup {NULL}]
      BY DEF LongIsRecord
    <3>2. QED
      BY <3>1, LongRecords DEF LongIsRecord
  <2>2. r \in 1 .. n /\ r \notin NineHole /\ r \in Nat
    BY LongAssumption DEF LongRound
  <2>3. \A k \in 1 .. n : k # r => changed[k] = long[k]
    BY <2>1 DEF Records
  <2> HIDE DEF changed, n
  <2>4. /\ SameBut(Walk(long), Walk(changed), r)
        /\ Walk(long) \in Found(long, n) /\ Walk(changed) \in Found(changed, n)
    BY <2>1, <2>2, <2>3, WalksStaySame
  <2>5. /\ IsFiniteSet(A) /\ IsFiniteSet(B) /\ A \subseteq Scores /\ B \subseteq Scores
        /\ \A x : x.playedAt # r => (x \in A <=> x \in B)
    BY <2>4 DEF SameBut, Found
  <2> HIDE DEF A, B
  <2>6. Cardinality({e \in A : e.playedAt > r}) >= MaxEffective
    BY DEF A
  <2>7. {e \in A : Cardinality({x \in A : x.playedAt > e.playedAt}) < MaxEffective}
         = {e \in B : Cardinality({x \in B : x.playedAt > e.playedAt}) < MaxEffective}
    BY <2>2, <2>5, <2>6, EnoughMoreRecent
  <2>8. Effective(long) = Effective(changed)
    BY <2>7 DEF Effective, A, B
  <2>9. calculateHandicapIndex(changed) = calculateHandicapIndex(long)
    BY <2>8, IndexOfEffective
  <2>10. QED
    BY <2>9 DEF changed
<1>3. QED
  BY <1>1, <1>2, LongStaysRecord, PTL DEF MCSpec

-----------------------------------------------------------------------------
(* Nine holes pair in the order they were played *)

NinesOf(rec, n) == {r \in (1 .. n) \cap NineHole : rec[r] # NULL}

(* c[k] is the number of the nine-hole rounds up to round k. *)
Counts(c, nines, n) ==
  /\ c \in [0 .. n -> Nat]
  /\ c[0] = 0
  /\ \A k \in 1 .. n : c[k] = c[k - 1] + (IF k \in nines THEN 1 ELSE 0)

(* r and s are an odd one and the next. *)
Partners(c, r, s) == c[r] % 2 = 1 /\ c[s] = c[r] + 1

(* What the walk has done after round k. *)
Paired(f, c, nines, n, k) ==
  /\ f.pending = NULL => c[k] % 2 = 0
  /\ f.pending # NULL =>
       f.pending \in nines /\ f.pending <= k /\ c[f.pending] = c[k] /\ c[k] % 2 = 1
  /\ \A x \in f.resolved :
       \/ \E q \in (1 .. n) \ NineHole : x.rounds = {q}
       \/ \E r \in nines, s \in nines : Partners(c, r, s) /\ x.rounds = {r, s}
  /\ \A r \in nines, s \in nines :
       s <= k /\ Partners(c, r, s) => \E x \in f.resolved : x.rounds = {r, s}
  /\ \A r \in nines : r <= k =>
       r = f.pending \/ \E s \in nines : Partners(c, r, s) \/ Partners(c, s, r)

LEMMA CountsExist ==
  ASSUME NEW n \in Nat, NEW nines \in SUBSET (1 .. n)
  PROVE  Counts([k \in 0 .. n |-> Cardinality({s \in nines : s <= k})], nines, n)
<1> DEFINE UpTo(k) == {s \in nines : s <= k}
           c == [k \in 0 .. n |-> Cardinality(UpTo(k))]
<1>1. IsFiniteSet(nines)
  <2>1. nines \in SUBSET Nat /\ \A s \in nines : s <= n
    OBVIOUS
  <2>2. QED
    BY <2>1, FS_BoundedSetOfNaturals
<1>2. \A k \in 0 .. n : IsFiniteSet(UpTo(k)) /\ UpTo(k) \subseteq nines
  BY <1>1, FS_Subset
<1>3. UpTo(0) = {}
  <2>1. \A s \in nines : ~(s <= 0)
    OBVIOUS
  <2>2. QED
    BY <2>1, Zenon
<1>4. ASSUME NEW k \in 1 .. n
      PROVE  Cardinality(UpTo(k)) = Cardinality(UpTo(k - 1)) + (IF k \in nines THEN 1 ELSE 0)
  <2>1. k - 1 \in 0 .. n /\ ~(k <= k - 1)
    OBVIOUS
  <2> DEFINE less == UpTo(k - 1)
  <2>2. k \notin less /\ IsFiniteSet(less)
    BY <1>2, <2>1
  <2>3. Cardinality(less) \in Nat
    BY <2>2, FS_CardinalityType
  <2>4. CASE k \in nines
    <3>1. \A s \in nines : s <= k <=> s <= k - 1 \/ s = k
      OBVIOUS
    <3>2. UpTo(k) = less \cup {k}
      BY <2>4, <3>1, Zenon
    <3> HIDE DEF less
    <3>3. Cardinality(less \cup {k}) = Cardinality(less) + 1
      BY <2>2, FS_AddElement
    <3>4. QED
      BY <2>4, <3>2, <3>3, Zenon DEF less
  <2>5. CASE k \notin nines
    <3>1. \A s \in nines : s <= k <=> s <= k - 1
      BY <2>5
    <3>2. UpTo(k) = less
      BY <3>1, Zenon
    <3> HIDE DEF less
    <3>3. Cardinality(less) + 0 = Cardinality(less)
      BY <2>3
    <3>4. QED
      BY <2>5, <3>2, <3>3, Zenon DEF less
  <2>6. QED
    BY <2>4, <2>5
<1>5. \A k \in 0 .. n : Cardinality(UpTo(k)) \in Nat
  BY <1>2, FS_CardinalityType
<1> HIDE DEF UpTo
<1>6. Counts(c, nines, n)
  <2>1. \A k \in 1 .. n : k \in 0 .. n /\ k - 1 \in 0 .. n
    OBVIOUS
  <2>2. 0 \in 0 .. n
    OBVIOUS
  <2>3. QED
    BY <1>3, <1>4, <1>5, <2>1, <2>2, FS_EmptySet DEF Counts
<1>7. QED
  BY <1>6 DEF UpTo

LEMMA CountsGrow ==
  ASSUME NEW n \in Nat, NEW nines \in SUBSET (1 .. n), NEW c, Counts(c, nines, n)
  PROVE  /\ \A j \in 0 .. n, k \in 0 .. n : j <= k => c[j] <= c[k]
         /\ \A r \in nines, k \in 0 .. n : k < r => c[k] < c[r]
<1> DEFINE N == {k \in Nat : k <= n => \A j \in 0 .. k : c[j] <= c[k]}
<1>1. 0 \in N
  BY DEF Counts
<1>2. ASSUME NEW k \in Nat, k \in N PROVE k + 1 \in N
  <2> SUFFICES ASSUME k + 1 <= n, NEW j \in 0 .. (k + 1) PROVE c[j] <= c[k + 1]
    OBVIOUS
  <2>1. k + 1 \in 1 .. n /\ (k + 1) - 1 = k
    OBVIOUS
  <2>2. c[k] \in Nat /\ c[k + 1] \in Nat /\ c[k] <= c[k + 1]
    <3>1. c[k] \in Nat /\ c[k + 1] \in Nat
      BY <2>1 DEF Counts
    <3>2. c[k + 1] = c[(k + 1) - 1] + (IF k + 1 \in nines THEN 1 ELSE 0)
      BY <2>1, Zenon DEF Counts
    <3>3. QED
      BY <2>1, <3>1, <3>2
  <2>3. j # k + 1 => c[j] <= c[k] /\ c[j] \in Nat
    BY <1>2 DEF Counts
  <2>4. QED
    BY <2>2, <2>3
<1>3. Nat \subseteq N
  <2> HIDE DEF N
  <2>1. QED
    BY <1>1, <1>2, AllNumbers
<1>4. \A j \in 0 .. n, k \in 0 .. n : j <= k => c[j] <= c[k]
  BY <1>3
<1>5. ASSUME NEW r \in nines, NEW k \in 0 .. n, k < r PROVE c[k] < c[r]
  <2>1. r \in 1 .. n /\ r - 1 \in 0 .. n /\ k <= r - 1
    BY <1>5
  <2>2. c[r] = c[r - 1] + 1 /\ c[r - 1] \in Nat /\ c[k] \in Nat
    BY <2>1 DEF Counts
  <2> DEFINE j == r - 1
  <2>3. c[k] <= c[j]
    <3>1. j \in 0 .. n /\ k <= j
      BY <2>1
    <3> HIDE DEF j
    <3>2. QED
      BY <1>4, <3>1
  <2>4. QED
    BY <2>2, <2>3
<1>6. QED
  BY <1>4, <1>5

LEMMA StepsPair ==
  ASSUME NEW n \in Nat, NEW rec \in Records(n), NEW c, Counts(c, NinesOf(rec, n), n),
         NEW k \in 1 .. n, NEW f \in Found(rec, n), Paired(f, c, NinesOf(rec, n), n, k - 1)
  PROVE  Paired(Step(f, rec, k), c, NinesOf(rec, n), n, k)
<1> DEFINE nines == NinesOf(rec, n)
           g == Step(f, rec, k)
<1>1. Cases(f, rec, k)
  BY StepCases
<1>2. /\ f.pending = NULL => c[k - 1] % 2 = 0
      /\ f.pending # NULL => f.pending \in nines /\ f.pending <= k - 1
                             /\ c[f.pending] = c[k - 1] /\ c[k - 1] % 2 = 1
  BY DEF Paired
<1>3. \A x \in f.resolved :
       \/ \E q \in (1 .. n) \ NineHole : x.rounds = {q}
       \/ \E r \in nines, s \in nines : Partners(c, r, s) /\ x.rounds = {r, s}
  BY DEF Paired
<1>4. \A r \in nines, s \in nines :
       s <= k - 1 /\ Partners(c, r, s) => \E x \in f.resolved : x.rounds = {r, s}
  BY DEF Paired
<1>5. \A r \in nines : r <= k - 1 =>
       r = f.pending \/ \E s \in nines : Partners(c, r, s) \/ Partners(c, s, r)
  BY DEF Paired
<1>6. /\ nines \in SUBSET (1 .. n) /\ k - 1 \in 0 .. n /\ k \in 0 .. n /\ k # NULL
      /\ nines \subseteq NineHole
  BY NullIsNoNumber DEF NinesOf
<1>7. /\ c[k - 1] \in Nat /\ c[k] \in Nat
      /\ c[k] = c[k - 1] + (IF k \in nines THEN 1 ELSE 0)
      /\ \A r \in nines : c[r] \in Nat
  BY <1>6 DEF Counts
<1>8. k \in nines <=> rec[k] # NULL /\ k \in NineHole
  BY DEF NinesOf
<1>9. \A r \in nines : r <= k <=> r <= k - 1 \/ r = k
  BY <1>6
<1> HIDE DEF nines
<1>10. CASE k \notin nines
  <2>1. \A r \in nines : r <= k <=> r <= k - 1
    BY <1>9, <1>10
  <2>2. c[k] = c[k - 1]
    BY <1>7, <1>10
  <2>3. CASE rec[k] = NULL
    <3>1. g = f
      BY <1>1, <2>3 DEF Cases
    <3>2. QED
      BY <1>2, <1>3, <1>4, <1>5, <1>6, <2>1, <2>2, <3>1 DEF Paired, nines
  <2>4. CASE rec[k] # NULL
    <3> DEFINE y == Score(rec[k], {k}, k)
    <3>1. k \notin NineHole
      BY <1>8, <1>10, <2>4
    <3>2. g = [resolved |-> f.resolved \cup {y}, pending |-> f.pending]
      BY <1>1, <2>4, <3>1 DEF Cases
    <3>3. y.rounds = {k}
      BY DEF Score
    <3> HIDE DEF y, g
    <3>4. g.resolved = f.resolved \cup {y} /\ g.pending = f.pending
      BY <3>2
    <3>5. Paired(g, c, nines, n, k)
      <4>1. \A x \in g.resolved :
              \/ \E q \in (1 .. n) \ NineHole : x.rounds = {q}
              \/ \E r \in nines, s \in nines : Partners(c, r, s) /\ x.rounds = {r, s}
        BY <1>3, <3>1, <3>3, <3>4
      <4>2. /\ g.pending = NULL => c[k] % 2 = 0
            /\ g.pending # NULL => g.pending \in nines /\ g.pending <= k
                                   /\ c[g.pending] = c[k] /\ c[k] % 2 = 1
        BY <1>2, <1>6, <2>1, <2>2, <3>4
      <4>3. /\ \A r \in nines, s \in nines :
                 s <= k /\ Partners(c, r, s) => \E x \in g.resolved : x.rounds = {r, s}
            /\ \A r \in nines : r <= k =>
                 r = g.pending \/ \E s \in nines : Partners(c, r, s) \/ Partners(c, s, r)
        BY <1>4, <1>5, <2>1, <3>4
      <4>4. QED
        BY <4>1, <4>2, <4>3 DEF Paired
    <3>6. QED
      BY <3>5 DEF nines, g
  <2>5. QED
    BY <2>3, <2>4
<1>11. CASE k \in nines /\ f.pending = NULL
  <2>1. g = [resolved |-> f.resolved, pending |-> k]
    BY <1>1, <1>8, <1>11 DEF Cases
  <2> HIDE DEF g
  <2>2. g.resolved = f.resolved /\ g.pending = k
    BY <2>1
  <2>3. c[k] % 2 = 1
    BY <1>2, <1>7, <1>11
  <2>4. \A r \in nines : ~Partners(c, r, k)
    BY <1>7, <2>3 DEF Partners
  <2>5. \A r \in nines, s \in nines :
          s <= k /\ Partners(c, r, s) => \E x \in g.resolved : x.rounds = {r, s}
    BY <1>4, <1>9, <2>2, <2>4
  <2>6. \A r \in nines : r <= k =>
          r = g.pending \/ \E s \in nines : Partners(c, r, s) \/ Partners(c, s, r)
    <3>1. \A r \in nines : r # NULL
      BY <1>6, NullIsNoNumber
    <3>2. QED
      BY <1>5, <1>9, <1>11, <2>2, <3>1
  <2>7. Paired(g, c, nines, n, k)
    <3>1. /\ g.pending = NULL => c[k] % 2 = 0
          /\ g.pending # NULL => g.pending \in nines /\ g.pending <= k
                                 /\ c[g.pending] = c[k] /\ c[k] % 2 = 1
      BY <1>6, <1>11, <2>2, <2>3
    <3>2. QED
      BY <1>3, <2>2, <2>5, <2>6, <3>1 DEF Paired
  <2>8. QED
    BY <2>7 DEF nines, g
<1>12. CASE k \in nines /\ f.pending # NULL
  <2> DEFINE p == f.pending
             y == Score(rec[p] + rec[k], {p, k}, k)
  <2>1. g = [resolved |-> f.resolved \cup {y}, pending |-> NULL]
    BY <1>1, <1>8, <1>12 DEF Cases
  <2>2. y.rounds = {p, k}
    BY DEF Score
  <2> HIDE DEF g, y
  <2>3. g.resolved = f.resolved \cup {y} /\ g.pending = NULL
    BY <2>1
  <2>4. p \in nines /\ p <= k - 1 /\ c[p] = c[k - 1] /\ c[k - 1] % 2 = 1
    BY <1>2, <1>12
  <2>5. c[k] % 2 = 0 /\ Partners(c, p, k)
    BY <1>7, <1>12, <2>4 DEF Partners
  <2>6. \A r \in nines : Partners(c, r, k) => r = p
    <3>1. \A r \in nines : Partners(c, r, k) => c[r] = c[p]
      BY <1>7, <1>12, <2>4 DEF Partners
    <3>2. \A r \in nines : r \in 0 .. n /\ r \in Int
      BY <1>6
    <3>3. \A r \in nines, s \in nines : s < r => c[s] < c[r]
      BY <1>6, <3>2, CountsGrow DEF nines
    <3>4. ASSUME NEW r \in nines, c[r] = c[p] PROVE r = p
      BY <1>7, <2>4, <3>2, <3>3, <3>4
    <3>5. QED
      BY <3>1, <3>4
  <2> HIDE DEF p
  <2>7. \A x \in g.resolved :
          \/ \E q \in (1 .. n) \ NineHole : x.rounds = {q}
          \/ \E r \in nines, s \in nines : Partners(c, r, s) /\ x.rounds = {r, s}
    BY <1>3, <1>12, <2>2, <2>3, <2>4, <2>5
  <2>8. \A r \in nines, s \in nines :
          s <= k /\ Partners(c, r, s) => \E x \in g.resolved : x.rounds = {r, s}
    BY <1>4, <1>9, <2>2, <2>3, <2>6
  <2>9. \A r \in nines : r <= k =>
          r = g.pending \/ \E s \in nines : Partners(c, r, s) \/ Partners(c, s, r)
    BY <1>5, <1>9, <1>12, <2>4, <2>5 DEF p
  <2>10. Paired(g, c, nines, n, k)
    BY <2>3, <2>5, <2>7, <2>8, <2>9 DEF Paired
  <2>11. QED
    BY <2>10 DEF nines, g
<1>13. QED
  BY <1>10, <1>11, <1>12

LEMMA WalksPair ==
  ASSUME NEW n \in Nat, NEW rec \in Records(n), NEW c, Counts(c, NinesOf(rec, n), n)
  PROVE  Paired(Walk(rec), c, NinesOf(rec, n), n, n)
<1>1. PICK w \in [0 .. n -> Found(rec, n)] : Walked(w, rec, n) /\ Walk(rec) = w[n]
  BY WalkExists
<1> DEFINE N == {k \in Nat : k <= n => Paired(w[k], c, NinesOf(rec, n), n, k)}
<1>2. 0 \in N
  <2>1. w[0].pending = NULL /\ w[0].resolved = {} /\ c[0] = 0
    BY <1>1 DEF Walked, Start, Counts
  <2>2. \A r \in NinesOf(rec, n) : r \in Nat /\ ~(r <= 0)
    BY DEF NinesOf
  <2>3. QED
    BY <2>1, <2>2 DEF Paired
<1>3. ASSUME NEW k \in Nat, k \in N PROVE k + 1 \in N
  <2> SUFFICES ASSUME k + 1 <= n PROVE Paired(w[k + 1], c, NinesOf(rec, n), n, k + 1)
    OBVIOUS
  <2>1. k + 1 \in 1 .. n /\ k \in 0 .. n /\ (k + 1) - 1 = k
    OBVIOUS
  <2>2. w[k + 1] = Step(w[k], rec, k + 1) /\ w[k] \in Found(rec, n)
    BY <1>1, <2>1 DEF Walked
  <2>3. Paired(w[k], c, NinesOf(rec, n), n, (k + 1) - 1)
    BY <1>3, <2>1
  <2>4. QED
    BY <2>1, <2>2, <2>3, StepsPair
<1>4. Nat \subseteq N
  <2> HIDE DEF N
  <2>1. QED
    BY <1>2, <1>3, AllNumbers
<1>5. QED
  BY <1>1, <1>4

(* The nine-hole rounds pair in the order they were played, and only the last one may be
   without a partner. *)
THEOREM OldestFirst == MCSpec => []PairsOldestFirst
<1>1. MCInit => LongIsRecord
  BY DEF MCInit, LongInit, LongIsRecord
<1>2. LongIsRecord => PairsOldestFirst
  <2> SUFFICES ASSUME LongIsRecord PROVE PairsOldestFirst
    OBVIOUS
  <2> DEFINE n == LongLast
             f == Walk(long)
             c == [k \in 0 .. n |-> Rank(k)]
  <2>1. n \in Nat /\ long \in Records(n)
    BY LongRecords DEF LongIsRecord
  <2>2. Nines \in SUBSET (1 .. n) /\ Nines \subseteq NineHole
    BY DEF Nines, LongRound
  <2>3. Counts(c, Nines, n)
    <3> HIDE DEF n
    <3>1. QED
      BY <2>1, <2>2, CountsExist DEF Rank
  <2>4. Nines = NinesOf(long, n)
    BY DEF Nines, NinesOf, LongRound
  <2>5. \A r \in Nines : c[r] = Rank(r)
    <3> HIDE DEF n
    <3>1. QED
      BY <2>2
  <2>6. /\ {d.rounds : d \in f.resolved} \cap Pairs = OddWithNext
        /\ {f.pending} \ {NULL} = Nines \ UNION OddWithNext
    <3> HIDE DEF n, c
    <3>1. Paired(f, c, Nines, n, n)
      BY <2>1, <2>3, <2>4, WalksPair
    <3> HIDE DEF f
    <3>2. \A r \in Nines : r \in 0 .. n /\ r <= n /\ r # NULL /\ c[r] \in Nat
      BY <2>1, <2>2, <2>3, NullIsNoNumber DEF Counts
    <3>3. \A p : p \in OddWithNext <=> \E r \in Nines, s \in Nines : Partners(c, r, s) /\ p = {r, s}
      <4>1. ASSUME NEW p \in OddWithNext
            PROVE  \E r \in Nines, s \in Nines : Partners(c, r, s) /\ p = {r, s}
        <5>1. PICK a \in Nines, b \in Nines : p = {a, b}
          BY DEF OddWithNext, Pairs
        <5>2. PICK r \in p, s \in p : Rank(r) % 2 = 1 /\ Rank(s) = Rank(r) + 1
          BY DEF OddWithNext
        <5>3. r \in Nines /\ s \in Nines
          BY <5>1
        <5>4. Partners(c, r, s) /\ r # s
          BY <2>5, <3>2, <5>2, <5>3 DEF Partners
        <5>5. p = {r, s}
          BY <5>1, <5>4
        <5>6. QED
          BY <5>3, <5>4, <5>5
      <4>2. ASSUME NEW r \in Nines, NEW s \in Nines, Partners(c, r, s)
            PROVE  {r, s} \in OddWithNext
        <5>1. {r, s} \in Pairs /\ r \in {r, s} /\ s \in {r, s}
          BY DEF Pairs
        <5>2. Rank(r) % 2 = 1 /\ Rank(s) = Rank(r) + 1
          BY <2>5, <4>2 DEF Partners
        <5>3. QED
          BY <5>1, <5>2, Zenon DEF OddWithNext
      <4>3. QED
        BY <4>1, <4>2
    <3>4. ASSUME NEW x \in f.resolved, x.rounds \in Pairs PROVE x.rounds \in OddWithNext
      <4>1. PICK r \in Nines, s \in Nines : x.rounds = {r, s}
        BY <3>4 DEF Pairs
      <4>2. \A q \in (1 .. n) \ NineHole : x.rounds # {q}
        BY <2>2, <4>1
      <4>3. \E a \in Nines, b \in Nines : Partners(c, a, b) /\ x.rounds = {a, b}
        BY <3>1, <4>2, Zenon DEF Paired
      <4>4. QED
        BY <3>3, <4>3, Zenon
    <3>5. ASSUME NEW p \in OddWithNext PROVE p \in Pairs /\ \E x \in f.resolved : x.rounds = p
      <4>1. PICK r \in Nines, s \in Nines : Partners(c, r, s) /\ p = {r, s}
        BY <3>3, Zenon
      <4>2. s <= n
        BY <3>2
      <4>3. \E x \in f.resolved : x.rounds = {r, s}
        BY <3>1, <4>1, <4>2, Zenon DEF Paired
      <4>4. QED
        BY <4>1, <4>3 DEF Pairs
    <3>6. ASSUME NEW r, r = f.pending, r # NULL PROVE r \in Nines /\ r \notin UNION OddWithNext
      <4>1. r \in Nines /\ c[r] = c[n] /\ c[n] % 2 = 1
        BY <3>1, <3>6 DEF Paired
      <4>2. \A s \in Nines : c[s] <= c[n]
        <5>1. n \in 0 .. n
          BY <2>1
        <5>2. QED
          BY <2>1, <2>2, <2>3, <3>2, <5>1, CountsGrow
      <4>3. ASSUME NEW a \in Nines, NEW b \in Nines, Partners(c, a, b) PROVE r # a /\ r # b
        BY <3>2, <4>1, <4>2, <4>3 DEF Partners
      <4>4. ASSUME NEW p \in OddWithNext PROVE r \notin p
        BY <3>3, <4>3, <4>4
      <4>5. QED
        BY <4>1, <4>4
    <3>7. ASSUME NEW r \in Nines, r # f.pending PROVE r \in UNION OddWithNext
      <4>1. PICK s \in Nines : Partners(c, r, s) \/ Partners(c, s, r)
        BY <3>1, <3>2, <3>7 DEF Paired
      <4>2. {r, s} \in OddWithNext \/ {s, r} \in OddWithNext
        BY <3>3, <4>1
      <4>3. QED
        BY <4>2
    <3>8. {d.rounds : d \in f.resolved} \cap Pairs = OddWithNext
      BY <3>4, <3>5
    <3>9. {f.pending} \ {NULL} = Nines \ UNION OddWithNext
      <4>1. \A r \in Nines : r # NULL
        BY <3>2
      <4>2. QED
        BY <3>6, <3>7, <4>1
    <3>10. QED
      BY <3>8, <3>9
  <2>7. QED
    BY <2>6 DEF PairsOldestFirst
<1>3. QED
  BY <1>1, <1>2, LongStaysRecord, PTL DEF MCSpec

-----------------------------------------------------------------------------
(* The lowest scores *)

(* Sums compare as their terms do. *)
LEMMA TotalsCompare ==
  ASSUME NEW X, IsFiniteSet(X), NEW f, \A x \in X : f[x] \in Int,
         NEW Y, IsFiniteSet(Y), NEW g, \A y \in Y : g[y] \in Int,
         NEW m \in Bijection(X, Y), \A x \in X : g[m[x]] <= f[x]
  PROVE  Total(g, Y) <= Total(f, X)
<1> DEFINE Img(S) == {m[x] : x \in S}
           N == {n \in Nat : \A S \in SUBSET X :
                   Cardinality(S) = n => Total(g, Img(S)) <= Total(f, S)}
<1>1. /\ m \in [X -> Y]
      /\ \A x \in X, y \in X : m[x] = m[y] => x = y
      /\ \A y \in Y : \E x \in X : m[x] = y
  BY DEF Bijection, Injection, Surjection, IsInjective
<1>2. \A S \in SUBSET X :
        /\ IsFiniteSet(S) /\ Cardinality(S) \in Nat
        /\ Cardinality(S) = 0 <=> S = {}
        /\ Img(S) \subseteq Y /\ IsFiniteSet(Img(S))
  <2>1. \A S \in SUBSET X : Img(S) \subseteq Y
    BY <1>1
  <2>2. QED
    BY <2>1, FS_Subset, FS_CardinalityType, FS_EmptySet
<1>3. \A S \in SUBSET X : Total(f, S) \in Int /\ Total(g, Img(S)) \in Int
  <2>1. ASSUME NEW S \in SUBSET X PROVE Total(f, S) \in Int /\ Total(g, Img(S)) \in Int
    <3>1. \A y \in Img(S) : g[y] \in Int
      BY <1>2
    <3>2. IsFiniteSet(S) /\ IsFiniteSet(Img(S)) /\ \A x \in S : f[x] \in Int
      BY <1>2
    <3> HIDE DEF Img
    <3>3. QED
      BY <3>1, <3>2, TotalPicked
  <2>2. QED
    BY <2>1
<1>4. 0 \in N
  <2>1. Img({}) = {}
    OBVIOUS
  <2>2. Total(f, {}) = 0 /\ Total(g, {}) = 0
    BY TotalPicked, FS_EmptySet
  <2> HIDE DEF Img
  <2>3. QED
    BY <1>2, <2>1, <2>2
<1>5. ASSUME NEW n \in Nat, n \in N PROVE n + 1 \in N
  <2>1. ASSUME NEW S \in SUBSET X, Cardinality(S) = n + 1
        PROVE  Total(g, Img(S)) <= Total(f, S)
    <3>1. S # {} /\ IsFiniteSet(S)
      <4>1. IsFiniteSet(S) /\ (S = {} => Cardinality(S) = 0)
        BY <1>2
      <4>2. QED
        BY <2>1, <4>1
    <3>2. PICK x \in S : TRUE
      BY <3>1
    <3> DEFINE R == S \ {x}
    <3>3. R \in SUBSET X /\ Cardinality(R) = n
      BY <2>1, <3>1, <3>2, Taken
    <3>4. Total(g, Img(R)) <= Total(f, R)
      BY <1>5, <3>3
    <3>5. Total(f, S) = f[x] + Total(f, R)
      BY <3>1, <3>2, TotalTaken
    <3>6. Img(S) \ {m[x]} = Img(R) /\ m[x] \in Img(S)
      BY <1>1, <3>2
    <3>7. IsFiniteSet(Img(S)) /\ \A y \in Img(S) : g[y] \in Int
      BY <1>2
    <3>8. Total(g, Img(S)) = g[m[x]] + Total(g, Img(R))
      <4> HIDE DEF Img
      <4>1. Total(g, Img(S)) = g[m[x]] + Total(g, Img(S) \ {m[x]})
        BY <3>6, <3>7, TotalTaken
      <4>2. QED
        BY <3>6, <4>1
    <3>9. g[m[x]] <= f[x] /\ g[m[x]] \in Int /\ f[x] \in Int
      BY <1>1, <3>2
    <3>10. Total(f, R) \in Int /\ Total(g, Img(R)) \in Int
      BY <1>3, <3>3
    <3> HIDE DEF R, Img
    <3>11. QED
      BY <3>4, <3>5, <3>8, <3>9, <3>10
  <2>2. QED
    BY <2>1
<1>6. Nat \subseteq N
  <2> HIDE DEF N
  <2>1. QED
    BY <1>4, <1>5, AllNumbers
<1>7. X \in SUBSET X /\ Img(X) = Y
  BY <1>1
<1>8. QED
  <2> HIDE DEF Img
  <2>1. Cardinality(X) \in N
    BY <1>2, <1>6, <1>7
  <2>2. QED
    BY <1>7, <2>1

(* The order in which the lowest scores are taken. *)
Precedes(d, e) == d.value < e.value \/ (d.value = e.value /\ d.playedAt > e.playedAt)

Place(S, d) == Cardinality({e \in S : Precedes(e, d)})

OneADay(S) == \A x \in S, y \in S : x.playedAt = y.playedAt => x = y

LEMMA PlacesDiffer ==
  ASSUME NEW S, IsFiniteSet(S), S \subseteq Scores, OneADay(S), NEW d \in S, NEW e \in S, d # e
  PROVE  /\ Precedes(d, e) \/ Precedes(e, d)
         /\ Precedes(d, e) => Place(S, d) < Place(S, e)
         /\ Place(S, d) \in Nat /\ Place(S, d) < Cardinality(S)
<1> DEFINE Ahead(x) == {y \in S : Precedes(y, x)}
<1>1. \A x \in S : x.value \in Int /\ x.playedAt \in Nat
  BY DEF Scores
<1>2. d.playedAt # e.playedAt
  BY DEF OneADay
<1>3. Precedes(d, e) \/ Precedes(e, d)
  BY <1>1, <1>2 DEF Precedes
<1>4. \A x \in S : ~Precedes(x, x)
  BY <1>1 DEF Precedes
<1>5. \A x \in S, y \in S, z \in S : Precedes(x, y) /\ Precedes(y, z) => Precedes(x, z)
  BY <1>1 DEF Precedes
<1>6. \A x \in S : Ahead(x) \in SUBSET S /\ x \notin Ahead(x)
  BY <1>4
<1>7. \A x \in S : IsFiniteSet(Ahead(x)) /\ Cardinality(Ahead(x)) \in Nat
  BY <1>6, FS_Subset, FS_CardinalityType
<1>8. Cardinality(S) \in Nat
  BY FS_CardinalityType
<1>9. Cardinality(Ahead(d)) < Cardinality(S)
  <2>1. Ahead(d) # S
    BY <1>6
  <2>2. Cardinality(Ahead(d)) <= Cardinality(S) /\ Cardinality(Ahead(d)) # Cardinality(S)
    BY <1>6, <2>1, FS_Subset
  <2>3. QED
    BY <1>7, <1>8, <2>2
<1>10. ASSUME Precedes(d, e) PROVE Cardinality(Ahead(d)) < Cardinality(Ahead(e))
  <2>1. Ahead(d) \in SUBSET Ahead(e)
    BY <1>5, <1>10
  <2>2. d \in Ahead(e) /\ d \notin Ahead(d)
    BY <1>4, <1>10
  <2>3. Ahead(d) # Ahead(e)
    BY <2>2
  <2> HIDE DEF Ahead
  <2>4. Cardinality(Ahead(d)) <= Cardinality(Ahead(e)) /\ Cardinality(Ahead(d)) # Cardinality(Ahead(e))
    BY <1>7, <2>1, <2>3, FS_Subset
  <2>5. QED
    BY <1>7, <2>4
<1>11. QED
  BY <1>3, <1>7, <1>9, <1>10 DEF Place

(* There are as many lowest scores as are asked for. *)
LEMMA LowestMany ==
  ASSUME NEW S, IsFiniteSet(S), S \subseteq Scores, OneADay(S),
         NEW count \in Nat, count <= Cardinality(S)
  PROVE  /\ Lowest(S, count) = {d \in S : Place(S, d) < count}
         /\ Lowest(S, count) \subseteq S
         /\ IsFiniteSet(Lowest(S, count))
         /\ Cardinality(Lowest(S, count)) = count
<1> DEFINE n == Cardinality(S)
           place == [d \in S |-> Place(S, d)]
           L == {d \in S : Place(S, d) < count}
<1>1. Lowest(S, count) = L
  BY DEF Lowest, Place, Precedes
<1>2. n \in Nat
  BY FS_CardinalityType
<1>3. \A d \in S : Place(S, d) \in Nat /\ Place(S, d) < n
  <2>1. ASSUME NEW d \in S PROVE Place(S, d) \in Nat /\ Place(S, d) < n
    <3>1. CASE \E e \in S : e # d
      BY <3>1, PlacesDiffer
    <3>2. CASE S = {d}
      <4>1. {e \in S : Precedes(e, d)} = {}
        <5>1. d.value \in Int /\ d.playedAt \in Nat
          BY DEF Scores
        <5>2. ~Precedes(d, d)
          BY <5>1 DEF Precedes
        <5>3. QED
          BY <3>2, <5>2
      <4>2. Place(S, d) = 0
        BY <4>1, FS_EmptySet DEF Place
      <4>3. n # 0
        BY <3>2, FS_EmptySet
      <4>4. QED
        BY <1>2, <4>2, <4>3
    <3>3. QED
      BY <3>1, <3>2
  <2>2. QED
    BY <2>1
<1>4. \A d \in S, e \in S : Place(S, d) = Place(S, e) => d = e
  <2>1. ASSUME NEW d \in S, NEW e \in S, d # e PROVE Place(S, d) # Place(S, e)
    <3>1. /\ Precedes(d, e) \/ Precedes(e, d)
          /\ Precedes(d, e) => Place(S, d) < Place(S, e)
          /\ Precedes(e, d) => Place(S, e) < Place(S, d)
      BY <2>1, PlacesDiffer
    <3>2. QED
      BY <1>3, <3>1
  <2>2. QED
    BY <2>1
<1>5. place \in Injection(S, 0 .. (n - 1))
  <2>1. \A d \in S : Place(S, d) \in 0 .. (n - 1)
    BY <1>2, <1>3
  <2>2. QED
    BY <1>4, <2>1 DEF Injection, IsInjective
<1>6. \A k \in Nat : IsFiniteSet(0 .. (k - 1)) /\ Cardinality(0 .. (k - 1)) = k
  BY FS_Interval
<1>7. place \in Surjection(S, 0 .. (n - 1))
  <2> HIDE DEF n, place
  <2>1. Cardinality(S) = Cardinality(0 .. (n - 1)) /\ IsFiniteSet(0 .. (n - 1))
    BY <1>2, <1>6 DEF n
  <2>2. QED
    BY <1>5, <2>1, FS_Injection
<1>8. \A k \in 0 .. (count - 1) : \E d \in L : Place(S, d) = k
  <2>1. ASSUME NEW k \in 0 .. (count - 1) PROVE \E d \in L : Place(S, d) = k
    <3>1. k \in 0 .. (n - 1) /\ k < count
      BY <1>2
    <3>2. PICK d \in S : place[d] = k
      BY <1>7, <3>1 DEF Surjection
    <3>3. QED
      BY <3>1, <3>2
  <2>2. QED
    BY <2>1
<1>9. [d \in L |-> Place(S, d)] \in Bijection(L, 0 .. (count - 1))
  <2>1. \A d \in L : d \in S /\ Place(S, d) \in 0 .. (count - 1)
    BY <1>3
  <2>2. \A d \in L, e \in L : Place(S, d) = Place(S, e) => d = e
    BY <1>4
  <2> HIDE DEF L
  <2>3. QED
    BY <1>8, <2>1, <2>2, Fun_IsBij
<1>10. IsFiniteSet(L)
  BY FS_Subset
<1> HIDE DEF L
<1>11. Cardinality(L) = count
  <2>1. ExistsBijection(L, 0 .. (count - 1))
    BY <1>9 DEF ExistsBijection
  <2>2. Cardinality(0 .. (count - 1)) = Cardinality(L)
    BY <1>10, <2>1, FS_Bijection
  <2>3. QED
    BY <1>6, <2>2
<1>12. QED
  BY <1>1, <1>10, <1>11 DEF L

(* And no other scores, as many, sum up to less. *)
LEMMA LowestSum ==
  ASSUME NEW S, IsFiniteSet(S), S \subseteq Scores, OneADay(S),
         NEW count \in Nat, count <= Cardinality(S),
         NEW T \in SUBSET S, Cardinality(T) = count,
         NEW v, \A x \in S : v[x] = x.value
  PROVE  Total(v, Lowest(S, count)) <= Total(v, T)
<1> DEFINE L == Lowest(S, count)
<1>1. /\ \A d : d \in L <=> d \in S /\ Place(S, d) < count
      /\ L \subseteq S /\ IsFiniteSet(L) /\ Cardinality(L) = count
  BY LowestMany
<1>2. IsFiniteSet(T)
  BY FS_Subset
<1>3. \A x \in S : x.value \in Int /\ x.playedAt \in Nat
  BY DEF Scores
<1> HIDE DEF L
<1>4. PICK b : b \in Bijection(T \ L, L \ T)
  <2>1. /\ IsFiniteSet(T \ L) /\ Cardinality(T \ L) = Cardinality(T) - Cardinality(T \cap L)
        /\ IsFiniteSet(L \ T) /\ Cardinality(L \ T) = Cardinality(L) - Cardinality(L \cap T)
    BY <1>1, <1>2, FS_Difference
  <2>2. T \cap L = L \cap T
    OBVIOUS
  <2>3. Cardinality(T \ L) = Cardinality(L \ T)
    BY <1>1, <2>1, <2>2
  <2>4. ExistsBijection(T \ L, L \ T)
    BY <2>1, <2>3, FS_SameCardinalityBij
  <2>5. QED
    BY <2>4 DEF ExistsBijection
<1>5. /\ b \in [T \ L -> L \ T]
      /\ \A x \in T \ L, y \in T \ L : b[x] = b[y] => x = y
      /\ \A y \in L \ T : \E x \in T \ L : b[x] = y
  BY <1>4, Fun_BijectionProperties
<1>6. ASSUME NEW x \in T \ L PROVE v[b[x]] <= v[x]
  <2> DEFINE y == b[x]
  <2>1. x \in S /\ y \in S /\ y \in L /\ x \notin L /\ x # y
    BY <1>1, <1>5
  <2> HIDE DEF y
  <2>2. Place(S, y) < count /\ ~(Place(S, x) < count)
    BY <1>1, <2>1
  <2>3. /\ Precedes(y, x) \/ Precedes(x, y)
        /\ Precedes(x, y) => Place(S, x) < Place(S, y)
        /\ Place(S, x) \in Nat /\ Place(S, y) \in Nat
    BY <2>1, PlacesDiffer
  <2>4. Precedes(y, x)
    BY <2>2, <2>3
  <2>5. y.value <= x.value
    BY <1>3, <2>1, <2>4 DEF Precedes
  <2>6. QED
    BY <2>1, <2>5 DEF y
<1> DEFINE m == [x \in T |-> IF x \in L THEN x ELSE b[x]]
<1>7. m \in Bijection(T, L)
  <2>1. m \in [T -> L]
    BY <1>5
  <2>2. \A x \in T, y \in T : m[x] = m[y] => x = y
    BY <1>5
  <2>3. \A y \in L : \E x \in T : m[x] = y
    <3>1. ASSUME NEW y \in L PROVE \E x \in T : m[x] = y
      <4>1. CASE y \in T
        BY <4>1
      <4>2. CASE y \notin T
        <5>1. PICK x \in T \ L : b[x] = y
          BY <1>5, <4>2
        <5>2. QED
          BY <5>1
      <4>3. QED
        BY <4>1, <4>2
    <3>2. QED
      BY <3>1
  <2> HIDE DEF m
  <2>4. QED
    BY <2>1, <2>2, <2>3, Fun_IsBij
<1>8. \A x \in T : v[m[x]] <= v[x]
  BY <1>3, <1>6
<1>9. /\ \A x \in T : v[x] \in Int
      /\ \A x \in L : v[x] \in Int
  BY <1>1, <1>3
<1> HIDE DEF m
<1>10. Total(v, L) <= Total(v, T)
  BY <1>1, <1>2, <1>7, <1>8, <1>9, TotalsCompare
<1>11. QED
  BY <1>10 DEF L

(* Scores of which some got better have no higher lowest ones. *)
LEMMA BetterScoresSum ==
  ASSUME NEW E, IsFiniteSet(E), E \subseteq Scores, OneADay(E),
         NEW F, IsFiniteSet(F), F \subseteq Scores, OneADay(F),
         NEW m \in Bijection(E, F), \A x \in E : m[x].value <= x.value,
         NEW count \in Nat, count <= Cardinality(E),
         NEW v, \A x \in E \cup F : v[x] = x.value
  PROVE  /\ Total(v, Lowest(F, count)) <= Total(v, Lowest(E, count))
         /\ Total(v, Lowest(F, count)) \in Int /\ Total(v, Lowest(E, count)) \in Int
<1> DEFINE L == Lowest(E, count)
           T == {m[x] : x \in L}
<1>1. Cardinality(E) = Cardinality(F)
  <2>1. ExistsBijection(E, F)
    BY DEF ExistsBijection
  <2>2. QED
    BY <2>1, FS_Bijection
<1>2. L \subseteq E /\ IsFiniteSet(L) /\ Cardinality(L) = count
  BY LowestMany
<1>3. Lowest(F, count) \subseteq F /\ IsFiniteSet(Lowest(F, count))
  BY <1>1, LowestMany
<1>4. /\ m \in [E -> F]
      /\ \A x \in E, y \in E : m[x] = m[y] => x = y
  BY Fun_BijectionProperties
<1>5. \A x \in E \cup F : v[x] \in Int
  BY DEF Scores
<1> HIDE DEF L
<1>6. T \in SUBSET F
  BY <1>2, <1>4
<1> DEFINE restricted == [x \in L |-> m[x]]
<1>7. restricted \in Bijection(L, T)
  <2>1. /\ restricted \in [L -> T]
        /\ \A x \in L, y \in L : restricted[x] = restricted[y] => x = y
        /\ \A y \in T : \E x \in L : restricted[x] = y
    BY <1>2, <1>4
  <2> HIDE DEF restricted, T
  <2>2. QED
    BY <2>1, Fun_IsBij
<1>8. \A x \in L : v[restricted[x]] <= v[x]
  <2>1. ASSUME NEW x \in L PROVE v[restricted[x]] <= v[x]
    <3>1. x \in E /\ m[x] \in F /\ restricted[x] = m[x]
      BY <1>2, <1>4
    <3>2. v[m[x]] = m[x].value /\ v[x] = x.value /\ m[x].value <= x.value
      BY <3>1
    <3>3. QED
      BY <3>1, <3>2
  <2>2. QED
    BY <2>1
<1> HIDE DEF restricted, T
<1>9. IsFiniteSet(T) /\ Cardinality(T) = count
  <2>1. ExistsBijection(L, T)
    BY <1>7 DEF ExistsBijection
  <2>2. QED
    BY <1>2, <2>1, FS_Bijection
<1>10. Total(v, T) <= Total(v, L)
  <2>1. (\A x \in L : v[x] \in Int) /\ \A x \in T : v[x] \in Int
    BY <1>2, <1>5, <1>6
  <2>2. QED
    BY <1>2, <1>7, <1>8, <1>9, <2>1, TotalsCompare
<1>11. Total(v, Lowest(F, count)) <= Total(v, T)
  <2>1. count <= Cardinality(F) /\ \A x \in F : v[x] = x.value
    BY <1>1
  <2>2. QED
    BY <1>6, <1>9, <2>1, LowestSum
<1>12. /\ Total(v, Lowest(F, count)) \in Int /\ Total(v, T) \in Int
       /\ Total(v, L) \in Int
  <2>1. /\ \A x \in Lowest(F, count) : v[x] \in Int
        /\ \A x \in T : v[x] \in Int
        /\ \A x \in L : v[x] \in Int
    BY <1>2, <1>3, <1>5, <1>6
  <2>2. QED
    BY <1>2, <1>3, <1>9, <2>1, TotalPicked
<1>13. QED
  BY <1>10, <1>11, <1>12 DEF L

-----------------------------------------------------------------------------
(* A better score *)

(* Truncation toward zero keeps the order. *)
LEMMA TruncateMonotone ==
  ASSUME NEW a \in Int, NEW b \in Int, NEW d \in Nat \ {0}, a <= b
  PROVE  Truncate(a, d) <= Truncate(b, d) /\ Truncate(a, d) \in Int /\ Truncate(b, d) \in Int
<1>1. CASE a >= 0
  BY <1>1, DivMonotone DEF Truncate
<1>2. CASE b < 0
  <2>1. /\ (-b) \div d <= (-a) \div d
        /\ (-b) \div d \in Int /\ (-a) \div d \in Int
    BY DivMonotone
  <2>2. Truncate(a, d) = -((-a) \div d) /\ Truncate(b, d) = -((-b) \div d)
    BY <1>2 DEF Truncate
  <2>3. QED
    BY <2>1, <2>2
<1>3. CASE a < 0 /\ b >= 0
  <2>1. 0 \div d <= b \div d /\ b \div d \in Int
    BY <1>3, DivMonotone
  <2>2. 0 \div d <= (-a) \div d /\ (-a) \div d \in Int
    BY <1>3, DivMonotone
  <2>3. 0 \div d = 0
    OBVIOUS
  <2>4. Truncate(a, d) = -((-a) \div d) /\ Truncate(b, d) = b \div d
    BY <1>3 DEF Truncate
  <2>5. QED
    BY <2>1, <2>2, <2>3, <2>4
<1>4. QED
  BY <1>1, <1>2, <1>3

Values == [x \in Scores |-> x.value]

LEMMA AverageIsOfTotal ==
  ASSUME NEW S, IsFiniteSet(S), S \subseteq Scores
  PROVE  MapThenSumSet(LAMBDA d : d.value, S) = Total(Values, S)
<1> DEFINE P(it) == it = [s \in SUBSET S |->
             IF s = {} THEN 0
             ELSE (CHOOSE x \in s : TRUE).value + it[s \ {CHOOSE x \in s : TRUE}]]
<1>1. MapThenSumSet(LAMBDA d : d.value, S) = (CHOOSE it : P(it))[S]
  BY DEF MapThenSumSet, MapThenFoldSet
<1>2. ASSUME NEW it PROVE P(it) <=> Sums(it, Values, S)
  <2>1. ASSUME NEW s \in SUBSET S
        PROVE (IF s = {} THEN 0
             ELSE (CHOOSE x \in s : TRUE).value + it[s \ {CHOOSE x \in s : TRUE}])
              = IF s = {} THEN 0 ELSE Values[Pick(s)] + it[s \ {Pick(s)}]
    <3>1. s # {} => Pick(s) \in Scores
      BY DEF Pick
    <3>2. s # {} => Values[Pick(s)] = Pick(s).value
      BY <3>1 DEF Values
    <3>3. QED
      BY <3>2 DEF Pick
  <2>2. QED
    BY <2>1 DEF Sums
<1>3. \A x \in S : Values[x] \in Int
  BY DEF Values, Scores
<1> HIDE DEF P
<1>4. \E it : P(it)
  BY <1>2, <1>3, SumsExist
<1>5. P(CHOOSE it : P(it))
  BY <1>4
<1>6. Sums(CHOOSE it : P(it), Values, S)
  BY <1>2, <1>5
<1>7. S \in SUBSET S
  OBVIOUS
<1>8. (CHOOSE it : P(it))[S] = Total(Values, S)
  BY <1>3, <1>6, <1>7, TotalOfPart
<1>9. QED
  BY <1>1, <1>8

LEMMA TableRows ==
  \A row \in CountTable : /\ row.count \in Nat \ {0} /\ row.count <= row.min
                          /\ row.min \in Nat /\ row.adjustment \in Int
BY DEF CountTable

(* What a row of the table makes of the sum of the lowest scores. *)
RowIndex(row, total) == Truncate((Truncate(total, row.count) + row.adjustment) * 96, 10000)

LEMMA RowIndexMonotone ==
  ASSUME NEW row \in CountTable, NEW a \in Int, NEW b \in Int, a <= b
  PROVE  RowIndex(row, a) <= RowIndex(row, b) /\ RowIndex(row, a) \in Int
<1>1. row.count \in Nat \ {0} /\ row.adjustment \in Int
  BY TableRows
<1> DEFINE p == Truncate(a, row.count)
           q == Truncate(b, row.count)
<1>2. p <= q /\ p \in Int /\ q \in Int
  BY <1>1, TruncateMonotone
<1> HIDE DEF p, q
<1> DEFINE s == (p + row.adjustment) * 96
           t == (q + row.adjustment) * 96
<1>3. s \in Int /\ t \in Int /\ s <= t
  BY <1>1, <1>2
<1> HIDE DEF s, t
<1>4. Truncate(s, 10000) <= Truncate(t, 10000) /\ Truncate(s, 10000) \in Int
  BY <1>3, TruncateMonotone
<1>5. QED
  BY <1>4 DEF RowIndex, p, q, s, t

LEMMA IndexByRow ==
  ASSUME NEW S, IsFiniteSet(S), S \subseteq Scores, OneADay(S)
  PROVE  LET rows == {row \in CountTable : row.min <= Cardinality(S) /\ Cardinality(S) <= row.max}
             row  == CHOOSE row \in rows : TRUE
         IN  IndexOf(S) = IF rows = {} THEN NULL
                          ELSE RowIndex(row, Total(Values, Lowest(S, row.count)))
<1> DEFINE rows == {row \in CountTable : row.min <= Cardinality(S) /\ Cardinality(S) <= row.max}
           line == CHOOSE row \in rows : TRUE
<1>1. IndexOf(S) = IF rows = {} THEN NULL
        ELSE RowIndex(line, MapThenSumSet(LAMBDA d : d.value, Lowest(S, line.count)))
  BY DEF IndexOf, RowIndex
<1>2. rows # {} => line \in CountTable /\ line.count \in Nat /\ line.count <= Cardinality(S)
  <2>1. rows # {} => line \in CountTable /\ line.min <= Cardinality(S)
    OBVIOUS
  <2>2. Cardinality(S) \in Nat
    BY FS_CardinalityType
  <2> HIDE DEF line, rows
  <2>3. QED
    BY <2>1, <2>2, TableRows
<1> HIDE DEF rows, line
<1>3. ASSUME rows # {}
      PROVE  MapThenSumSet(LAMBDA d : d.value, Lowest(S, line.count)) = Total(Values, Lowest(S, line.count))
  <2> DEFINE L == Lowest(S, line.count)
  <2>1. L \subseteq S /\ IsFiniteSet(L)
    BY <1>2, <1>3, LowestMany
  <2> HIDE DEF L
  <2>2. MapThenSumSet(LAMBDA d : d.value, L) = Total(Values, L)
    BY <2>1, AverageIsOfTotal
  <2>3. QED
    BY <2>2 DEF L
<1>4. QED
  BY <1>1, <1>3 DEF rows, line

LEMMA BetterScoresIndex ==
  ASSUME NEW E, IsFiniteSet(E), E \subseteq Scores, OneADay(E),
         NEW F, IsFiniteSet(F), F \subseteq Scores, OneADay(F),
         NEW m \in Bijection(E, F), \A x \in E : m[x].value <= x.value,
         IndexOf(E) # NULL
  PROVE  IndexOf(F) <= IndexOf(E)
<1> DEFINE n == Cardinality(E)
           rows == {row \in CountTable : row.min <= n /\ n <= row.max}
           line == CHOOSE row \in rows : TRUE
<1>1. Cardinality(F) = n
  <2>1. ExistsBijection(E, F)
    BY DEF ExistsBijection
  <2>2. QED
    BY <2>1, FS_Bijection
<1>2. IndexOf(E) = IF rows = {} THEN NULL
                   ELSE RowIndex(line, Total(Values, Lowest(E, line.count)))
  BY IndexByRow
<1>3. IndexOf(F) = IF rows = {} THEN NULL
                   ELSE RowIndex(line, Total(Values, Lowest(F, line.count)))
  BY <1>1, IndexByRow
<1>4. rows # {}
  BY <1>2
<1>5. line \in CountTable /\ line.min <= n
  BY <1>4
<1>6. n \in Nat
  BY FS_CardinalityType
<1> HIDE DEF rows, line, n
<1>7. line.count \in Nat /\ line.count <= n
  BY <1>5, <1>6, TableRows
<1>8. \A x \in E \cup F : Values[x] = x.value
  BY DEF Values
<1>9. /\ Total(Values, Lowest(F, line.count)) <= Total(Values, Lowest(E, line.count))
      /\ Total(Values, Lowest(F, line.count)) \in Int
      /\ Total(Values, Lowest(E, line.count)) \in Int
  BY <1>7, <1>8, BetterScoresSum DEF n
<1>10. QED
  BY <1>2, <1>3, <1>4, <1>5, <1>9, RowIndexMonotone

(* A score after round r got better by `by`. *)
Reduced(x, r, by) == IF r \in x.rounds THEN Score(x.value - by, x.rounds, x.playedAt) ELSE x

(* A record that differs from another one by that score. *)
LowerBy(rec, changed, r, by, n) ==
  \A k \in 1 .. n : /\ rec[k] = NULL <=> changed[k] = NULL
                    /\ rec[k] # NULL => changed[k] = IF k = r THEN rec[k] - by ELSE rec[k]

(* Two walks found the same, but for that. *)
Lower(f, g, r, by, k) ==
  /\ g.pending = f.pending
  /\ f.pending # NULL => f.pending <= k
  /\ \A x \in f.resolved : x.playedAt <= k
  /\ OneADay(f.resolved)
  /\ g.resolved = {Reduced(x, r, by) : x \in f.resolved}

LEMMA ScoreAdded ==
  ASSUME NEW f, NEW g, NEW r, NEW by, NEW k \in Nat, f.resolved \subseteq Scores,
         Lower(f, g, r, by, k - 1), NEW y \in Scores, y.playedAt = k,
         NEW p \in Int \cup {NULL}, p # NULL => p = f.pending
  PROVE  Lower([resolved |-> f.resolved \cup {y}, pending |-> p],
               [resolved |-> g.resolved \cup {Reduced(y, r, by)}, pending |-> p], r, by, k)
<1> DEFINE A == f.resolved
           B == g.resolved
           z == Reduced(y, r, by)
           f2 == [resolved |-> A \cup {y}, pending |-> p]
           g2 == [resolved |-> B \cup {z}, pending |-> p]
<1>1. \A x \in A : x.playedAt \in Nat /\ x.playedAt <= k - 1
  BY DEF Lower, Scores
<1>2. \A x \in A \cup {y} : x.playedAt <= k
  BY <1>1
<1>3. OneADay(A \cup {y})
  <2>1. OneADay(A) /\ \A x \in A : x.playedAt # y.playedAt
    BY <1>1 DEF Lower
  <2>2. QED
    BY <2>1 DEF OneADay
<1>4. B \cup {z} = {Reduced(x, r, by) : x \in A \cup {y}}
  BY DEF Lower
<1>5. p # NULL => p <= k
  <2>1. f.pending # NULL => f.pending <= k - 1
    BY DEF Lower
  <2>2. p # NULL => p <= k - 1 /\ p \in Int
    BY <2>1
  <2>3. QED
    BY <2>2
<1>6. f2.resolved = A \cup {y} /\ f2.pending = p /\ g2.resolved = B \cup {z} /\ g2.pending = p
  OBVIOUS
<1> HIDE DEF f2, g2, A, B, z
<1>7. Lower(f2, g2, r, by, k)
  BY <1>2, <1>3, <1>4, <1>5, <1>6 DEF Lower
<1>8. QED
  BY <1>7 DEF f2, g2, A, B, z

LEMMA StepsKeepLower ==
  ASSUME NEW n \in Nat, NEW rec \in Records(n), NEW changed \in Records(n), NEW r \in Nat,
         NEW by \in Nat, LowerBy(rec, changed, r, by, n),
         NEW f \in Found(rec, n), NEW g \in Found(changed, n),
         NEW k \in 1 .. n, Lower(f, g, r, by, k - 1)
  PROVE  Lower(Step(f, rec, k), Step(g, changed, k), r, by, k)
<1>1. Cases(f, rec, k) /\ Cases(g, changed, k)
  BY StepCases
<1>2. /\ g.pending = f.pending
      /\ f.pending # NULL => f.pending \in 1 .. n /\ f.pending <= k - 1
      /\ f.resolved \subseteq Scores
  BY DEF Lower, Found
<1>3. /\ k \in Nat
      /\ rec[k] = NULL <=> changed[k] = NULL
      /\ rec[k] # NULL => rec[k] \in Int
      /\ rec[k] # NULL => changed[k] = IF k = r THEN rec[k] - by ELSE rec[k]
  BY DEF Records, LowerBy
<1>4. CASE rec[k] = NULL
  <2>1. Step(f, rec, k) = f /\ Step(g, changed, k) = g
    BY <1>1, <1>3, <1>4 DEF Cases
  <2>2. \A x \in f.resolved : x.playedAt \in Nat /\ x.playedAt <= k - 1
    BY <1>2 DEF Lower, Scores
  <2>3. (\A x \in f.resolved : x.playedAt <= k) /\ (f.pending # NULL => f.pending <= k)
    BY <1>2, <2>2
  <2>4. Lower(f, g, r, by, k)
    BY <2>3 DEF Lower
  <2>5. QED
    BY <2>1, <2>4
<1>5. CASE rec[k] # NULL /\ k \notin NineHole
  <2> DEFINE y == Score(rec[k], {k}, k)
  <2>1. y \in Scores /\ y.playedAt = k
    BY <1>3, <1>5 DEF Score, Scores
  <2>2. Reduced(y, r, by) = Score(changed[k], {k}, k)
    BY <1>3, <1>5 DEF Reduced, Score
  <2>3. /\ Step(f, rec, k) = [resolved |-> f.resolved \cup {y}, pending |-> f.pending]
        /\ Step(g, changed, k) =
             [resolved |-> g.resolved \cup {Reduced(y, r, by)}, pending |-> f.pending]
    BY <1>1, <1>2, <1>3, <1>5, <2>2 DEF Cases
  <2> HIDE DEF y
  <2>4. f.pending \in Int \cup {NULL}
    BY <1>2
  <2>5. Lower([resolved |-> f.resolved \cup {y}, pending |-> f.pending],
              [resolved |-> g.resolved \cup {Reduced(y, r, by)}, pending |-> f.pending], r, by, k)
    BY <1>2, <1>3, <2>1, <2>4, ScoreAdded
  <2>6. QED
    BY <2>3, <2>5
<1>6. CASE rec[k] # NULL /\ k \in NineHole /\ f.pending = NULL
  <2> DEFINE f2 == [resolved |-> f.resolved, pending |-> k]
             g2 == [resolved |-> g.resolved, pending |-> k]
  <2>1. Step(f, rec, k) = f2 /\ Step(g, changed, k) = g2
    BY <1>1, <1>2, <1>3, <1>6 DEF Cases
  <2>2. f2.resolved = f.resolved /\ f2.pending = k /\ g2.resolved = g.resolved /\ g2.pending = k
    OBVIOUS
  <2>3. \A x \in f.resolved : x.playedAt \in Nat /\ x.playedAt <= k - 1
    BY <1>2 DEF Lower, Scores
  <2>4. (\A x \in f.resolved : x.playedAt <= k) /\ k <= k
    BY <2>3
  <2> HIDE DEF f2, g2
  <2>5. Lower(f2, g2, r, by, k)
    BY <2>2, <2>4 DEF Lower
  <2>6. QED
    BY <2>1, <2>5
<1>7. CASE rec[k] # NULL /\ k \in NineHole /\ f.pending # NULL
  <2> DEFINE p == f.pending
             y == Score(rec[p] + rec[k], {p, k}, k)
  <2>1. p \in 1 .. n /\ p # k /\ rec[p] \in Int /\ p \in Nat
    BY <1>2, <1>7 DEF Found
  <2>2. changed[p] = IF p = r THEN rec[p] - by ELSE rec[p]
    <3>1. rec[p] # NULL
      BY <2>1, NullIsNoNumber
    <3>2. QED
      BY <2>1, <3>1 DEF LowerBy
  <2> HIDE DEF p
  <2>3. y \in Scores /\ y.playedAt = k
    BY <1>3, <1>7, <2>1 DEF Score, Scores
  <2>4. changed[p] + changed[k] = IF r \in {p, k} THEN (rec[p] + rec[k]) - by ELSE rec[p] + rec[k]
    BY <1>3, <1>7, <2>1, <2>2
  <2>5. Reduced(y, r, by) = Score(changed[p] + changed[k], {p, k}, k)
    BY <2>4 DEF Reduced, Score
  <2>6. /\ Step(f, rec, k) = [resolved |-> f.resolved \cup {y}, pending |-> NULL]
        /\ Step(g, changed, k) =
             [resolved |-> g.resolved \cup {Reduced(y, r, by)}, pending |-> NULL]
    BY <1>1, <1>2, <1>3, <1>7, <2>5 DEF Cases, p
  <2> HIDE DEF y
  <2>7. NULL \in Int \cup {NULL} /\ (NULL # NULL => NULL = f.pending)
    OBVIOUS
  <2>8. Lower([resolved |-> f.resolved \cup {y}, pending |-> NULL],
              [resolved |-> g.resolved \cup {Reduced(y, r, by)}, pending |-> NULL], r, by, k)
    BY <1>2, <1>3, <2>3, <2>7, ScoreAdded
  <2>9. QED
    BY <2>6, <2>8
<1>8. QED
  BY <1>4, <1>5, <1>6, <1>7

LEMMA WalksStayLower ==
  ASSUME NEW n \in Nat, NEW rec \in Records(n), NEW changed \in Records(n), NEW r \in Nat,
         NEW by \in Nat, LowerBy(rec, changed, r, by, n)
  PROVE  /\ Lower(Walk(rec), Walk(changed), r, by, n)
         /\ Walk(rec) \in Found(rec, n) /\ Walk(changed) \in Found(changed, n)
<1>1. PICK w \in [0 .. n -> Found(rec, n)] : Walked(w, rec, n) /\ Walk(rec) = w[n]
  BY WalkExists
<1>2. PICK v \in [0 .. n -> Found(changed, n)] : Walked(v, changed, n) /\ Walk(changed) = v[n]
  BY WalkExists
<1> DEFINE N == {k \in Nat : k <= n => Lower(w[k], v[k], r, by, k)}
<1>3. 0 \in N
  <2>1. w[0] = Start /\ v[0] = Start
    BY <1>1, <1>2 DEF Walked
  <2>2. QED
    BY <2>1 DEF Lower, Start, OneADay
<1>4. ASSUME NEW k \in Nat, k \in N PROVE k + 1 \in N
  <2> SUFFICES ASSUME k + 1 <= n PROVE Lower(w[k + 1], v[k + 1], r, by, k + 1)
    OBVIOUS
  <2> DEFINE j == k + 1
  <2>1. j \in 1 .. n /\ k \in 0 .. n /\ j - 1 = k /\ Lower(w[k], v[k], r, by, k)
    BY <1>4
  <2> HIDE DEF j
  <2>2. w[j] = Step(w[k], rec, j) /\ v[j] = Step(v[k], changed, j)
    BY <1>1, <1>2, <2>1 DEF Walked
  <2>3. w[k] \in Found(rec, n) /\ v[k] \in Found(changed, n) /\ Lower(w[k], v[k], r, by, j - 1)
    BY <2>1
  <2>4. Lower(Step(w[k], rec, j), Step(v[k], changed, j), r, by, j)
    BY <2>1, <2>3, StepsKeepLower
  <2>5. QED
    BY <2>2, <2>4 DEF j
<1>5. Nat \subseteq N
  <2> HIDE DEF N
  <2>1. QED
    BY <1>3, <1>4, AllNumbers
<1>6. QED
  BY <1>1, <1>2, <1>5

(* The scores considered are the same, but for that. *)
Considered(A) == {d \in A : Cardinality({e \in A : e.playedAt > d.playedAt}) < MaxEffective}

LEMMA ConsideredMatch ==
  ASSUME NEW A, IsFiniteSet(A), A \subseteq Scores, OneADay(A),
         NEW B, IsFiniteSet(B), B \subseteq Scores, NEW m \in [A -> B],
         \A x \in A : m[x].playedAt = x.playedAt, \A y \in B : \E x \in A : m[x] = y
  PROVE  /\ OneADay(B)
         /\ [x \in Considered(A) |-> m[x]] \in Bijection(Considered(A), Considered(B))
<1>1. \A x \in A, y \in A : m[x] = m[y] => x = y
  BY DEF OneADay
<1>2. OneADay(B)
  BY DEF OneADay
<1> DEFINE After(S, d) == {e \in S : e.playedAt > d}
<1>3. ASSUME NEW d PROVE Cardinality(After(A, d)) = Cardinality(After(B, d))
  <2> DEFINE a == After(A, d)
             b == After(B, d)
             r == [x \in a |-> m[x]]
  <2>1. /\ r \in [a -> b]
        /\ \A x \in a, y \in a : r[x] = r[y] => x = y
        /\ \A y \in b : \E x \in a : r[x] = y
    <3>1. \A x \in a : x \in A /\ m[x] \in b
      OBVIOUS
    <3>2. \A y \in b : \E x \in a : m[x] = y
      OBVIOUS
    <3> HIDE DEF a, b
    <3>3. QED
      BY <1>1, <3>1, <3>2
  <2>2. IsFiniteSet(a)
    BY FS_Subset
  <2> HIDE DEF a, b, r
  <2>3. r \in Bijection(a, b)
    BY <2>1, Fun_IsBij
  <2>4. ExistsBijection(a, b)
    BY <2>3 DEF ExistsBijection
  <2>5. Cardinality(b) = Cardinality(a)
    BY <2>2, <2>4, FS_Bijection
  <2>6. QED
    BY <2>5 DEF a, b
<1>4. \A d : d \in Considered(A) <=> d \in A /\ Cardinality(After(A, d.playedAt)) < MaxEffective
  BY DEF Considered
<1>5. \A d : d \in Considered(B) <=> d \in B /\ Cardinality(After(B, d.playedAt)) < MaxEffective
  BY DEF Considered
<1> HIDE DEF After
<1>6. \A x \in A : x \in Considered(A) <=> m[x] \in Considered(B)
  BY <1>3, <1>4, <1>5
<1> DEFINE E == Considered(A)
           F == Considered(B)
           r == [x \in E |-> m[x]]
<1>7. E \subseteq A /\ F \subseteq B
  BY <1>4, <1>5
<1> HIDE DEF E, F
<1>8. /\ r \in [E -> F]
      /\ \A x \in E, y \in E : r[x] = r[y] => x = y
      /\ \A y \in F : \E x \in E : r[x] = y
  <2>1. \A x \in E : x \in A /\ m[x] \in F
    BY <1>6, <1>7 DEF E, F
  <2>2. \A y \in F : \E x \in E : m[x] = y
    BY <1>6, <1>7 DEF E, F
  <2>3. QED
    BY <1>1, <2>1, <2>2
<1> HIDE DEF r
<1>9. r \in Bijection(E, F)
  BY <1>8, Fun_IsBij
<1>10. QED
  BY <1>2, <1>9 DEF E, F, r

(* The calculation is what HandicapIndex assumes of RawIndex: it gives a number, or none. *)
THEOREM CalculationTyped ==
  ASSUME NEW n \in Nat, NEW rec \in Records(n)
  PROVE  calculateHandicapIndex(rec) \in Int \cup {NULL}
<1> DEFINE A == Walk(rec).resolved
           E == Considered(A)
<1>1. LowerBy(rec, rec, 0, 0, n)
  BY DEF LowerBy, Records
<1>2. Lower(Walk(rec), Walk(rec), 0, 0, n) /\ Walk(rec) \in Found(rec, n)
  BY <1>1, WalksStayLower
<1>3. IsFiniteSet(A) /\ A \subseteq Scores /\ OneADay(A)
  BY <1>2 DEF Lower, Found
<1>4. calculateHandicapIndex(rec) = IndexOf(E)
  <2>1. Effective(rec) = E
    BY DEF Effective, Considered
  <2> HIDE DEF E
  <2>2. QED
    BY <2>1, IndexOfEffective
<1> HIDE DEF A
<1>5. IsFiniteSet(E) /\ E \subseteq Scores /\ OneADay(E)
  <2>1. E \subseteq A
    BY DEF Considered
  <2> HIDE DEF E
  <2>2. QED
    BY <1>3, <2>1, FS_Subset DEF OneADay
<1> HIDE DEF E
<1> DEFINE rows == {row \in CountTable : row.min <= Cardinality(E) /\ Cardinality(E) <= row.max}
           line == CHOOSE row \in rows : TRUE
<1>6. IndexOf(E) = IF rows = {} THEN NULL
                   ELSE RowIndex(line, Total(Values, Lowest(E, line.count)))
  BY <1>5, IndexByRow
<1>7. ASSUME rows # {} PROVE RowIndex(line, Total(Values, Lowest(E, line.count))) \in Int
  <2>1. line \in CountTable /\ line.min <= Cardinality(E)
    BY <1>7
  <2>2. Cardinality(E) \in Nat
    BY <1>5, FS_CardinalityType
  <2> HIDE DEF line, rows
  <2>3. line.count \in Nat /\ line.count <= Cardinality(E)
    BY <2>1, <2>2, TableRows
  <2> DEFINE L == Lowest(E, line.count)
  <2>4. L \subseteq E /\ IsFiniteSet(L)
    BY <1>5, <2>3, LowestMany
  <2> HIDE DEF L
  <2>5. \A x \in L : Values[x] \in Int
    BY <1>5, <2>4 DEF Values, Scores
  <2>6. Total(Values, L) \in Int
    BY <2>4, <2>5, TotalPicked
  <2>7. RowIndex(line, Total(Values, L)) \in Int
    BY <2>1, <2>6, RowIndexMonotone
  <2>8. QED
    BY <2>7 DEF L
<1> HIDE DEF rows, line
<1>8. QED
  BY <1>4, <1>6, <1>7

(* A lower differential never raises the index, in whatever pair or place of the record
   it is. *)
THEOREM BetterScore == MCSpec => []BetterScoreNeverHurts
<1>1. MCInit => LongIsRecord
  BY DEF MCInit, LongInit, LongIsRecord
<1>2. LongIsRecord => BetterScoreNeverHurts
  <2> SUFFICES ASSUME LongIsRecord, NEW r \in LongRound, NEW d \in LongDifferential,
                      long[r] # NULL, d < long[r], calculateHandicapIndex(long) # NULL
               PROVE  calculateHandicapIndex([long EXCEPT ![r] = d]) <= calculateHandicapIndex(long)
    BY DEF BetterScoreNeverHurts
  <2> DEFINE n == LongLast
             changed == [long EXCEPT ![r] = d]
             by == long[r] - d
             A == Walk(long).resolved
             B == Walk(changed).resolved
             E == Considered(A)
             F == Considered(B)
             m == [x \in A |-> Reduced(x, r, by)]
             r2 == [x \in E |-> m[x]]
  <2>1. n \in Nat /\ long \in Records(n) /\ changed \in Records(n)
    <3>1. changed \in [LongRound -> LongDifferential \cup {NULL}]
      BY DEF LongIsRecord
    <3>2. QED
      BY <3>1, LongRecords DEF LongIsRecord
  <2>2. r \in 1 .. n /\ d \in Int /\ d # NULL /\ long[r] \in Int
    BY LongAssumption, NullIsNoNumber DEF LongRound, LongIsRecord
  <2>3. changed[r] = d /\ \A k \in 1 .. n : k # r => changed[k] = long[k]
    BY <2>1, <2>2 DEF Records
  <2>4. by \in Nat /\ changed[r] = long[r] - by
    BY <2>2, <2>3
  <2> HIDE DEF changed, n, by
  <2>5. /\ Lower(Walk(long), Walk(changed), r, by, n)
        /\ Walk(long) \in Found(long, n) /\ Walk(changed) \in Found(changed, n)
    <3>1. LowerBy(long, changed, r, by, n) /\ r \in Nat
      BY <2>2, <2>3, <2>4 DEF LowerBy
    <3>2. QED
      BY <2>1, <2>4, <3>1, WalksStayLower
  <2>6. /\ IsFiniteSet(A) /\ IsFiniteSet(B) /\ A \subseteq Scores /\ B \subseteq Scores
        /\ OneADay(A) /\ B = {Reduced(x, r, by) : x \in A}
    BY <2>5 DEF Lower, Found
  <2>7. calculateHandicapIndex(long) = IndexOf(E) /\ calculateHandicapIndex(changed) = IndexOf(F)
    <3>1. Effective(long) = E /\ Effective(changed) = F
      BY DEF Effective, Considered
    <3> HIDE DEF E, F
    <3>2. QED
      BY <3>1, IndexOfEffective
  <2> HIDE DEF A, B
  <2>8. \A x \in A : Reduced(x, r, by).playedAt = x.playedAt /\ Reduced(x, r, by).value <= x.value
    <3>1. \A x \in A : x.value \in Int /\ x.value - by <= x.value
      BY <2>4, <2>6 DEF Scores
    <3>2. QED
      BY <3>1 DEF Reduced, Score
  <2>9. /\ m \in [A -> B]
        /\ \A x \in A : m[x].playedAt = x.playedAt /\ m[x].value <= x.value
        /\ \A y \in B : \E x \in A : m[x] = y
    BY <2>6, <2>8
  <2> HIDE DEF m
  <2>10. OneADay(B) /\ r2 \in Bijection(E, F)
    BY <2>6, <2>9, ConsideredMatch
  <2>11. E \subseteq A /\ F \subseteq B
    BY DEF Considered
  <2>12. \A x \in E : r2[x].value <= x.value
    BY <2>9, <2>11
  <2> HIDE DEF E, F, r2
  <2>13. /\ IsFiniteSet(E) /\ E \subseteq Scores /\ OneADay(E)
         /\ IsFiniteSet(F) /\ F \subseteq Scores /\ OneADay(F)
    BY <2>6, <2>10, <2>11, FS_Subset DEF OneADay
  <2>14. IndexOf(F) <= IndexOf(E)
    BY <2>7, <2>10, <2>12, <2>13, BetterScoresIndex
  <2>15. QED
    BY <2>7, <2>14 DEF changed
<1>3. QED
  BY <1>1, <1>2, LongStaysRecord, PTL DEF MCSpec

===============================================================================
