---------------------------- MODULE WhsCalculation ----------------------------
(***************************************************************************)
(* The WHS calculation of apps/api/src/application/whs-calculation.ts: a   *)
(* raw Handicap Index from a scoring record.  A record maps the rounds     *)
(* 1 .. n, in the order they were played, to their differentials, NULL if  *)
(* not approved.  Differentials are in thousandths of a stroke, indexes in *)
(* tenths.                                                                 *)
(***************************************************************************)
EXTENDS WhsCaps, FiniteSetsExt

CONSTANTS
  NineHole,       \* the rounds of nine holes
  MaxEffective    \* the scores considered, 20 in the code

ASSUME CalculationAssumption == MaxEffective \in Nat

\* WHS_COUNT_TABLE
CountTable ==
  { [min |->  3, max |->  3, count |-> 1, adjustment |-> -2000],
    [min |->  4, max |->  4, count |-> 1, adjustment |-> -1000],
    [min |->  5, max |->  5, count |-> 1, adjustment |-> 0],
    [min |->  6, max |->  6, count |-> 2, adjustment |-> -1000],
    [min |->  7, max |->  8, count |-> 2, adjustment |-> 0],
    [min |->  9, max |-> 11, count |-> 3, adjustment |-> 0],
    [min |-> 12, max |-> 14, count |-> 4, adjustment |-> 0],
    [min |-> 15, max |-> 16, count |-> 5, adjustment |-> 0],
    [min |-> 17, max |-> 18, count |-> 6, adjustment |-> 0],
    [min |-> 19, max |-> 19, count |-> 7, adjustment |-> 0],
    [min |-> 20, max |-> 20, count |-> 8, adjustment |-> 0] }

-----------------------------------------------------------------------------
\* A score of 18 holes, completed by round r.
Score(v, rounds, r) == [value |-> v, rounds |-> rounds, playedAt |-> r]

\* Mutant: nine holes that found a partner go on waiting.
PairUpAgain(before, record, r) ==
  [before EXCEPT !.resolved =
     @ \cup {Score(record[before.pending] + record[r], {before.pending, r}, r)}]

\* Nine holes complete those that wait for them.
PairUp(before, record, r) ==
  [resolved |-> before.resolved \cup
                  {Score(record[before.pending] + record[r], {before.pending, r}, r)},
   pending  |-> NULL]

\* The loop of buildEffectiveDifferentials, oldest round first: the scores
\* resolved so far, and the nine holes that wait for their partner.
Walk(record) ==
  LET walk[r \in 0 .. Cardinality(DOMAIN record)] ==
        IF r = 0 THEN [resolved |-> {}, pending |-> NULL]
        ELSE LET before == walk[r - 1]
             IN CASE record[r] = NULL -> before
                  [] record[r] # NULL /\ r \notin NineHole ->
                       [before EXCEPT !.resolved = @ \cup {Score(record[r], {r}, r)}]
                  [] record[r] # NULL /\ r \in NineHole /\ before.pending = NULL ->
                       [before EXCEPT !.pending = r]
                  [] OTHER -> PairUp(before, record, r)
  IN walk[Cardinality(DOMAIN record)]

\* Mutant: the slice of the oldest scores.
EffectiveOldest(record) ==
  LET resolved == Walk(record).resolved
  IN {d \in resolved : Cardinality({e \in resolved : e.playedAt < d.playedAt}) < MaxEffective}

\* effectiveDifferentials: the most recent ones.
Effective(record) ==
  LET resolved == Walk(record).resolved
  IN {d \in resolved : Cardinality({e \in resolved : e.playedAt > d.playedAt}) < MaxEffective}

\* discardedNineHoleRoundId, as a set: waiting nine holes played before all of
\* a full complement of scores.
Discarded(record) ==
  {r \in {Walk(record).pending} \ {NULL} :
     /\ Cardinality(Effective(record)) = MaxEffective
     /\ \A d \in Effective(record) : r < d.playedAt}

\* The lowest count of the scores; of equal ones, the most recent first.
Lowest(scores, count) ==
  LET before(d, e) == d.value < e.value \/ (d.value = e.value /\ d.playedAt > e.playedAt)
  IN {d \in scores : Cardinality({e \in scores : before(e, d)}) < count}

\* calculateHandicapIndex: NULL below the first row of the table ("insufficient_holes").
calculateHandicapIndex(record) ==
  LET scores  == Effective(record)
      n       == Cardinality(scores)
      entries == {row \in CountTable : row.min <= n /\ n <= row.max}
      entry   == CHOOSE row \in entries : TRUE
      average == Truncate(MapThenSumSet(LAMBDA d : d.value, Lowest(scores, entry.count)), entry.count)
  IN IF entries = {} THEN NULL ELSE Truncate((average + entry.adjustment) * 96, 10000)
===============================================================================
