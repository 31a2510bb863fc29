----------------------------- MODULE RoundScoring -----------------------------
(***************************************************************************)
(* The scoring of a round's holes: the WHS arithmetic of                   *)
(* apps/api/src/application/scoring.service.ts, and addHoleScore of        *)
(* rounds.service.ts, which reads the tee configuration, computes the      *)
(* hole's net double bogey from it and from the round's playing handicap,  *)
(* and then writes both under the round's lock, while an administrator may *)
(* replace the tee's holes.  The round's status and its totals are         *)
(* RoundWorkflow's subject.                                                *)
(*                                                                         *)
(* Handicaps are in hundredths, ratings in tenths, differentials in        *)
(* thousandths of a stroke.                                                *)
(***************************************************************************)
EXTENDS Integers, FiniteSetsExt

CONSTANTS HoleCount,    \* of the tee configuration: 9 or 18
          Tees,         \* what its holes may be: number -> [par, strokeIndex]
          Handicaps,    \* playing handicaps a round may have
          Strokes,      \* what a player may enter
          Ratings,      \* [course, slope] of the tee
          Entries,      \* calls of addHoleScore
          NoScore       \* a hole without a score, a call that has not begun

ASSUME ScoringAssumption ==
  /\ HoleCount \in {9, 18}
  /\ Handicaps \subseteq Int
  /\ Strokes \subseteq Nat \ {0}
  /\ \A t \in Tees : /\ DOMAIN t \subseteq 1..18
                     /\ \A n \in DOMAIN t : t[n].par \in 3..6 /\ t[n].strokeIndex \in 1..18
  /\ \A r \in Ratings : r.course \in Nat /\ r.slope \in 55..155

VARIABLES handicap,     \* the round's, set when it was created
          tee,          \* the holes of its tee configuration
          card,         \* hole_scores: [strokes, netDoubleBogeyAdjusted]
          entry         \* what each call is about to write

scoringVars == <<handicap, tee, card, entry>>

Holes == UNION {DOMAIN t : t \in Tees}

-----------------------------------------------------------------------------
(* scoring.service.ts *)

RoundHalfUp(h) == (h + 50) \div 100

\* Mutant: the easiest holes of a plus player start one too late.
StrokesReceivedOffByOne(playingHandicap, strokeIndex, holeCount) ==
  LET h == RoundHalfUp(playingHandicap)
  IN IF h >= 0 THEN h \div holeCount + (IF strokeIndex <= h % holeCount THEN 1 ELSE 0)
     ELSE - ((-h) \div holeCount) - (IF strokeIndex > holeCount - ((-h) % holeCount) + 1 THEN 1 ELSE 0)

computeStrokesReceived(playingHandicap, strokeIndex, holeCount) ==
  LET h == RoundHalfUp(playingHandicap)
  IN IF h >= 0 THEN h \div holeCount + (IF strokeIndex <= h % holeCount THEN 1 ELSE 0)
     ELSE - ((-h) \div holeCount) - (IF strokeIndex > holeCount - ((-h) % holeCount) THEN 1 ELSE 0)

\* Mutant: above the cap, the excess is taken off the cap.
AdjustedOvershoots(strokes, playingHandicap, hole, holeCount) ==
  LET cap == hole.par + 2 + computeStrokesReceived(playingHandicap, hole.strokeIndex, holeCount)
  IN IF strokes <= cap THEN strokes ELSE Max({1, 2 * cap - strokes})

computeNetDoubleBogeyAdjustedScore(strokes, playingHandicap, hole, holeCount) ==
  LET received == computeStrokesReceived(playingHandicap, hole.strokeIndex, holeCount)
  IN Min({strokes, Max({1, hole.par + 2 + received})})

\* Number(x.toFixed(3)) of num/den thousandths.
ToFixed(num, den) ==
  IF num >= 0 THEN (2 * num + den) \div (2 * den) ELSE - ((den - 2 * num) \div (2 * den))

computeScoreDifferential(adjustedGrossScore, rating, pcc) ==
  ToFixed(11300 * (10 * (adjustedGrossScore - pcc) - rating.course), rating.slope)

(* findHole: a hole the tee does not have is an error. *)
HasHole(n) == n \in DOMAIN tee

computeHoleAdjustment(n, strokes) ==
  computeNetDoubleBogeyAdjustedScore(strokes, handicap, tee[n], HoleCount)

Scored == {n \in Holes : card[n] # NoScore}

AdjustedGross == MapThenSumSet(LAMBDA n : card[n].adjusted, Scored)

-----------------------------------------------------------------------------
(* addHoleScore *)

(* The tee is read, and the adjustment made, outside the transaction. *)
ReadTee(e) ==
  /\ entry[e] = NoScore
  /\ \E n \in Holes, s \in Strokes :
       /\ HasHole(n)
       /\ entry' = [entry EXCEPT ![e] =
            [hole |-> n, strokes |-> s, adjusted |-> computeHoleAdjustment(n, s)]]
  /\ UNCHANGED <<handicap, tee, card>>

(* The round is locked, and the score inserted or replaced. *)
WriteScore(e) ==
  /\ entry[e] # NoScore
  /\ card' = [card EXCEPT ![entry[e].hole] =
       [strokes |-> entry[e].strokes, adjusted |-> entry[e].adjusted]]
  /\ entry' = [entry EXCEPT ![e] = NoScore]
  /\ UNCHANGED <<handicap, tee>>

(* The round has been reviewed meanwhile, or the transaction fails. *)
EntryFails(e) ==
  /\ entry[e] # NoScore
  /\ entry' = [entry EXCEPT ![e] = NoScore]
  /\ UNCHANGED <<handicap, tee, card>>

(* PUT /tee-configurations/:id *)
ReplaceHoles ==
  /\ \E t \in Tees : tee' = t
  /\ UNCHANGED <<handicap, card, entry>>

ScoringInit ==
  /\ handicap \in Handicaps
  /\ tee \in Tees
  /\ card = [n \in Holes |-> NoScore]
  /\ entry = [e \in Entries |-> NoScore]

ScoringNext == ReplaceHoles \/ \E e \in Entries : ReadTee(e) \/ WriteScore(e) \/ EntryFails(e)

ScoringSpec == ScoringInit /\ [][ScoringNext]_scoringVars

-----------------------------------------------------------------------------

(* Handing the strokes out one at a time, the hardest hole first and round *)
(* again, or taking them back from the easiest one on.                     *)
DealtTo(strokeIndex) ==
  LET h == RoundHalfUp(handicap)
  IN IF h >= 0 THEN Cardinality({j \in 1..h : ((j - 1) % HoleCount) + 1 = strokeIndex})
     ELSE - Cardinality({j \in 1..(-h) : HoleCount - ((j - 1) % HoleCount) = strokeIndex})

(* "A plus-handicap player gives strokes back rather than receiving them,  *)
(* starting from the easiest holes" (scoring.service.ts:14): the division  *)
(* and remainder give each hole what dealing strokes one by one gives it.  *)
StrokesAreDealt ==
  \A i \in 1..HoleCount : computeStrokesReceived(handicap, i, HoleCount) = DealtTo(i)

(* One stroke fewer on a hole never makes the round's differential worse,  *)
(* whatever the cap on the hole, the tee's ratings and the PCC.            *)
BetterHoleNeverHurts ==
  \A n \in Scored, r \in Ratings, pcc \in {-1, 0, 3} :
    LET others == AdjustedGross - card[n].adjusted
        with(s) == computeScoreDifferential(others + computeHoleAdjustment(n, s), r, pcc)
    IN HasHole(n) => \A s \in Strokes : with(s) <= with(s + 1)

(* rounds.service.ts:558, on addHoleScore's unlocked read: "playingHandicap *)
(* and the tee configuration's own hole data never change after a          *)
(* round/course is created (no edit path exists for either)".  A score is  *)
(* then always adjusted for the hole it was played on.                     *)
AdjustmentsMatchTee ==
  \A n \in Scored : HasHole(n) => card[n].adjusted = computeHoleAdjustment(n, card[n].strokes)
=============================================================================
