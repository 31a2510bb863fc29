------------------------------ MODULE MCHandicap ------------------------------
(***************************************************************************)
(* The arithmetic of the handicap, side by side: a behaviour is one of     *)
(* HandicapIndex over the WHS calculation, which the cfg gives as RawIndex;*)
(* or one of a longer scoring record, as rounds are approved, retracted    *)
(* and corrected in any order; or one of RoundScoring.                     *)
(***************************************************************************)
EXTENDS HandicapIndex, WhsCalculation, RoundScoring

CONSTANTS
  LongLast,           \* rounds of the longer record, in the order they were played
  LongDifferential    \* differentials they may have

ASSUME LongAssumption == LongLast \in Nat /\ LongDifferential \subseteq Int

VARIABLE long         \* the longer record

\* A plus player's score, which truncation moves up, and an ordinary one.
MCDifferential == {-2150, 14250}

\* Handicaps on both sides of a rounding, of nothing, and of a stroke a hole.
MCHandicaps == {-950, -100, -50, 49, 50, 899, 1250}

\* A tee as it was rated; after a par and the order of its holes were corrected;
\* and after it lost a hole.
MCTees ==
  { <<[par |-> 4, strokeIndex |-> 9], [par |-> 3, strokeIndex |-> 1]>>,
    <<[par |-> 5, strokeIndex |-> 2], [par |-> 3, strokeIndex |-> 8]>>,
    <<[par |-> 4, strokeIndex |-> 9]>> }

MCRatings == {[course |-> 355, slope |-> 155], [course |-> 80, slope |-> 55]}

LongRound == 1 .. LongLast

ApproveLong(r, d) == long[r] = NULL /\ long' = [long EXCEPT ![r] = d]
RetractLong(r)    == long[r] # NULL /\ long' = [long EXCEPT ![r] = NULL]
CorrectLong(r, d) == long[r] # NULL /\ long' = [long EXCEPT ![r] = d]

LongNext ==
  \E r \in LongRound :
    RetractLong(r) \/ \E d \in LongDifferential : ApproveLong(r, d) \/ CorrectLong(r, d)

LongInit == long = [r \in LongRound |-> NULL]

Parts == {"index", "record", "scoring"}

VARIABLE part

MCInit ==
  /\ part \in Parts
  /\ Init /\ LongInit /\ ScoringInit
  /\ part # "scoring" =>   \* one initial state of the others is enough
       /\ handicap = CHOOSE h \in Handicaps : TRUE
       /\ tee = CHOOSE t \in Tees : TRUE

MCNext ==
  /\ \/ part = "index" /\ Next /\ UNCHANGED <<long, scoringVars>>
     \/ part = "record" /\ LongNext /\ UNCHANGED <<vars, scoringVars>>
     \/ part = "scoring" /\ ScoringNext /\ UNCHANGED <<vars, long>>
  /\ UNCHANGED part

MCSpec == MCInit /\ [][MCNext]_<<vars, long, scoringVars, part>>

-----------------------------------------------------------------------------
Nines == {r \in LongRound \cap NineHole : long[r] # NULL}

Rank(r) == Cardinality({s \in Nines : s <= r})

Pairs == {{r, s} : r, s \in Nines}

OddWithNext == {p \in Pairs : \E r, s \in p : Rank(r) % 2 = 1 /\ Rank(s) = Rank(r) + 1}

\* The nine-hole rounds pair in the order they were played, the first with the
\* second, the third with the fourth, and only the last one may be without a
\* partner (whs-calculation.ts:107-121).
PairsOldestFirst ==
  LET walk == Walk(long)
  IN /\ {d.rounds : d \in walk.resolved} \cap Pairs = OddWithNext
     /\ {walk.pending} \ {NULL} = Nines \ UNION OddWithNext

\* A lower differential never raises the index, in whatever pair or place of the
\* record it is: neither the selection nor the truncation of the average and of
\* the index turns the order round (whs-calculation.ts:217-220).
BetterScoreNeverHurts ==
  \A r \in LongRound, d \in LongDifferential :
    (long[r] # NULL /\ d < long[r] /\ calculateHandicapIndex(long) # NULL) =>
      calculateHandicapIndex([long EXCEPT ![r] = d]) <= calculateHandicapIndex(long)

\* Once the scores considered are all more recent, an 18-hole round has no
\* influence on the index: not its differential, and not whether it is approved
\* at all (Rule 5.1, whs-calculation.ts:181).
AgedScoresAreInert ==
  \A r \in LongRound \ NineHole, d \in LongDifferential \cup {NULL} :
    Cardinality({e \in Walk(long).resolved : e.playedAt > r}) >= MaxEffective =>
      calculateHandicapIndex([long EXCEPT ![r] = d]) = calculateHandicapIndex(long)
===============================================================================
