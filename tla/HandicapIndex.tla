---------------------------- MODULE HandicapIndex ----------------------------
(***************************************************************************)
(* One player's Handicap Index in apps/api: the recalculation that every   *)
(* change of an approved round causes (recalculation.service.ts), and the  *)
(* history it and an administrator's override write through one function   *)
(* (handicap-history.repository.ts).  Each holds the player's row from its *)
(* first read to its commit, so each is one step; how they wait for each   *)
(* other is RoundWorkflow's subject.  Time is counted in units of which    *)
(* Window make the 365 days of the Low Handicap Index.                     *)
(***************************************************************************)
EXTENDS WhsCaps, Sequences, FiniteSets

CONSTANTS
  Last,            \* rounds are 1 .. Last, in the order they were played
  Differential,    \* differentials a round may have
  OverrideIndex,   \* indexes an administrator may set
  Window,
  RawIndex(_),     \* calculateHandicapIndex
  MaxClock,        \* bound on time
  MaxChanges       \* bound on the rows of the history

Round  == 1 .. Last
Record == [Round -> Differential \cup {NULL}]

ASSUME ConstantsType ==
  /\ Last \in Nat /\ Window \in Nat /\ MaxClock \in Nat /\ MaxChanges \in Nat
  /\ OverrideIndex \subseteq Int
  /\ NULL \notin Int

ASSUME RawIndexType == \A r \in Record : RawIndex(r) \in Int \cup {NULL}

VARIABLES
  record,      \* differentials of the approved rounds
  index, low,  \* players.handicap_index, players.low_handicap_index
  history,     \* the player's handicap_history, in the order written
  clock

vars == <<record, index, low, history, clock>>

Methods == {"calculated", "manual_override"}
Row     == [index : Int, on : Int, method : Methods]

-----------------------------------------------------------------------------
\* The rows a window that ends with `on` starts from; later ones count too.
Recent(rows, on) == {i \in DOMAIN rows : rows[i].on >= on - Window}

\* runRecordChange: only a change is recorded, and the minimum is taken with
\* the new row in place.
RecordChange(value, on, method) ==
  IF index = value THEN UNCHANGED <<index, low, history>>
  ELSE /\ Len(history) < MaxChanges
       /\ history' = Append(history, [index |-> value, on |-> on, method |-> method])
       /\ index' = value
       /\ \E i \in Recent(history', on) :
            /\ \A j \in Recent(history', on) : history'[i].index <= history'[j].index
            /\ low' = history'[i].index

\* runRecalculation: an ineligible record leaves the index as it is.
Recalculate(rec) ==
  IF RawIndex(rec) = NULL THEN UNCHANGED <<index, low, history>>
  ELSE RecordChange(applyWhsCaps(RawIndex(rec), low), clock, "calculated")

Init ==
  /\ record = [r \in Round |-> NULL]
  /\ index = NULL /\ low = NULL
  /\ history = <<>>
  /\ clock = 0

\* approveRound
Approve(r, d) ==
  /\ record[r] = NULL
  /\ record' = [record EXCEPT ![r] = d]
  /\ Recalculate(record')
  /\ UNCHANGED clock

\* rejectRound, reopenForAmendment, deleteRound of an approved round
Retract(r) ==
  /\ record[r] # NULL
  /\ record' = [record EXCEPT ![r] = NULL]
  /\ Recalculate(record')
  /\ UNCHANGED clock

\* recalculateDay rewrites the differentials in its own transaction, ...
Correct(r, d) ==
  /\ record[r] # NULL
  /\ record' = [record EXCEPT ![r] = d]
  /\ UNCHANGED <<index, low, history, clock>>

\* ... and recalculatePccForTeeConfigDay recalculates in another, if it comes to it.
RecalculateAfterCorrection ==
  /\ Recalculate(record)
  /\ UNCHANGED <<record, clock>>

\* createOverride, dated by the start of its transaction; it may have waited
\* for the player's row since.
Override(value, waited) ==
  /\ clock >= waited
  /\ RecordChange(value, clock - waited, "manual_override")
  /\ UNCHANGED <<record, clock>>

Tick ==
  /\ clock < MaxClock
  /\ clock' = clock + 1
  /\ UNCHANGED <<record, index, low, history>>

Next ==
  \/ \E r \in Round, d \in Differential : Approve(r, d) \/ Correct(r, d)
  \/ \E r \in Round : Retract(r)
  \/ RecalculateAfterCorrection
  \/ \E value \in OverrideIndex, waited \in {0, 1} : Override(value, waited)
  \/ Tick

Spec == Init /\ [][Next]_vars

-----------------------------------------------------------------------------
\* Types; an index, a low and a row of the history are written together, by one
\* transaction (handicap-history.repository.ts:138-175), and none is ever removed.
TypeOK ==
  /\ record \in Record
  /\ index \in Int \cup {NULL} /\ low \in Int \cup {NULL}
  /\ history \in Seq(Row)
  /\ clock \in Nat
  /\ index = NULL <=> history = <<>>
  /\ low = NULL <=> history = <<>>

\* The Low Handicap Index is never above the index: the row that set the index
\* is in every minimum (handicap-history.repository.ts:156-169).
LowBoundsIndex == index # NULL => low <= index

\* The last change is a calculation's.
Calculated == history # <<>> /\ history[Len(history)].method = "calculated"

\* An index the calculation set is within the hard cap of the Low Handicap Index
\* stored beside it, although the cap was applied with the low of an earlier
\* window (recalculation.service.ts:121, handicap-history.repository.ts:163).
IndexWithinHardCap == Calculated => index <= low + HardCap
===============================================================================
