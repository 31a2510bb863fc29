------------------------- MODULE RoundWorkflowProofs -------------------------
(* Proofs about RoundWorkflow, for every value of its constants. *)
EXTENDS RoundWorkflow, SequenceTheorems, FiniteSetTheorems, TLAPS

(* What a client remembers stays well-typed as each of its reads is noted. *)
LEMMA MemoryType ==
  /\ Blank \in Memory
  /\ \A m \in Memory :
       /\ \A d \in Day : [m EXCEPT !.day = d] \in Memory
       /\ \A k \in Card : [m EXCEPT !.card = k] \in Memory
       /\ \A v \in Pcc : [m EXCEPT !.pcc = v] \in Memory
       /\ \A D \in Index : [m EXCEPT !.differentials = D] \in Memory
BY DEF Blank, Memory, Index

(* A client that is not idle has a well-typed request. *)
LEMMA RequestedType ==
  \A c \in Client : TypeOK /\ RequestInv /\ pc[c] # "idle"
    => req[c] \in Requested /\ Op(c) \in AllOps /\ R(c) \in Round /\ Pl(c) \in Player
BY ConstantsType DEF TypeOK, RequestInv, Requested, Op, R, Pl

(* The differentials of any rounds are a possible index. *)
LEMMA DifferentialsType ==
  ASSUME TypeOK, NEW S \in SUBSET Round
  PROVE  Differentials(S) \in Index
BY DEF TypeOK, Differentials, Index

(* Answering a request keeps the clients' variables well-typed. *)
LEMMA AnswerType ==
  ASSUME TypeOK, NEW c \in Client, Answer(c)
  PROVE  /\ pc' \in [Client -> Steps] /\ req' \in [Client -> Requested \cup {NoReq}]
         /\ seen' \in [Client -> Memory]
BY MemoryType DEF TypeOK, Answer, Steps

(* Releasing a transaction's rows keeps the lock tables well-typed. *)
LEMMA ReleaseType ==
  ASSUME TypeOK, NEW x, Release(x)
  PROVE  /\ roundLock' \in [Round -> Client \cup {NULL}]
         /\ playerLock' \in [Player -> Client \cup Corrector \cup {NULL}]
         /\ pccLock' \in [Day -> Corrector \cup {NULL}]
BY DEF TypeOK, Release

(* A recalculation writes a well-typed index and notification. *)
LEMMA RecalculatedType ==
  ASSUME TypeOK, NEW p \in Player, NEW D \in Index, NEW silently, Recalculated(p, D, silently)
  PROVE  index' \in [Player -> Index] /\ told' \in [Player -> Index]
BY DEF TypeOK, Recalculated, players

(* What the six transitions have in common keeps its types. *)
LEMMA TransitionType ==
  ASSUME TypeOK, NEW c \in Client, R(c) \in Round, Pl(c) \in Player,
         NEW to \in Statuses, Transition(c, to)
  PROVE  /\ status' \in [Round -> Statuses] /\ card' \in [Round -> Card]
         /\ day' \in [Round -> Day] /\ agg' \in [Round -> Agg \cup {NULL}]
         /\ dailyPcc' \in [Day -> Pcc]
         /\ index' \in [Player -> Index] /\ told' \in [Player -> Index]
         /\ roundLock' \in [Round -> Client \cup {NULL}]
         /\ playerLock' \in [Player -> Client \cup Corrector \cup {NULL}]
         /\ pccLock' \in [Day -> Corrector \cup {NULL}]
         /\ chain' \in [Round -> Seq(Client)]
         /\ fix' \in [Corrector -> Correction]
         /\ faults' \in 0 .. MaxFaults
<1>1. index' \in [Player -> Index] /\ told' \in [Player -> Index]
  <2>1. CASE Recalculates(Op(c), R(c))
    <3>1. seen[c].differentials \in Index
      BY DEF TypeOK, Memory
    <3> QED BY <2>1, <3>1, RecalculatedType DEF Transition
  <2>2. CASE ~Recalculates(Op(c), R(c))
    BY <2>2 DEF TypeOK, Transition, players
  <2> QED BY <2>1, <2>2
<1> QED BY <1>1, ReleaseType DEF TypeOK, Transition

(* The history entry a transition records is a well-typed one. *)
LEMMA NotifiedType ==
  ASSUME TypeOK, NEW r \in Round, NEW event \in Events, Notified(r, event)
  PROVE  note' \in [Round -> Events \cup {NULL}]
BY DEF TypeOK, Notified

(* A chain stays a sequence of clients when its head leaves. *)
LEMMA SettleType ==
  ASSUME TypeOK, RequestInv, NEW c \in Client, pc[c] # "idle", MyTurn(c), Settle(c)
  PROVE  chain' \in [Round -> Seq(Client)]
<1>1. R(c) \in Round
  BY RequestedType
<1>2. chain[R(c)] \in Seq(Client) /\ chain[R(c)] # <<>>
  BY <1>1 DEF TypeOK, MyTurn
<1> QED BY <1>1, <1>2, HeadTailProperties DEF TypeOK, Settle

(* A correction that moves on to its next player stays well-typed. *)
LEMMA NextPlayerType ==
  ASSUME TypeOK, NEW a \in Corrector, NextPlayer(a)
  PROVE  fix' \in [Corrector -> Correction]
BY DEF TypeOK, NextPlayer, Correction, NoFix, Index

(* No request is mistaken for the absence of one. *)
LEMMA RequestsAreRequests ==
  \A op \in AllOps, r \in Round : [op |-> op, round |-> r] # NoReq
BY ConstantsType DEF NoReq

(* A call that settles is its chain's head, so no other head is lost. *)
LEMMA SettleKeepsTurns ==
  ASSUME TypeOK, RequestInv, NEW c \in Client, NEW d \in Client, c # d,
         pc[c] # "idle", pc[d] # "idle", MyTurn(c), MyTurn(d), Settle(c), req'[d] = req[d]
  PROVE  MyTurn(d)'
<1>1. R(c) \in Round /\ R(d) \in Round
  BY RequestedType
<1>2. R(c) # R(d)
  BY DEF MyTurn
<1>3. chain'[R(d)] = chain[R(d)]
  BY <1>1, <1>2 DEF Settle, TypeOK
<1> QED BY <1>3 DEF MyTurn, R

(* What a rescore has read is not forgotten by the steps of others. *)
LEMMA KeepsHasRead ==
  ASSUME NEW d \in Client, HasRead(d), pc'[d] = pc[d], req'[d] = req[d], seen'[d] = seen[d],
         pc[d] \in {"holes", "pcc", "write"} /\ MyTurn(d) => MyTurn(d)'
  PROVE  HasRead(d)'
BY DEF HasRead

(* A round's tee changes only when it is replaced, and is only counted by the
   submission that takes the round's lock. *)
LEMMA TeeSteps ==
  ASSUME Next
  PROVE  \/ UNCHANGED tees
         \/ \E c \in Client : LockRound(c)
         \/ \E r \in Round : ReplaceTee(r)
<1>1. ASSUME NEW c \in Client, Step(c), ~LockRound(c)
      PROVE  UNCHANGED tees
  BY <1>1
     DEF Step, CheckApprovable, Refuse, ReadDifferentials, Transition, CommitSubmit,
         CommitAdminSubmit, CommitApprove, CommitReject, CommitDelete, CommitReopen, CommitHole,
         CommitDate, CommitRemarks, RereadAfterDate, EnqueueRescore, ReadRow, ReadHoles, ReadPcc,
         WriteScores, RescoreGone
<1>2. ASSUME NEW c \in Client, Rollback(c) \/ RescoreFails(c)
      PROVE  UNCHANGED tees
  BY <1>2 DEF Rollback, RescoreFails
<1>3. ASSUME \/ \E r \in Round : CreateRound(r)
             \/ \E c \in Client, op \in AllOps, r \in Round : Request(c, op, r)
             \/ \E a \in Corrector, d \in Day, v \in Pcc : StartCorrection(a, d, v)
             \/ \E a \in Corrector : CorrectorStep(a) \/ AffectedFails(a)
             \/ Restart
      PROVE  UNCHANGED tees
  BY <1>3 DEF CreateRound, Request, StartCorrection, CorrectorStep, ApplyPcc, ReadAffected,
              CommitAffected, AffectedFails, Restart
<1> QED BY <1>1, <1>2, <1>3 DEF Next

(* The tees of the rounds stay well-typed. *)
LEMMA TeesType ==
  ASSUME IInv, Next
  PROVE  asks' \in [Round -> HoleCounts] /\ outgrown' \in SUBSET Round
<1>1. CASE UNCHANGED tees
  BY <1>1 DEF IInv, TypeOK, tees
<1>2. ASSUME NEW c \in Client, LockRound(c)
      PROVE  asks' \in [Round -> HoleCounts] /\ outgrown' \in SUBSET Round
  BY <1>2 DEF IInv, TypeOK, LockRound, CountsHoles
<1>3. ASSUME NEW r \in Round, ReplaceTee(r)
      PROVE  asks' \in [Round -> HoleCounts] /\ outgrown' \in SUBSET Round
  BY <1>3 DEF IInv, TypeOK, ReplaceTee
<1> QED BY <1>1, <1>2, <1>3, TeeSteps

(* Every step keeps every variable's type. *)
LEMMA TypeStep ==
  ASSUME IInv, Next
  PROVE  TypeOK'
<1>0. asks' \in [Round -> HoleCounts] /\ outgrown' \in SUBSET Round
  BY TeesType
<1> USE ConstantsType, <1>0
<1>1. ASSUME NEW r \in Round, CreateRound(r)
      PROVE  TypeOK'
  <2>1. PICK k \in Card : card' = [card EXCEPT ![r] = k]
    BY <1>1 DEF CreateRound
  <2> QED
    BY <1>1, <2>1 DEF IInv, TypeOK, CreateRound, Statuses, players, locks, clients
<1>2. ASSUME NEW c \in Client, NEW op \in AllOps, NEW r \in Round, Request(c, op, r)
      PROVE  TypeOK'
  BY <1>2 DEF IInv, TypeOK, Request, Requested, Goto, Steps, rows, players, locks
<1>3. ASSUME NEW c \in Client, CheckApprovable(c)
      PROVE  TypeOK'
  BY <1>3, AnswerType DEF IInv, TypeOK, CheckApprovable, Goto, Steps, rows, players, locks
<1>4. ASSUME NEW c \in Client, LockRound(c)
      PROVE  TypeOK'
  BY <1>4 DEF IInv, TypeOK, LockRound, Goto, Steps, rows, players
<1>5. ASSUME NEW c \in Client, Refuse(c)
      PROVE  TypeOK'
  BY <1>5, AnswerType DEF IInv, TypeOK, Refuse, Steps, rows, players, locks
<1>6. ASSUME NEW c \in Client, ReadDifferentials(c)
      PROVE  TypeOK'
  <2>1. ApprovedFor(c) \in SUBSET Round
    BY <1>6, RequestedType DEF IInv, ReadDifferentials, ApprovedFor, ApprovedRounds
  <2> QED
    BY <1>6, <2>1, RequestedType, DifferentialsType, MemoryType
       DEF IInv, TypeOK, ReadDifferentials, Goto, Steps, rows, players
<1>7. ASSUME NEW c \in Client, CommitSubmit(c)
      PROVE  TypeOK'
  <2>1. R(c) \in Round /\ Pl(c) \in Player
    BY <1>7, RequestedType DEF IInv, CommitSubmit
  <2> QED
    BY <1>7, <2>1, AnswerType, TransitionType, NotifiedType
       DEF IInv, TypeOK, CommitSubmit, Goto, Steps, Events, Statuses
<1>8. ASSUME NEW c \in Client, CommitAdminSubmit(c)
      PROVE  TypeOK'
  <2>1. R(c) \in Round /\ Pl(c) \in Player
    BY <1>8, RequestedType DEF IInv, CommitAdminSubmit
  <2>2. req' \in [Client -> Requested \cup {NoReq}]
    BY <1>8, <2>1 DEF IInv, TypeOK, CommitAdminSubmit, Requested, AllOps
  <2> QED
    BY <1>8, <2>1, <2>2, TransitionType
       DEF IInv, TypeOK, CommitAdminSubmit, Goto, Steps, Statuses
<1>9. ASSUME NEW c \in Client, CommitApprove(c)
      PROVE  TypeOK'
  <2>1. R(c) \in Round /\ Pl(c) \in Player
    BY <1>9, RequestedType DEF IInv, CommitApprove
  <2> QED
    BY <1>9, <2>1, AnswerType, TransitionType, NotifiedType
       DEF IInv, TypeOK, CommitApprove, Steps, Events, Statuses
<1>10. ASSUME NEW c \in Client, CommitReject(c)
      PROVE  TypeOK'
  <2>1. R(c) \in Round /\ Pl(c) \in Player
    BY <1>10, RequestedType DEF IInv, CommitReject
  <2> QED
    BY <1>10, <2>1, AnswerType, TransitionType, NotifiedType
       DEF IInv, TypeOK, CommitReject, Steps, Events, Statuses
<1>11. ASSUME NEW c \in Client, CommitDelete(c)
      PROVE  TypeOK'
  <2>1. R(c) \in Round /\ Pl(c) \in Player
    BY <1>11, RequestedType DEF IInv, CommitDelete
  <2> QED
    BY <1>11, <2>1, AnswerType, TransitionType, NotifiedType
       DEF IInv, TypeOK, CommitDelete, Steps, Events, Statuses
<1>12. ASSUME NEW c \in Client, CommitReopen(c)
      PROVE  TypeOK'
  <2>1. R(c) \in Round /\ Pl(c) \in Player
    BY <1>12, RequestedType DEF IInv, CommitReopen
  <2> QED
    BY <1>12, <2>1, AnswerType, TransitionType, NotifiedType
       DEF IInv, TypeOK, CommitReopen, Steps, Events, Statuses
<1>13. ASSUME NEW c \in Client, CommitHole(c)
      PROVE  TypeOK'
  <2>1. R(c) \in Round
    BY <1>13, RequestedType DEF IInv, CommitHole
  <2>2. card' \in [Round -> Card]
    <3>1. PICK h \in Hole, s \in Score : card' = [card EXCEPT ![R(c)][h] = s]
      BY <1>13 DEF CommitHole
    <3> QED BY <2>1, <3>1 DEF IInv, TypeOK, Card
  <2> QED
    BY <1>13, <2>1, <2>2, AnswerType, ReleaseType
       DEF IInv, TypeOK, CommitHole, Goto, Steps, players
<1>14. ASSUME NEW c \in Client, CommitDate(c)
      PROVE  TypeOK'
  <2>1. R(c) \in Round
    BY <1>14, RequestedType DEF IInv, CommitDate
  <2> QED
    BY <1>14, <2>1, ReleaseType DEF IInv, TypeOK, CommitDate, Goto, Steps, players
<1>15. ASSUME NEW c \in Client, CommitRemarks(c)
      PROVE  TypeOK'
  BY <1>15, AnswerType, ReleaseType DEF IInv, TypeOK, CommitRemarks, rows, players
<1>16. ASSUME NEW c \in Client, RereadAfterDate(c)
      PROVE  TypeOK'
  BY <1>16, AnswerType DEF IInv, TypeOK, RereadAfterDate, Goto, Steps, rows, players, locks
<1>17. ASSUME NEW c \in Client, EnqueueRescore(c)
      PROVE  TypeOK'
  <2>1. R(c) \in Round /\ chain[R(c)] \in Seq(Client)
    BY <1>17, RequestedType DEF IInv, TypeOK, EnqueueRescore
  <2>2. Append(chain[R(c)], c) \in Seq(Client)
    BY <2>1
  <2> QED
    BY <1>17, <2>1, <2>2 DEF IInv, TypeOK, EnqueueRescore, Goto, Steps, rows, players, locks
<1>18. ASSUME NEW c \in Client, ReadRow(c)
      PROVE  TypeOK'
  <2>1. R(c) \in Round
    BY <1>18, RequestedType DEF IInv, ReadRow
  <2> QED
    BY <1>18, <2>1, MemoryType
       DEF IInv, TypeOK, RescoreInv, HasRead, ReadRow, Goto, Steps, rows, players, locks
<1>19. ASSUME NEW c \in Client, ReadHoles(c)
      PROVE  TypeOK'
  <2>1. R(c) \in Round
    BY <1>19, RequestedType DEF IInv, ReadHoles
  <2> QED
    BY <1>19, <2>1, MemoryType
       DEF IInv, TypeOK, RescoreInv, HasRead, ReadHoles, Goto, Steps, rows, players, locks
<1>20. ASSUME NEW c \in Client, ReadPcc(c)
      PROVE  TypeOK'
  <2>1. R(c) \in Round
    BY <1>20, RequestedType DEF IInv, ReadPcc
  <2> QED
    BY <1>20, <2>1, MemoryType
       DEF IInv, TypeOK, RescoreInv, HasRead, ReadPcc, Goto, Steps, rows, players, locks
<1>21. ASSUME NEW c \in Client, WriteScores(c)
      PROVE  TypeOK'
  <2>1. R(c) \in Round /\ [card |-> seen[c].card, pcc |-> seen[c].pcc] \in Agg
    BY <1>21, RequestedType DEF IInv, RescoreInv, HasRead, WriteScores, Agg
  <2>2. chain' \in [Round -> Seq(Client)]
    BY <1>21, SettleType DEF IInv, RescoreInv, HasRead, WriteScores
  <2>3. /\ pc' \in [Client -> Steps] /\ req' \in [Client -> Requested \cup {NoReq}]
        /\ seen' \in [Client -> Memory]
    <3>1. CASE Op(c) = "approve"
      <4>1. pc' = [pc EXCEPT ![c] = "lock"] /\ seen' = [seen EXCEPT ![c] = Blank] /\ req' = req
        BY <1>21, <3>1 DEF WriteScores, Goto
      <4> QED BY <4>1, MemoryType DEF IInv, TypeOK, Steps
    <3>2. CASE Op(c) # "approve"
      BY <1>21, <3>2, AnswerType DEF IInv, TypeOK, WriteScores
    <3> QED BY <3>1, <3>2
  <2> QED
    BY <1>21, <2>1, <2>2, <2>3 DEF IInv, TypeOK, WriteScores, players, locks
<1>22. ASSUME NEW c \in Client, RescoreGone(c)
      PROVE  TypeOK'
  <2>1. pc[c] \in {"row", "holes", "pcc", "write"} /\ MyTurn(c)
    BY <1>22 DEF IInv, RescoreInv, HasRead, RescoreGone
  <2> QED
    BY <1>22, <2>1, AnswerType, SettleType DEF IInv, TypeOK, RescoreGone, rows, players, locks
<1>23. ASSUME NEW c \in Client, Rollback(c)
      PROVE  TypeOK'
  BY <1>23, AnswerType, ReleaseType DEF IInv, TypeOK, Rollback, rows, players
<1>24. ASSUME NEW c \in Client, RescoreFails(c)
      PROVE  TypeOK'
  <2>1. pc[c] \in {"row", "holes", "pcc", "write"} /\ MyTurn(c)
    BY <1>24 DEF IInv, RescoreInv, HasRead, RescoreFails
  <2> QED
    BY <1>24, <2>1, AnswerType, SettleType DEF IInv, TypeOK, RescoreFails, rows, players, locks
<1>25. ASSUME NEW a \in Corrector, NEW d \in Day, NEW v \in Pcc, StartCorrection(a, d, v)
      PROVE  TypeOK'
  <2>1. [NoFix EXCEPT !.step = "apply", !.day = d, !.pcc = v,
          !.targets = {r \in Round : Exists(r) /\ day[r] = d /\ agg[r] # NULL}] \in Correction
    BY DEF NoFix, Correction, Index
  <2> QED
    BY <1>25, <2>1 DEF IInv, TypeOK, StartCorrection, rows, players, clients
<1>26. ASSUME NEW a \in Corrector, ApplyPcc(a)
      PROVE  TypeOK'
  <2> DEFINE hit == {r \in fix[a].targets : Exists(r) /\ day[r] = fix[a].day}
  <2>1. fix[a].targets \in SUBSET Round /\ fix[a].day \in Day /\ fix[a].pcc \in Pcc
        /\ \A r \in fix[a].targets : agg[r] # NULL
    BY <1>26 DEF IInv, TypeOK, CorrectionInv, Correcting, Correction, ApplyPcc
  <2>2. NoFix \in Correction
        /\ [NoFix EXCEPT !.step = "players", !.todo = {PlayerOf[r] : r \in hit}] \in Correction
    <3>1. {PlayerOf[r] : r \in hit} \in SUBSET Player
      BY <2>1
    <3> QED BY <3>1 DEF NoFix, Correction, Index
  <2>3. \A r \in hit : [agg[r] EXCEPT !.pcc = fix[a].pcc] \in Agg
    <3> SUFFICES ASSUME NEW r \in hit PROVE [agg[r] EXCEPT !.pcc = fix[a].pcc] \in Agg
      OBVIOUS
    <3>1. agg[r] \in Agg
      BY <2>1 DEF IInv, TypeOK
    <3> QED BY <2>1, <3>1 DEF Agg
  <2>4. agg' \in [Round -> Agg \cup {NULL}]
    BY <1>26, <2>3 DEF IInv, TypeOK, ApplyPcc
  <2>5. fix' \in [Corrector -> Correction]
    BY <1>26, <2>2 DEF IInv, TypeOK, ApplyPcc
  <2>6. dailyPcc' \in [Day -> Pcc]
    BY <1>26, <2>1 DEF IInv, TypeOK, ApplyPcc
  <2> QED
    BY <1>26, <2>4, <2>5, <2>6, ReleaseType DEF IInv, TypeOK, ApplyPcc, players, clients
<1>27. ASSUME NEW a \in Corrector, NEW p \in Player, ReadAffected(a, p)
      PROVE  TypeOK'
  <2>1. Differentials(ApprovedRounds(p)) \in Index
    BY DifferentialsType DEF IInv, ApprovedRounds
  <2>2. fix' \in [Corrector -> Correction]
    <3>1. fix[a] \in Correction
      BY DEF IInv, TypeOK
    <3>2. [fix[a] EXCEPT !.step = "commit", !.player = p,
             !.differentials = Differentials(ApprovedRounds(p))] \in Correction
      BY ONLY <2>1, <3>1 DEF Correction
    <3> QED BY <1>27, <3>2 DEF IInv, TypeOK, ReadAffected
  <2> QED
    BY <1>27, <2>2 DEF IInv, TypeOK, ReadAffected, rows, players, clients
<1>28. ASSUME NEW a \in Corrector, CommitAffected(a)
      PROVE  TypeOK'
  <2>1. fix[a].player \in Player /\ fix[a].differentials \in Index
    BY <1>28 DEF IInv, TypeOK, CorrectionInv, Correcting, Correction, CommitAffected
  <2> QED
    BY <1>28, <2>1, ReleaseType, RecalculatedType, NextPlayerType
       DEF IInv, TypeOK, CommitAffected, rows, clients
<1>29. ASSUME NEW a \in Corrector, AffectedFails(a)
      PROVE  TypeOK'
  BY <1>29, ReleaseType, NextPlayerType DEF IInv, TypeOK, AffectedFails, rows, players, clients
<1>30. ASSUME Restart
      PROVE  TypeOK'
  BY <1>30, MemoryType DEF IInv, TypeOK, Restart, Steps, Correction, NoFix, Index, rows, players
<1>31. ASSUME NEW r \in Round, ReplaceTee(r)
      PROVE  TypeOK'
  BY <1>31 DEF IInv, TypeOK, ReplaceTee, rows, players, locks, clients
<1> QED
  BY <1>1, <1>2, <1>3, <1>4, <1>5, <1>6, <1>7, <1>8, <1>9, <1>10, <1>11, <1>12, <1>13, <1>14,
     <1>15, <1>16, <1>17, <1>18, <1>19, <1>20, <1>21, <1>22, <1>23, <1>24, <1>25, <1>26, <1>27,
     <1>28, <1>29, <1>30, <1>31
     DEF Next, Step, CorrectorStep

(* A client that is under way always has its request. *)
LEMMA RequestStep ==
  ASSUME IInv, Next
  PROVE  RequestInv'
<1>1. ASSUME NEW r \in Round, CreateRound(r)
      PROVE  RequestInv'
  BY <1>1 DEF IInv, TypeOK, RequestInv, CreateRound, clients
<1>2. ASSUME NEW c \in Client, NEW op \in AllOps, NEW r \in Round, Request(c, op, r)
      PROVE  RequestInv'
  BY <1>2, RequestsAreRequests DEF IInv, TypeOK, RequestInv, Request, Goto
<1>3. ASSUME NEW c \in Client, CheckApprovable(c)
      PROVE  RequestInv'
  BY <1>3 DEF IInv, TypeOK, RequestInv, CheckApprovable, Goto, Answer
<1>4. ASSUME NEW c \in Client, LockRound(c)
      PROVE  RequestInv'
  BY <1>4 DEF IInv, TypeOK, RequestInv, LockRound, Goto
<1>5. ASSUME NEW c \in Client, Refuse(c)
      PROVE  RequestInv'
  BY <1>5 DEF IInv, TypeOK, RequestInv, Refuse, Answer
<1>6. ASSUME NEW c \in Client, ReadDifferentials(c)
      PROVE  RequestInv'
  BY <1>6 DEF IInv, TypeOK, RequestInv, ReadDifferentials, Goto
<1>7. ASSUME NEW c \in Client, CommitSubmit(c)
      PROVE  RequestInv'
  BY <1>7 DEF IInv, TypeOK, RequestInv, CommitSubmit, Goto, Transition
<1>8. ASSUME NEW c \in Client, CommitAdminSubmit(c)
      PROVE  RequestInv'
  <2>1. R(c) \in Round
    BY <1>8, RequestedType DEF IInv, CommitAdminSubmit
  <2> QED
    BY <1>8, <2>1, RequestsAreRequests
       DEF IInv, TypeOK, RequestInv, CommitAdminSubmit, Goto, AllOps
<1>9. ASSUME NEW c \in Client, CommitApprove(c)
      PROVE  RequestInv'
  BY <1>9 DEF IInv, TypeOK, RequestInv, CommitApprove, Answer, Transition
<1>10. ASSUME NEW c \in Client, CommitReject(c)
      PROVE  RequestInv'
  BY <1>10 DEF IInv, TypeOK, RequestInv, CommitReject, Answer, Transition
<1>11. ASSUME NEW c \in Client, CommitDelete(c)
      PROVE  RequestInv'
  BY <1>11 DEF IInv, TypeOK, RequestInv, CommitDelete, Answer, Transition
<1>12. ASSUME NEW c \in Client, CommitReopen(c)
      PROVE  RequestInv'
  BY <1>12 DEF IInv, TypeOK, RequestInv, CommitReopen, Answer, Transition
<1>13. ASSUME NEW c \in Client, CommitHole(c)
      PROVE  RequestInv'
  BY <1>13 DEF IInv, TypeOK, RequestInv, CommitHole, Goto, Answer
<1>14. ASSUME NEW c \in Client, CommitDate(c)
      PROVE  RequestInv'
  BY <1>14 DEF IInv, TypeOK, RequestInv, CommitDate, Goto
<1>15. ASSUME NEW c \in Client, CommitRemarks(c)
      PROVE  RequestInv'
  BY <1>15 DEF IInv, TypeOK, RequestInv, CommitRemarks, Answer
<1>16. ASSUME NEW c \in Client, RereadAfterDate(c)
      PROVE  RequestInv'
  BY <1>16 DEF IInv, TypeOK, RequestInv, RereadAfterDate, Goto, Answer
<1>17. ASSUME NEW c \in Client, EnqueueRescore(c)
      PROVE  RequestInv'
  BY <1>17 DEF IInv, TypeOK, RequestInv, EnqueueRescore, Goto
<1>18. ASSUME NEW c \in Client, ReadRow(c)
      PROVE  RequestInv'
  BY <1>18 DEF IInv, TypeOK, RequestInv, ReadRow, Goto
<1>19. ASSUME NEW c \in Client, ReadHoles(c)
      PROVE  RequestInv'
  BY <1>19 DEF IInv, TypeOK, RequestInv, ReadHoles, Goto
<1>20. ASSUME NEW c \in Client, ReadPcc(c)
      PROVE  RequestInv'
  BY <1>20 DEF IInv, TypeOK, RequestInv, ReadPcc, Goto
<1>21. ASSUME NEW c \in Client, WriteScores(c)
      PROVE  RequestInv'
  BY <1>21 DEF IInv, TypeOK, RequestInv, WriteScores, Goto, Answer
<1>22. ASSUME NEW c \in Client, RescoreGone(c)
      PROVE  RequestInv'
  BY <1>22 DEF IInv, TypeOK, RequestInv, RescoreGone, Answer
<1>23. ASSUME NEW c \in Client, Rollback(c)
      PROVE  RequestInv'
  BY <1>23 DEF IInv, TypeOK, RequestInv, Rollback, Answer
<1>24. ASSUME NEW c \in Client, RescoreFails(c)
      PROVE  RequestInv'
  BY <1>24 DEF IInv, TypeOK, RequestInv, RescoreFails, Answer
<1>25. ASSUME NEW a \in Corrector, NEW d \in Day, NEW v \in Pcc, StartCorrection(a, d, v)
      PROVE  RequestInv'
  BY <1>25 DEF IInv, TypeOK, RequestInv, StartCorrection, clients
<1>26. ASSUME NEW a \in Corrector, ApplyPcc(a)
      PROVE  RequestInv'
  BY <1>26 DEF IInv, TypeOK, RequestInv, ApplyPcc, clients
<1>27. ASSUME NEW a \in Corrector, NEW p \in Player, ReadAffected(a, p)
      PROVE  RequestInv'
  BY <1>27 DEF IInv, TypeOK, RequestInv, ReadAffected, clients
<1>28. ASSUME NEW a \in Corrector, CommitAffected(a)
      PROVE  RequestInv'
  BY <1>28 DEF IInv, TypeOK, RequestInv, CommitAffected, clients
<1>29. ASSUME NEW a \in Corrector, AffectedFails(a)
      PROVE  RequestInv'
  BY <1>29 DEF IInv, TypeOK, RequestInv, AffectedFails, clients
<1>30. ASSUME Restart
      PROVE  RequestInv'
  BY <1>30 DEF RequestInv, Restart
<1>31. ASSUME NEW r \in Round, ReplaceTee(r)
      PROVE  RequestInv'
  BY <1>31 DEF IInv, RequestInv, ReplaceTee, clients
<1> QED
  BY <1>1, <1>2, <1>3, <1>4, <1>5, <1>6, <1>7, <1>8, <1>9, <1>10, <1>11, <1>12, <1>13, <1>14,
     <1>15, <1>16, <1>17, <1>18, <1>19, <1>20, <1>21, <1>22, <1>23, <1>24, <1>25, <1>26, <1>27,
     <1>28, <1>29, <1>30, <1>31
     DEF Next, Step, CorrectorStep

(* updateScores leaves its round scored, and takes no other score away. *)
LEMMA WritesAScore ==
  ASSUME IInv, NEW c \in Client, WriteScores(c)
  PROVE  agg'[R(c)] # NULL /\ \A r \in Round : agg[r] # NULL => agg'[r] # NULL
<1>1. R(c) \in Round /\ [card |-> seen[c].card, pcc |-> seen[c].pcc] \in Agg
  BY RequestedType DEF IInv, RescoreInv, HasRead, WriteScores, Agg
<1> QED
  BY <1>1, NullType DEF IInv, TypeOK, WriteScores

(* upsertAndApply takes no round's score away. *)
LEMMA RewritesScores ==
  ASSUME IInv, NEW a \in Corrector, ApplyPcc(a)
  PROVE  \A r \in Round : agg[r] # NULL => agg'[r] # NULL
<1> SUFFICES ASSUME NEW r \in Round, agg[r] # NULL PROVE agg'[r] # NULL
  OBVIOUS
<1>1. agg[r] \in Agg /\ fix[a].pcc \in Pcc
  BY DEF IInv, TypeOK, CorrectionInv, Correcting, ApplyPcc
<1>2. [agg[r] EXCEPT !.pcc = fix[a].pcc] \in Agg
  BY <1>1 DEF Agg
<1> QED BY <1>2, NullType DEF ApplyPcc

(* A client that leaves its transaction, or never was in one, disturbs nobody's
   scores. *)
LEMMA LeavesScored ==
  ASSUME IInv, NEW c \in Client, status' = status, agg' = agg,
         pc'[c] \notin {"lock", "player", "commit"},
         \A d \in Client \ {c} : pc'[d] = pc[d] /\ req'[d] = req[d]
  PROVE  ScoredInv'
BY DEF IInv, ScoredInv, ApprovedRoundsAreScored, Op, R

(* Every step keeps approved rounds, and rounds about to be, scored. *)
LEMMA ScoredStep ==
  ASSUME IInv, Next
  PROVE  ScoredInv'
<1>1. ASSUME NEW r \in Round, CreateRound(r)
      PROVE  ScoredInv'
  BY <1>1 DEF IInv, TypeOK, ScoredInv, ApprovedRoundsAreScored, CreateRound, Op, R, clients
<1>2. ASSUME NEW c \in Client, NEW op \in AllOps, NEW r \in Round, Request(c, op, r)
      PROVE  ScoredInv'
  BY <1>2 DEF IInv, TypeOK, ScoredInv, ApprovedRoundsAreScored, Request, Goto, Op, R, rows
<1>3. ASSUME NEW c \in Client, CheckApprovable(c)
      PROVE  ScoredInv'
  <2>1. pc'[c] \notin {"lock", "player", "commit"}
        /\ \A d \in Client \ {c} : pc'[d] = pc[d] /\ req'[d] = req[d]
    BY <1>3 DEF IInv, TypeOK, CheckApprovable, Goto, Answer
  <2> QED BY <1>3, <2>1, LeavesScored DEF CheckApprovable, rows
<1>4. ASSUME NEW c \in Client, LockRound(c)
      PROVE  ScoredInv'
  BY <1>4 DEF IInv, TypeOK, ScoredInv, ApprovedRoundsAreScored, LockRound, Goto, Op, R, rows
<1>5. ASSUME NEW c \in Client, Refuse(c)
      PROVE  ScoredInv'
  BY <1>5 DEF IInv, TypeOK, ScoredInv, ApprovedRoundsAreScored, Refuse, Answer, Op, R, rows
<1>6. ASSUME NEW c \in Client, ReadDifferentials(c)
      PROVE  ScoredInv'
  BY <1>6
     DEF IInv, TypeOK, ScoredInv, ApprovedRoundsAreScored, ReadDifferentials, Goto, Op, R, rows
<1>7. ASSUME NEW c \in Client, CommitSubmit(c)
      PROVE  ScoredInv'
  BY <1>7
     DEF IInv, TypeOK, ScoredInv, ApprovedRoundsAreScored, CommitSubmit, Goto, Transition, Op, R
<1>8. ASSUME NEW c \in Client, CommitAdminSubmit(c)
      PROVE  ScoredInv'
  BY <1>8
     DEF IInv, TypeOK, ScoredInv, ApprovedRoundsAreScored, CommitAdminSubmit, Goto, Transition,
         Op, R
<1>9. ASSUME NEW c \in Client, CommitApprove(c)
      PROVE  ScoredInv'
  BY <1>9
     DEF IInv, TypeOK, ScoredInv, ApprovedRoundsAreScored, CommitApprove, Answer, Transition,
         Op, R
<1>10. ASSUME NEW c \in Client, CommitReject(c)
      PROVE  ScoredInv'
  BY <1>10
     DEF IInv, TypeOK, ScoredInv, ApprovedRoundsAreScored, CommitReject, Answer, Transition, Op,
         R
<1>11. ASSUME NEW c \in Client, CommitDelete(c)
      PROVE  ScoredInv'
  BY <1>11
     DEF IInv, TypeOK, ScoredInv, ApprovedRoundsAreScored, CommitDelete, Answer, Transition, Op,
         R
<1>12. ASSUME NEW c \in Client, CommitReopen(c)
      PROVE  ScoredInv'
  BY <1>12
     DEF IInv, TypeOK, ScoredInv, ApprovedRoundsAreScored, CommitReopen, Answer, Transition, Op,
         R
<1>13. ASSUME NEW c \in Client, CommitHole(c)
      PROVE  ScoredInv'
  <2>1. pc'[c] \notin {"lock", "player", "commit"}
        /\ \A d \in Client \ {c} : pc'[d] = pc[d] /\ req'[d] = req[d]
    BY <1>13 DEF IInv, TypeOK, CommitHole, Goto, Answer
  <2> QED BY <1>13, <2>1, LeavesScored DEF CommitHole
<1>14. ASSUME NEW c \in Client, CommitDate(c)
      PROVE  ScoredInv'
  BY <1>14 DEF IInv, TypeOK, ScoredInv, ApprovedRoundsAreScored, CommitDate, Goto, Op, R
<1>15. ASSUME NEW c \in Client, CommitRemarks(c)
      PROVE  ScoredInv'
  BY <1>15
     DEF IInv, TypeOK, ScoredInv, ApprovedRoundsAreScored, CommitRemarks, Answer, Op, R, rows
<1>16. ASSUME NEW c \in Client, RereadAfterDate(c)
      PROVE  ScoredInv'
  <2>1. pc'[c] \notin {"lock", "player", "commit"}
        /\ \A d \in Client \ {c} : pc'[d] = pc[d] /\ req'[d] = req[d]
    BY <1>16 DEF IInv, TypeOK, RereadAfterDate, Goto, Answer
  <2> QED BY <1>16, <2>1, LeavesScored DEF RereadAfterDate, rows
<1>17. ASSUME NEW c \in Client, EnqueueRescore(c)
      PROVE  ScoredInv'
  BY <1>17
     DEF IInv, TypeOK, ScoredInv, ApprovedRoundsAreScored, EnqueueRescore, Goto, Op, R, rows
<1>18. ASSUME NEW c \in Client, ReadRow(c)
      PROVE  ScoredInv'
  BY <1>18 DEF IInv, TypeOK, ScoredInv, ApprovedRoundsAreScored, ReadRow, Goto, Op, R, rows
<1>19. ASSUME NEW c \in Client, ReadHoles(c)
      PROVE  ScoredInv'
  BY <1>19 DEF IInv, TypeOK, ScoredInv, ApprovedRoundsAreScored, ReadHoles, Goto, Op, R, rows
<1>20. ASSUME NEW c \in Client, ReadPcc(c)
      PROVE  ScoredInv'
  BY <1>20 DEF IInv, TypeOK, ScoredInv, ApprovedRoundsAreScored, ReadPcc, Goto, Op, R, rows
<1>21. ASSUME NEW c \in Client, WriteScores(c)
      PROVE  ScoredInv'
  <2> USE DEF IInv, ScoredInv, ApprovedRoundsAreScored
  <2>1. R(c) \in Round
    BY <1>21, RequestedType DEF WriteScores
  <2>2. agg'[R(c)] # NULL /\ \A r \in Round : agg[r] # NULL => agg'[r] # NULL
    BY <1>21, WritesAScore
  <2> QED
    <3>1. \A d \in Client : (Op(d) = "approve" /\ pc[d] \in {"lock", "player", "commit"} => agg[R(d)] # NULL)'
      <4> SUFFICES ASSUME NEW d \in Client,
                          (Op(d) = "approve" /\ pc[d] \in {"lock", "player", "commit"})'
                   PROVE  agg'[R(d)'] # NULL
        BY DEF R
      <4>1. CASE d = c
        BY <1>21, <2>1, <2>2, <4>1 DEF TypeOK, WriteScores, Goto, Answer, R
      <4>2. CASE d # c
        <5>1. pc'[d] = pc[d] /\ req'[d] = req[d]
          BY <1>21, <4>2 DEF TypeOK, WriteScores, Goto, Answer
        <5> QED BY <2>2, <5>1, RequestedType DEF Op, R
      <4> QED BY <4>1, <4>2
    <3> QED BY <1>21, <2>2, <3>1 DEF WriteScores
<1>22. ASSUME NEW c \in Client, RescoreGone(c)
      PROVE  ScoredInv'
  BY <1>22
     DEF IInv, TypeOK, ScoredInv, ApprovedRoundsAreScored, RescoreGone, Answer, Op, R, rows
<1>23. ASSUME NEW c \in Client, Rollback(c)
      PROVE  ScoredInv'
  BY <1>23 DEF IInv, TypeOK, ScoredInv, ApprovedRoundsAreScored, Rollback, Answer, Op, R, rows
<1>24. ASSUME NEW c \in Client, RescoreFails(c)
      PROVE  ScoredInv'
  BY <1>24
     DEF IInv, TypeOK, ScoredInv, ApprovedRoundsAreScored, RescoreFails, Answer, Op, R, rows
<1>25. ASSUME NEW a \in Corrector, NEW d \in Day, NEW v \in Pcc, StartCorrection(a, d, v)
      PROVE  ScoredInv'
  BY <1>25
     DEF IInv, TypeOK, ScoredInv, ApprovedRoundsAreScored, StartCorrection, Op, R, rows, clients
<1>26. ASSUME NEW a \in Corrector, ApplyPcc(a)
      PROVE  ScoredInv'
  <2>1. \A r \in Round : agg[r] # NULL => agg'[r] # NULL
    BY <1>26, RewritesScores
  <2> QED
    BY <1>26, <2>1, RequestedType
       DEF IInv, ScoredInv, ApprovedRoundsAreScored, ApplyPcc, Op, R, clients
<1>27. ASSUME NEW a \in Corrector, NEW p \in Player, ReadAffected(a, p)
      PROVE  ScoredInv'
  BY <1>27
     DEF IInv, TypeOK, ScoredInv, ApprovedRoundsAreScored, ReadAffected, Op, R, rows, clients
<1>28. ASSUME NEW a \in Corrector, CommitAffected(a)
      PROVE  ScoredInv'
  BY <1>28
     DEF IInv, TypeOK, ScoredInv, ApprovedRoundsAreScored, CommitAffected, Op, R, rows, clients
<1>29. ASSUME NEW a \in Corrector, AffectedFails(a)
      PROVE  ScoredInv'
  BY <1>29
     DEF IInv, TypeOK, ScoredInv, ApprovedRoundsAreScored, AffectedFails, Op, R, rows, clients
<1>30. ASSUME Restart
      PROVE  ScoredInv'
  BY <1>30 DEF IInv, TypeOK, ScoredInv, ApprovedRoundsAreScored, Restart, Op, R, rows
<1>31. ASSUME NEW r \in Round, ReplaceTee(r)
      PROVE  ScoredInv'
  BY <1>31 DEF IInv, ScoredInv, ApprovedRoundsAreScored, ReplaceTee, Op, R, rows, clients
<1> QED
  BY <1>1, <1>2, <1>3, <1>4, <1>5, <1>6, <1>7, <1>8, <1>9, <1>10, <1>11, <1>12, <1>13, <1>14,
     <1>15, <1>16, <1>17, <1>18, <1>19, <1>20, <1>21, <1>22, <1>23, <1>24, <1>25, <1>26, <1>27,
     <1>28, <1>29, <1>30, <1>31
     DEF Next, Step, CorrectorStep

(* Every step keeps the rescores in order: between its first read and its write,
   a rescore is the head of its round's chain. *)
LEMMA RescoreStep ==
  ASSUME IInv, Next
  PROVE  RescoreInv'
<1>1. ASSUME NEW r \in Round, CreateRound(r)
      PROVE  RescoreInv'
  BY <1>1 DEF IInv, TypeOK, RescoreInv, HasRead, MyTurn, CreateRound, R, clients
<1>2. ASSUME NEW c \in Client, NEW op \in AllOps, NEW r \in Round, Request(c, op, r)
      PROVE  RescoreInv'
  BY <1>2 DEF IInv, TypeOK, RescoreInv, HasRead, MyTurn, Request, Goto, R
<1>3. ASSUME NEW c \in Client, CheckApprovable(c)
      PROVE  RescoreInv'
  BY <1>3 DEF IInv, TypeOK, RescoreInv, HasRead, MyTurn, CheckApprovable, Goto, Answer, R
<1>4. ASSUME NEW c \in Client, LockRound(c)
      PROVE  RescoreInv'
  BY <1>4 DEF IInv, TypeOK, RescoreInv, HasRead, MyTurn, LockRound, Goto, R
<1>5. ASSUME NEW c \in Client, Refuse(c)
      PROVE  RescoreInv'
  BY <1>5 DEF IInv, TypeOK, RescoreInv, HasRead, MyTurn, Refuse, Answer, R
<1>6. ASSUME NEW c \in Client, ReadDifferentials(c)
      PROVE  RescoreInv'
  BY <1>6 DEF IInv, TypeOK, RescoreInv, HasRead, MyTurn, ReadDifferentials, Goto, R
<1>7. ASSUME NEW c \in Client, CommitSubmit(c)
      PROVE  RescoreInv'
  BY <1>7 DEF IInv, TypeOK, RescoreInv, HasRead, MyTurn, CommitSubmit, Goto, Transition, R
<1>8. ASSUME NEW c \in Client, CommitAdminSubmit(c)
      PROVE  RescoreInv'
  BY <1>8 DEF IInv, TypeOK, RescoreInv, HasRead, MyTurn, CommitAdminSubmit, Goto, Transition, R
<1>9. ASSUME NEW c \in Client, CommitApprove(c)
      PROVE  RescoreInv'
  BY <1>9 DEF IInv, TypeOK, RescoreInv, HasRead, MyTurn, CommitApprove, Answer, Transition, R
<1>10. ASSUME NEW c \in Client, CommitReject(c)
      PROVE  RescoreInv'
  BY <1>10 DEF IInv, TypeOK, RescoreInv, HasRead, MyTurn, CommitReject, Answer, Transition, R
<1>11. ASSUME NEW c \in Client, CommitDelete(c)
      PROVE  RescoreInv'
  BY <1>11 DEF IInv, TypeOK, RescoreInv, HasRead, MyTurn, CommitDelete, Answer, Transition, R
<1>12. ASSUME NEW c \in Client, CommitReopen(c)
      PROVE  RescoreInv'
  BY <1>12 DEF IInv, TypeOK, RescoreInv, HasRead, MyTurn, CommitReopen, Answer, Transition, R
<1>13. ASSUME NEW c \in Client, CommitHole(c)
      PROVE  RescoreInv'
  BY <1>13 DEF IInv, TypeOK, RescoreInv, HasRead, MyTurn, CommitHole, Goto, Answer, R
<1>14. ASSUME NEW c \in Client, CommitDate(c)
      PROVE  RescoreInv'
  BY <1>14 DEF IInv, TypeOK, RescoreInv, HasRead, MyTurn, CommitDate, Goto, R
<1>15. ASSUME NEW c \in Client, CommitRemarks(c)
      PROVE  RescoreInv'
  BY <1>15 DEF IInv, TypeOK, RescoreInv, HasRead, MyTurn, CommitRemarks, Answer, R
<1>16. ASSUME NEW c \in Client, RereadAfterDate(c)
      PROVE  RescoreInv'
  BY <1>16 DEF IInv, TypeOK, RescoreInv, HasRead, MyTurn, RereadAfterDate, Goto, Answer, R
<1>17. ASSUME NEW c \in Client, EnqueueRescore(c)
      PROVE  RescoreInv'
  <2> USE DEF IInv, RescoreInv
  <2>1. R(c) \in Round
    BY <1>17, RequestedType DEF EnqueueRescore
  <2>2. HasRead(c)'
    BY <1>17 DEF TypeOK, HasRead, EnqueueRescore, Goto
  <2>3. \A d \in Client \ {c} : HasRead(d)'
    <3> SUFFICES ASSUME NEW d \in Client \ {c} PROVE HasRead(d)'
      OBVIOUS
    <3>1. pc'[d] = pc[d] /\ req'[d] = req[d] /\ seen'[d] = seen[d]
      BY <1>17 DEF TypeOK, EnqueueRescore, Goto
    <3>2. pc[d] \in {"holes", "pcc", "write"} /\ MyTurn(d) => MyTurn(d)'
      <4> SUFFICES ASSUME pc[d] \in {"holes", "pcc", "write"}, MyTurn(d) PROVE MyTurn(d)'
        OBVIOUS
      <4>1. R(d) \in Round /\ chain[R(d)] \in Seq(Client) /\ chain[R(d)] # <<>>
        BY RequestedType DEF TypeOK, MyTurn
      <4>2. Append(chain[R(d)], c) # <<>> /\ Head(Append(chain[R(d)], c)) = Head(chain[R(d)])
        BY <4>1, AppendProperties
      <4> QED BY <1>17, <2>1, <3>1, <4>1, <4>2 DEF TypeOK, EnqueueRescore, MyTurn, R
    <3> QED BY <3>1, <3>2, KeepsHasRead
  <2> QED BY <2>2, <2>3
<1>18. ASSUME NEW c \in Client, ReadRow(c)
      PROVE  RescoreInv'
  <2> USE DEF IInv, TypeOK, RescoreInv
  <2>1. R(c) \in Round
    BY <1>18, RequestedType DEF ReadRow
  <2>2. HasRead(c)'
    BY <1>18, <2>1 DEF HasRead, MyTurn, ReadRow, Goto, R, Memory
  <2>3. \A d \in Client \ {c} : HasRead(d)'
    BY <1>18, KeepsHasRead DEF MyTurn, ReadRow, Goto, R
  <2> QED BY <2>2, <2>3
<1>19. ASSUME NEW c \in Client, ReadHoles(c)
      PROVE  RescoreInv'
  <2> USE DEF IInv, TypeOK, RescoreInv
  <2>1. R(c) \in Round
    BY <1>19, RequestedType DEF ReadHoles
  <2>2. HasRead(c)'
    BY <1>19, <2>1 DEF HasRead, MyTurn, ReadHoles, Goto, R, Memory
  <2>3. \A d \in Client \ {c} : HasRead(d)'
    BY <1>19, KeepsHasRead DEF MyTurn, ReadHoles, Goto, R
  <2> QED BY <2>2, <2>3
<1>20. ASSUME NEW c \in Client, ReadPcc(c)
      PROVE  RescoreInv'
  <2> USE DEF IInv, TypeOK, RescoreInv
  <2>1. R(c) \in Round
    BY <1>20, RequestedType DEF ReadPcc
  <2>2. HasRead(c)'
    BY <1>20, <2>1 DEF HasRead, MyTurn, ReadPcc, Goto, R, Memory
  <2>3. \A d \in Client \ {c} : HasRead(d)'
    BY <1>20, KeepsHasRead DEF MyTurn, ReadPcc, Goto, R
  <2> QED BY <2>2, <2>3
<1>21. ASSUME NEW c \in Client, WriteScores(c)
      PROVE  RescoreInv'
  <2> USE DEF IInv, RescoreInv
  <2>1. pc[c] \in {"row", "holes", "pcc", "write"} /\ MyTurn(c) /\ Settle(c)
    BY <1>21 DEF HasRead, WriteScores
  <2>2. HasRead(c)'
    BY <1>21 DEF TypeOK, HasRead, WriteScores, Goto, Answer
  <2>3. \A d \in Client \ {c} : HasRead(d)'
    <3> SUFFICES ASSUME NEW d \in Client \ {c} PROVE HasRead(d)'
      OBVIOUS
    <3>1. pc'[d] = pc[d] /\ req'[d] = req[d] /\ seen'[d] = seen[d]
      BY <1>21 DEF TypeOK, WriteScores, Goto, Answer
    <3>2. pc[d] \in {"holes", "pcc", "write"} /\ MyTurn(d) => MyTurn(d)'
      BY <2>1, <3>1, SettleKeepsTurns
    <3> QED BY <3>1, <3>2, KeepsHasRead
  <2> QED BY <2>2, <2>3
<1>22. ASSUME NEW c \in Client, RescoreGone(c)
      PROVE  RescoreInv'
  <2> USE DEF IInv, RescoreInv
  <2>1. pc[c] \in {"row", "holes", "pcc", "write"} /\ MyTurn(c) /\ Settle(c)
    BY <1>22 DEF HasRead, RescoreGone
  <2>2. HasRead(c)'
    BY <1>22 DEF TypeOK, HasRead, RescoreGone, Answer
  <2>3. \A d \in Client \ {c} : HasRead(d)'
    <3> SUFFICES ASSUME NEW d \in Client \ {c} PROVE HasRead(d)'
      OBVIOUS
    <3>1. pc'[d] = pc[d] /\ req'[d] = req[d] /\ seen'[d] = seen[d]
      BY <1>22 DEF TypeOK, RescoreGone, Answer
    <3>2. pc[d] \in {"holes", "pcc", "write"} /\ MyTurn(d) => MyTurn(d)'
      BY <2>1, <3>1, SettleKeepsTurns
    <3> QED BY <3>1, <3>2, KeepsHasRead
  <2> QED BY <2>2, <2>3
<1>23. ASSUME NEW c \in Client, Rollback(c)
      PROVE  RescoreInv'
  BY <1>23 DEF IInv, TypeOK, RescoreInv, HasRead, MyTurn, Rollback, Answer, R
<1>24. ASSUME NEW c \in Client, RescoreFails(c)
      PROVE  RescoreInv'
  <2> USE DEF IInv, RescoreInv
  <2>1. pc[c] \in {"row", "holes", "pcc", "write"} /\ MyTurn(c) /\ Settle(c)
    BY <1>24 DEF HasRead, RescoreFails
  <2>2. HasRead(c)'
    BY <1>24 DEF TypeOK, HasRead, RescoreFails, Answer
  <2>3. \A d \in Client \ {c} : HasRead(d)'
    <3> SUFFICES ASSUME NEW d \in Client \ {c} PROVE HasRead(d)'
      OBVIOUS
    <3>1. pc'[d] = pc[d] /\ req'[d] = req[d] /\ seen'[d] = seen[d]
      BY <1>24 DEF TypeOK, RescoreFails, Answer
    <3>2. pc[d] \in {"holes", "pcc", "write"} /\ MyTurn(d) => MyTurn(d)'
      BY <2>1, <3>1, SettleKeepsTurns
    <3> QED BY <3>1, <3>2, KeepsHasRead
  <2> QED BY <2>2, <2>3
<1>25. ASSUME NEW a \in Corrector, NEW d \in Day, NEW v \in Pcc, StartCorrection(a, d, v)
      PROVE  RescoreInv'
  BY <1>25 DEF IInv, TypeOK, RescoreInv, HasRead, MyTurn, StartCorrection, R, clients
<1>26. ASSUME NEW a \in Corrector, ApplyPcc(a)
      PROVE  RescoreInv'
  BY <1>26 DEF IInv, TypeOK, RescoreInv, HasRead, MyTurn, ApplyPcc, R, clients
<1>27. ASSUME NEW a \in Corrector, NEW p \in Player, ReadAffected(a, p)
      PROVE  RescoreInv'
  BY <1>27 DEF IInv, TypeOK, RescoreInv, HasRead, MyTurn, ReadAffected, R, clients
<1>28. ASSUME NEW a \in Corrector, CommitAffected(a)
      PROVE  RescoreInv'
  BY <1>28 DEF IInv, TypeOK, RescoreInv, HasRead, MyTurn, CommitAffected, R, clients
<1>29. ASSUME NEW a \in Corrector, AffectedFails(a)
      PROVE  RescoreInv'
  BY <1>29 DEF IInv, TypeOK, RescoreInv, HasRead, MyTurn, AffectedFails, R, clients
<1>30. ASSUME Restart
      PROVE  RescoreInv'
  BY <1>30 DEF IInv, TypeOK, RescoreInv, HasRead, MyTurn, Restart, R
<1>31. ASSUME NEW r \in Round, ReplaceTee(r)
      PROVE  RescoreInv'
  BY <1>31 DEF IInv, RescoreInv, HasRead, MyTurn, ReplaceTee, R, clients
<1> QED
  BY <1>1, <1>2, <1>3, <1>4, <1>5, <1>6, <1>7, <1>8, <1>9, <1>10, <1>11, <1>12, <1>13, <1>14,
     <1>15, <1>16, <1>17, <1>18, <1>19, <1>20, <1>21, <1>22, <1>23, <1>24, <1>25, <1>26, <1>27,
     <1>28, <1>29, <1>30, <1>31
     DEF Next, Step, CorrectorStep

(* A differential is listed for each of these rounds, and only one. *)
LEMMA DifferentialsCount ==
  ASSUME NEW S \in SUBSET Round, \A r \in S : agg[r] # NULL
  PROVE  Counts(Differentials(S), S)
<1> DEFINE D == Differentials(S)
           f == [r \in S |-> <<r, agg[r]>>]
<1>1. D = {<<r, agg[r]>> : r \in S}
  BY DEF Differentials
<1>2. {x[1] : x \in D} = S
  <2>1. \A r \in S : <<r, agg[r]>> \in D /\ <<r, agg[r]>>[1] = r
    BY <1>1
  <2>2. \A x \in D : x[1] \in S
    BY <1>1
  <2>3. \A r \in S : \E x \in D : x[1] = r
    BY <2>1
  <2> HIDE DEF D
  <2> QED BY <2>2, <2>3
<1>3. IsFiniteSet(S)
  BY ConstantsType, FS_Subset
<1>4. f \in Bijection(S, D)
  <2>1. f \in [S -> D]
    BY <1>1
  <2>2. \A r, q \in S : f[r] = f[q] => r = q
    OBVIOUS
  <2>3. \A x \in D : \E r \in S : f[r] = x
    BY <1>1
  <2> HIDE DEF D, f
  <2> QED BY <2>1, <2>2, <2>3 DEF Bijection, Injection, Surjection, IsInjective
<1>5. Cardinality(D) = Cardinality(S)
  <2> HIDE DEF D, f
  <2> QED BY <1>3, <1>4, FS_Bijection DEF ExistsBijection
<1> QED BY <1>2, <1>5 DEF Counts, Eligible

(* The six transitions of a round that exists. *)
Moves(c) ==
  \/ CommitSubmit(c) \/ CommitAdminSubmit(c) \/ CommitApprove(c)
  \/ CommitReject(c) \/ CommitDelete(c) \/ CommitReopen(c)

(* The facts the six transitions have in common. *)
LEMMA MovesTransition ==
  ASSUME TypeOK, NEW c \in Client, Moves(c)
  PROVE  /\ pc[c] = "commit"
         /\ pc' \in [Client -> Steps] /\ pc'[c] \notin {"player", "commit"}
         /\ \A d \in Client \ {c} : pc'[d] = pc[d] /\ req'[d] = req[d] /\ seen'[d] = seen[d]
         /\ \E to \in Statuses :
              /\ Transition(c, to)
              /\ \/ Op(c) = "approve" /\ to = "approved"
                 \/ /\ Op(c) \in {"submit", "adminSubmit", "reject", "delete", "adminDelete", "reopen"}
                    /\ to # "approved"
<1> USE DEF TypeOK, Goto, Answer, Steps, Statuses
<1>1. CASE CommitSubmit(c)
  BY <1>1 DEF CommitSubmit
<1>2. CASE CommitAdminSubmit(c)
  BY <1>2 DEF CommitAdminSubmit
<1>3. CASE CommitApprove(c)
  BY <1>3 DEF CommitApprove
<1>4. CASE CommitReject(c)
  BY <1>4 DEF CommitReject
<1>5. CASE CommitDelete(c)
  BY <1>5 DEF CommitDelete
<1>6. CASE CommitReopen(c)
  BY <1>6 DEF CommitReopen
<1> QED BY <1>1, <1>2, <1>3, <1>4, <1>5, <1>6 DEF Moves

(* A transition moves the one round it has locked; it changes which rounds of
   the player are approved as its recalculation foresaw, and only if it has made
   one. *)
LEMMA TransitionMoves ==
  ASSUME IInv, NEW c \in Client, Moves(c)
  PROVE  /\ R(c) \in Round /\ Pl(c) \in Player /\ roundLock[R(c)] = c
         /\ \A r \in Round \ {R(c)} : status'[r] = status[r]
         /\ card' = card
         /\ \A p \in Player :
              ApprovedRounds(p)' = IF p = Pl(c) THEN ApprovedFor(c) ELSE ApprovedRounds(p)
         /\ IF Recalculates(Op(c), R(c))
            THEN /\ playerLock[Pl(c)] = c /\ Counts(seen[c].differentials, ApprovedFor(c))
                 /\ Recalculated(Pl(c), seen[c].differentials, Op(c) = "reopen")
            ELSE ApprovedFor(c) = ApprovedRounds(Pl(c)) /\ UNCHANGED players
         /\ Release(c) /\ UNCHANGED fix
<1>0. PICK to \in Statuses :
        /\ Transition(c, to) /\ pc[c] = "commit"
        /\ \/ Op(c) = "approve" /\ to = "approved"
           \/ /\ Op(c) \in {"submit", "adminSubmit", "reject", "delete", "adminDelete", "reopen"}
              /\ to # "approved"
  BY MovesTransition DEF IInv
<1>1. R(c) \in Round /\ Pl(c) \in Player /\ Pl(c) = PlayerOf[R(c)]
  BY <1>0, RequestedType DEF IInv, Pl
<1>2. InTransaction(c)
  BY <1>0 DEF IInv, TransactionInv
<1>3. status \in [Round -> Statuses] /\ status' = [status EXCEPT ![R(c)] = to]
  BY <1>0 DEF IInv, TypeOK, Transition
<1>4. ASSUME NEW p \in Player
      PROVE  ApprovedRounds(p)' = IF p = Pl(c) THEN ApprovedFor(c) ELSE ApprovedRounds(p)
  <2>1. ApprovedRounds(p)' = {r \in Round : PlayerOf[r] = p /\ status'[r] = "approved"}
    BY DEF ApprovedRounds
  <2>2. CASE p = Pl(c)
    BY <1>0, <1>1, <1>3, <2>1, <2>2 DEF ApprovedFor, ApprovedRounds
  <2>3. CASE p # Pl(c)
    BY <1>1, <1>3, <2>1, <2>3 DEF ApprovedRounds
  <2> QED BY <2>2, <2>3
<1>5. ~Recalculates(Op(c), R(c)) => ApprovedFor(c) = ApprovedRounds(Pl(c))
  BY <1>0, <1>2
     DEF InTransaction, Accepts, Submits, Recalculates, ApprovedFor, ApprovedRounds,
         everCountedTowardHandicap, isEditableStatus, isApprovableStatus
<1>6. card' = card
  BY <1>0 DEF Transition
<1> QED BY <1>0, <1>1, <1>2, <1>3, <1>4, <1>5, <1>6 DEF InTransaction, Transition

(* A release frees no row of anyone else. *)
LEMMA ReleaseKeeps ==
  ASSUME NEW x, NEW d, x # d, Release(x), NEW r \in Round, NEW p \in Player
  PROVE  /\ roundLock[r] = d => roundLock'[r] = d
         /\ playerLock[p] = d => playerLock'[p] = d
BY DEF Release

(* What a transaction relies on outlives a step that neither moves nor edits its
   round, takes no lock of its away, and does not disturb the approved rounds of
   a player it has locked. *)
LEMMA KeepsInTransaction ==
  ASSUME IInv, NEW d \in Client, pc[d] \in {"player", "commit"},
         pc'[d] = pc[d], req'[d] = req[d], seen'[d] = seen[d],
         roundLock'[R(d)] = d, status'[R(d)] = status[R(d)], card'[R(d)] = card[R(d)],
         playerLock[Pl(d)] = d =>
           playerLock'[Pl(d)] = d /\ \A p \in Player : p = Pl(d) => ApprovedRounds(p)' = ApprovedRounds(p)
  PROVE  InTransaction(d)'
<1>1. R(d) \in Round /\ Pl(d) \in Player /\ InTransaction(d)
  BY RequestedType DEF IInv, TransactionInv
<1>2. R(d)' = R(d) /\ Op(d)' = Op(d) /\ Pl(d)' = Pl(d)
  BY DEF R, Op, Pl
<1>3. Exists(R(d))' = Exists(R(d))
  BY <1>2 DEF Exists
<1>4. Accepts(Op(d), R(d))' = Accepts(Op(d), R(d))
  BY <1>2, <1>3 DEF Accepts, Submits
<1>5. Recalculates(Op(d), R(d))' = Recalculates(Op(d), R(d))
  BY <1>2 DEF Recalculates
<1>6. playerLock[Pl(d)] = d => ApprovedFor(d)' = ApprovedFor(d)
  BY <1>1, <1>2 DEF ApprovedFor, ApprovedRounds
<1>7. Recalculates(Op(d), R(d)) /\ pc[d] = "commit" =>
        (playerLock[Pl(d)] = d /\ Counts(seen[d].differentials, ApprovedFor(d)))'
  <2> SUFFICES ASSUME Recalculates(Op(d), R(d)), pc[d] = "commit"
               PROVE  (playerLock[Pl(d)] = d /\ Counts(seen[d].differentials, ApprovedFor(d)))'
    OBVIOUS
  <2>1. playerLock[Pl(d)] = d /\ Counts(seen[d].differentials, ApprovedFor(d))
    BY <1>1 DEF InTransaction
  <2> QED BY <1>2, <1>6, <2>1 DEF Counts, Eligible
<1> QED BY <1>1, <1>2, <1>3, <1>4, <1>5, <1>7 DEF InTransaction

(* A step aside, of one client, from the rows and locks of every transaction. *)
LEMMA AsideTransaction ==
  ASSUME IInv, NEW c \in Client, pc'[c] \notin {"player", "commit"},
         \A d \in Client \ {c} : pc'[d] = pc[d] /\ req'[d] = req[d] /\ seen'[d] = seen[d],
         UNCHANGED <<status, card, roundLock, playerLock>>
  PROVE  TransactionInv'
<1> SUFFICES ASSUME NEW d \in Client, pc'[d] \in {"player", "commit"}
             PROVE  InTransaction(d)'
  BY DEF TransactionInv
<1>1. pc'[d] = pc[d] /\ req'[d] = req[d] /\ seen'[d] = seen[d]
  OBVIOUS
<1>2. InTransaction(d)
  BY <1>1 DEF IInv, TransactionInv
<1>3. \A p \in Player : ApprovedRounds(p)' = ApprovedRounds(p)
  BY DEF ApprovedRounds
<1> QED BY <1>1, <1>2, <1>3, KeepsInTransaction DEF InTransaction

(* So is the end, without a transition, of a transaction that edited nothing
   another one relies on. *)
LEMMA EndedTransaction ==
  ASSUME IInv, NEW x, x \notin Client \/ pc'[x] \notin {"player", "commit"}, Release(x),
         \A d \in Client \ {x} : pc'[d] = pc[d] /\ req'[d] = req[d] /\ seen'[d] = seen[d],
         UNCHANGED <<status, card>>
  PROVE  TransactionInv'
<1> SUFFICES ASSUME NEW d \in Client, pc'[d] \in {"player", "commit"}
             PROVE  InTransaction(d)'
  BY DEF TransactionInv
<1>1. x # d /\ pc'[d] = pc[d] /\ req'[d] = req[d] /\ seen'[d] = seen[d]
  OBVIOUS
<1>2. InTransaction(d) /\ R(d) \in Round /\ Pl(d) \in Player
  BY <1>1, RequestedType DEF IInv, TransactionInv
<1>3. roundLock'[R(d)] = d /\ (playerLock[Pl(d)] = d => playerLock'[Pl(d)] = d)
  BY <1>1, <1>2, ReleaseKeeps DEF InTransaction
<1>4. \A p \in Player : ApprovedRounds(p)' = ApprovedRounds(p)
  BY DEF ApprovedRounds
<1> QED BY <1>1, <1>2, <1>3, <1>4, KeepsInTransaction

(* A transition disturbs no other transaction: they differ in their round, and
   in their player if both recalculate. *)
LEMMA MovesKeepTransactions ==
  ASSUME IInv, NEW c \in Client, Moves(c)
  PROVE  TransactionInv'
<1> SUFFICES ASSUME NEW d \in Client, pc'[d] \in {"player", "commit"}
             PROVE  InTransaction(d)'
  BY DEF TransactionInv
<1>1. d # c /\ pc'[d] = pc[d] /\ req'[d] = req[d] /\ seen'[d] = seen[d]
  BY MovesTransition DEF IInv
<1>2. InTransaction(d) /\ R(d) \in Round /\ Pl(d) \in Player
  BY <1>1, RequestedType DEF IInv, TransactionInv
<1>3. R(d) # R(c) /\ status'[R(d)] = status[R(d)] /\ card' = card
  BY <1>1, <1>2, TransitionMoves DEF InTransaction
<1>4. playerLock[Pl(d)] = d => \A p \in Player : p = Pl(d) => ApprovedRounds(p)' = ApprovedRounds(p)
  BY <1>1, <1>2, TransitionMoves
<1>5. roundLock'[R(d)] = d /\ (playerLock[Pl(d)] = d => playerLock'[Pl(d)] = d)
  BY <1>1, <1>2, TransitionMoves, ReleaseKeeps DEF InTransaction
<1> QED
  BY <1>1, <1>2, <1>3, <1>4, <1>5, KeepsInTransaction

(* Every step keeps what the open transactions rely on. *)
LEMMA TransactionStep ==
  ASSUME IInv, Next
  PROVE  TransactionInv'
<1>1. ASSUME NEW r \in Round, CreateRound(r)
      PROVE  TransactionInv'
  <2> SUFFICES ASSUME NEW d \in Client, pc'[d] \in {"player", "commit"}
               PROVE  InTransaction(d)'
    BY DEF TransactionInv
  <2>1. pc'[d] = pc[d] /\ req'[d] = req[d] /\ seen'[d] = seen[d]
    BY <1>1 DEF CreateRound, clients
  <2>2. InTransaction(d) /\ R(d) \in Round /\ Pl(d) \in Player
    BY <2>1, RequestedType DEF IInv, TransactionInv
  <2>3. \A p \in Player : ApprovedRounds(p)' = ApprovedRounds(p)
    BY <1>1 DEF IInv, TypeOK, CreateRound, ApprovedRounds
  <2>4. R(d) # r
    BY <1>1, <2>2 DEF CreateRound, InTransaction, Exists
  <2>5. PICK k \in Card : card' = [card EXCEPT ![r] = k]
    BY <1>1 DEF CreateRound
  <2> QED
    BY <1>1, <2>1, <2>2, <2>3, <2>4, <2>5, KeepsInTransaction
       DEF IInv, TypeOK, CreateRound, InTransaction, locks
<1>2. ASSUME NEW c \in Client, NEW op \in AllOps, NEW r \in Round, Request(c, op, r)
      PROVE  TransactionInv'
  <2>1. pc' \in [Client -> Steps] /\ pc'[c] \notin {"player", "commit"}
        /\ \A d \in Client \ {c} : pc'[d] = pc[d] /\ req'[d] = req[d] /\ seen'[d] = seen[d]
    BY <1>2 DEF IInv, TypeOK, Request, Goto, Steps
  <2> QED BY <1>2, <2>1, AsideTransaction DEF Request, rows, locks
<1>3. ASSUME NEW c \in Client, CheckApprovable(c)
      PROVE  TransactionInv'
  <2>1. pc' \in [Client -> Steps] /\ pc'[c] \notin {"player", "commit"}
        /\ \A d \in Client \ {c} : pc'[d] = pc[d] /\ req'[d] = req[d] /\ seen'[d] = seen[d]
    BY <1>3 DEF IInv, TypeOK, CheckApprovable, Goto, Answer, Steps
  <2> QED BY <1>3, <2>1, AsideTransaction DEF CheckApprovable, rows, locks
<1>4. ASSUME NEW c \in Client, LockRound(c)
      PROVE  TransactionInv'
  <2> SUFFICES ASSUME NEW d \in Client, pc'[d] \in {"player", "commit"}
               PROVE  InTransaction(d)'
    BY DEF TransactionInv
  <2>1. CASE d = c
    <3>1. R(c) \in Round
      BY <1>4, RequestedType DEF IInv, LockRound
    <3>2. R(c)' = R(c) /\ Op(c)' = Op(c) /\ Exists(R(c))' /\ Accepts(Op(c), R(c))'
          /\ (Recalculates(Op(c), R(c))' <=> Recalculates(Op(c), R(c)))
      BY <1>4 DEF LockRound, Passes, R, Op, Exists, Accepts, Submits, Recalculates, rows
    <3>3. pc'[c] = IF Recalculates(Op(c), R(c)) THEN "player" ELSE "commit"
      BY <1>4 DEF IInv, TypeOK, LockRound, Goto
    <3> QED BY <1>4, <2>1, <3>1, <3>2, <3>3 DEF IInv, TypeOK, LockRound, InTransaction
  <2>2. CASE d # c
    <3>1. pc'[d] = pc[d] /\ req'[d] = req[d] /\ seen'[d] = seen[d]
      BY <1>4, <2>2 DEF IInv, TypeOK, LockRound, Goto
    <3>2. InTransaction(d) /\ R(d) \in Round /\ Pl(d) \in Player
      BY <3>1, RequestedType DEF IInv, TransactionInv
    <3>3. roundLock'[R(d)] = d
      BY <1>4, <3>2, ConstantsType DEF IInv, TypeOK, LockRound, InTransaction
    <3> QED BY <1>4, <3>1, <3>2, <3>3, KeepsInTransaction DEF LockRound, ApprovedRounds, rows
  <2> QED BY <2>1, <2>2
<1>5. ASSUME NEW c \in Client, Refuse(c)
      PROVE  TransactionInv'
  <2>1. pc' \in [Client -> Steps] /\ pc'[c] \notin {"player", "commit"}
        /\ \A d \in Client \ {c} : pc'[d] = pc[d] /\ req'[d] = req[d] /\ seen'[d] = seen[d]
    BY <1>5 DEF IInv, TypeOK, Refuse, Answer, Steps
  <2> QED BY <1>5, <2>1, AsideTransaction DEF Refuse, rows, locks
<1>6. ASSUME NEW c \in Client, ReadDifferentials(c)
      PROVE  TransactionInv'
  <2> SUFFICES ASSUME NEW d \in Client, pc'[d] \in {"player", "commit"}
               PROVE  InTransaction(d)'
    BY DEF TransactionInv
  <2> USE DEF IInv
  <2>1. R(c) \in Round /\ Pl(c) \in Player /\ InTransaction(c)
    BY <1>6, RequestedType DEF TransactionInv, ReadDifferentials
  <2>2. CASE d = c
    <3>1. R(c)' = R(c) /\ Op(c)' = Op(c) /\ Pl(c)' = Pl(c) /\ Exists(R(c))' /\ Accepts(Op(c), R(c))'
          /\ ApprovedFor(c)' = ApprovedFor(c)
      BY <1>6, <2>1
         DEF InTransaction, ReadDifferentials, R, Op, Pl, Exists, Accepts, Submits,
             ApprovedFor, ApprovedRounds, rows
    <3>2. ApprovedFor(c) \in SUBSET Round /\ \A r \in ApprovedFor(c) : agg[r] # NULL
      BY <1>6, <2>1
         DEF ScoredInv, ApprovedRoundsAreScored, ReadDifferentials, ApprovedFor, ApprovedRounds
    <3>3. Counts(Differentials(ApprovedFor(c)), ApprovedFor(c))
      BY <3>2, DifferentialsCount
    <3>4. seen'[c].differentials = Differentials(ApprovedFor(c)) /\ pc'[c] = "commit"
      BY <1>6 DEF TypeOK, Memory, ReadDifferentials, Goto
    <3>5. Counts(seen[c].differentials, ApprovedFor(c))'
      BY <3>1, <3>3, <3>4 DEF Counts, Eligible
    <3>6. playerLock'[Pl(c)] = c /\ roundLock' = roundLock
      BY <1>6, <2>1 DEF TypeOK, ReadDifferentials
    <3> QED BY <2>1, <2>2, <3>1, <3>4, <3>5, <3>6 DEF InTransaction
  <2>3. CASE d # c
    <3>1. pc'[d] = pc[d] /\ req'[d] = req[d] /\ seen'[d] = seen[d]
      BY <1>6, <2>3 DEF TypeOK, ReadDifferentials, Goto
    <3>2. InTransaction(d) /\ R(d) \in Round /\ Pl(d) \in Player
      BY <3>1, RequestedType DEF TransactionInv
    <3>3. playerLock[Pl(d)] = d => playerLock'[Pl(d)] = d
      BY <1>6, <2>1, <3>2, ConstantsType DEF TypeOK, ReadDifferentials
    <3> QED BY <1>6, <3>1, <3>2, <3>3, KeepsInTransaction
               DEF InTransaction, ReadDifferentials, ApprovedRounds, rows
  <2> QED BY <2>2, <2>3
<1>7. ASSUME NEW c \in Client, CommitSubmit(c)
      PROVE  TransactionInv'
  <2>1. Moves(c)
    BY <1>7 DEF Moves
  <2> QED BY <2>1, MovesKeepTransactions
<1>8. ASSUME NEW c \in Client, CommitAdminSubmit(c)
      PROVE  TransactionInv'
  <2>1. Moves(c)
    BY <1>8 DEF Moves
  <2> QED BY <2>1, MovesKeepTransactions
<1>9. ASSUME NEW c \in Client, CommitApprove(c)
      PROVE  TransactionInv'
  <2>1. Moves(c)
    BY <1>9 DEF Moves
  <2> QED BY <2>1, MovesKeepTransactions
<1>10. ASSUME NEW c \in Client, CommitReject(c)
      PROVE  TransactionInv'
  <2>1. Moves(c)
    BY <1>10 DEF Moves
  <2> QED BY <2>1, MovesKeepTransactions
<1>11. ASSUME NEW c \in Client, CommitDelete(c)
      PROVE  TransactionInv'
  <2>1. Moves(c)
    BY <1>11 DEF Moves
  <2> QED BY <2>1, MovesKeepTransactions
<1>12. ASSUME NEW c \in Client, CommitReopen(c)
      PROVE  TransactionInv'
  <2>1. Moves(c)
    BY <1>12 DEF Moves
  <2> QED BY <2>1, MovesKeepTransactions
<1>13. ASSUME NEW c \in Client, CommitHole(c)
      PROVE  TransactionInv'
  <2> SUFFICES ASSUME NEW d \in Client, pc'[d] \in {"player", "commit"}
               PROVE  InTransaction(d)'
    BY DEF TransactionInv
  <2>1. d # c /\ pc'[d] = pc[d] /\ req'[d] = req[d] /\ seen'[d] = seen[d]
    BY <1>13 DEF IInv, TypeOK, CommitHole, Goto, Answer
  <2>2. InTransaction(d) /\ InTransaction(c) /\ R(d) \in Round /\ Pl(d) \in Player /\ R(c) \in Round
    BY <1>13, <2>1, RequestedType DEF IInv, TransactionInv, CommitHole
  <2>3. R(d) # R(c)
    BY <2>1, <2>2 DEF InTransaction
  <2>4. card'[R(d)] = card[R(d)]
    BY <1>13, <2>2, <2>3 DEF IInv, TypeOK, CommitHole
  <2>5. status' = status /\ roundLock'[R(d)] = d
    BY <1>13, <2>1, <2>2 DEF CommitHole, InTransaction, Release
  <2>6. playerLock[Pl(d)] = d => playerLock'[Pl(d)] = d
    BY <1>13, <2>1, <2>2 DEF CommitHole, Release
  <2>7. \A p \in Player : ApprovedRounds(p)' = ApprovedRounds(p)
    BY <2>5 DEF ApprovedRounds
  <2>8. pc[d] \in {"player", "commit"}
    BY <2>1
  <2> QED BY <2>1, <2>4, <2>5, <2>6, <2>7, <2>8, KeepsInTransaction
<1>14. ASSUME NEW c \in Client, CommitDate(c)
      PROVE  TransactionInv'
  <2>1. pc'[c] \notin {"player", "commit"}
        /\ \A d \in Client \ {c} : pc'[d] = pc[d] /\ req'[d] = req[d] /\ seen'[d] = seen[d]
    BY <1>14 DEF IInv, TypeOK, CommitDate, Goto
  <2> QED BY <1>14, <2>1, EndedTransaction DEF CommitDate
<1>15. ASSUME NEW c \in Client, CommitRemarks(c)
      PROVE  TransactionInv'
  <2>1. pc'[c] \notin {"player", "commit"}
        /\ \A d \in Client \ {c} : pc'[d] = pc[d] /\ req'[d] = req[d] /\ seen'[d] = seen[d]
    BY <1>15 DEF IInv, TypeOK, CommitRemarks, Answer
  <2> QED BY <1>15, <2>1, EndedTransaction DEF CommitRemarks, rows
<1>16. ASSUME NEW c \in Client, RereadAfterDate(c)
      PROVE  TransactionInv'
  <2>1. pc' \in [Client -> Steps] /\ pc'[c] \notin {"player", "commit"}
        /\ \A d \in Client \ {c} : pc'[d] = pc[d] /\ req'[d] = req[d] /\ seen'[d] = seen[d]
    BY <1>16 DEF IInv, TypeOK, RereadAfterDate, Goto, Answer, Steps
  <2> QED BY <1>16, <2>1, AsideTransaction DEF RereadAfterDate, rows, locks
<1>17. ASSUME NEW c \in Client, EnqueueRescore(c)
      PROVE  TransactionInv'
  <2>1. pc' \in [Client -> Steps] /\ pc'[c] \notin {"player", "commit"}
        /\ \A d \in Client \ {c} : pc'[d] = pc[d] /\ req'[d] = req[d] /\ seen'[d] = seen[d]
    BY <1>17 DEF IInv, TypeOK, EnqueueRescore, Goto, Steps
  <2> QED BY <1>17, <2>1, AsideTransaction DEF EnqueueRescore, rows, locks
<1>18. ASSUME NEW c \in Client, ReadRow(c)
      PROVE  TransactionInv'
  <2>1. pc' \in [Client -> Steps] /\ pc'[c] \notin {"player", "commit"}
        /\ \A d \in Client \ {c} : pc'[d] = pc[d] /\ req'[d] = req[d] /\ seen'[d] = seen[d]
    BY <1>18 DEF IInv, TypeOK, ReadRow, Goto, Steps
  <2> QED BY <1>18, <2>1, AsideTransaction DEF ReadRow, rows, locks
<1>19. ASSUME NEW c \in Client, ReadHoles(c)
      PROVE  TransactionInv'
  <2>1. pc' \in [Client -> Steps] /\ pc'[c] \notin {"player", "commit"}
        /\ \A d \in Client \ {c} : pc'[d] = pc[d] /\ req'[d] = req[d] /\ seen'[d] = seen[d]
    BY <1>19 DEF IInv, TypeOK, ReadHoles, Goto, Steps
  <2> QED BY <1>19, <2>1, AsideTransaction DEF ReadHoles, rows, locks
<1>20. ASSUME NEW c \in Client, ReadPcc(c)
      PROVE  TransactionInv'
  <2>1. pc' \in [Client -> Steps] /\ pc'[c] \notin {"player", "commit"}
        /\ \A d \in Client \ {c} : pc'[d] = pc[d] /\ req'[d] = req[d] /\ seen'[d] = seen[d]
    BY <1>20 DEF IInv, TypeOK, ReadPcc, Goto, Steps
  <2> QED BY <1>20, <2>1, AsideTransaction DEF ReadPcc, rows, locks
<1>21. ASSUME NEW c \in Client, WriteScores(c)
      PROVE  TransactionInv'
  <2>1. pc' \in [Client -> Steps] /\ pc'[c] \notin {"player", "commit"}
        /\ \A d \in Client \ {c} : pc'[d] = pc[d] /\ req'[d] = req[d] /\ seen'[d] = seen[d]
    BY <1>21 DEF IInv, TypeOK, WriteScores, Goto, Answer, Steps
  <2> QED BY <1>21, <2>1, AsideTransaction DEF WriteScores, locks
<1>22. ASSUME NEW c \in Client, RescoreGone(c)
      PROVE  TransactionInv'
  <2>1. pc' \in [Client -> Steps] /\ pc'[c] \notin {"player", "commit"}
        /\ \A d \in Client \ {c} : pc'[d] = pc[d] /\ req'[d] = req[d] /\ seen'[d] = seen[d]
    BY <1>22 DEF IInv, TypeOK, RescoreGone, Answer, Steps
  <2> QED BY <1>22, <2>1, AsideTransaction DEF RescoreGone, rows, locks
<1>23. ASSUME NEW c \in Client, Rollback(c)
      PROVE  TransactionInv'
  <2>1. pc'[c] \notin {"player", "commit"}
        /\ \A d \in Client \ {c} : pc'[d] = pc[d] /\ req'[d] = req[d] /\ seen'[d] = seen[d]
    BY <1>23 DEF IInv, TypeOK, Rollback, Answer
  <2> QED BY <1>23, <2>1, EndedTransaction DEF Rollback, rows
<1>24. ASSUME NEW c \in Client, RescoreFails(c)
      PROVE  TransactionInv'
  <2>1. pc' \in [Client -> Steps] /\ pc'[c] \notin {"player", "commit"}
        /\ \A d \in Client \ {c} : pc'[d] = pc[d] /\ req'[d] = req[d] /\ seen'[d] = seen[d]
    BY <1>24 DEF IInv, TypeOK, RescoreFails, Answer, Steps
  <2> QED BY <1>24, <2>1, AsideTransaction DEF RescoreFails, rows, locks
<1>25. ASSUME NEW a \in Corrector, NEW e \in Day, NEW v \in Pcc, StartCorrection(a, e, v)
      PROVE  TransactionInv'
  <2> SUFFICES ASSUME NEW d \in Client, pc'[d] \in {"player", "commit"}
               PROVE  InTransaction(d)'
    BY DEF TransactionInv
  <2>1. InTransaction(d)
    BY <1>25 DEF IInv, TransactionInv, StartCorrection, clients
  <2> QED BY <1>25, <2>1, KeepsInTransaction
             DEF InTransaction, StartCorrection, ApprovedRounds, rows, clients
<1>26. ASSUME NEW a \in Corrector, ApplyPcc(a)
      PROVE  TransactionInv'
  BY <1>26, ConstantsType, EndedTransaction DEF ApplyPcc, clients
<1>27. ASSUME NEW a \in Corrector, NEW p \in Player, ReadAffected(a, p)
      PROVE  TransactionInv'
  <2> SUFFICES ASSUME NEW d \in Client, pc'[d] \in {"player", "commit"}
               PROVE  InTransaction(d)'
    BY DEF TransactionInv
  <2>1. pc'[d] = pc[d] /\ req'[d] = req[d] /\ seen'[d] = seen[d]
    BY <1>27 DEF IInv, TypeOK, ReadAffected, clients
  <2>2. InTransaction(d) /\ R(d) \in Round /\ Pl(d) \in Player
    BY <2>1, RequestedType DEF IInv, TransactionInv
  <2>3. \A q \in Player : ApprovedRounds(q)' = ApprovedRounds(q)
    BY <1>27 DEF IInv, TypeOK, ReadAffected, ApprovedRounds, Exists, rows
  <2>4. playerLock[Pl(d)] = d => playerLock'[Pl(d)] = d
    BY <1>27, <2>2, ConstantsType DEF IInv, TypeOK, ReadAffected
  <2> QED
    BY <1>27, <2>1, <2>2, <2>3, <2>4, KeepsInTransaction
       DEF IInv, TypeOK, ReadAffected, InTransaction, Exists, Release, rows
<1>28. ASSUME NEW a \in Corrector, CommitAffected(a)
      PROVE  TransactionInv'
  BY <1>28, ConstantsType, EndedTransaction DEF CommitAffected, clients, rows
<1>29. ASSUME NEW a \in Corrector, AffectedFails(a)
      PROVE  TransactionInv'
  BY <1>29, ConstantsType, EndedTransaction DEF AffectedFails, clients, rows
<1>30. ASSUME Restart
      PROVE  TransactionInv'
  BY <1>30 DEF Restart, TransactionInv
<1>31. ASSUME NEW r \in Round, ReplaceTee(r)
      PROVE  TransactionInv'
  <2> SUFFICES ASSUME NEW d \in Client, pc[d] \in {"player", "commit"} PROVE InTransaction(d)'
    BY <1>31 DEF TransactionInv, ReplaceTee, clients
  <2>1. InTransaction(d) /\ UNCHANGED <<status, card, roundLock, playerLock, pc, req, seen>>
    BY <1>31 DEF IInv, TransactionInv, ReplaceTee, rows, locks, clients
  <2>2. \A p \in Player : ApprovedRounds(p)' = ApprovedRounds(p)
    BY <2>1 DEF ApprovedRounds
  <2> QED BY <2>1, <2>2, KeepsInTransaction DEF InTransaction
<1> QED
  BY <1>1, <1>2, <1>3, <1>4, <1>5, <1>6, <1>7, <1>8, <1>9, <1>10, <1>11, <1>12, <1>13, <1>14,
     <1>15, <1>16, <1>17, <1>18, <1>19, <1>20, <1>21, <1>22, <1>23, <1>24, <1>25, <1>26, <1>27,
     <1>28, <1>29, <1>30, <1>31
     DEF Next, Step, CorrectorStep

(* What a correction relies on outlives a step that leaves it alone, keeps every
   score and does not disturb the player it has locked. *)
LEMMA KeepsCorrecting ==
  ASSUME IInv, NEW b \in Corrector, fix'[b] = fix[b],
         \A r \in Round : agg[r] # NULL => agg'[r] # NULL,
         \A p \in Player : playerLock[p] = b =>
           playerLock'[p] = b /\ ApprovedRounds(p)' = ApprovedRounds(p)
  PROVE  Correcting(b)'
<1>1. Correcting(b) /\ fix[b].targets \in SUBSET Round
  BY DEF IInv, TypeOK, Correction, CorrectionInv
<1>2. CASE fix[b].step # "commit"
  BY <1>1, <1>2 DEF Correcting
<1>3. CASE fix[b].step = "commit"
  <2>1. /\ fix[b].player \in Player /\ playerLock[fix[b].player] = b
        /\ Counts(fix[b].differentials, ApprovedRounds(fix[b].player))
    BY <1>1, <1>3 DEF Correcting
  <2>2. PICK p \in Player : p = fix[b].player
    BY <2>1
  <2>3. playerLock'[p] = b /\ ApprovedRounds(p)' = ApprovedRounds(p)
    BY <2>1, <2>2
  <2>4. Counts(fix[b].differentials, ApprovedRounds(p)')
    BY <2>1, <2>2, <2>3
  <2>5. ApprovedRounds(fix[b].player)' = ApprovedRounds(p)'
    BY <2>2 DEF ApprovedRounds
  <2>6. Counts(fix[b].differentials, ApprovedRounds(fix[b].player))'
    BY <2>4, <2>5 DEF Counts, Eligible
  <2> QED BY <1>3, <2>1, <2>2, <2>3, <2>6 DEF Correcting
<1> QED BY <1>2, <1>3

(* A step that neither moves a round nor touches a correction keeps what the
   corrections rely on. *)
LEMMA AsideCorrection ==
  ASSUME IInv, UNCHANGED <<status, fix>>, \A r \in Round : agg[r] # NULL => agg'[r] # NULL,
         \A b \in Corrector, p \in Player : playerLock[p] = b => playerLock'[p] = b
  PROVE  CorrectionInv'
<1>1. \A p \in Player : ApprovedRounds(p)' = ApprovedRounds(p)
  BY DEF ApprovedRounds
<1> QED BY <1>1, KeepsCorrecting DEF CorrectionInv

(* A transition disturbs no correction: the player it recalculates is locked by
   it, hence by no correction. *)
LEMMA MovesKeepCorrections ==
  ASSUME IInv, NEW c \in Client, Moves(c)
  PROVE  CorrectionInv'
<1> SUFFICES ASSUME NEW b \in Corrector PROVE Correcting(b)'
  BY DEF CorrectionInv
<1>1. fix'[b] = fix[b] /\ b # c /\ Release(c)
  BY TransitionMoves, ConstantsType
<1>2. \A r \in Round : agg[r] # NULL => agg'[r] # NULL
  BY MovesTransition DEF IInv, Transition
<1>3. ASSUME NEW p \in Player, playerLock[p] = b
      PROVE  playerLock'[p] = b /\ ApprovedRounds(p)' = ApprovedRounds(p)
  <2>1. playerLock'[p] = b
    BY <1>1, <1>3 DEF Release
  <2>2. p # Pl(c) \/ ~Recalculates(Op(c), R(c))
    BY <1>1, <1>3, TransitionMoves
  <2> QED BY <2>1, <2>2, TransitionMoves
<1> QED BY <1>1, <1>2, <1>3, KeepsCorrecting

(* Every step keeps what the corrections under way rely on. *)
LEMMA CorrectionStep ==
  ASSUME IInv, Next
  PROVE  CorrectionInv'
<1>1. ASSUME NEW r \in Round, CreateRound(r)
      PROVE  CorrectionInv'
  <2> SUFFICES ASSUME NEW b \in Corrector PROVE Correcting(b)'
    BY DEF CorrectionInv
  <2>1. fix'[b] = fix[b] /\ agg' = agg
    BY <1>1 DEF CreateRound
  <2>2. \A p \in Player : ApprovedRounds(p)' = ApprovedRounds(p)
    BY <1>1 DEF IInv, TypeOK, CreateRound, ApprovedRounds
  <2>3. \A p \in Player : playerLock[p] = b => playerLock'[p] = b
    BY <1>1 DEF CreateRound, locks
  <2> QED BY <2>1, <2>2, <2>3, KeepsCorrecting
<1>2. ASSUME NEW c \in Client, NEW op \in AllOps, NEW r \in Round, Request(c, op, r)
      PROVE  CorrectionInv'
  BY <1>2, AsideCorrection DEF Request, rows, locks
<1>3. ASSUME NEW c \in Client, CheckApprovable(c)
      PROVE  CorrectionInv'
  BY <1>3, AsideCorrection DEF CheckApprovable, rows, locks
<1>4. ASSUME NEW c \in Client, LockRound(c)
      PROVE  CorrectionInv'
  BY <1>4, AsideCorrection DEF LockRound, rows
<1>5. ASSUME NEW c \in Client, Refuse(c)
      PROVE  CorrectionInv'
  BY <1>5, AsideCorrection DEF Refuse, rows, locks
<1>6. ASSUME NEW c \in Client, ReadDifferentials(c)
      PROVE  CorrectionInv'
  BY <1>6, ConstantsType, RequestedType, AsideCorrection
     DEF IInv, TypeOK, ReadDifferentials, rows
<1>7. ASSUME NEW c \in Client, CommitSubmit(c)
      PROVE  CorrectionInv'
  BY <1>7, MovesKeepCorrections DEF Moves
<1>8. ASSUME NEW c \in Client, CommitAdminSubmit(c)
      PROVE  CorrectionInv'
  BY <1>8, MovesKeepCorrections DEF Moves
<1>9. ASSUME NEW c \in Client, CommitApprove(c)
      PROVE  CorrectionInv'
  BY <1>9, MovesKeepCorrections DEF Moves
<1>10. ASSUME NEW c \in Client, CommitReject(c)
      PROVE  CorrectionInv'
  BY <1>10, MovesKeepCorrections DEF Moves
<1>11. ASSUME NEW c \in Client, CommitDelete(c)
      PROVE  CorrectionInv'
  BY <1>11, MovesKeepCorrections DEF Moves
<1>12. ASSUME NEW c \in Client, CommitReopen(c)
      PROVE  CorrectionInv'
  BY <1>12, MovesKeepCorrections DEF Moves
<1>13. ASSUME NEW c \in Client, CommitHole(c)
      PROVE  CorrectionInv'
  BY <1>13, ConstantsType, AsideCorrection DEF CommitHole, Release
<1>14. ASSUME NEW c \in Client, CommitDate(c)
      PROVE  CorrectionInv'
  BY <1>14, ConstantsType, AsideCorrection DEF CommitDate, Release
<1>15. ASSUME NEW c \in Client, CommitRemarks(c)
      PROVE  CorrectionInv'
  BY <1>15, ConstantsType, AsideCorrection DEF CommitRemarks, Release, rows
<1>16. ASSUME NEW c \in Client, RereadAfterDate(c)
      PROVE  CorrectionInv'
  BY <1>16, AsideCorrection DEF RereadAfterDate, rows, locks
<1>17. ASSUME NEW c \in Client, EnqueueRescore(c)
      PROVE  CorrectionInv'
  BY <1>17, AsideCorrection DEF EnqueueRescore, rows, locks
<1>18. ASSUME NEW c \in Client, ReadRow(c)
      PROVE  CorrectionInv'
  BY <1>18, AsideCorrection DEF ReadRow, rows, locks
<1>19. ASSUME NEW c \in Client, ReadHoles(c)
      PROVE  CorrectionInv'
  BY <1>19, AsideCorrection DEF ReadHoles, rows, locks
<1>20. ASSUME NEW c \in Client, ReadPcc(c)
      PROVE  CorrectionInv'
  BY <1>20, AsideCorrection DEF ReadPcc, rows, locks
<1>21. ASSUME NEW c \in Client, WriteScores(c)
      PROVE  CorrectionInv'
  BY <1>21, WritesAScore, AsideCorrection DEF WriteScores, locks
<1>22. ASSUME NEW c \in Client, RescoreGone(c)
      PROVE  CorrectionInv'
  BY <1>22, AsideCorrection DEF RescoreGone, rows, locks
<1>23. ASSUME NEW c \in Client, Rollback(c)
      PROVE  CorrectionInv'
  BY <1>23, ConstantsType, AsideCorrection DEF Rollback, Release, rows
<1>24. ASSUME NEW c \in Client, RescoreFails(c)
      PROVE  CorrectionInv'
  BY <1>24, AsideCorrection DEF RescoreFails, rows, locks
<1>25. ASSUME NEW a \in Corrector, NEW d \in Day, NEW v \in Pcc, StartCorrection(a, d, v)
      PROVE  CorrectionInv'
  <2> SUFFICES ASSUME NEW b \in Corrector PROVE Correcting(b)'
    BY DEF CorrectionInv
  <2>1. CASE b = a
    <3>1. fix'[a] = [NoFix EXCEPT !.step = "apply", !.day = d, !.pcc = v,
            !.targets = {r \in Round : Exists(r) /\ day[r] = d /\ agg[r] # NULL}]
      BY <1>25 DEF IInv, TypeOK, StartCorrection
    <3>2. /\ fix'[a].step = "apply" /\ fix'[a].day = d /\ fix'[a].pcc = v
          /\ \A r \in fix'[a].targets : agg[r] # NULL
      BY <3>1 DEF NoFix
    <3> QED BY <1>25, <2>1, <3>2 DEF StartCorrection, Correcting, rows
  <2>2. CASE b # a
    <3>1. fix'[b] = fix[b]
      BY <1>25, <2>2 DEF IInv, TypeOK, StartCorrection, NextPlayer
    <3>2. \A r \in Round : agg[r] # NULL => agg'[r] # NULL
      BY <1>25 DEF StartCorrection, rows
    <3>3. \A p \in Player : ApprovedRounds(p)' = ApprovedRounds(p)
      BY <1>25 DEF StartCorrection, ApprovedRounds, rows
    <3>4. \A p \in Player : playerLock[p] = b => playerLock'[p] = b
      BY <1>25, <2>2, ConstantsType DEF IInv, TypeOK, StartCorrection, Release
    <3> QED BY <3>1, <3>2, <3>3, <3>4, KeepsCorrecting
  <2> QED BY <2>1, <2>2
<1>26. ASSUME NEW a \in Corrector, ApplyPcc(a)
      PROVE  CorrectionInv'
  <2> SUFFICES ASSUME NEW b \in Corrector PROVE Correcting(b)'
    BY DEF CorrectionInv
  <2>1. CASE b = a
    <3>1. fix'[a].step \in {"idle", "players"}
      BY <1>26 DEF IInv, TypeOK, ApplyPcc, NoFix
    <3> QED BY <2>1, <3>1 DEF Correcting
  <2>2. CASE b # a
    <3>1. fix'[b] = fix[b]
      BY <1>26, <2>2 DEF IInv, TypeOK, ApplyPcc, NextPlayer
    <3>2. \A r \in Round : agg[r] # NULL => agg'[r] # NULL
      BY <1>26, RewritesScores DEF ApplyPcc
    <3>3. \A p \in Player : ApprovedRounds(p)' = ApprovedRounds(p)
      BY <1>26 DEF ApplyPcc, ApprovedRounds
    <3>4. \A p \in Player : playerLock[p] = b => playerLock'[p] = b
      BY <1>26, <2>2, ConstantsType DEF IInv, TypeOK, ApplyPcc, Release
    <3> QED BY <3>1, <3>2, <3>3, <3>4, KeepsCorrecting
  <2> QED BY <2>1, <2>2
<1>27. ASSUME NEW a \in Corrector, NEW p \in Player, ReadAffected(a, p)
      PROVE  CorrectionInv'
  <2> SUFFICES ASSUME NEW b \in Corrector PROVE Correcting(b)'
    BY DEF CorrectionInv
  <2>1. CASE b = a
    <3>1. fix'[a].step = "commit" /\ fix'[a].player = p
          /\ fix'[a].differentials = Differentials(ApprovedRounds(p))
      BY <1>27 DEF IInv, TypeOK, Correction, ReadAffected
    <3>2. Counts(Differentials(ApprovedRounds(p)), ApprovedRounds(p))
      BY DifferentialsCount DEF IInv, ScoredInv, ApprovedRoundsAreScored, ApprovedRounds
    <3>3. ApprovedRounds(fix[a].player)' = ApprovedRounds(p)
      BY <1>27, <3>1 DEF ReadAffected, ApprovedRounds, rows
    <3>4. Counts(fix[a].differentials, ApprovedRounds(fix[a].player))'
      BY <3>1, <3>2, <3>3 DEF Counts, Eligible
    <3>5. playerLock'[p] = a
      BY <1>27 DEF IInv, TypeOK, ReadAffected
    <3> QED BY <2>1, <3>1, <3>4, <3>5 DEF Correcting
  <2>2. CASE b # a
    <3>1. fix'[b] = fix[b]
      BY <1>27, <2>2 DEF IInv, TypeOK, ReadAffected, NextPlayer
    <3>2. \A r \in Round : agg[r] # NULL => agg'[r] # NULL
      BY <1>27 DEF ReadAffected, rows
    <3>3. \A q \in Player : ApprovedRounds(q)' = ApprovedRounds(q)
      BY <1>27 DEF ReadAffected, ApprovedRounds, rows
    <3>4. \A q \in Player : playerLock[q] = b => playerLock'[q] = b
      BY <1>27, <2>2, ConstantsType DEF IInv, TypeOK, ReadAffected, Release
    <3> QED BY <3>1, <3>2, <3>3, <3>4, KeepsCorrecting
  <2> QED BY <2>1, <2>2
<1>28. ASSUME NEW a \in Corrector, CommitAffected(a)
      PROVE  CorrectionInv'
  <2> SUFFICES ASSUME NEW b \in Corrector PROVE Correcting(b)'
    BY DEF CorrectionInv
  <2>1. CASE b = a
    <3>1. fix'[a].step \in {"idle", "players"}
      BY <1>28 DEF IInv, TypeOK, CommitAffected, NextPlayer, NoFix
    <3> QED BY <2>1, <3>1 DEF Correcting
  <2>2. CASE b # a
    <3>1. fix'[b] = fix[b]
      BY <1>28, <2>2 DEF IInv, TypeOK, CommitAffected, NextPlayer
    <3>2. \A r \in Round : agg[r] # NULL => agg'[r] # NULL
      BY <1>28 DEF CommitAffected, rows
    <3>3. \A p \in Player : ApprovedRounds(p)' = ApprovedRounds(p)
      BY <1>28 DEF CommitAffected, ApprovedRounds, rows
    <3>4. \A p \in Player : playerLock[p] = b => playerLock'[p] = b
      BY <1>28, <2>2, ConstantsType DEF IInv, TypeOK, CommitAffected, Release
    <3> QED BY <3>1, <3>2, <3>3, <3>4, KeepsCorrecting
  <2> QED BY <2>1, <2>2
<1>29. ASSUME NEW a \in Corrector, AffectedFails(a)
      PROVE  CorrectionInv'
  <2> SUFFICES ASSUME NEW b \in Corrector PROVE Correcting(b)'
    BY DEF CorrectionInv
  <2>1. CASE b = a
    <3>1. fix'[a].step \in {"idle", "players"}
      BY <1>29 DEF IInv, TypeOK, AffectedFails, NextPlayer, NoFix
    <3> QED BY <2>1, <3>1 DEF Correcting
  <2>2. CASE b # a
    <3>1. fix'[b] = fix[b]
      BY <1>29, <2>2 DEF IInv, TypeOK, AffectedFails, NextPlayer
    <3>2. \A r \in Round : agg[r] # NULL => agg'[r] # NULL
      BY <1>29 DEF AffectedFails, rows
    <3>3. \A p \in Player : ApprovedRounds(p)' = ApprovedRounds(p)
      BY <1>29 DEF AffectedFails, ApprovedRounds, rows
    <3>4. \A p \in Player : playerLock[p] = b => playerLock'[p] = b
      BY <1>29, <2>2, ConstantsType DEF IInv, TypeOK, AffectedFails, Release
    <3> QED BY <3>1, <3>2, <3>3, <3>4, KeepsCorrecting
  <2> QED BY <2>1, <2>2
<1>30. ASSUME Restart
      PROVE  CorrectionInv'
  BY <1>30 DEF Restart, CorrectionInv, Correcting, NoFix
<1>31. ASSUME NEW r \in Round, ReplaceTee(r)
      PROVE  CorrectionInv'
  BY <1>31, AsideCorrection DEF ReplaceTee, rows, locks
<1> QED
  BY <1>1, <1>2, <1>3, <1>4, <1>5, <1>6, <1>7, <1>8, <1>9, <1>10, <1>11, <1>12, <1>13, <1>14,
     <1>15, <1>16, <1>17, <1>18, <1>19, <1>20, <1>21, <1>22, <1>23, <1>24, <1>25, <1>26, <1>27,
     <1>28, <1>29, <1>30, <1>31
     DEF Next, Step, CorrectorStep

(* Writing what was read under the player's lock leaves the index counting the
   approved rounds, whether it changes or not. *)
LEMMA RecalculatedCounts ==
  ASSUME TypeOK, NEW p \in Player, NEW D, NEW S, NEW silently,
         Recalculated(p, D, silently), Counts(D, S), Eligible(S)
  PROVE  {x[1] : x \in index'[p]} = S
<1>1. Eligible(D) /\ {x[1] : x \in D} = S
  BY DEF Counts
<1>2. index'[p] = D
  <2>1. CASE D # index[p]
    BY <1>1, <2>1 DEF TypeOK, Recalculated
  <2>2. CASE D = index[p]
    BY <1>1, <2>2 DEF Recalculated, players
  <2> QED BY <2>1, <2>2
<1> QED BY <1>1, <1>2

(* A recalculation writes one player's index only. *)
LEMMA RecalculatedKeepsOthers ==
  ASSUME TypeOK, NEW p \in Player, NEW D, NEW silently, Recalculated(p, D, silently),
         NEW q \in Player, q # p
  PROVE  index'[q] = index[q]
BY DEF TypeOK, Recalculated, players

(* An index goes on counting the approved rounds while neither changes. *)
LEMMA AsideIndex ==
  ASSUME IInv, UNCHANGED <<status, index>>
  PROVE  IndexCountsApprovedRounds'
<1>1. \A p \in Player : ApprovedRounds(p)' = ApprovedRounds(p)
  BY DEF ApprovedRounds
<1> QED BY <1>1 DEF IInv, IndexCountsApprovedRounds, Eligible

(* A transition leaves every index counting the approved rounds: the player's
   because it recalculated, the others because they did not change. *)
LEMMA MovesKeepIndex ==
  ASSUME IInv, NEW c \in Client, Moves(c)
  PROVE  IndexCountsApprovedRounds'
<1> SUFFICES ASSUME NEW p \in Player, Eligible(ApprovedRounds(p)')
             PROVE  {x[1] : x \in index'[p]} = ApprovedRounds(p)'
  BY DEF IndexCountsApprovedRounds, Eligible
<1>1. CASE p = Pl(c) /\ Recalculates(Op(c), R(c))
  <2>1. ApprovedRounds(p)' = ApprovedFor(c)
    BY <1>1, TransitionMoves
  <2>2. Eligible(ApprovedFor(c)) /\ Counts(seen[c].differentials, ApprovedFor(c))
        /\ Recalculated(p, seen[c].differentials, Op(c) = "reopen")
    BY <1>1, <2>1, TransitionMoves
  <2> QED BY <2>1, <2>2, RecalculatedCounts DEF IInv
<1>2. CASE ~(p = Pl(c) /\ Recalculates(Op(c), R(c)))
  <2>1. ApprovedRounds(p)' = ApprovedRounds(p)
    BY <1>2, TransitionMoves
  <2>2. index'[p] = index[p]
    <3>1. CASE Recalculates(Op(c), R(c))
      BY <1>2, <3>1, TransitionMoves, RecalculatedKeepsOthers DEF IInv
    <3>2. CASE ~Recalculates(Op(c), R(c))
      BY <3>2, TransitionMoves DEF players
    <3> QED BY <3>1, <3>2
  <2> QED BY <2>1, <2>2 DEF IInv, IndexCountsApprovedRounds
<1> QED BY <1>1, <1>2

(* Every step leaves every index counting the approved rounds. *)
LEMMA IndexStep ==
  ASSUME IInv, Next
  PROVE  IndexCountsApprovedRounds'
<1>1. ASSUME NEW r \in Round, CreateRound(r)
      PROVE  IndexCountsApprovedRounds'
  <2>1. index' = index /\ \A p \in Player : ApprovedRounds(p)' = ApprovedRounds(p)
    BY <1>1 DEF IInv, TypeOK, CreateRound, ApprovedRounds, players
  <2> QED BY <2>1 DEF IInv, IndexCountsApprovedRounds, Eligible
<1>2. ASSUME NEW c \in Client, NEW op \in AllOps, NEW r \in Round, Request(c, op, r)
      PROVE  IndexCountsApprovedRounds'
  BY <1>2, AsideIndex DEF Request, rows, players
<1>3. ASSUME NEW c \in Client, CheckApprovable(c)
      PROVE  IndexCountsApprovedRounds'
  BY <1>3, AsideIndex DEF CheckApprovable, rows, players
<1>4. ASSUME NEW c \in Client, LockRound(c)
      PROVE  IndexCountsApprovedRounds'
  BY <1>4, AsideIndex DEF LockRound, rows, players
<1>5. ASSUME NEW c \in Client, Refuse(c)
      PROVE  IndexCountsApprovedRounds'
  BY <1>5, AsideIndex DEF Refuse, rows, players
<1>6. ASSUME NEW c \in Client, ReadDifferentials(c)
      PROVE  IndexCountsApprovedRounds'
  BY <1>6, AsideIndex DEF ReadDifferentials, rows, players
<1>7. ASSUME NEW c \in Client, CommitSubmit(c)
      PROVE  IndexCountsApprovedRounds'
  BY <1>7, MovesKeepIndex DEF Moves
<1>8. ASSUME NEW c \in Client, CommitAdminSubmit(c)
      PROVE  IndexCountsApprovedRounds'
  BY <1>8, MovesKeepIndex DEF Moves
<1>9. ASSUME NEW c \in Client, CommitApprove(c)
      PROVE  IndexCountsApprovedRounds'
  BY <1>9, MovesKeepIndex DEF Moves
<1>10. ASSUME NEW c \in Client, CommitReject(c)
      PROVE  IndexCountsApprovedRounds'
  BY <1>10, MovesKeepIndex DEF Moves
<1>11. ASSUME NEW c \in Client, CommitDelete(c)
      PROVE  IndexCountsApprovedRounds'
  BY <1>11, MovesKeepIndex DEF Moves
<1>12. ASSUME NEW c \in Client, CommitReopen(c)
      PROVE  IndexCountsApprovedRounds'
  BY <1>12, MovesKeepIndex DEF Moves
<1>13. ASSUME NEW c \in Client, CommitHole(c)
      PROVE  IndexCountsApprovedRounds'
  BY <1>13, AsideIndex DEF CommitHole, players
<1>14. ASSUME NEW c \in Client, CommitDate(c)
      PROVE  IndexCountsApprovedRounds'
  BY <1>14, AsideIndex DEF CommitDate, players
<1>15. ASSUME NEW c \in Client, CommitRemarks(c)
      PROVE  IndexCountsApprovedRounds'
  BY <1>15, AsideIndex DEF CommitRemarks, rows, players
<1>16. ASSUME NEW c \in Client, RereadAfterDate(c)
      PROVE  IndexCountsApprovedRounds'
  BY <1>16, AsideIndex DEF RereadAfterDate, rows, players
<1>17. ASSUME NEW c \in Client, EnqueueRescore(c)
      PROVE  IndexCountsApprovedRounds'
  BY <1>17, AsideIndex DEF EnqueueRescore, rows, players
<1>18. ASSUME NEW c \in Client, ReadRow(c)
      PROVE  IndexCountsApprovedRounds'
  BY <1>18, AsideIndex DEF ReadRow, rows, players
<1>19. ASSUME NEW c \in Client, ReadHoles(c)
      PROVE  IndexCountsApprovedRounds'
  BY <1>19, AsideIndex DEF ReadHoles, rows, players
<1>20. ASSUME NEW c \in Client, ReadPcc(c)
      PROVE  IndexCountsApprovedRounds'
  BY <1>20, AsideIndex DEF ReadPcc, rows, players
<1>21. ASSUME NEW c \in Client, WriteScores(c)
      PROVE  IndexCountsApprovedRounds'
  BY <1>21, AsideIndex DEF WriteScores, players
<1>22. ASSUME NEW c \in Client, RescoreGone(c)
      PROVE  IndexCountsApprovedRounds'
  BY <1>22, AsideIndex DEF RescoreGone, rows, players
<1>23. ASSUME NEW c \in Client, Rollback(c)
      PROVE  IndexCountsApprovedRounds'
  BY <1>23, AsideIndex DEF Rollback, rows, players
<1>24. ASSUME NEW c \in Client, RescoreFails(c)
      PROVE  IndexCountsApprovedRounds'
  BY <1>24, AsideIndex DEF RescoreFails, rows, players
<1>25. ASSUME NEW a \in Corrector, NEW d \in Day, NEW v \in Pcc, StartCorrection(a, d, v)
      PROVE  IndexCountsApprovedRounds'
  BY <1>25, AsideIndex DEF StartCorrection, rows, players
<1>26. ASSUME NEW a \in Corrector, ApplyPcc(a)
      PROVE  IndexCountsApprovedRounds'
  BY <1>26, AsideIndex DEF ApplyPcc, players
<1>27. ASSUME NEW a \in Corrector, NEW p \in Player, ReadAffected(a, p)
      PROVE  IndexCountsApprovedRounds'
  BY <1>27, AsideIndex DEF ReadAffected, rows, players
<1>28. ASSUME NEW a \in Corrector, CommitAffected(a)
      PROVE  IndexCountsApprovedRounds'
  <2> SUFFICES ASSUME NEW p \in Player, Eligible(ApprovedRounds(p))
               PROVE  {x[1] : x \in index'[p]} = ApprovedRounds(p)
    BY <1>28 DEF CommitAffected, IndexCountsApprovedRounds, ApprovedRounds, Eligible, rows
  <2>1. /\ fix[a].player \in Player
        /\ Counts(fix[a].differentials, ApprovedRounds(fix[a].player))
        /\ Recalculated(fix[a].player, fix[a].differentials, FALSE)
    BY <1>28 DEF IInv, CorrectionInv, Correcting, CommitAffected
  <2>2. CASE p = fix[a].player
    BY <2>1, <2>2, RecalculatedCounts DEF IInv
  <2>3. CASE p # fix[a].player
    BY <2>1, <2>3, RecalculatedKeepsOthers DEF IInv, IndexCountsApprovedRounds
  <2> QED BY <2>2, <2>3
<1>29. ASSUME NEW a \in Corrector, AffectedFails(a)
      PROVE  IndexCountsApprovedRounds'
  BY <1>29, AsideIndex DEF AffectedFails, rows, players
<1>30. ASSUME Restart
      PROVE  IndexCountsApprovedRounds'
  BY <1>30, AsideIndex DEF Restart, rows, players
<1>31. ASSUME NEW r \in Round, ReplaceTee(r)
      PROVE  IndexCountsApprovedRounds'
  BY <1>31, AsideIndex DEF ReplaceTee, rows, players
<1> QED
  BY <1>1, <1>2, <1>3, <1>4, <1>5, <1>6, <1>7, <1>8, <1>9, <1>10, <1>11, <1>12, <1>13, <1>14,
     <1>15, <1>16, <1>17, <1>18, <1>19, <1>20, <1>21, <1>22, <1>23, <1>24, <1>25, <1>26, <1>27,
     <1>28, <1>29, <1>30, <1>31
     DEF Next, Step, CorrectorStep

(* The inductive invariant holds initially. *)
LEMMA InitIInv ==
  ASSUME Init
  PROVE  IInv
<1> USE ConstantsType DEF Init
<1>1. TypeOK
  <2>1. \A r \in Round : [h \in Hole |-> NULL] \in Card
    BY DEF Card
  <2>2. NoFix \in Correction
    BY DEF NoFix, Correction, Index
  <2>3. /\ status \in [Round -> Statuses] /\ card \in [Round -> Card] /\ day \in [Round -> Day]
        /\ agg \in [Round -> Agg \cup {NULL}] /\ note \in [Round -> Events \cup {NULL}]
        /\ dailyPcc \in [Day -> Pcc]
        /\ asks \in [Round -> HoleCounts] /\ outgrown \subseteq Round
        /\ index \in [Player -> Index] /\ told \in [Player -> Index]
    BY <2>1 DEF Statuses, Index
  <2>4. /\ roundLock \in [Round -> Client \cup {NULL}]
        /\ playerLock \in [Player -> Client \cup Corrector \cup {NULL}]
        /\ pccLock \in [Day -> Corrector \cup {NULL}]
        /\ chain \in [Round -> Seq(Client)] /\ faults \in 0 .. MaxFaults
    OBVIOUS
  <2>5. /\ pc \in [Client -> Steps] /\ req \in [Client -> Requested \cup {NoReq}]
        /\ seen \in [Client -> Memory] /\ fix \in [Corrector -> Correction]
    BY <2>2, MemoryType DEF Steps
  <2> HIDE DEF Init
  <2> QED BY <2>3, <2>4, <2>5 DEF TypeOK
<1>2. RequestInv /\ RescoreInv /\ TransactionInv
  BY DEF RequestInv, RescoreInv, HasRead, TransactionInv
<1>3. CorrectionInv
  BY DEF CorrectionInv, Correcting, NoFix
<1>4. ScoredInv
  BY DEF ScoredInv, ApprovedRoundsAreScored
<1>5. IndexCountsApprovedRounds
  <2> SUFFICES ASSUME NEW p \in Player PROVE ~Eligible(ApprovedRounds(p))
    BY DEF IndexCountsApprovedRounds
  <2>1. ApprovedRounds(p) = {}
    BY DEF ApprovedRounds
  <2> QED BY <2>1, FS_EmptySet DEF Eligible
<1> QED BY <1>1, <1>2, <1>3, <1>4, <1>5 DEF IInv

(* The inductive invariant survives a step that changes nothing. *)
LEMMA StutterIInv ==
  ASSUME IInv, UNCHANGED vars
  PROVE  IInv'
<1> USE DEF IInv, vars, rows, tees, players, locks, clients
<1>1. TypeOK'
  BY DEF TypeOK
<1>2. RequestInv'
  BY DEF RequestInv
<1>3. RescoreInv'
  BY DEF RescoreInv, HasRead, MyTurn, R
<1>4. \A p \in Player : ApprovedRounds(p)' = ApprovedRounds(p)
  BY DEF ApprovedRounds
<1>5. TransactionInv'
  <2> SUFFICES ASSUME NEW d \in Client, pc[d] \in {"player", "commit"} PROVE InTransaction(d)'
    BY DEF TransactionInv
  <2>1. InTransaction(d)
    BY DEF TransactionInv
  <2> QED BY <1>4, <2>1, KeepsInTransaction DEF InTransaction
<1>6. CorrectionInv'
  BY <1>4, KeepsCorrecting DEF CorrectionInv
<1>7. ScoredInv'
  BY DEF ScoredInv, ApprovedRoundsAreScored, Op, R
<1>8. IndexCountsApprovedRounds'
  BY <1>4 DEF IndexCountsApprovedRounds, Eligible
<1> QED BY <1>1, <1>2, <1>3, <1>5, <1>6, <1>7, <1>8

(* Every reachable state satisfies the inductive invariant. *)
THEOREM Invariant == Spec => []IInv
<1>1. Init => IInv
  BY InitIInv
<1>2. IInv /\ [Next]_vars => IInv'
  <2>1. ASSUME IInv, Next PROVE IInv'
    BY <2>1, TypeStep, RequestStep, RescoreStep, TransactionStep, CorrectionStep, ScoredStep,
       IndexStep
       DEF IInv
  <2> QED BY <2>1, StutterIInv
<1> QED BY <1>1, <1>2, PTL DEF Spec

(* Every variable keeps to its type, for any number of clients, rounds, players
   and faults. *)
THEOREM TypeCorrect == Spec => []TypeOK
<1>1. IInv => TypeOK
  BY DEF IInv
<1> QED BY <1>1, Invariant, PTL

(* However transitions, corrections, failures and restarts interleave, an index
   with enough rounds counts exactly the player's approved rounds. *)
THEOREM IndexCorrect == Spec => []IndexCountsApprovedRounds
<1>1. IInv => IndexCountsApprovedRounds
  BY DEF IInv
<1> QED BY <1>1, Invariant, PTL

(* The differential of an approved round is never missing. *)
THEOREM ApprovedScored == Spec => []ApprovedRoundsAreScored
<1>1. IInv => ApprovedRoundsAreScored
  BY DEF IInv, ScoredInv
<1> QED BY <1>1, Invariant, PTL

(* rescoreRound's chains keep two rescores of a round from ever overlapping. *)
THEOREM NoRescoreOverlap == Spec => []RescoresDoNotOverlap
<1>1. IInv => RescoresDoNotOverlap
  BY DEF IInv, RescoreInv, HasRead, RescoresDoNotOverlap, MyTurn
<1> QED BY <1>1, Invariant, PTL

(* What an approved round keeps while it stays approved. *)
Frozen ==
  \A r \in Round : status[r] = "approved" /\ status'[r] = "approved"
                    => card'[r] = card[r] /\ day'[r] = day[r]

(* No step edits a round that is approved before and after it. *)
LEMMA FrozenStep ==
  ASSUME IInv, Next
  PROVE  Frozen
<1>1. ASSUME NEW r \in Round, CreateRound(r)
      PROVE  Frozen
  BY <1>1 DEF IInv, TypeOK, CreateRound, Frozen
<1>2. ASSUME NEW c \in Client, NEW op \in AllOps, NEW r \in Round, Request(c, op, r)
      PROVE  Frozen
  BY <1>2 DEF Request, rows, Frozen
<1>3. ASSUME NEW c \in Client, CheckApprovable(c)
      PROVE  Frozen
  BY <1>3 DEF CheckApprovable, rows, Frozen
<1>4. ASSUME NEW c \in Client, LockRound(c)
      PROVE  Frozen
  BY <1>4 DEF LockRound, rows, Frozen
<1>5. ASSUME NEW c \in Client, Refuse(c)
      PROVE  Frozen
  BY <1>5 DEF Refuse, rows, Frozen
<1>6. ASSUME NEW c \in Client, ReadDifferentials(c)
      PROVE  Frozen
  BY <1>6 DEF ReadDifferentials, rows, Frozen
<1>7. ASSUME NEW c \in Client, CommitSubmit(c)
      PROVE  Frozen
  BY <1>7 DEF CommitSubmit, Transition, Frozen
<1>8. ASSUME NEW c \in Client, CommitAdminSubmit(c)
      PROVE  Frozen
  BY <1>8 DEF CommitAdminSubmit, Transition, Frozen
<1>9. ASSUME NEW c \in Client, CommitApprove(c)
      PROVE  Frozen
  BY <1>9 DEF CommitApprove, Transition, Frozen
<1>10. ASSUME NEW c \in Client, CommitReject(c)
      PROVE  Frozen
  BY <1>10 DEF CommitReject, Transition, Frozen
<1>11. ASSUME NEW c \in Client, CommitDelete(c)
      PROVE  Frozen
  BY <1>11 DEF CommitDelete, Transition, Frozen
<1>12. ASSUME NEW c \in Client, CommitReopen(c)
      PROVE  Frozen
  BY <1>12 DEF CommitReopen, Transition, Frozen
<1>13. ASSUME NEW c \in Client, CommitHole(c)
      PROVE  Frozen
  <2>1. R(c) \in Round /\ status[R(c)] # "approved"
    BY <1>13, RequestedType
       DEF IInv, TransactionInv, InTransaction, Accepts, Submits, isNotYetApprovedStatus, CommitHole
  <2> QED BY <1>13, <2>1 DEF IInv, TypeOK, CommitHole, Frozen
<1>14. ASSUME NEW c \in Client, CommitDate(c)
      PROVE  Frozen
  <2>1. R(c) \in Round /\ status[R(c)] # "approved"
    BY <1>14, RequestedType
       DEF IInv, TransactionInv, InTransaction, Accepts, Submits, isNotYetApprovedStatus, CommitDate
  <2> QED BY <1>14, <2>1 DEF IInv, TypeOK, CommitDate, Frozen
<1>15. ASSUME NEW c \in Client, CommitRemarks(c)
      PROVE  Frozen
  BY <1>15 DEF CommitRemarks, rows, Frozen
<1>16. ASSUME NEW c \in Client, RereadAfterDate(c)
      PROVE  Frozen
  BY <1>16 DEF RereadAfterDate, rows, Frozen
<1>17. ASSUME NEW c \in Client, EnqueueRescore(c)
      PROVE  Frozen
  BY <1>17 DEF EnqueueRescore, rows, Frozen
<1>18. ASSUME NEW c \in Client, ReadRow(c)
      PROVE  Frozen
  BY <1>18 DEF ReadRow, rows, Frozen
<1>19. ASSUME NEW c \in Client, ReadHoles(c)
      PROVE  Frozen
  BY <1>19 DEF ReadHoles, rows, Frozen
<1>20. ASSUME NEW c \in Client, ReadPcc(c)
      PROVE  Frozen
  BY <1>20 DEF ReadPcc, rows, Frozen
<1>21. ASSUME NEW c \in Client, WriteScores(c)
      PROVE  Frozen
  BY <1>21 DEF WriteScores, Frozen
<1>22. ASSUME NEW c \in Client, RescoreGone(c)
      PROVE  Frozen
  BY <1>22 DEF RescoreGone, rows, Frozen
<1>23. ASSUME NEW c \in Client, Rollback(c)
      PROVE  Frozen
  BY <1>23 DEF Rollback, rows, Frozen
<1>24. ASSUME NEW c \in Client, RescoreFails(c)
      PROVE  Frozen
  BY <1>24 DEF RescoreFails, rows, Frozen
<1>25. ASSUME NEW a \in Corrector, NEW d \in Day, NEW v \in Pcc, StartCorrection(a, d, v)
      PROVE  Frozen
  BY <1>25 DEF StartCorrection, rows, Frozen
<1>26. ASSUME NEW a \in Corrector, ApplyPcc(a)
      PROVE  Frozen
  BY <1>26 DEF ApplyPcc, Frozen
<1>27. ASSUME NEW a \in Corrector, NEW p \in Player, ReadAffected(a, p)
      PROVE  Frozen
  BY <1>27 DEF ReadAffected, rows, Frozen
<1>28. ASSUME NEW a \in Corrector, CommitAffected(a)
      PROVE  Frozen
  BY <1>28 DEF CommitAffected, rows, Frozen
<1>29. ASSUME NEW a \in Corrector, AffectedFails(a)
      PROVE  Frozen
  BY <1>29 DEF AffectedFails, rows, Frozen
<1>30. ASSUME Restart
      PROVE  Frozen
  BY <1>30 DEF Restart, rows, Frozen
<1>31. ASSUME NEW r \in Round, ReplaceTee(r)
      PROVE  Frozen
  BY <1>31 DEF ReplaceTee, rows, Frozen
<1> QED
  BY <1>1, <1>2, <1>3, <1>4, <1>5, <1>6, <1>7, <1>8, <1>9, <1>10, <1>11, <1>12, <1>13, <1>14,
     <1>15, <1>16, <1>17, <1>18, <1>19, <1>20, <1>21, <1>22, <1>23, <1>24, <1>25, <1>26, <1>27,
     <1>28, <1>29, <1>30, <1>31
     DEF Next, Step, CorrectorStep

(* No step edits the hole scores or the date of a round that stays approved:
   an edit is validated under the row lock it commits with. *)
THEOREM ApprovedFrozen == Spec => ApprovedRoundsAreFrozen
<1>1. IInv /\ [Next]_vars =>
        [\A r \in Round : status[r] = "approved" /\ status'[r] = "approved"
                            => card'[r] = card[r] /\ day'[r] = day[r]]_vars
  BY FrozenStep DEF Frozen
<1> QED BY <1>1, Invariant, PTL DEF Spec, ApprovedRoundsAreFrozen

(* The steps that can change what a round's status, its hole scores, its history
   or an index says: five kinds, all the others leave them alone. *)
LEMMA StepKinds ==
  ASSUME Next
  PROVE  \/ \E r \in Round : CreateRound(r)
         \/ \E c \in Client : Moves(c)
         \/ \E c \in Client : CommitHole(c)
         \/ \E a \in Corrector : CommitAffected(a)
         \/ UNCHANGED <<status, card, note, index>>
<1>1. ASSUME NEW c \in Client, Step(c), ~Moves(c), ~CommitHole(c)
      PROVE  UNCHANGED <<status, card, note, index>>
  BY <1>1
     DEF Step, Moves, CheckApprovable, LockRound, Refuse, ReadDifferentials, CommitDate,
         CommitRemarks, RereadAfterDate, EnqueueRescore, ReadRow, ReadHoles, ReadPcc,
         WriteScores, RescoreGone, rows, players
<1>2. ASSUME NEW c \in Client, Rollback(c) \/ RescoreFails(c)
      PROVE  UNCHANGED <<status, card, note, index>>
  BY <1>2 DEF Rollback, RescoreFails, rows, players
<1>3. ASSUME NEW c \in Client, NEW op \in AllOps, NEW r \in Round, Request(c, op, r)
      PROVE  UNCHANGED <<status, card, note, index>>
  BY <1>3 DEF Request, rows, players
<1>4. ASSUME NEW a \in Corrector, NEW d \in Day, NEW v \in Pcc, StartCorrection(a, d, v)
      PROVE  UNCHANGED <<status, card, note, index>>
  BY <1>4 DEF StartCorrection, rows, players
<1>5. ASSUME NEW a \in Corrector, CorrectorStep(a) \/ AffectedFails(a), ~CommitAffected(a)
      PROVE  UNCHANGED <<status, card, note, index>>
  BY <1>5 DEF CorrectorStep, ApplyPcc, ReadAffected, AffectedFails, rows, players
<1>6. ASSUME Restart \/ \E r \in Round : ReplaceTee(r)
      PROVE  UNCHANGED <<status, card, note, index>>
  BY <1>6 DEF Restart, ReplaceTee, rows, players
<1> QED BY <1>1, <1>2, <1>3, <1>4, <1>5, <1>6 DEF Next

(* What each transition does to its round: the status it found under the lock,
   the one it leaves, and what it tells of it. *)
LEMMA TransitionOf ==
  ASSUME IInv, NEW c \in Client, Moves(c)
  PROVE  /\ R(c) \in Round
         /\ \/ /\ isEditableStatus(status[R(c)]) /\ Submits(Op(c))
               /\ status' = [status EXCEPT ![R(c)] = "pending"]
               /\ \/ Notified(R(c), "round_submitted")
                  \/ Op(c) = "adminSubmit" /\ note' = note
            \/ /\ isApprovableStatus(status[R(c)]) /\ Notified(R(c), "round_approved")
               /\ status' = [status EXCEPT ![R(c)] = "approved"]
            \/ /\ isApprovableStatus(status[R(c)]) /\ Notified(R(c), "round_rejected")
               /\ status' = [status EXCEPT ![R(c)] = "rejected"]
            \/ /\ status[R(c)] = "approved" /\ note' = note
               /\ status' = [status EXCEPT ![R(c)] = "amending"]
            \/ /\ Exists(R(c)) /\ note' = note
               /\ status' = [status EXCEPT ![R(c)] = "deleted"]
<1>1. pc[c] = "commit" /\ R(c) \in Round
  BY MovesTransition, TransitionMoves DEF IInv
<1>2. Exists(R(c)) /\ Accepts(Op(c), R(c))
  BY <1>1 DEF IInv, TransactionInv, InTransaction
<1> USE DEF Accepts, Submits, Transition
<1>3. CASE CommitSubmit(c)
  BY <1>1, <1>2, <1>3 DEF CommitSubmit
<1>4. CASE CommitAdminSubmit(c)
  BY <1>1, <1>2, <1>4 DEF CommitAdminSubmit
<1>5. CASE CommitApprove(c)
  BY <1>1, <1>2, <1>5 DEF CommitApprove
<1>6. CASE CommitReject(c)
  BY <1>1, <1>2, <1>6 DEF CommitReject
<1>7. CASE CommitDelete(c)
  BY <1>1, <1>2, <1>7 DEF CommitDelete
<1>8. CASE CommitReopen(c)
  BY <1>1, <1>2, <1>8 DEF CommitReopen
<1> QED BY <1>3, <1>4, <1>5, <1>6, <1>7, <1>8 DEF Moves

(* A hole score once recorded can be replaced, never removed: a round that was
   complete stays complete. *)
LEMMA HolesStayRecorded ==
  ASSUME TypeOK, NEW c \in Client, CommitHole(c), R(c) \in Round,
         NEW r \in Round, Complete(r)
  PROVE  Complete(r)'
<1> DEFINE old == {h \in Hole : card[r][h] # NULL}
           new == {h \in Hole : card'[r][h] # NULL}
<1>0. asks' = asks /\ asks[r] \in Nat
  BY ConstantsType DEF CommitHole, tees, TypeOK
<1>1. PICK h \in Hole, s \in Score : card' = [card EXCEPT ![R(c)][h] = s]
  BY DEF CommitHole
<1>2. old \subseteq new
  BY <1>1, ConstantsType DEF TypeOK, Card
<1>3. IsFiniteSet(new) /\ IsFiniteSet(old)
  BY ConstantsType, FS_Subset
<1>4. Cardinality(old) <= Cardinality(new) /\ Cardinality(old) \in Nat /\ Cardinality(new) \in Nat
  BY <1>2, <1>3, FS_Subset, FS_CardinalityType
<1>5. Cardinality(old) >= asks[r]
  BY DEF Complete
<1>6. Cardinality(new) >= asks[r]
  BY <1>0, <1>4, <1>5
<1> QED BY <1>0, <1>6 DEF Complete

(* A round has every hole of its tee, or the tee was replaced after the round's
   submission had counted them. *)
Stands(r) == Complete(r) \/ r \in outgrown

(* It goes on so, whoever edits the round, counts its holes or replaces its tee. *)
LEMMA StandsOn ==
  ASSUME IInv, Next, NEW r \in Round, status[r] # "none", Stands(r)
  PROVE  Stands(r)'
<1>1. ASSUME NEW c \in Client, LockRound(c)
      PROVE  Stands(r)'
  <2>1. card' = card /\ asks' = asks
    BY <1>1 DEF LockRound, CountsHoles, rows
  <2>2. r \in outgrown => r \in outgrown' \/ Complete(r)
    BY <1>1 DEF LockRound, CountsHoles, Passes
  <2> QED BY <2>1, <2>2 DEF Stands, Complete
<1>2. ASSUME NEW q \in Round, ReplaceTee(q)
      PROVE  Stands(r)'
  <2>1. CASE r = q
    BY <1>2, <2>1 DEF ReplaceTee, Stands
  <2>2. CASE r # q
    <3>1. card' = card /\ asks'[r] = asks[r] /\ outgrown \subseteq outgrown'
      BY <1>2, <2>2 DEF ReplaceTee, IInv, TypeOK, rows
    <3> QED BY <3>1 DEF Stands, Complete
  <2> QED BY <2>1, <2>2
<1>3. ASSUME UNCHANGED tees
      PROVE  Stands(r)'
  <2>1. CASE card'[r] = card[r]
    BY <1>3, <2>1 DEF Stands, Complete, tees
  <2>2. CASE card'[r] # card[r]
    <3>1. PICK c \in Client : CommitHole(c)
      <4>1. ASSUME NEW q \in Round, CreateRound(q) PROVE FALSE
        BY <2>2, <4>1 DEF CreateRound, IInv, TypeOK
      <4>2. ASSUME NEW c \in Client, Moves(c) PROVE FALSE
        BY <2>2, <4>2, TransitionMoves
      <4>3. ASSUME NEW a \in Corrector, CommitAffected(a) PROVE FALSE
        BY <2>2, <4>3 DEF CommitAffected, rows
      <4> QED BY <2>2, <4>1, <4>2, <4>3, StepKinds
    <3>2. R(c) \in Round
      BY <3>1, RequestedType DEF IInv, CommitHole
    <3> QED BY <1>3, <3>1, <3>2, HolesStayRecorded DEF Stands, tees, IInv
  <2> QED BY <2>1, <2>2
<1> QED BY <1>1, <1>2, <1>3, TeeSteps

(* The others of a client's step, and what it does to the rounds' scores: only a
   rescore writes them, and only addHoleScore the hole scores. *)
LEMMA StepLeaves ==
  ASSUME TypeOK, NEW c \in Client, Step(c) \/ Rollback(c)
  PROVE  /\ \A d \in Client \ {c} : pc'[d] = pc[d] /\ req'[d] = req[d] /\ seen'[d] = seen[d]
         /\ faults' = faults
         /\ WriteScores(c) \/ agg' = agg
         /\ CommitHole(c) \/ card' = card
<1> USE DEF TypeOK, Goto, Answer, rows, players, locks, clients, Transition
<1>1. CASE Moves(c)
  BY <1>1
     DEF Moves, CommitSubmit, CommitAdminSubmit, CommitApprove, CommitReject, CommitDelete, CommitReopen
<1>2. CASE \/ CheckApprovable(c) \/ LockRound(c) \/ Refuse(c) \/ ReadDifferentials(c)
           \/ CommitHole(c) \/ CommitDate(c) \/ CommitRemarks(c) \/ RereadAfterDate(c)
           \/ Rollback(c)
  BY <1>2
     DEF CheckApprovable, LockRound, Refuse, ReadDifferentials, CommitHole, CommitDate,
         CommitRemarks, RereadAfterDate, Rollback
<1>3. CASE \/ EnqueueRescore(c) \/ ReadRow(c) \/ ReadHoles(c) \/ ReadPcc(c) \/ WriteScores(c)
           \/ RescoreGone(c)
  BY <1>3 DEF EnqueueRescore, ReadRow, ReadHoles, ReadPcc, WriteScores, RescoreGone
<1> QED BY <1>1, <1>2, <1>3 DEF Step, Moves

(* A client is in a transaction because it has just locked its round, or was. *)
LEMMA EntersTransaction ==
  ASSUME IInv, Next, NEW d \in Client, pc'[d] \in {"player", "commit"}
  PROVE  LockRound(d) \/ (pc[d] \in {"player", "commit"} /\ req'[d] = req[d])
<1> USE DEF IInv, TypeOK
<1>1. ASSUME NEW c \in Client, Step(c) \/ Rollback(c)
      PROVE  LockRound(d) \/ (pc[d] \in {"player", "commit"} /\ req'[d] = req[d])
  <2>1. CASE d # c
    BY <1>1, <2>1, StepLeaves
  <2>2. CASE d = c
    <3>1. CASE Moves(c)
      BY <2>2, <3>1, MovesTransition
    <3>2. CASE ReadDifferentials(c)
      BY <2>2, <3>2 DEF ReadDifferentials
    <3>3. CASE \/ CheckApprovable(c) \/ Refuse(c) \/ CommitHole(c) \/ CommitDate(c)
               \/ CommitRemarks(c) \/ RereadAfterDate(c) \/ Rollback(c) \/ EnqueueRescore(c)
               \/ ReadRow(c) \/ ReadHoles(c) \/ ReadPcc(c) \/ WriteScores(c) \/ RescoreGone(c)
      BY <2>2, <3>3
         DEF CheckApprovable, Refuse, CommitHole, CommitDate, CommitRemarks, RereadAfterDate,
             Rollback, EnqueueRescore, ReadRow, ReadHoles, ReadPcc, WriteScores, RescoreGone,
             Goto, Answer
    <3> QED BY <1>1, <2>2, <3>1, <3>2, <3>3 DEF Step, Moves
  <2> QED BY <2>1, <2>2
<1>2. ASSUME NEW c \in Client,
             RescoreFails(c) \/ \E op \in AllOps, r \in Round : Request(c, op, r)
      PROVE  pc[d] = pc'[d] /\ req'[d] = req[d]
  BY <1>2 DEF RescoreFails, Request, Answer, Goto
<1>3. ASSUME \/ \E r \in Round : CreateRound(r) \/ ReplaceTee(r)
             \/ \E a \in Corrector, x \in Day, v \in Pcc : StartCorrection(a, x, v)
             \/ \E a \in Corrector : CorrectorStep(a) \/ AffectedFails(a)
      PROVE  UNCHANGED clients
  BY <1>3 DEF CreateRound, ReplaceTee, StartCorrection, CorrectorStep, ApplyPcc, ReadAffected,
              CommitAffected, AffectedFails
<1>4. ~Restart
  BY DEF Restart
<1> QED BY <1>1, <1>2, <1>3, <1>4 DEF Next, clients

(* Every step keeps CompleteInv: a submission moves to pending the round it has
   counted, and what it counted stands. *)
LEMMA CompleteStep ==
  ASSUME IInv, Next, CompleteInv
  PROVE  CompleteInv'
<1>1. ASSUME NEW r \in Round, status'[r] \in {"pending", "approved", "amending"}
      PROVE  Stands(r)'
  <2>1. CASE status[r] \in {"pending", "approved", "amending"}
    <3>1. Stands(r) /\ status[r] # "none"
      BY <2>1 DEF CompleteInv, ReviewedRoundsAreComplete, Stands
    <3> QED BY <3>1, StandsOn
  <2>2. CASE status[r] \notin {"pending", "approved", "amending"}
    <3>1. PICK c \in Client : Moves(c)
      BY <1>1, <2>2, StepKinds DEF CreateRound, CommitHole, CommitAffected, IInv, TypeOK, rows
    <3>2. r = R(c) /\ pc[c] = "commit"
      BY <1>1, <2>2, <3>1, TransitionMoves, MovesTransition DEF IInv
    <3>3. Submits(Op(c)) /\ status[r] # "none"
      BY <1>1, <2>2, <3>1, <3>2, TransitionOf
         DEF IInv, TypeOK, isEditableStatus, isApprovableStatus
    <3>4. Stands(r)
      BY <3>2, <3>3 DEF CompleteInv, Stands
    <3> QED BY <3>3, <3>4, StandsOn
  <2> QED BY <2>1, <2>2
<1>2. ASSUME NEW d \in Client, pc'[d] \in {"player", "commit"}, Submits(Op(d)')
      PROVE  Stands(R(d))'
  <2>1. CASE LockRound(d)
    <3>1. Complete(R(d)) /\ UNCHANGED <<card, asks, req>>
      BY <1>2, <2>1 DEF LockRound, Passes, CountsHoles, rows, Op
    <3> QED BY <3>1 DEF Stands, Complete, R
  <2>2. CASE pc[d] \in {"player", "commit"} /\ req'[d] = req[d]
    <3>1. R(d) \in Round /\ status[R(d)] # "none"
      BY <2>2, RequestedType DEF IInv, TransactionInv, InTransaction, Exists
    <3>2. PICK r \in Round : r = R(d)
      BY <3>1
    <3>3. Stands(r)
      BY <1>2, <2>2, <3>2 DEF CompleteInv, Stands, Op
    <3>4. Stands(r)'
      BY <3>1, <3>2, <3>3, StandsOn
    <3> QED BY <2>2, <3>2, <3>4 DEF Stands, Complete, R
  <2> QED BY <1>2, <2>1, <2>2, EntersTransaction
<1> QED BY <1>1, <1>2 DEF CompleteInv, ReviewedRoundsAreComplete, Stands

(* A round is put to review, and counts, only with every hole of its tee
   recorded, as the tee stood when the submission counted under the round's lock:
   only a tee replaced after that count can leave it incomplete, however early
   the submission's first check was made and whatever became of the tee since. *)
THEOREM ReviewedComplete == Spec => []ReviewedRoundsAreComplete
<1>1. Init => CompleteInv
  BY DEF Init, CompleteInv, ReviewedRoundsAreComplete
<1>2. CompleteInv /\ IInv /\ [Next]_vars => CompleteInv'
  <2>1. ASSUME CompleteInv, UNCHANGED vars
        PROVE  CompleteInv'
    BY <2>1 DEF CompleteInv, ReviewedRoundsAreComplete, Complete, Op, R, vars, rows, tees, clients
  <2> QED BY <2>1, CompleteStep
<1>3. CompleteInv => ReviewedRoundsAreComplete
  BY DEF CompleteInv
<1> QED BY <1>1, <1>2, <1>3, Invariant, PTL DEF Spec

(* What becomes of a client's request in a step: it is answered, it goes on, it
   goes on as an approval, or it has only just been made. *)
LEMMA RequestsGoOn ==
  ASSUME IInv, Next, NEW d \in Client, pc'[d] # "idle"
  PROVE  \/ pc[d] # "idle" /\ (req'[d] = req[d] \/ Op(d)' = "approve")
         \/ \E op \in AllOps, r \in Round : Request(d, op, r)
<1> DEFINE goes(c) == \/ UNCHANGED clients
                      \/ Answer(c)
                      \/ \E x \in Steps : Goto(c, x) /\ (req' = req \/ CommitAdminSubmit(c)) /\ pc[c] # "idle"
                      \/ \E op \in AllOps, r \in Round : Request(c, op, r)
<1>1. ASSUME NEW c \in Client, Step(c)
      PROVE  goes(c)
  BY <1>1
     DEF Step, Steps, CheckApprovable, LockRound, Refuse, ReadDifferentials,
         CommitSubmit, CommitAdminSubmit, CommitApprove, CommitReject, CommitDelete,
         CommitReopen, CommitHole, CommitDate, CommitRemarks, RereadAfterDate, EnqueueRescore,
         ReadRow, ReadHoles, ReadPcc, WriteScores, RescoreGone
<1>2. ASSUME NEW c \in Client, Rollback(c) \/ RescoreFails(c)
      PROVE  goes(c)
  BY <1>2 DEF Rollback, RescoreFails
<1>3. ASSUME \/ \E r \in Round : CreateRound(r)
             \/ \E a \in Corrector, x \in Day, v \in Pcc : StartCorrection(a, x, v)
             \/ \E a \in Corrector : CorrectorStep(a) \/ AffectedFails(a)
             \/ \E r \in Round : ReplaceTee(r)
      PROVE  UNCHANGED clients
  BY <1>3 DEF CreateRound, StartCorrection, CorrectorStep, ApplyPcc, ReadAffected,
              CommitAffected, AffectedFails, ReplaceTee
<1>4. ~Restart
  BY DEF Restart
<1>5. PICK c \in Client : goes(c)
  BY <1>1, <1>2, <1>3, <1>4 DEF Next
<1>6. CASE UNCHANGED clients
  BY <1>6 DEF clients
<1>7. CASE Answer(c)
  BY <1>7 DEF Answer, IInv, TypeOK
<1>8. CASE \E x \in Steps : Goto(c, x) /\ (req' = req \/ CommitAdminSubmit(c)) /\ pc[c] # "idle"
  BY <1>8 DEF Goto, CommitAdminSubmit, IInv, TypeOK, Op
<1>9. CASE \E op \in AllOps, r \in Round : Request(c, op, r)
  BY <1>9 DEF Request, Goto, IInv, TypeOK
<1> QED BY <1>5, <1>6, <1>7, <1>8, <1>9

(* A quiet submission comes only from Request, which asks whose round it is. *)
LEMMA AdminStep ==
  ASSUME IInv, HistoryInv, Next, NEW d \in Client, pc'[d] # "idle", Op(d)' = "adminSubmit"
  PROVE  R(d)' \in AdminRounds
<1>1. CASE pc[d] # "idle" /\ req'[d] = req[d]
  BY <1>1 DEF HistoryInv, Op, R
<1>2. CASE \E op \in AllOps, r \in Round : Request(d, op, r)
  BY <1>2 DEF IInv, TypeOK, Request, Op, R
<1> QED BY <1>1, <1>2, RequestsGoOn

(* What a transition tells is what its round's new status calls for. *)
LEMMA HistoryStep ==
  ASSUME IInv, HistoryInv, Next
  PROVE  HistoryInv'
<1> DEFINE tells == /\ \A r \in Round : status[r] = "none" => note[r] = NULL
                    /\ HistoryTellsStanding
<1> USE DEF HistoryTellsStanding
<1>1. ASSUME NEW r \in Round, CreateRound(r)
      PROVE  tells'
  <2>1. /\ note' = note /\ status[r] = "none" /\ status'[r] = "draft"
        /\ \A q \in Round \ {r} : status'[q] = status[q]
    BY <1>1 DEF CreateRound, IInv, TypeOK
  <2> QED BY <2>1 DEF HistoryInv
<1>2. ASSUME NEW c \in Client, Moves(c)
      PROVE  tells'
  <2>1. R(c) \in Round /\ (Op(c) = "adminSubmit" => R(c) \in AdminRounds)
    BY <1>2, TransitionOf, MovesTransition DEF IInv, HistoryInv
  <2> HIDE DEF HistoryTellsStanding
  <2>2. \A q \in Round \ {R(c)} : status'[q] = status[q] /\ note'[q] = note[q]
    <3>1. note' = note \/ \E e \in Events : Notified(R(c), e)
      BY <1>2, <2>1, TransitionOf DEF Events
    <3>2. \A q \in Round \ {R(c)} : note'[q] = note[q]
      BY <3>1 DEF IInv, TypeOK, Notified
    <3> QED BY <1>2, <2>1, <3>2, TransitionMoves
  <2>3. status'[R(c)] # "none" /\ status'[R(c)] # "draft"
    BY <1>2, <2>1, TransitionOf DEF IInv, TypeOK
  <2>4. ASSUME PlayerOf[R(c)] \in Linked
        PROVE  /\ status'[R(c)] = "pending" => note'[R(c)] = "round_submitted" \/ R(c) \in AdminRounds
               /\ status'[R(c)] \in {"approved", "amending"} => note'[R(c)] = "round_approved"
               /\ status'[R(c)] = "rejected" => note'[R(c)] = "round_rejected"
    <3>1. \A e \in Events : Notified(R(c), e) => note'[R(c)] = e
      BY <2>1, <2>4 DEF IInv, TypeOK, Notified
    <3>2. \A s \in Statuses : status' = [status EXCEPT ![R(c)] = s] => status'[R(c)] = s
      BY <2>1 DEF IInv, TypeOK
    <3>3. status[R(c)] = "approved" => note[R(c)] = "round_approved"
      BY <2>1, <2>4 DEF HistoryInv, HistoryTellsStanding
    <3> QED BY <1>2, <2>1, <3>1, <3>2, <3>3, TransitionOf DEF Statuses, Events
  <2> USE DEF HistoryTellsStanding
  <2> QED BY <2>1, <2>2, <2>3, <2>4 DEF HistoryInv
<1>3. ASSUME UNCHANGED <<status, note>>
      PROVE  tells'
  BY <1>3 DEF HistoryInv
<1>4. ASSUME NEW c \in Client, CommitHole(c)
      PROVE  UNCHANGED <<status, note>>
  BY <1>4 DEF CommitHole
<1>5. ASSUME NEW a \in Corrector, CommitAffected(a)
      PROVE  UNCHANGED <<status, note>>
  BY <1>5 DEF CommitAffected, rows
<1>6. tells'
  BY <1>1, <1>2, <1>3, <1>4, <1>5, StepKinds
<1> QED BY <1>6, AdminStep DEF HistoryInv

(* The newest history entry about a round tells its player where the round
   stands, whatever fails or is cut short: an event commits with the transition
   it is about. *)
THEOREM HistoryTells == Spec => []HistoryTellsStanding
<1>1. Init => HistoryInv
  BY DEF Init, HistoryInv, HistoryTellsStanding
<1>2. HistoryInv /\ IInv /\ [Next]_vars => HistoryInv'
  <2>1. ASSUME HistoryInv, UNCHANGED vars
        PROVE  HistoryInv'
    BY <2>1 DEF HistoryInv, HistoryTellsStanding, Op, R, vars, rows, clients
  <2> QED BY <2>1, HistoryStep
<1>3. HistoryInv => HistoryTellsStanding
  BY DEF HistoryInv
<1> QED BY <1>1, <1>2, <1>3, Invariant, PTL DEF Spec

(* The rounds an index is computed from: what RoundLifecycle calls counted. *)
Counted == [p \in Player |-> {x[1] : x \in index[p]}]

(* A transition leaves the index counting its player's approved rounds, if there
   are enough of them, and every other index as it was. *)
LEMMA TransitionCounts ==
  ASSUME IInv, NEW c \in Client, Moves(c), NEW p \in Player
  PROVE  Counted'[p] = IF p = Pl(c) /\ Eligible(ApprovedRounds(p))' THEN ApprovedRounds(p)'
                       ELSE Counted[p]
<1> DEFINE D == seen[c].differentials
<1>1. CASE p = Pl(c) /\ Recalculates(Op(c), R(c))
  <2>1. /\ ApprovedRounds(p)' = ApprovedFor(c)
        /\ Counts(D, ApprovedFor(c)) /\ Recalculated(p, D, Op(c) = "reopen")
    BY <1>1, TransitionMoves
  <2>2. CASE Eligible(ApprovedFor(c))
    <3>1. {x[1] : x \in index'[p]} = ApprovedFor(c)
      BY <2>1, <2>2, RecalculatedCounts DEF IInv
    <3> QED BY <1>1, <2>1, <2>2, <3>1 DEF Counted, Eligible
  <2>3. CASE ~Eligible(ApprovedFor(c))
    <3>1. index' = index
      BY <2>1, <2>3 DEF Counts, Recalculated, players
    <3> QED BY <2>1, <2>3, <3>1 DEF Counted, Eligible
  <2> QED BY <2>2, <2>3
<1>2. CASE ~(p = Pl(c) /\ Recalculates(Op(c), R(c)))
  <2>1. ApprovedRounds(p)' = ApprovedRounds(p)
    BY <1>2, TransitionMoves
  <2>2. index'[p] = index[p]
    <3>1. CASE Recalculates(Op(c), R(c))
      BY <1>2, <3>1, TransitionMoves, RecalculatedKeepsOthers DEF IInv
    <3>2. CASE ~Recalculates(Op(c), R(c))
      BY <3>2, TransitionMoves DEF players
    <3> QED BY <3>1, <3>2
  <2>3. Eligible(ApprovedRounds(p)) => Counted[p] = ApprovedRounds(p)
    BY DEF IInv, IndexCountsApprovedRounds, Counted
  <2> QED BY <2>1, <2>2, <2>3 DEF Counted, Eligible
<1> QED BY <1>1, <1>2

(* A new draft changes no count, which is the one its player's approved rounds
   call for already. *)
LEMMA CreationCounts ==
  ASSUME IInv, NEW r \in Round, CreateRound(r), NEW p \in Player
  PROVE  Counted'[p] = IF p = PlayerOf[r] /\ Eligible(ApprovedRounds(p))' THEN ApprovedRounds(p)'
                       ELSE Counted[p]
<1>1. index' = index /\ ApprovedRounds(p)' = ApprovedRounds(p)
  BY DEF IInv, TypeOK, CreateRound, ApprovedRounds, players
<1>2. Eligible(ApprovedRounds(p)) => Counted[p] = ApprovedRounds(p)
  BY DEF IInv, IndexCountsApprovedRounds, Counted
<1> QED BY <1>1, <1>2 DEF Counted, Eligible

(* The recalculation after a PCC correction finds other differentials, but of
   the same rounds. *)
LEMMA CorrectionCounts ==
  ASSUME IInv, NEW a \in Corrector, CommitAffected(a)
  PROVE  Counted' = Counted
<1> DEFINE p == fix[a].player
           D == fix[a].differentials
<1>1. p \in Player /\ Counts(D, ApprovedRounds(p)) /\ Recalculated(p, D, FALSE)
  BY DEF IInv, CorrectionInv, Correcting, CommitAffected
<1>2. \A q \in Player \ {p} : index'[q] = index[q]
  BY <1>1, RecalculatedKeepsOthers DEF IInv
<1>3. CASE Eligible(ApprovedRounds(p))
  <2>1. {x[1] : x \in index[p]} = ApprovedRounds(p)
    BY <1>1, <1>3 DEF IInv, IndexCountsApprovedRounds
  <2>2. {x[1] : x \in index'[p]} = ApprovedRounds(p)
    BY <1>1, <1>3, RecalculatedCounts DEF IInv
  <2> QED BY <1>2, <2>1, <2>2 DEF Counted
<1>4. CASE ~Eligible(ApprovedRounds(p))
  BY <1>1, <1>4 DEF Counts, Recalculated, players, Counted
<1> QED BY <1>3, <1>4

(* A step of one round that leaves the counts as they should be is a move of the
   lifecycle. *)
LEMMA LifecycleMove ==
  ASSUME NEW r \in Round, NEW from, NEW to, status[r] \in from,
         status' = [status EXCEPT ![r] = to],
         \A p \in Player :
           Counted'[p] = IF p = PlayerOf[r] /\ Eligible(ApprovedRounds(p))' THEN ApprovedRounds(p)'
                         ELSE Counted[p]
  PROVE  Lifecycle!Move(r, from, to)
<1>1. PlayerOf[r] \in Player
  BY ConstantsType
<1>2. Counted' = [Counted EXCEPT ![PlayerOf[r]] =
         IF Eligible(ApprovedRounds(PlayerOf[r]))' THEN ApprovedRounds(PlayerOf[r])' ELSE @]
  <2>1. DOMAIN Counted = Player /\ DOMAIN Counted' = Player
    BY DEF Counted
  <2> QED BY <1>1, <2>1 DEF Counted
<1>3. \A S : Lifecycle!Eligible(S) <=> Eligible(S)
  BY DEF Eligible, Cardinality, Lifecycle!Eligible, Lifecycle!Cardinality
<1> QED
  BY <1>2, <1>3 DEF Counted, ApprovedRounds, Lifecycle!Move, Lifecycle!ApprovedRounds

(* A step of the workflow is a step of the lifecycle, or none. *)
LEMMA LifecycleStep ==
  ASSUME IInv, [Next]_vars
  PROVE  [Lifecycle!Next]_(Lifecycle!vars)
<1>0. UNCHANGED <<status, Counted>> => UNCHANGED Lifecycle!vars
  BY DEF Counted, Lifecycle!vars
<1>1. ASSUME NEW r \in Round, CreateRound(r)
      PROVE  Lifecycle!Create(r)
  <2>1. status[r] \in {"none"} /\ status' = [status EXCEPT ![r] = "draft"]
    BY <1>1 DEF CreateRound
  <2>2. \A from, to : status[r] \in from /\ status' = [status EXCEPT ![r] = to]
                       => Lifecycle!Move(r, from, to)
    BY <1>1, CreationCounts, LifecycleMove
  <2> QED BY <2>1, <2>2, Zenon DEF Lifecycle!Create
<1>2. ASSUME NEW c \in Client, Moves(c)
      PROVE  \E r \in Round : Lifecycle!Submit(r) \/ Lifecycle!Approve(r) \/ Lifecycle!Reject(r)
                              \/ Lifecycle!Reopen(r) \/ Lifecycle!Delete(r)
  <2>1. PICK r \in Round : r = R(c)
    BY <1>2, TransitionOf
  <2>2. ASSUME NEW from, NEW to, status[r] \in from, status' = [status EXCEPT ![r] = to]
        PROVE  Lifecycle!Move(r, from, to)
    BY <1>2, <2>1, <2>2, TransitionCounts, LifecycleMove DEF Pl
  <2>3. \/ status[r] \in {"draft", "rejected", "amending"} /\ status' = [status EXCEPT ![r] = "pending"]
        \/ status[r] \in {"pending", "amending"} /\ status' = [status EXCEPT ![r] = "approved"]
        \/ status[r] \in {"pending", "amending"} /\ status' = [status EXCEPT ![r] = "rejected"]
        \/ status[r] \in {"approved"} /\ status' = [status EXCEPT ![r] = "amending"]
        \/ status[r] \in Statuses \ {"none", "deleted"} /\ status' = [status EXCEPT ![r] = "deleted"]
    BY <1>2, <2>1, TransitionOf DEF IInv, TypeOK, isEditableStatus, isApprovableStatus, Exists
  <2> QED
    BY <2>2, <2>3
       DEF Statuses, Lifecycle!Statuses, Lifecycle!Submit, Lifecycle!Approve, Lifecycle!Reject,
           Lifecycle!Reopen, Lifecycle!Delete
<1>3. ASSUME NEW a \in Corrector, CommitAffected(a)
      PROVE  UNCHANGED <<status, Counted>>
  BY <1>3, CorrectionCounts DEF CommitAffected, rows
<1>4. ASSUME \/ \E c \in Client : CommitHole(c)
             \/ UNCHANGED <<status, card, note, index>>
             \/ UNCHANGED vars
      PROVE  UNCHANGED <<status, Counted>>
  BY <1>4 DEF CommitHole, Counted, vars, rows, players
<1> QED BY <1>0, <1>1, <1>2, <1>3, <1>4, StepKinds DEF Lifecycle!Next

(* The workflow, with its requests, locks, transactions, chains, failures and
   restarts hidden, is the atomic lifecycle: a round moves one step at a time,
   and that very step leaves the index counting the approved rounds. *)
THEOREM Refinement == Spec => ImplementsLifecycle
<1>1. Init => Lifecycle!Init
  BY DEF Init, Lifecycle!Init
<1>2. IInv /\ [Next]_vars => [Lifecycle!Next]_(Lifecycle!vars)
  BY LifecycleStep
<1> QED BY <1>1, <1>2, Invariant, PTL DEF Spec, ImplementsLifecycle, Lifecycle!Spec

(* The steps of a rescore, its reason included, before it reads the hole scores,
   and those between that read and its write. *)
Ahead  == {"check", "reread", "rescore", "row", "holes"}
Behind == {"pcc", "write"}

(* A rescore of round r that is ahead of its read stays so or reads now; one that
   is past it stays as it is; and no other comes to be past it.  Then a round
   whose hole scores and stored ones are left alone goes on being fresh or due. *)
LEMMA FreshKeeps ==
  ASSUME NEW r \in Round, FreshOrDue(r), card'[r] = card[r],
         agg[r] # NULL => agg'[r] # NULL /\ agg'[r].card = agg[r].card,
         \A d \in Client : R(d) = r /\ pc[d] \in Ahead =>
           /\ R(d)' = r
           /\ pc'[d] \in Ahead \/ (pc'[d] \in Behind /\ seen'[d].card = card[r]),
         \A d \in Client : R(d) = r /\ pc[d] \in Behind =>
           R(d)' = r /\ pc'[d] \in Behind /\ seen'[d].card = seen[d].card,
         \A d \in Client : R(d)' = r /\ pc'[d] \in Behind =>
           R(d) = r /\ (pc[d] \in Behind \/ seen'[d].card = card[r])
  PROVE  FreshOrDue(r)'
<1>1. CASE \E d \in Client : R(d) = r /\ pc[d] \in Ahead
  BY <1>1 DEF FreshOrDue, Ahead, Behind
<1>2. CASE \E d \in Client : R(d) = r /\ pc[d] \in Behind /\ seen[d].card = card[r]
  BY <1>2 DEF FreshOrDue, Ahead, Behind
<1>3. CASE /\ agg[r] # NULL /\ agg[r].card = card[r]
           /\ \A d \in Client : ~(R(d) = r /\ pc[d] \in Behind)
  <2>1. agg'[r] # NULL /\ agg'[r].card = card'[r]
    BY <1>3
  <2>2. CASE \E d \in Client : R(d)' = r /\ pc'[d] \in Behind
    BY <1>3, <2>2 DEF FreshOrDue, Behind
  <2>3. CASE \A d \in Client : ~(R(d)' = r /\ pc'[d] \in Behind)
    BY <2>1, <2>3 DEF FreshOrDue, Behind
  <2> QED BY <2>2, <2>3
<1> QED BY <1>1, <1>2, <1>3 DEF FreshOrDue, Ahead, Behind

(* So it does in a step of client c on another round, or on none: the others
   stay where they are, and c is not rescoring r before or after. *)
LEMMA FreshAside ==
  ASSUME NEW r \in Round, FreshOrDue(r), card'[r] = card[r], agg'[r] = agg[r],
         NEW c,
         \A d \in Client \ {c} : pc'[d] = pc[d] /\ req'[d] = req[d] /\ seen'[d] = seen[d],
         c \in Client => /\ R(c) # r \/ pc[c] \notin Ahead \cup Behind
                         /\ R(c)' # r \/ pc'[c] \notin Behind
  PROVE  FreshOrDue(r)'
<1>1. \A d \in Client : R(d) = r /\ pc[d] \in Ahead \cup Behind =>
        d # c /\ R(d)' = r /\ pc'[d] = pc[d] /\ seen'[d] = seen[d]
  BY DEF R
<1>2. \A d \in Client : R(d)' = r /\ pc'[d] \in Behind => d # c /\ R(d) = r /\ pc[d] \in Behind
  BY DEF R
<1>3. /\ \A d \in Client : R(d) = r /\ pc[d] \in Ahead =>
           R(d)' = r /\ pc'[d] \in Ahead
      /\ \A d \in Client : R(d) = r /\ pc[d] \in Behind =>
           R(d)' = r /\ pc'[d] \in Behind /\ seen'[d].card = seen[d].card
      /\ \A d \in Client : R(d)' = r /\ pc'[d] \in Behind => R(d) = r /\ pc[d] \in Behind
  BY <1>1, <1>2
<1> QED BY <1>3, FreshKeeps DEF R

(* A step of a rescore of r itself, up to its write. *)
LEMMA FreshAlong ==
  ASSUME NEW r \in Round, FreshOrDue(r), card'[r] = card[r], agg'[r] = agg[r],
         NEW c \in Client, R(c) = r, R(c)' = r,
         \A d \in Client \ {c} : pc'[d] = pc[d] /\ req'[d] = req[d] /\ seen'[d] = seen[d],
         \/ pc[c] \in Ahead /\ pc'[c] \in Ahead
         \/ pc[c] \in Ahead /\ pc'[c] \in Behind /\ seen'[c].card = card[r]
         \/ pc[c] \in Behind /\ pc'[c] \in Behind /\ seen'[c].card = seen[c].card
  PROVE  FreshOrDue(r)'
<1>1. \A d \in Client \ {c} : R(d)' = R(d) /\ pc'[d] = pc[d] /\ seen'[d] = seen[d]
  BY DEF R
<1>2. Ahead \cap Behind = {}
  BY DEF Ahead, Behind
<1>3. /\ \A d \in Client : R(d) = r /\ pc[d] \in Ahead =>
           R(d)' = r /\ (pc'[d] \in Ahead \/ (pc'[d] \in Behind /\ seen'[d].card = card[r]))
      /\ \A d \in Client : R(d) = r /\ pc[d] \in Behind =>
           R(d)' = r /\ pc'[d] \in Behind /\ seen'[d].card = seen[d].card
      /\ \A d \in Client : R(d)' = r /\ pc'[d] \in Behind =>
           R(d) = r /\ (pc[d] \in Behind \/ seen'[d].card = card[r])
  BY <1>1, <1>2
<1> QED BY <1>3, FreshKeeps DEF R

(* A transition to pending is followed by a rescore of the round. *)
LEMMA PendingIsRescored ==
  ASSUME IInv, NEW c \in Client, Moves(c), NEW r \in Round, status'[r] = "pending",
         status[r] # "pending"
  PROVE  FreshOrDue(r)'
<1>1. r = R(c)
  BY TransitionMoves
<1>2. CommitSubmit(c) \/ CommitAdminSubmit(c)
  BY <1>1
     DEF Moves, CommitApprove, CommitReject, CommitDelete, CommitReopen, Transition, IInv, TypeOK
<1>3. pc'[c] \in {"rescore", "check"} /\ R(c)' = r
  BY <1>1, <1>2 DEF CommitSubmit, CommitAdminSubmit, Goto, R, IInv, TypeOK
<1> QED BY <1>3 DEF FreshOrDue

(* A client's step keeps every pending round fresh or due. *)
LEMMA FreshClientStep ==
  ASSUME IInv, NEW c \in Client, Step(c) \/ Rollback(c), NEW r \in Round,
         status[r] = "pending", status'[r] = "pending", FreshOrDue(r)
  PROVE  FreshOrDue(r)'
<1> USE DEF IInv
<1>0. /\ \A d \in Client \ {c} : pc'[d] = pc[d] /\ req'[d] = req[d] /\ seen'[d] = seen[d]
      /\ WriteScores(c) \/ agg' = agg
      /\ CommitHole(c) \/ card' = card
  BY StepLeaves
<1>1. CASE Moves(c) \/ Rollback(c) \/ LockRound(c) \/ Refuse(c) \/ ReadDifferentials(c)
           \/ CommitDate(c) \/ CommitRemarks(c)
  <2>1. pc[c] \notin Ahead \cup Behind /\ pc'[c] \notin Behind /\ agg' = agg /\ card' = card
    <3>1. CASE Moves(c)
      BY <3>1, MovesTransition, TransitionMoves
         DEF Moves, CommitSubmit, CommitAdminSubmit, CommitApprove, CommitReject, CommitDelete,
             CommitReopen, Transition, Goto, Answer, TypeOK, Ahead, Behind
    <3>2. CASE Rollback(c) \/ CommitDate(c) \/ CommitRemarks(c) \/ Refuse(c)
      BY <3>2 DEF Rollback, CommitDate, CommitRemarks, Refuse, Goto, Answer, rows, TypeOK, Ahead, Behind
    <3>3. CASE LockRound(c) \/ ReadDifferentials(c)
      BY <3>3 DEF LockRound, ReadDifferentials, Goto, rows, TypeOK, Ahead, Behind
    <3> QED BY <1>1, <3>1, <3>2, <3>3
  <2> QED BY <1>0, <2>1, FreshAside
<1>2. CASE CommitHole(c)
  <2>1. agg' = agg /\ pc[c] \notin Ahead \cup Behind /\ pc'[c] \notin Behind /\ R(c) \in Round
    BY <1>0, <1>2, RequestedType DEF CommitHole, WriteScores, Goto, Answer, TypeOK, Ahead, Behind
  <2>2. CASE r = R(c)
    BY <1>2, <2>1, <2>2 DEF CommitHole, Goto, TypeOK, FreshOrDue, R
  <2>3. CASE r # R(c)
    <3>1. card'[r] = card[r]
      BY <1>2, <2>1, <2>3 DEF CommitHole, TypeOK
    <3> QED BY <1>0, <2>1, <3>1, FreshAside
  <2> QED BY <2>2, <2>3
<1>3. CASE CheckApprovable(c) \/ RereadAfterDate(c)
  <2>1. agg' = agg /\ card' = card /\ pc[c] \in Ahead /\ pc'[c] \notin Behind
    BY <1>3 DEF CheckApprovable, RereadAfterDate, Goto, Answer, rows, TypeOK, Ahead, Behind
  <2>2. CASE r = R(c)
    <3>1. pc'[c] \in Ahead /\ R(c)' = R(c)
      BY <1>3, <2>2
         DEF CheckApprovable, RereadAfterDate, isApprovableStatus, needsRescoreAfterDateChange,
             Goto, TypeOK, Ahead, R
    <3> QED BY <1>0, <2>1, <2>2, <3>1, FreshAlong
  <2>3. CASE r # R(c)
    BY <1>0, <2>1, <2>3, FreshAside
  <2> QED BY <2>2, <2>3
<1>4. CASE EnqueueRescore(c) \/ ReadRow(c) \/ ReadHoles(c) \/ ReadPcc(c)
  <2>1. agg' = agg /\ card' = card /\ R(c)' = R(c) /\ R(c) \in Round
    BY <1>4, RequestedType DEF EnqueueRescore, ReadRow, ReadHoles, ReadPcc, rows, R
  <2>2. CASE r = R(c)
    <3>1. \/ pc[c] \in Ahead /\ pc'[c] \in Ahead
          \/ pc[c] \in Ahead /\ pc'[c] \in Behind /\ seen'[c].card = card[r]
          \/ pc[c] \in Behind /\ pc'[c] \in Behind /\ seen'[c].card = seen[c].card
      BY <1>4, <2>2
         DEF EnqueueRescore, ReadRow, ReadHoles, ReadPcc, Goto, TypeOK, Memory, Ahead, Behind
    <3> QED BY <1>0, <2>1, <2>2, <3>1, FreshAlong
  <2>3. CASE r # R(c)
    BY <1>0, <2>1, <2>3, FreshAside
  <2> QED BY <2>2, <2>3
<1>5. CASE WriteScores(c)
  <2>1. card' = card /\ R(c) \in Round /\ pc[c] = "write" /\ pc'[c] \notin Ahead \cup Behind
        /\ agg' = [agg EXCEPT ![R(c)] = [card |-> seen[c].card, pcc |-> seen[c].pcc]]
    BY <1>5, RequestedType DEF WriteScores, Goto, Answer, TypeOK, Ahead, Behind
  <2>2. CASE r = R(c)
    <3>1. \A d \in Client \ {c} : ~(R(d) = r /\ pc[d] \in Behind)
      BY <2>1, <2>2 DEF RescoreInv, HasRead, MyTurn, Behind
    <3>2. CASE \E d \in Client : R(d) = r /\ pc[d] \in Ahead
      <4>1. PICK d \in Client \ {c} : R(d) = r /\ pc[d] \in Ahead
        BY <2>1, <3>2 DEF Ahead
      <4>2. R(d)' = r /\ pc'[d] \in Ahead
        BY <1>0, <4>1 DEF R
      <4> QED BY <4>2 DEF FreshOrDue, Ahead
    <3>3. CASE \A d \in Client : ~(R(d) = r /\ pc[d] \in Ahead)
      <4>1. seen[c].card = card[r]
        BY <2>1, <2>2, <3>1, <3>3 DEF FreshOrDue, Ahead, Behind
      <4>2. agg'[r] # NULL /\ agg'[r].card = card'[r]
        BY <1>5, <2>1, <2>2, <4>1, WritesAScore DEF TypeOK
      <4>3. \A d \in Client : ~(R(d)' = r /\ pc'[d] \in Behind)
        BY <1>0, <2>1, <3>1 DEF R
      <4> QED BY <4>2, <4>3 DEF FreshOrDue, Behind
    <3> QED BY <3>2, <3>3
  <2>3. CASE r # R(c)
    <3>1. agg'[r] = agg[r]
      BY <2>1, <2>3 DEF TypeOK
    <3> QED BY <1>0, <2>1, <2>3, <3>1, FreshAside
  <2> QED BY <2>2, <2>3
<1>6. CASE RescoreGone(c)
  <2>1. agg' = agg /\ card' = card /\ R(c) # r /\ pc'[c] \notin Behind
    BY <1>6 DEF RescoreGone, rows, Exists, Answer, TypeOK, Behind
  <2> QED BY <1>0, <2>1, FreshAside
<1> QED BY <1>1, <1>2, <1>3, <1>4, <1>5, <1>6 DEF Step, Moves

(* Every step keeps the pending rounds fresh or due, until something fails. *)
LEMMA FreshStep ==
  ASSUME IInv, Next, FreshInv
  PROVE  FreshInv'
<1> SUFFICES ASSUME faults' = 0, NEW r \in Round, status'[r] = "pending"
             PROVE  FreshOrDue(r)'
  BY DEF FreshInv
<1>0. faults \in Nat
  BY DEF IInv, TypeOK
<1>1. ~Restart /\ (\A c \in Client : ~RescoreFails(c)) /\ (\A a \in Corrector : ~AffectedFails(a))
  BY <1>0 DEF Restart, RescoreFails, AffectedFails
<1>2. CASE status[r] # "pending"
  <2>1. \E c \in Client : Moves(c)
    BY <1>2, StepKinds DEF CreateRound, CommitHole, CommitAffected, IInv, TypeOK, rows
  <2> QED BY <1>2, <2>1, PendingIsRescored
<1>3. CASE status[r] = "pending"
  <2>1. FreshOrDue(r)
    <3>1. ASSUME NEW c \in Client, Step(c) \/ Rollback(c) PROVE faults' = faults
      BY <3>1, StepLeaves DEF IInv
    <3>2. faults' = faults
      BY <1>1, <3>1
         DEF Next, CorrectorStep, CreateRound, Request, StartCorrection, ApplyPcc, ReadAffected,
             CommitAffected, ReplaceTee
    <3> QED BY <1>3, <3>2 DEF FreshInv
  <2>2. ASSUME NEW c \in Client, Step(c) \/ Rollback(c)
        PROVE  FreshOrDue(r)'
    BY <1>3, <2>1, <2>2, FreshClientStep
  <2>3. ASSUME NEW c \in Client, NEW op \in AllOps, NEW q \in Round, Request(c, op, q)
        PROVE  FreshOrDue(r)'
    <3>1. /\ \A d \in Client \ {c} : pc'[d] = pc[d] /\ req'[d] = req[d] /\ seen'[d] = seen[d]
          /\ card' = card /\ agg' = agg
          /\ pc[c] \notin Ahead \cup Behind /\ pc'[c] \notin Behind
      BY <2>3 DEF Request, Goto, rows, IInv, TypeOK, Ahead, Behind
    <3> QED BY <2>1, <3>1, FreshAside
  <2>4. ASSUME UNCHANGED <<card, clients>>,
               agg[r] # NULL => agg'[r] # NULL /\ agg'[r].card = agg[r].card
        PROVE  FreshOrDue(r)'
    BY <2>1, <2>4 DEF FreshOrDue, R, clients
  <2>5. ASSUME NEW q \in Round, CreateRound(q)
        PROVE  FreshOrDue(r)'
    <3>1. card'[r] = card[r] /\ agg' = agg /\ UNCHANGED clients
      BY <1>3, <2>5 DEF CreateRound, IInv, TypeOK
    <3> QED BY <2>1, <3>1 DEF FreshOrDue, R, clients
  <2>6. ASSUME NEW a \in Corrector, ApplyPcc(a)
        PROVE  FreshOrDue(r)'
    <3>1. ASSUME agg[r] # NULL PROVE agg'[r] # NULL /\ agg'[r].card = agg[r].card
      <4>1. agg[r] \in Agg /\ agg'[r] # NULL
        BY <2>6, <3>1, RewritesScores DEF IInv, TypeOK
      <4> QED BY <2>6, <4>1 DEF ApplyPcc, Agg
    <3> QED BY <2>4, <2>6, <3>1 DEF ApplyPcc
  <2>7. ASSUME NEW a \in Corrector,
               \/ \E d \in Day, v \in Pcc : StartCorrection(a, d, v)
               \/ (\E p \in Player : ReadAffected(a, p)) \/ CommitAffected(a)
        PROVE  FreshOrDue(r)'
    <3>1. UNCHANGED <<card, agg, clients>>
      BY <2>7 DEF StartCorrection, ReadAffected, CommitAffected, rows
    <3> QED BY <2>4, <3>1
  <2>8. ASSUME NEW q \in Round, ReplaceTee(q)
        PROVE  FreshOrDue(r)'
    <3>1. UNCHANGED <<card, agg, clients>>
      BY <2>8 DEF ReplaceTee, rows
    <3> QED BY <2>4, <3>1
  <2> QED BY <1>1, <2>2, <2>3, <2>5, <2>6, <2>7, <2>8 DEF Next, CorrectorStep
<1> QED BY <1>2, <1>3

(* While nothing has failed, a pending round with no rescore due has the scores
   of the hole scores that are recorded, however the edits interleaved: the last
   rescore of a round reads after the last edit, and no other is then between its
   read and its write. *)
THEOREM PendingFresh == Spec => []PendingScoresAreFresh
<1>1. Init => FreshInv
  BY DEF Init, FreshInv
<1>2. FreshInv /\ IInv /\ [Next]_vars => FreshInv'
  <2>1. ASSUME FreshInv, UNCHANGED vars
        PROVE  FreshInv'
    BY <2>1 DEF FreshInv, FreshOrDue, R, vars, rows, clients
  <2> QED BY <2>1, FreshStep
<1>3. FreshInv => PendingScoresAreFresh
  BY DEF FreshInv, FreshOrDue, PendingScoresAreFresh, RescoreDue
<1> QED BY <1>1, <1>2, <1>3, Invariant, PTL DEF Spec

=============================================================================
