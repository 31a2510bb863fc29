------------------------------- MODULE WebProofs -------------------------------
(***************************************************************************)
(* Proofs about Courses, then RoundEntry, then Pages.                      *)
(*                                                                         *)
(* The inductive invariant of Courses: a step moves one request            *)
(* (RequestMoves) or ends it with a write to the tables; the rows only     *)
(* ever grow (TablesGrow), so that what other requests found stays true.   *)
(* What Pages rests on is that its table of pages is right (PagesFit),     *)
(* which is shown page by page.                                            *)
(***************************************************************************)
EXTENDS Courses, RoundEntry, Pages, TLAPS

RequestType == [op : Ops \cup {"none"}, step : Steps \cup {"idle"},
                course : CourseIds \cup {None}, tee : Tees \cup {None}, name : Names \cup {None},
                version : Version, holes : SUBSET Version, tees : SUBSET Tees,
                before : SUBSET Rounds]

(* DeletionsSawEarlierRounds, of one request. *)
SawEarlierRounds(q) ==
  q.step = "soft_delete" =>
    \A n \in q.before :
      /\ q.op = "delete_tee" => plays[n] # q.tee
      /\ q.op = "delete_course" => tee[plays[n]].course # q.course

LEMMA SawIt == DeletionsSawEarlierRounds <=> \A r \in Requests : SawEarlierRounds(req[r])
BY DEF DeletionsSawEarlierRounds, SawEarlierRounds

(* ReadsAreWhole, and what it rests on, of one request. *)
ReadsWell(r) ==
  /\ RowIsCurrent(r)
  /\ At(r, "read_tee", "answer") => r \in overtaken \/ req[r].holes = {req[r].version}

LEMMA ReadsWellIt ==
  (\A r \in Requests : RowIsCurrent(r)) /\ ReadsAreWhole <=> \A r \in Requests : ReadsWell(r)
BY DEF ReadsAreWhole, ReadsWell

(* One request moves, the tables stay. *)
LEMMA RequestMoves ==
  ASSUME IInv, NEW r \in Requests, NEW new \in RequestType, req' = [req EXCEPT ![r] = new],
         UNCHANGED <<course, tee, holes, plays, answers>>, started' \in Version,
         overtaken' \in {overtaken, overtaken \ {r}},
         HasArguments(new), HasFound(new), SawEarlierRounds(new),
         new.op = "read_tee" => ReadsWell(r)',
         new.op = "update_tee" /\ new.step \in {"delete_holes", "commit"} =>
           \A q \in Requests : q # r /\ HasLock(q) => req[q].tee # new.tee
  PROVE  IInv'
<1> USE DEF IInv
<1>1. TypeOK'
  BY DEF TypeOK, RequestType
<1>2. req'[r] = new /\ \A q \in Requests : q # r => req'[q] = req[q]
  BY DEF TypeOK
<1>3. ASSUME NEW q \in Requests
      PROVE  (HasArguments(req[q]) /\ HasFound(req[q]))'
  <2>1. CASE q = r
    BY <1>2, <2>1 DEF HasArguments, HasFound, There, LiveTee
  <2>2. CASE q # r
    BY <1>2, <2>2 DEF HasArguments, HasFound, There, LiveTee
  <2>3. QED
    BY <2>1, <2>2
<1>4. RoundsHaveTees' /\ DeletedWereThere' /\ HolesMatchRow' /\ OneDeletionAnswers'
  BY DEF RoundsHaveTees, DeletedWereThere, There, TeesAreWhole, HolesMatchRow, OneDeletionAnswers
<1>5. OneLockHolder'
  BY <1>2 DEF OneLockHolder, HasLock
<1>8. ASSUME NEW q \in Requests
      PROVE  ReadsWell(q)'
  <2>1. CASE q = r
    BY <1>2, <2>1 DEF ReadsWell, RowIsCurrent, At
  <2>2. CASE q # r
    <3>1. ReadsWell(q)
      BY ReadsWellIt DEF TeesAreWhole
    <3>2. req'[q] = req[q] /\ (q \in overtaken' <=> q \in overtaken) /\ tee' = tee
      BY <1>2, <2>2
    <3>3. QED
      BY <3>1, <3>2 DEF ReadsWell, RowIsCurrent, At
  <2>3. QED
    BY <2>1, <2>2
<1>9. (\A q \in Requests : RowIsCurrent(q)') /\ ReadsAreWhole'
  BY <1>8 DEF ReadsWell, ReadsAreWhole
<1>6. DeletionsSawEarlierRounds'
  <2>1. ASSUME NEW q \in Requests
        PROVE  SawEarlierRounds(req[q])'
    <3>1. CASE q = r
      BY <1>2, <3>1 DEF SawEarlierRounds
    <3>2. CASE q # r
      <4>1. SawEarlierRounds(req[q])
        BY SawIt
      <4>2. QED
        BY <1>2, <3>2, <4>1 DEF SawEarlierRounds
    <3>3. QED
      BY <3>1, <3>2
  <2>2. QED
    BY <2>1 DEF DeletionsSawEarlierRounds, SawEarlierRounds
<1>7. QED
  BY <1>1, <1>3, <1>4, <1>5, <1>6, <1>9 DEF TeesAreWhole

(* A request that ends, or waits for nothing, has nothing to show. *)
LEMMA IdleHasAll ==
  /\ Idle \in RequestType /\ HasArguments(Idle) /\ HasFound(Idle) /\ SawEarlierRounds(Idle)
  /\ Idle.op = "none" /\ Idle.step = "idle"
<1>1. 0 \in Version
  BY MaxAssumption DEF Version
<1>2. QED
  BY <1>1 DEF Idle, RequestType, HasArguments, HasFound, SawEarlierRounds, Deletes

LEMMA Ended ==
  ASSUME IInv, NEW r \in Requests, End(r), UNCHANGED <<course, tee, holes, plays, started, answers>>,
         overtaken' \in {overtaken, overtaken \ {r}}
  PROVE  IInv'
<1>1. req' = [req EXCEPT ![r] = Idle] /\ started' \in Version
  BY DEF End, IInv, TypeOK
<1>2. QED
  BY <1>1, IdleHasAll, RequestMoves

(* A request ends with a write: the rows that requests have found, and that rounds
   use, stay in their courses; only a row that is not locked is deleted or given other
   holes, and who is reading a row that is replaced is overtaken. *)
LEMMA TablesGrow ==
  ASSUME IInv, NEW r \in Requests, End(r), plays' = plays, started' = started,
         (TypeOK /\ HolesMatchRow /\ OneDeletionAnswers /\ DeletedWereThere)',
         \A c \in CourseIds : course[c].there => course'[c].there,
         \A t \in Tees : There(t) => tee'[t].course = tee[t].course,
         \A q \in Requests \ {r} : HasLock(q) =>
           ~tee'[req[q].tee].deleted /\ holes'[req[q].tee] = holes[req[q].tee],
         overtaken \subseteq overtaken',
         \A q \in Requests \ {r} : At(q, "read_tee", "read_holes") =>
           q \in overtaken' \/ tee'[req[q].tee].version = tee[req[q].tee].version
  PROVE  IInv'
<1> USE DEF IInv
<1>1. req' = [req EXCEPT ![r] = Idle]
  BY DEF End
<1>2. req'[r] = Idle /\ \A q \in Requests : q # r => req'[q] = req[q]
  BY <1>1 DEF TypeOK
<1>3. \A n \in Rounds : plays[n] # None => tee'[plays[n]].course = tee[plays[n]].course
  BY DEF RoundsHaveTees, TypeOK
<1>4. \A t \in Tees : There(t) => There(t)'
  BY DEF There
<1>5. ASSUME NEW q \in Requests
      PROVE  (HasArguments(req[q]) /\ HasFound(req[q]) /\ SawEarlierRounds(req[q]))'
  <2>1. CASE q = r
    BY <1>2, <2>1, IdleHasAll
       DEF HasArguments, HasFound, SawEarlierRounds, Idle, Deletes
  <2>2. CASE q # r
    <3>1. req'[q] = req[q] /\ req[q] \in RequestType
      BY <1>2, <2>2 DEF TypeOK, RequestType
    <3>2. HasArguments(req[q])'
      BY <1>4, <3>1 DEF HasArguments, RequestType
    <3>3. HasFound(req[q])'
      <4>1. \A n \in req[q].before : tee'[plays[n]].course = tee[plays[n]].course
        BY <1>3, <3>1, NoneAssumption DEF HasArguments, RequestType
      <4>2. HasLock(q) =>
              /\ tee'[req[q].tee].course # None /\ ~tee'[req[q].tee].deleted
              /\ holes'[req[q].tee] = holes[req[q].tee]
        <5>1. HasLock(q) => There(req[q].tee) /\ req[q].tee \in Tees
          BY DEF HasLock, HasFound, HasArguments, LiveTee
        <5>2. HasLock(q) => ~tee'[req[q].tee].deleted /\ holes'[req[q].tee] = holes[req[q].tee]
          BY <2>2
        <5>3. \A t \in Tees : There(t) => tee'[t].course # None
          BY DEF There
        <5>4. QED
          BY <5>1, <5>2, <5>3
      <4>3. At(q, "read_tee", "read_holes") => tee'[req[q].tee].course # None
        BY DEF At, HasFound, HasArguments, There
      <4>4. QED
        BY <3>1, <4>1, <4>2, <4>3 DEF HasFound, HasLock, At, LiveTee, There
    <3>4. SawEarlierRounds(req[q])'
      <4>1. \A n \in req[q].before : tee'[plays[n]].course = tee[plays[n]].course
        BY <1>3, <3>1, NoneAssumption DEF HasArguments, RequestType
      <4>2. SawEarlierRounds(req[q])
        BY SawIt
      <4>3. QED
        BY <3>1, <4>1, <4>2 DEF SawEarlierRounds
    <3>5. QED
      BY <3>2, <3>3, <3>4
  <2>3. QED
    BY <2>1, <2>2
<1>6. RoundsHaveTees'
  BY <1>4 DEF RoundsHaveTees, TypeOK
<1>7. OneLockHolder'
  BY <1>2, IdleHasAll DEF OneLockHolder, HasLock
<1>8. DeletionsSawEarlierRounds'
  BY <1>5 DEF DeletionsSawEarlierRounds, SawEarlierRounds
<1>9. ASSUME NEW q \in Requests
      PROVE  ReadsWell(q)'
  <2>1. CASE q = r
    BY <1>2, <2>1, IdleHasAll DEF ReadsWell, RowIsCurrent, At
  <2>2. CASE q # r
    <3>1. ReadsWell(q) /\ req'[q] = req[q]
      BY <1>2, <2>2, ReadsWellIt DEF TeesAreWhole
    <3>2. At(q, "read_tee", "read_holes") =>
            q \in overtaken' \/ tee'[req[q].tee].version = tee[req[q].tee].version
      BY <2>2
    <3>3. QED
      BY <3>1, <3>2 DEF ReadsWell, RowIsCurrent, At
  <2>3. QED
    BY <2>1, <2>2
<1>10. (\A q \in Requests : RowIsCurrent(q)') /\ ReadsAreWhole'
  BY <1>9 DEF ReadsWell, ReadsAreWhole
<1>11. QED
  BY <1>5, <1>6, <1>7, <1>8, <1>10 DEF TeesAreWhole

-----------------------------------------------------------------------------
(* Requests begin and look around *)

LEMMA Begun ==
  ASSUME IInv, NEW r \in Requests, NEW request \in RequestType, Begin(r, request),
         request.step \notin {"read_tees", "check", "soft_delete", "delete_holes", "commit",
                              "read_holes", "answer"},
         request.step = "insert" => request.op = "create_course" /\ request.name \in Names,
         request.op \in {"update_course", "create_tee", "delete_course"} => request.course \in CourseIds,
         request.op \in {"update_tee", "delete_tee", "read_tee"} => request.tee \in Tees
  PROVE  IInv'
<1>1. DEFINE new == [request EXCEPT !.version = started + 1, !.before = Played]
<1>2. started + 1 \in Version /\ started' = started + 1
  BY MaxAssumption DEF Begin, Version, IInv, TypeOK
<1>3. /\ new \in RequestType /\ new.step = request.step /\ new.op = request.op
      /\ new.name = request.name /\ new.course = request.course /\ new.tee = request.tee
      /\ new.before = Played
  BY <1>2 DEF RequestType, Played
<1>4. req' = [req EXCEPT ![r] = new] /\ UNCHANGED <<course, tee, holes, plays, answers, overtaken>>
  BY DEF Begin, history
<1> HIDE DEF new
<1>5. HasArguments(new) /\ HasFound(new) /\ SawEarlierRounds(new)
  BY <1>3 DEF HasArguments, HasFound, SawEarlierRounds, Played, IInv, TypeOK
<1>6. ReadsWell(r)'
  BY <1>3, <1>4 DEF ReadsWell, RowIsCurrent, At, IInv, TypeOK
<1>7. QED
  BY <1>2, <1>3, <1>4, <1>5, <1>6, RequestMoves

LEMMA ArriveKeeps ==
  ASSUME IInv, NEW r \in Requests, Arrive(r)
  PROVE  IInv'
<1>0. 0 \in Version
  BY MaxAssumption DEF Version
<1> USE DEF Idle, RequestType, Ops, Deletes, Steps
<1>1. ASSUME NEW n \in Names,
             Begin(r, [Idle EXCEPT !.op = "create_course", !.step = "insert", !.name = n])
      PROVE  IInv'
  <2>1. DEFINE new == [Idle EXCEPT !.op = "create_course", !.step = "insert", !.name = n]
  <2>2. /\ new \in RequestType /\ new.op = "create_course" /\ new.step = "insert" /\ new.name = n
    BY <1>0
  <2>3. Begin(r, new)
    BY <1>1
  <2> HIDE DEF new
  <2>4. QED
    BY <2>2, <2>3, Begun
<1>2. ASSUME NEW c \in CourseIds, NEW n \in Names \cup {None},
             Begin(r, [Idle EXCEPT !.op = "update_course", !.step = "update", !.course = c, !.name = n])
      PROVE  IInv'
  <2>1. DEFINE new == [Idle EXCEPT !.op = "update_course", !.step = "update", !.course = c, !.name = n]
  <2>2. /\ new \in RequestType /\ new.op = "update_course" /\ new.step = "update" /\ new.course = c
    BY <1>0
  <2>3. Begin(r, new)
    BY <1>2
  <2> HIDE DEF new
  <2>4. QED
    BY <2>2, <2>3, Begun
<1>3. ASSUME NEW op \in {"delete_course", "create_tee"}, NEW c \in CourseIds,
             Begin(r, [Idle EXCEPT !.op = op, !.step = "find", !.course = c])
      PROVE  IInv'
  <2>1. DEFINE new == [Idle EXCEPT !.op = op, !.step = "find", !.course = c]
  <2>2. new \in RequestType /\ new.op = op /\ new.step = "find" /\ new.course = c
    BY <1>0
  <2>3. Begin(r, new)
    BY <1>3
  <2> HIDE DEF new
  <2>4. QED
    BY <2>2, <2>3, Begun
<1>4. ASSUME NEW t \in Tees, NEW op \in {"update_tee", "delete_tee", "read_tee"},
             NEW step \in {"lock", "find", "read_row"},
             Begin(r, [Idle EXCEPT !.op = op, !.step = step, !.tee = t])
      PROVE  IInv'
  <2>1. DEFINE new == [Idle EXCEPT !.op = op, !.step = step, !.tee = t]
  <2>2. new \in RequestType /\ new.op = op /\ new.step = step /\ new.tee = t
    BY <1>0
  <2>3. Begin(r, new)
    BY <1>4
  <2> HIDE DEF new
  <2>4. QED
    BY <2>2, <2>3, Begun
<1> HIDE DEF Idle, RequestType, Ops, Deletes, Steps
<1>5. QED
  BY <1>1, <1>2, <1>3, <1>4 DEF Arrive

(* A request goes on to another step, with the tees it has read. *)
LEMMA Moved ==
  ASSUME IInv, NEW r \in Requests, NEW step \in Steps, NEW tees \in SUBSET Tees,
         NEW new, new = [req[r] EXCEPT !.step = step, !.tees = tees],
         req' = [req EXCEPT ![r] = new],
         UNCHANGED <<course, tee, holes, plays, started, history>>,
         HasArguments(new), HasFound(new), SawEarlierRounds(new), new.op # "read_tee",
         new.op = "update_tee" /\ step \in {"delete_holes", "commit"} => ~Locked(new.tee)
  PROVE  IInv'
<1>1. req[r] \in RequestType /\ req \in [Requests -> RequestType]
  BY DEF IInv, TypeOK, RequestType
<1>2. new \in RequestType /\ new.step = step
  BY <1>1 DEF RequestType
<1>3. started' \in Version /\ UNCHANGED <<course, tee, holes, plays, answers, overtaken>>
  BY DEF IInv, TypeOK, history
<1>4. new.op = "update_tee" /\ new.step \in {"delete_holes", "commit"} =>
        \A q \in Requests : HasLock(q) => req[q].tee # new.tee
  BY <1>2 DEF Locked
<1>5. QED
  BY <1>2, <1>3, <1>4, RequestMoves

LEMMA FindCourseKeeps ==
  ASSUME IInv, NEW r \in Requests, FindCourse(r)
  PROVE  IInv'
<1>1. DEFINE step == IF req[r].op = "create_tee" THEN "commit" ELSE "read_tees"
             new == [req[r] EXCEPT !.step = step, !.tees = req[r].tees]
<1>2. /\ req[r] \in RequestType /\ req \in [Requests -> RequestType] /\ HasArguments(req[r])
      /\ req[r].op \in {"create_tee", "delete_course"}
  BY DEF IInv, TypeOK, RequestType, FindCourse
<1>3. CASE Live(req[r].course)
  <2>1. step \in Steps /\ req[r].tees \in SUBSET Tees /\ step \in {"commit", "read_tees"}
    BY <1>2 DEF Steps, RequestType
  <2>2. req' = [req EXCEPT ![r] = new]
    BY <1>2, <1>3 DEF FindCourse, Go, RequestType
  <2>3. HasArguments(new) /\ HasFound(new) /\ SawEarlierRounds(new)
        /\ new.op \notin {"update_tee", "read_tee"}
    BY <1>2, <1>3, <2>1 DEF HasArguments, HasFound, SawEarlierRounds, RequestType, Live
  <2> HIDE DEF step
  <2>4. QED
    BY <2>1, <2>2, <2>3, Moved DEF FindCourse
<1>4. QED
  BY <1>3, Ended DEF FindCourse, history

(* The lock is taken when nobody has it, on a row that is not deleted. *)
LEMMA LockTeeKeeps ==
  ASSUME IInv, NEW r \in Requests, LockTee(r)
  PROVE  IInv'
<1>1. DEFINE new == [req[r] EXCEPT !.step = "delete_holes", !.tees = req[r].tees]
<1>2. /\ req[r] \in RequestType /\ req \in [Requests -> RequestType] /\ HasArguments(req[r])
      /\ req[r].op = "update_tee" /\ ~Locked(req[r].tee)
  BY DEF IInv, TypeOK, RequestType, LockTee, At
<1>3. CASE LiveTee(req[r].tee)
  <2>1. "delete_holes" \in Steps /\ req[r].tees \in SUBSET Tees
    BY <1>2 DEF Steps, RequestType
  <2>2. req' = [req EXCEPT ![r] = new]
    BY <1>2, <1>3 DEF LockTee, Go, RequestType
  <2>3. HasArguments(new) /\ HasFound(new) /\ SawEarlierRounds(new) /\ new.tee = req[r].tee
        /\ new.op = "update_tee"
    BY <1>2, <1>3 DEF HasArguments, HasFound, SawEarlierRounds, RequestType
  <2>4. QED
    BY <1>2, <2>1, <2>2, <2>3, Moved DEF LockTee
<1>4. QED
  BY <1>3, Ended DEF LockTee, history

(* The holes there are when the lock is held are those there will be at the commit. *)
LEMMA DeleteHolesKeeps ==
  ASSUME IInv, NEW r \in Requests, DeleteHoles(r)
  PROVE  IInv'
<1>1. DEFINE new == [req[r] EXCEPT !.step = "commit", !.holes = holes[req[r].tee]]
<1>2. /\ req[r] \in RequestType /\ req \in [Requests -> RequestType] /\ HasArguments(req[r])
      /\ HasFound(req[r]) /\ req[r].op = "update_tee" /\ req[r].step = "delete_holes"
      /\ req[r].tee \in Tees
  BY DEF IInv, TypeOK, RequestType, DeleteHoles, At, HasArguments
<1>3. holes[req[r].tee] \in SUBSET Version /\ started' \in Version
      /\ UNCHANGED <<course, tee, holes, plays, answers, overtaken>>
  BY <1>2 DEF IInv, TypeOK, DeleteHoles, history
<1>4. new \in RequestType /\ new.op = "update_tee" /\ new.tee = req[r].tee
  BY <1>2, <1>3 DEF RequestType, Steps
<1>5. req' = [req EXCEPT ![r] = new]
  BY <1>2 DEF DeleteHoles, RequestType
<1>6. HasArguments(new) /\ HasFound(new) /\ SawEarlierRounds(new)
  BY <1>2 DEF HasArguments, HasFound, SawEarlierRounds, RequestType
<1>7. \A q \in Requests : q # r /\ HasLock(q) => req[q].tee # new.tee
  BY <1>2, <1>4 DEF IInv, OneLockHolder, HasLock
<1> HIDE DEF new
<1>8. QED
  BY <1>3, <1>4, <1>5, <1>6, <1>7, RequestMoves

(* A reader has read the row as it is, and is not overtaken yet. *)
LEMMA ReadRowKeeps ==
  ASSUME IInv, NEW r \in Requests, ReadRow(r)
  PROVE  IInv'
<1>1. DEFINE t == req[r].tee
             new == [req[r] EXCEPT !.step = "read_holes", !.version = tee[t].version]
<1>2. /\ req[r] \in RequestType /\ req \in [Requests -> RequestType] /\ HasArguments(req[r])
      /\ req[r].op = "read_tee" /\ t \in Tees
  BY DEF IInv, TypeOK, RequestType, ReadRow, At, HasArguments
<1>3. /\ started' \in Version /\ UNCHANGED <<course, tee, holes, plays, started, answers>>
      /\ overtaken' \in {overtaken, overtaken \ {r}}
  BY DEF IInv, TypeOK, ReadRow
<1>4. CASE There(t)
  <2>1. tee[t].version \in Version
    BY <1>2 DEF IInv, TypeOK, TeeRow
  <2>2. /\ new \in RequestType /\ new.op = "read_tee" /\ new.step = "read_holes"
        /\ new.tee = t /\ new.version = tee[t].version
    BY <1>2, <2>1 DEF RequestType, Steps
  <2>3. req' = [req EXCEPT ![r] = new]
    BY <1>2, <1>4 DEF ReadRow, RequestType
  <2>4. HasArguments(new) /\ HasFound(new) /\ SawEarlierRounds(new)
    BY <1>2, <1>4 DEF HasArguments, HasFound, SawEarlierRounds, RequestType, Deletes
  <2> HIDE DEF new
  <2>5. ReadsWell(r)'
    BY <1>2, <1>3, <2>2, <2>3 DEF ReadsWell, RowIsCurrent, At
  <2>6. QED
    BY <1>3, <2>2, <2>3, <2>4, <2>5, RequestMoves
<1>5. QED
  BY <1>3, <1>4, Ended DEF ReadRow

(* The holes of the row that was read, unless it has been replaced. *)
LEMMA ReadHolesKeeps ==
  ASSUME IInv, NEW r \in Requests, ReadHoles(r)
  PROVE  IInv'
<1>1. DEFINE new == [req[r] EXCEPT !.step = "answer", !.holes = holes[req[r].tee]]
<1>2. /\ req[r] \in RequestType /\ req \in [Requests -> RequestType] /\ HasArguments(req[r])
      /\ HasFound(req[r]) /\ req[r].op = "read_tee" /\ req[r].step = "read_holes"
      /\ req[r].tee \in Tees
  BY DEF IInv, TypeOK, RequestType, ReadHoles, At, HasArguments
<1>3. holes[req[r].tee] \in SUBSET Version /\ started' \in Version
      /\ UNCHANGED <<course, tee, holes, plays, answers, overtaken>>
  BY <1>2 DEF IInv, TypeOK, ReadHoles, history
<1>4. /\ new \in RequestType /\ new.op = "read_tee" /\ new.step = "answer"
      /\ new.holes = holes[req[r].tee] /\ new.version = req[r].version
  BY <1>2, <1>3 DEF RequestType, Steps
<1>5. req' = [req EXCEPT ![r] = new]
  BY <1>2 DEF ReadHoles, RequestType
<1>6. HasArguments(new) /\ HasFound(new) /\ SawEarlierRounds(new)
  BY <1>2 DEF HasArguments, HasFound, SawEarlierRounds, RequestType
<1>7. r \in overtaken \/ holes[req[r].tee] = {req[r].version}
  <2>1. There(req[r].tee)
    BY <1>2 DEF HasFound
  <2>2. QED
    BY <1>2, <2>1 DEF IInv, RowIsCurrent, At, TeesAreWhole, HolesMatchRow
<1> HIDE DEF new
<1>8. ReadsWell(r)'
  BY <1>2, <1>3, <1>4, <1>5, <1>7 DEF ReadsWell, RowIsCurrent, At
<1>9. QED
  BY <1>3, <1>4, <1>5, <1>6, <1>8, RequestMoves

LEMMA FindTeeKeeps ==
  ASSUME IInv, NEW r \in Requests, FindTee(r)
  PROVE  IInv'
<1>1. DEFINE new == [req[r] EXCEPT !.step = "check", !.tees = {req[r].tee}]
<1>2. /\ req[r] \in RequestType /\ req \in [Requests -> RequestType] /\ HasArguments(req[r])
      /\ req[r].op = "delete_tee" /\ req[r].tee \in Tees
  BY DEF IInv, TypeOK, RequestType, FindTee, At, HasArguments
<1>3. CASE LiveTee(req[r].tee)
  <2>1. "check" \in Steps /\ {req[r].tee} \in SUBSET Tees
    BY <1>2 DEF Steps
  <2>2. req' = [req EXCEPT ![r] = new]
    BY <1>2, <1>3 DEF FindTee, RequestType
  <2>3. HasArguments(new) /\ HasFound(new) /\ SawEarlierRounds(new) /\ new.op = "delete_tee"
    BY <1>2, <1>3 DEF HasArguments, HasFound, SawEarlierRounds, RequestType, LiveTee, Deletes
  <2>4. QED
    BY <2>1, <2>2, <2>3, Moved DEF FindTee
<1>4. QED
  BY <1>3, Ended DEF FindTee, history

(* All the tees of the course are read: those of the earlier rounds are among them. *)
LEMMA ReadTeesKeeps ==
  ASSUME IInv, NEW r \in Requests, ReadTees(r)
  PROVE  IInv'
<1>1. DEFINE tees == {t \in Tees : tee[t].course = req[r].course}
             new == [req[r] EXCEPT !.step = "check", !.tees = tees]
<1>2. /\ req[r] \in RequestType /\ req \in [Requests -> RequestType] /\ HasArguments(req[r])
      /\ req[r].op = "delete_course" /\ course[req[r].course].there
  BY DEF IInv, TypeOK, RequestType, ReadTees, At, HasArguments
<1>3. "check" \in Steps /\ tees \in SUBSET Tees
  BY DEF Steps
<1>4. req' = [req EXCEPT ![r] = new]
  BY <1>2 DEF ReadTees, RequestType
<1>5. HasArguments(new) /\ HasFound(new) /\ SawEarlierRounds(new) /\ new.op = "delete_course"
  BY <1>2 DEF HasArguments, HasFound, SawEarlierRounds, RequestType, Deletes
<1> HIDE DEF tees
<1>6. QED
  BY <1>3, <1>4, <1>5, Moved DEF ReadTees

(* No round is on the tees that were read; so no earlier round is on the row that is
   about to be deleted. *)
LEMMA CheckRoundsKeeps ==
  ASSUME IInv, NEW r \in Requests, CheckRounds(r)
  PROVE  IInv'
<1>1. DEFINE new == [req[r] EXCEPT !.step = "soft_delete", !.tees = req[r].tees]
<1>2. /\ req[r] \in RequestType /\ req \in [Requests -> RequestType] /\ HasArguments(req[r])
      /\ HasFound(req[r]) /\ req[r].op \in Deletes /\ req[r].step = "check"
  BY DEF IInv, TypeOK, RequestType, CheckRounds
<1>3. CASE ~hasReferencingRounds(req[r].tees)
  <2>1. "soft_delete" \in Steps /\ req[r].tees \in SUBSET Tees
    BY <1>2 DEF Steps, RequestType
  <2>2. req' = [req EXCEPT ![r] = new]
    BY <1>2, <1>3 DEF CheckRounds, Go, RequestType
  <2>3. /\ new.op = req[r].op /\ new.tee = req[r].tee /\ new.course = req[r].course
        /\ new.before = req[r].before /\ new.tees = req[r].tees
        /\ HasArguments(new) /\ HasFound(new)
    BY <1>2 DEF HasArguments, HasFound, RequestType
  <2>4. \A n \in req[r].before : plays[n] \notin req[r].tees
    BY <1>2, <1>3 DEF hasReferencingRounds, RequestType
  <2>5. SawEarlierRounds(new)
    BY <1>2, <2>3, <2>4 DEF SawEarlierRounds, HasArguments, HasFound
  <2>6. new.op \notin {"update_tee", "read_tee"}
    BY <1>2, <2>3 DEF Deletes
  <2>7. QED
    BY <2>1, <2>2, <2>3, <2>5, <2>6, Moved DEF CheckRounds
<1>4. QED
  BY <1>3, Ended DEF CheckRounds, history

-----------------------------------------------------------------------------
(* The writes *)

LEMMA CreateCourseKeeps ==
  ASSUME IInv, NEW r \in Requests, CreateCourse(r)
  PROVE  IInv'
<1> USE DEF IInv
<1>1. PICK c \in CourseIds, new \in SUBSET {t \in Tees : ~There(t)} :
        /\ ~course[c].there
        /\ course' = [course EXCEPT ![c] = [NoCourse EXCEPT !.there = TRUE, !.name = req[r].name]]
        /\ tee' = [t \in Tees |-> IF t \in new
             THEN [NoTee EXCEPT !.course = c, !.version = req[r].version] ELSE tee[t]]
        /\ holes' = [t \in Tees |-> IF t \in new THEN {req[r].version} ELSE holes[t]]
  BY DEF CreateCourse
<1>2. req[r].name \in Names /\ req[r].version \in Version /\ req \in [Requests -> RequestType]
  BY DEF CreateCourse, At, HasArguments, TypeOK, RequestType
<1>3. UNCHANGED <<plays, started, answers, overtaken>> /\ End(r)
  BY DEF CreateCourse, history
<1>4. req' \in [Requests -> RequestType]
  BY <1>2, <1>3, IdleHasAll DEF End
<1>5. TypeOK'
  BY <1>1, <1>2, <1>3, <1>4 DEF TypeOK, NoCourse, NoTee, RequestType, CourseRow, TeeRow
<1>6. HolesMatchRow'
  BY <1>1 DEF TeesAreWhole, HolesMatchRow, NoTee, There
<1>7. \A d \in CourseIds : /\ course'[d].deleted = course[d].deleted
                           /\ course[d].there => course'[d].there
  BY <1>1 DEF NoCourse, TypeOK, CourseRow, DeletedWereThere
<1>8. \A t \in Tees : /\ tee'[t].deleted = tee[t].deleted
                      /\ There(t) => tee'[t] = tee[t] /\ holes'[t] = holes[t]
  BY <1>1 DEF NoTee, TypeOK, TeeRow, DeletedWereThere
<1>9. OneDeletionAnswers'
  BY <1>3, <1>7, <1>8 DEF OneDeletionAnswers
<1>10. \A q \in Requests \ {r} :
         /\ HasLock(q) => ~tee'[req[q].tee].deleted /\ holes'[req[q].tee] = holes[req[q].tee]
         /\ At(q, "read_tee", "read_holes") => tee'[req[q].tee].version = tee[req[q].tee].version
  BY <1>8 DEF HasLock, At, HasArguments, HasFound, LiveTee
<1>11. DeletedWereThere'
  BY <1>7, <1>8 DEF DeletedWereThere, There
<1>12. QED
  BY <1>3, <1>5, <1>6, <1>7, <1>8, <1>9, <1>10, <1>11, TablesGrow

LEMMA UpdateCourseKeeps ==
  ASSUME IInv, NEW r \in Requests, UpdateCourse(r)
  PROVE  IInv'
<1> USE DEF IInv
<1>1. DEFINE c == req[r].course
             name == IF req[r].name = None THEN course[c].name ELSE req[r].name
<1>2. c \in CourseIds /\ req[r].name \in Names \cup {None} /\ req \in [Requests -> RequestType]
  BY DEF UpdateCourse, At, HasArguments, TypeOK, RequestType
<1>3. UNCHANGED <<tee, holes, plays, started, answers, overtaken>> /\ End(r)
      /\ course' \in {course, [course EXCEPT ![c].name = name]}
  BY DEF UpdateCourse, history
<1>4. req' \in [Requests -> RequestType]
  BY <1>2, <1>3, IdleHasAll DEF End
<1>5. TypeOK'
  <2>1. name \in Names \cup {None}
    BY <1>2 DEF TypeOK, CourseRow
  <2> HIDE DEF name, c
  <2>2. [course[c] EXCEPT !.name = name] \in CourseRow
    BY <1>2, <2>1 DEF TypeOK, CourseRow
  <2>3. course' \in [CourseIds -> CourseRow]
    BY <1>2, <1>3, <2>2 DEF TypeOK
  <2>4. QED
    BY <1>3, <1>4, <2>3 DEF TypeOK, RequestType
<1>6. \A d \in CourseIds : /\ course'[d].deleted = course[d].deleted
                           /\ course'[d].there = course[d].there
  <2>1. ASSUME NEW d \in CourseIds, course' = [course EXCEPT ![c].name = name]
        PROVE  course'[d].deleted = course[d].deleted /\ course'[d].there = course[d].there
    <3> HIDE DEF name, c
    <3>1. course' = [course EXCEPT ![c] = [course[c] EXCEPT !.name = name]] /\ course[c] \in CourseRow
      BY <1>2, <2>1 DEF TypeOK
    <3>2. QED
      BY <1>2, <3>1 DEF TypeOK, CourseRow
  <2>2. QED
    BY <1>3, <2>1
<1>7. HolesMatchRow' /\ OneDeletionAnswers' /\ DeletedWereThere'
  BY <1>3, <1>6 DEF TeesAreWhole, HolesMatchRow, OneDeletionAnswers, DeletedWereThere, There
<1>8. \A q \in Requests \ {r} : HasLock(q) => ~tee'[req[q].tee].deleted
  BY <1>3 DEF HasLock, HasArguments, HasFound, LiveTee
<1>9. QED
  BY <1>3, <1>5, <1>6, <1>7, <1>8, TablesGrow

(* A tee's row keeps its type when its course and its version are set. *)
LEMMA RowSet ==
  ASSUME NEW row \in TeeRow, NEW c \in CourseIds, NEW v \in Version
  PROVE  [row EXCEPT !.course = c, !.version = v] \in TeeRow
BY DEF TeeRow

LEMMA CreateTeeKeeps ==
  ASSUME IInv, NEW r \in Requests, CreateTee(r)
  PROVE  IInv'
<1> USE DEF IInv
<1>1. PICK t \in Tees :
        /\ ~There(t)
        /\ tee' = [tee EXCEPT ![t].course = req[r].course, ![t].version = req[r].version]
        /\ holes' = [holes EXCEPT ![t] = {req[r].version}]
  BY DEF CreateTee
<1>2. req[r].course \in CourseIds /\ req[r].version \in Version /\ req \in [Requests -> RequestType]
  BY DEF CreateTee, At, HasArguments, TypeOK, RequestType
<1>3. UNCHANGED <<course, plays, started, answers, overtaken>> /\ End(r)
  BY DEF CreateTee, history
<1>4. req' \in [Requests -> RequestType]
  BY <1>2, <1>3, IdleHasAll DEF End
<1>5. TypeOK'
  <2>1. [tee[t] EXCEPT !.course = req[r].course, !.version = req[r].version] \in TeeRow
    BY <1>2, RowSet DEF TypeOK
  <2>2. tee' \in [Tees -> TeeRow]
    BY <1>1, <2>1 DEF TypeOK
  <2>3. holes' \in [Tees -> SUBSET Version]
    BY <1>1, <1>2 DEF TypeOK
  <2>4. QED
    BY <1>3, <1>4, <2>2, <2>3 DEF TypeOK, RequestType
<1>6. /\ tee'[t].version = req[r].version /\ holes'[t] = {req[r].version}
      /\ tee'[t].course = req[r].course /\ tee'[t].deleted = tee[t].deleted
      /\ \A s \in Tees : s # t => tee'[s] = tee[s] /\ holes'[s] = holes[s]
  BY <1>1, <1>2 DEF TypeOK
<1>7. HolesMatchRow' /\ OneDeletionAnswers' /\ DeletedWereThere'
  <2>1. HolesMatchRow'
    BY <1>6 DEF TeesAreWhole, HolesMatchRow, There
  <2>2. OneDeletionAnswers' /\ DeletedWereThere'
    BY <1>1, <1>3, <1>6, ZenonT(40) DEF OneDeletionAnswers, DeletedWereThere, There
  <2>3. QED
    BY <2>1, <2>2
<1>8. \A q \in Requests \ {r} :
        /\ HasLock(q) => ~tee'[req[q].tee].deleted /\ holes'[req[q].tee] = holes[req[q].tee]
        /\ At(q, "read_tee", "read_holes") => tee'[req[q].tee].version = tee[req[q].tee].version
  BY <1>1, <1>6 DEF HasLock, At, HasArguments, HasFound, LiveTee
<1>9. \A s \in Tees : There(s) => tee'[s].course = tee[s].course
  BY <1>1, <1>6
<1>10. QED
  BY <1>3, <1>5, <1>7, <1>8, <1>9, TablesGrow

(* The holes that were deleted are all the row had; who is between its two reads is
   overtaken. *)
LEMMA ReplaceTeeKeeps ==
  ASSUME IInv, NEW r \in Requests, ReplaceTee(r)
  PROVE  IInv'
<1> USE DEF IInv
<1>1. DEFINE t == req[r].tee
<1>2. /\ t \in Tees /\ req[r].version \in Version /\ req \in [Requests -> RequestType]
      /\ req[r].holes = holes[t] /\ HasLock(r)
  BY DEF ReplaceTee, At, HasArguments, HasFound, HasLock, TypeOK, RequestType
<1>3. /\ tee' = [tee EXCEPT ![t].version = req[r].version]
      /\ holes' = [holes EXCEPT ![t] = (holes[t] \ req[r].holes) \cup {req[r].version}]
      /\ overtaken' = overtaken \cup
           {q \in Requests : At(q, "read_tee", "read_holes") /\ req[q].tee = t}
      /\ UNCHANGED <<course, plays, started, answers>> /\ End(r)
  BY DEF ReplaceTee
<1>4. req' \in [Requests -> RequestType]
  BY <1>2, <1>3, IdleHasAll DEF End
<1>5. TypeOK'
  <2> HIDE DEF t
  <2>1. [tee[t] EXCEPT !.version = req[r].version] \in TeeRow
    BY <1>2, ZenonT(40) DEF TypeOK, TeeRow
  <2>2. tee' \in [Tees -> TeeRow]
    BY <1>2, <1>3, <2>1 DEF TypeOK
  <2>3. holes' \in [Tees -> SUBSET Version]
    BY <1>2, <1>3 DEF TypeOK
  <2>4. overtaken' \subseteq Requests
    BY <1>3 DEF TypeOK
  <2>5. QED
    BY <1>3, <1>4, <2>2, <2>3, <2>4 DEF TypeOK, RequestType
<1>6. /\ tee'[t].version = req[r].version /\ holes'[t] = {req[r].version}
      /\ \A s \in Tees : /\ s # t => tee'[s] = tee[s] /\ holes'[s] = holes[s]
                         /\ tee'[s].course = tee[s].course /\ tee'[s].deleted = tee[s].deleted
  BY <1>2, <1>3 DEF TypeOK
<1>7. \A q \in Requests \ {r} : HasLock(q) => req[q].tee # t
  BY <1>2 DEF OneLockHolder
<1> HIDE DEF t
<1>8. HolesMatchRow' /\ OneDeletionAnswers' /\ DeletedWereThere'
  BY <1>3, <1>6 DEF TeesAreWhole, HolesMatchRow, OneDeletionAnswers, DeletedWereThere, There
<1>9. \A q \in Requests \ {r} :
        /\ HasLock(q) => ~tee'[req[q].tee].deleted /\ holes'[req[q].tee] = holes[req[q].tee]
        /\ At(q, "read_tee", "read_holes") =>
             q \in overtaken' \/ tee'[req[q].tee].version = tee[req[q].tee].version
  BY <1>3, <1>6, <1>7 DEF HasLock, At, HasArguments, HasFound, LiveTee
<1>10. QED
  BY <1>3, <1>5, <1>6, <1>8, <1>9, TablesGrow

LEMMA DeleteCourseKeeps ==
  ASSUME IInv, NEW r \in Requests, DeleteCourse(r)
  PROVE  IInv'
<1> USE DEF IInv
<1>1. DEFINE c == req[r].course
<1>2. c \in CourseIds /\ course[c].there /\ req \in [Requests -> RequestType]
  BY DEF DeleteCourse, At, HasArguments, TypeOK, RequestType
<1>3. /\ course' = [course EXCEPT ![c].deleted = TRUE]
      /\ answers' = [answers EXCEPT ![c] = answers[c] + (IF course[c].deleted THEN 0 ELSE 1)]
      /\ UNCHANGED <<tee, holes, plays, started, overtaken>> /\ End(r)
  BY DEF DeleteCourse
<1>4. req' \in [Requests -> RequestType]
  BY <1>2, <1>3, IdleHasAll DEF End
<1>5. answers' \in [CourseIds \cup Tees -> Nat]
  BY <1>2, <1>3 DEF TypeOK
<1>6. TypeOK'
  <2> HIDE DEF c
  <2>1. [course[c] EXCEPT !.deleted = TRUE] \in CourseRow
    BY <1>2, ZenonT(40) DEF TypeOK, CourseRow
  <2>2. course' \in [CourseIds -> CourseRow]
    BY <1>2, <1>3, <2>1 DEF TypeOK
  <2>3. QED
    BY <1>3, <1>4, <1>5, <2>2 DEF TypeOK, RequestType
<1>7. /\ course'[c].deleted
      /\ \A d \in CourseIds : /\ d # c => course'[d] = course[d]
                              /\ course'[d].there = course[d].there
  BY <1>2, <1>3 DEF TypeOK
<1>8. OneDeletionAnswers'
  <2>1. answers'[c] = 1 /\ \A x \in CourseIds \cup Tees : x # c => answers'[x] = answers[x]
    BY <1>2, <1>3 DEF TypeOK, OneDeletionAnswers
  <2>2. c \in Tees => FALSE
    BY <1>2, DisjointAssumption
  <2>3. QED
    BY <1>3, <1>7, <2>1, <2>2 DEF OneDeletionAnswers
<1>9. HolesMatchRow' /\ DeletedWereThere'
  BY <1>2, <1>3, <1>7 DEF TeesAreWhole, HolesMatchRow, DeletedWereThere, There
<1>10. \A q \in Requests \ {r} : HasLock(q) => ~tee'[req[q].tee].deleted
  BY <1>3 DEF HasLock, HasArguments, HasFound, LiveTee
<1> HIDE DEF c
<1>11. QED
  BY <1>3, <1>6, <1>7, <1>8, <1>9, <1>10, TablesGrow

(* A tee is deleted while nobody holds its lock. *)
LEMMA DeleteTeeKeeps ==
  ASSUME IInv, NEW r \in Requests, DeleteTee(r)
  PROVE  IInv'
<1> USE DEF IInv
<1>1. DEFINE t == req[r].tee
<1>2. t \in Tees /\ There(t) /\ req \in [Requests -> RequestType] /\ ~Locked(t)
  BY DEF DeleteTee, At, HasArguments, TypeOK, RequestType
<1>3. /\ tee' = [tee EXCEPT ![t].deleted = TRUE]
      /\ answers' = [answers EXCEPT ![t] = answers[t] + (IF tee[t].deleted THEN 0 ELSE 1)]
      /\ UNCHANGED <<course, holes, plays, started, overtaken>> /\ End(r)
  BY DEF DeleteTee
<1>4. req' \in [Requests -> RequestType]
  BY <1>2, <1>3, IdleHasAll DEF End
<1>5. answers' \in [CourseIds \cup Tees -> Nat]
  BY <1>2, <1>3 DEF TypeOK
<1>6. TypeOK'
  <2> HIDE DEF t
  <2>1. [tee[t] EXCEPT !.deleted = TRUE] \in TeeRow
    <3>1. tee[t] \in TeeRow
      BY <1>2 DEF TypeOK
    <3>2. QED
      BY <3>1 DEF TeeRow
  <2>2. tee' \in [Tees -> TeeRow]
    BY <1>2, <1>3, <2>1 DEF TypeOK
  <2>3. QED
    BY <1>3, <1>4, <1>5, <2>2 DEF TypeOK, RequestType
<1>7. /\ tee'[t].deleted
      /\ \A s \in Tees : /\ s # t => tee'[s] = tee[s]
                         /\ tee'[s].course = tee[s].course /\ tee'[s].version = tee[s].version
  BY <1>2, <1>3 DEF TypeOK
<1>8. OneDeletionAnswers'
  <2>1. answers'[t] = 1 /\ \A x \in CourseIds \cup Tees : x # t => answers'[x] = answers[x]
    BY <1>2, <1>3 DEF TypeOK, OneDeletionAnswers
  <2>2. t \in CourseIds => FALSE
    BY <1>2, DisjointAssumption
  <2>3. QED
    BY <1>3, <1>7, <2>1, <2>2 DEF OneDeletionAnswers
<1>9. HolesMatchRow' /\ DeletedWereThere'
  BY <1>2, <1>3, <1>7 DEF TeesAreWhole, HolesMatchRow, DeletedWereThere, There
<1>10. \A q \in Requests \ {r} :
         /\ HasLock(q) => ~tee'[req[q].tee].deleted
         /\ At(q, "read_tee", "read_holes") => tee'[req[q].tee].version = tee[req[q].tee].version
  BY <1>2, <1>7 DEF HasLock, At, HasArguments, HasFound, LiveTee, Locked
<1> HIDE DEF t
<1>11. QED
  BY <1>3, <1>6, <1>7, <1>8, <1>9, <1>10, TablesGrow

(* A round is created on a row that is there; the deletions under way began before. *)
LEMMA CreateRoundKeeps ==
  ASSUME IInv, NEW n \in Rounds, NEW t \in Tees, CreateRound(n, t)
  PROVE  IInv'
<1> USE DEF IInv
<1>1. /\ plays' = [plays EXCEPT ![n] = t] /\ plays[n] = None /\ There(t)
      /\ UNCHANGED <<course, tee, holes, req, started, answers, overtaken>>
  BY DEF CreateRound, history
<1>2. plays'[n] = t /\ \A m \in Rounds : m # n => plays'[m] = plays[m]
  BY <1>1 DEF TypeOK
<1>3. TypeOK'
  BY <1>1 DEF TypeOK
<1>4. \A q \in Requests : n \notin req[q].before /\ req[q].before \subseteq Rounds
  BY <1>1, NoneAssumption DEF HasArguments, TypeOK
<1>5. ASSUME NEW q \in Requests
      PROVE  (HasArguments(req[q]) /\ HasFound(req[q]) /\ SawEarlierRounds(req[q]))'
  <2>1. \A m \in req[q].before : plays'[m] = plays[m]
    BY <1>2, <1>4
  <2>2. HasArguments(req[q]) /\ HasFound(req[q]) /\ SawEarlierRounds(req[q])
    BY SawIt
  <2>3. HasArguments(req[q])' /\ HasFound(req[q])'
    BY <1>1, <2>1, <2>2 DEF HasArguments, HasFound, There, LiveTee
  <2>4. SawEarlierRounds(req[q])'
    BY <1>1, <2>1, <2>2 DEF SawEarlierRounds
  <2>5. QED
    BY <2>3, <2>4
<1>6. RoundsHaveTees'
  BY <1>1, <1>2 DEF RoundsHaveTees, There
<1>7. /\ OneLockHolder' /\ TeesAreWhole' /\ OneDeletionAnswers' /\ DeletedWereThere'
      /\ \A q \in Requests : RowIsCurrent(q)'
  BY <1>1 DEF OneLockHolder, HasLock, At, TeesAreWhole, HolesMatchRow, ReadsAreWhole,
       RowIsCurrent, OneDeletionAnswers, DeletedWereThere, There
<1>8. DeletionsSawEarlierRounds'
  BY <1>5 DEF DeletionsSawEarlierRounds, SawEarlierRounds
<1>9. QED
  BY <1>3, <1>5, <1>6, <1>7, <1>8

-----------------------------------------------------------------------------
(* The theorems *)

LEMMA InitHolds == Init => IInv
<1>1. 0 \in Version
  BY MaxAssumption DEF Version
<1>2. QED
  BY <1>1, NoneAssumption
     DEF Init, IInv, TypeOK, CourseRow, TeeRow, NoCourse, NoTee, Idle, HasArguments, HasFound, RoundsHaveTees,
         DeletedWereThere, OneLockHolder, HasLock, At, TeesAreWhole, HolesMatchRow, ReadsAreWhole,
         RowIsCurrent, DeletionsSawEarlierRounds, OneDeletionAnswers, Deletes, There

(* The inductive invariant: what a deletion or a replacement has found, between its
   statements, is still so when it writes. *)
THEOREM Invariance == Spec => []IInv
<1>1. IInv /\ [Next]_vars => IInv'
  <2> SUFFICES ASSUME IInv, [Next]_vars PROVE IInv'
    OBVIOUS
  <2>1. CASE UNCHANGED vars
    BY <2>1 DEF vars, history, IInv, TypeOK, HasArguments, HasFound, RoundsHaveTees,
         DeletedWereThere, OneLockHolder, HasLock, At, TeesAreWhole, HolesMatchRow, ReadsAreWhole,
         RowIsCurrent, DeletionsSawEarlierRounds, OneDeletionAnswers, There, LiveTee
  <2>2. ASSUME NEW r \in Requests, Step(r) PROVE IInv'
    <3>1. CASE Fails(r) \/ AnswerTee(r)
      BY <3>1, Ended DEF Fails, AnswerTee, history
    <3>2. CASE ReadTees(r)
      <4>1. course[req[r].course].there
        BY <3>2 DEF ReadTees, At, IInv, HasArguments
      <4>2. QED
        BY <3>2, <4>1, ReadTeesKeeps
    <3>3. QED
      BY <2>2, <3>1, <3>2, CreateCourseKeeps, UpdateCourseKeeps, FindCourseKeeps, CreateTeeKeeps,
         LockTeeKeeps, DeleteHolesKeeps, ReplaceTeeKeeps, ReadRowKeeps, ReadHolesKeeps, FindTeeKeeps, CheckRoundsKeeps, DeleteCourseKeeps,
         DeleteTeeKeeps DEF Step
  <2>3. QED
    BY <2>1, <2>2, ArriveKeeps, CreateRoundKeeps DEF Next
<1>2. QED
  BY InitHolds, <1>1, PTL DEF Spec

(* Type correctness. *)
THEOREM TypeCorrect == Spec => []TypeOK
BY Invariance, PTL DEF IInv

(* The holes of a tee configuration are those of the request its row is of, however two
   replacements interleave, and a reader has both of one request unless a replacement
   overtook it. *)
THEOREM WholeTees == Spec => []TeesAreWhole
BY Invariance, PTL DEF IInv

(* No round that was there when a deletion was asked for is on the row it deletes. *)
THEOREM EarlierRoundsSeen == Spec => []DeletionsSawEarlierRounds
BY Invariance, PTL DEF IInv

(* One deletion answers that it deleted the row. *)
THEOREM OneAnswers == Spec => []OneDeletionAnswers
BY Invariance, PTL DEF IInv

(* A step leaves the deleted rows alone, or the lock or the id it needs is not free. *)
LEMMA StepFreezes ==
  ASSUME IInv, Next
  PROVE  /\ \A t \in Tees : tee[t].deleted => tee'[t] = tee[t] /\ holes'[t] = holes[t]
         /\ \A c \in CourseIds : course[c].deleted => course'[c] = course[c]
<1> USE DEF IInv
<1>1. CASE \E n \in Rounds, t \in Tees : CreateRound(n, t)
  BY <1>1 DEF CreateRound
<1>2. ASSUME NEW r \in Requests, Arrive(r)
      PROVE  UNCHANGED <<course, tee, holes>>
  BY <1>2 DEF Arrive, Begin
<1>3. ASSUME NEW r \in Requests, CreateCourse(r)
      PROVE  /\ \A t \in Tees : tee[t].deleted => tee'[t] = tee[t] /\ holes'[t] = holes[t]
             /\ \A c \in CourseIds : course[c].deleted => course'[c] = course[c]
  BY <1>3 DEF CreateCourse, DeletedWereThere, TypeOK
<1>4. ASSUME NEW r \in Requests, UpdateCourse(r)
      PROVE  /\ UNCHANGED <<tee, holes>>
             /\ \A c \in CourseIds : course[c].deleted => course'[c] = course[c]
  <2>1. req[r].course \in CourseIds
    BY <1>4 DEF UpdateCourse, At, HasArguments
  <2>2. QED
    BY <1>4, <2>1 DEF UpdateCourse, Live, TypeOK
<1>5. ASSUME NEW r \in Requests, CreateTee(r)
      PROVE  /\ UNCHANGED course
             /\ \A t \in Tees : tee[t].deleted => tee'[t] = tee[t] /\ holes'[t] = holes[t]
  BY <1>5 DEF CreateTee, DeletedWereThere, TypeOK
<1>6. ASSUME NEW r \in Requests, ReplaceTee(r)
      PROVE  /\ UNCHANGED course
             /\ \A t \in Tees : tee[t].deleted => tee'[t] = tee[t] /\ holes'[t] = holes[t]
  <2>1. req[r].tee \in Tees /\ LiveTee(req[r].tee)
    BY <1>6 DEF ReplaceTee, At, HasArguments, HasFound
  <2>2. QED
    BY <1>6, <2>1 DEF ReplaceTee, LiveTee, TypeOK
<1>7. ASSUME NEW r \in Requests, DeleteCourse(r)
      PROVE  /\ UNCHANGED <<tee, holes>>
             /\ \A c \in CourseIds : course[c].deleted => course'[c] = course[c]
  <2>1. req[r].course \in CourseIds
    BY <1>7 DEF DeleteCourse, At, HasArguments
  <2>2. course' = [course EXCEPT ![req[r].course].deleted = TRUE]
    BY <1>7 DEF DeleteCourse
  <2>3. ASSUME NEW c \in CourseIds, course[c].deleted
        PROVE  course'[c] = course[c]
    BY <2>1, <2>2, <2>3 DEF TypeOK, CourseRow, TeeRow
  <2>4. QED
    BY <1>7, <2>3 DEF DeleteCourse
<1>8. ASSUME NEW r \in Requests, DeleteTee(r)
      PROVE  /\ UNCHANGED <<course, holes>>
             /\ \A t \in Tees : tee[t].deleted => tee'[t] = tee[t]
  <2>1. req[r].tee \in Tees
    BY <1>8 DEF DeleteTee, At, HasArguments
  <2>2. tee' = [tee EXCEPT ![req[r].tee].deleted = TRUE]
    BY <1>8 DEF DeleteTee
  <2>3. ASSUME NEW t \in Tees, tee[t].deleted
        PROVE  tee'[t] = tee[t]
    BY <2>1, <2>2, <2>3 DEF TypeOK, CourseRow, TeeRow
  <2>4. QED
    BY <1>8, <2>3 DEF DeleteTee
<1>9. ASSUME NEW r \in Requests,
             \/ FindCourse(r) \/ LockTee(r) \/ DeleteHoles(r) \/ ReadRow(r) \/ ReadHoles(r)
             \/ AnswerTee(r) \/ FindTee(r) \/ ReadTees(r) \/ CheckRounds(r) \/ Fails(r)
      PROVE  UNCHANGED <<course, tee, holes>>
  BY <1>9 DEF FindCourse, LockTee, DeleteHoles, ReadRow, ReadHoles, AnswerTee, FindTee, ReadTees,
       CheckRounds, Fails
<1>10. QED
  BY <1>1, <1>2, <1>3, <1>4, <1>5, <1>6, <1>7, <1>8, <1>9 DEF Next, Step

(* What is deleted is never changed again, whatever waited for the deletion. *)
THEOREM DeletedFrozen == Spec => DeletedRowsAreFrozen
<1>1. IInv /\ [Next]_vars =>
        [ /\ \A t \in Tees : tee[t].deleted => tee'[t] = tee[t] /\ holes'[t] = holes[t]
          /\ \A c \in CourseIds : course[c].deleted => course'[c] = course[c] ]_vars
  BY StepFreezes DEF vars
<1>2. QED
  BY <1>1, Invariance, PTL DEF Spec, DeletedRowsAreFrozen

-----------------------------------------------------------------------------
(* The score entry page: EntryInv is kept.  Each step either leaves whoever *)
(* will show the round as the server has it, or appoints another.           *)

LEMMA CardOfData ==
  ASSUME NEW v, NEW d \in Round \cup {NoData}, NEW bad, EntryTypeOK
  PROVE  /\ CardAfter(v, d, bad) \in [there : BOOLEAN, field : Scores \cup {Blank}, slot : Slots \cup {NoSlot}]
         /\ CardAfter(v, d, bad).there => v = "manual" /\ d # NoData
<1>1. NoCard \in [there : BOOLEAN, field : Scores \cup {Blank}, slot : Slots \cup {NoSlot}] /\ ~ NoCard.there
  BY DEF NoCard
<1>2. d \in Round =>
        Mounted(d) \in [there : BOOLEAN, field : Scores \cup {Blank}, slot : Slots \cup {NoSlot}]
  BY DEF Mounted, Round
<1>3. CASE v # "manual" \/ bad \/ d = NoData
  BY <1>1, <1>3 DEF CardAfter
<1>4. CASE ~(v # "manual" \/ bad \/ d = NoData)
  BY <1>1, <1>2, <1>4 DEF CardAfter, EntryTypeOK
<1>5. QED
  BY <1>3, <1>4

LEMMA FormOfData ==
  ASSUME NEW v, NEW d, NEW bad, EntryTypeOK
  PROVE  FormAfter(v, d, bad) \in Slots \cup {NoSlot}
BY DEF FormAfter, EntryTypeOK

LEMMA EntryInitInv == EntryInit => EntryInv
<1> SUFFICES ASSUME EntryInit PROVE EntryInv
  OBVIOUS
<1> USE DEF EntryInit
<1>1. EntryTypeOK
  BY DEF EntryTypeOK, Round, NoCard, Save
<1>2. DataIsThere
  BY DEF DataIsThere, NoCard
<1>3. QED
  BY <1>1, <1>2 DEF EntryInv

(* Steps of the page and of the query. *)
LEMMA ViewSteps ==
  ASSUME EntryInv, OpenPage \/ LeavePage \/ FocusWindow \/ DropQuery \/ SwitchMode \/ (\E v \in Scores \cup {Blank} : Type(v))
  PROVE  EntryInv'
<1> USE DEF EntryInv
<1>0. UNCHANGED <<stored, saves, sent>>
  BY DEF OpenPage, LeavePage, FocusWindow, DropQuery, SwitchMode, Type
<1>1. CASE OpenPage
  <2>1. EntryTypeOK'
    BY <1>0, <1>1, CardOfData DEF OpenPage, EntryTypeOK
  <2>2. DataIsThere'
    BY <1>0, <1>1, CardOfData DEF OpenPage, DataIsThere, EntryTypeOK
  <2>3. ~ doubt' => WillBeShown'
    BY <1>0, <1>1 DEF OpenPage, WillBeShown
  <2>4. QED
    BY <2>1, <2>2, <2>3
<1>2. CASE LeavePage
  <2>1. EntryTypeOK' /\ DataIsThere'
    BY <1>0, <1>2 DEF LeavePage, EntryTypeOK, DataIsThere, NoCard
  <2>2. QED
    BY <2>1, <1>2 DEF LeavePage
<1>3. CASE FocusWindow
  <2>1. EntryTypeOK' /\ DataIsThere'
    BY <1>0, <1>3 DEF FocusWindow, EntryTypeOK, DataIsThere
  <2>2. QED
    BY <2>1, <1>3 DEF FocusWindow, WillBeShown
<1>4. CASE DropQuery
  <2>1. EntryTypeOK'
    BY <1>0, <1>4 DEF DropQuery, EntryTypeOK
  <2>2. ~ card.there
    BY <1>4 DEF DropQuery, DataIsThere
  <2>3. QED
    BY <1>0, <1>4, <2>1, <2>2 DEF DropQuery, DataIsThere
<1>5. CASE SwitchMode
  <2>1. EntryTypeOK'
    BY <1>0, <1>5, CardOfData DEF SwitchMode, EntryTypeOK
  <2>2. DataIsThere'
    BY <1>0, <1>5, CardOfData DEF SwitchMode, DataIsThere, EntryTypeOK
  <2>3. QED
    BY <1>0, <1>5, <2>1, <2>2 DEF SwitchMode, WillBeShown
<1>6. CASE \E v \in Scores \cup {Blank} : Type(v)
  <2>1. EntryTypeOK' /\ DataIsThere'
    BY <1>0, <1>6 DEF Type, EntryTypeOK, DataIsThere
  <2>2. QED
    BY <1>0, <1>6, <2>1 DEF Type, WillBeShown
<1>7. QED
  BY <1>1, <1>2, <1>3, <1>4, <1>5, <1>6

LEMMA QuerySteps ==
  ASSUME EntryInv, ServeFetch \/ FetchAnswers \/ FetchFails
  PROVE  EntryInv'
<1> USE DEF EntryInv
<1>0. UNCHANGED <<stored, view, saves, sent, doubt>>
  BY DEF ServeFetch, FetchAnswers, FetchFails
<1>1. CASE ServeFetch
  <2>1. EntryTypeOK' /\ DataIsThere'
    BY <1>0, <1>1 DEF ServeFetch, EntryTypeOK, DataIsThere
  <2>2. WillBeShown'
    BY <1>1 DEF ServeFetch, WillBeShown
  <2>3. QED
    BY <2>1, <2>2
<1>2. CASE FetchAnswers
  <2>1. fetch.round \in Round /\ fetch.round # NoData
    BY <1>2, NoDataAssumption DEF FetchAnswers, EntryTypeOK, NoFetch, Sent, Round
  <2>2. EntryTypeOK'
    BY <1>0, <1>2, <2>1, CardOfData, FormOfData DEF FetchAnswers, EntryTypeOK
  <2>3. DataIsThere'
    BY <1>0, <1>2, <2>1, CardOfData DEF FetchAnswers, DataIsThere
  <2>4. WillBeShown => WillBeShown'
    BY <1>0, <1>2, <2>1 DEF FetchAnswers, WillBeShown, Sent, NoFetch
  <2>5. QED
    BY <1>0, <2>2, <2>3, <2>4
<1>3. CASE FetchFails
  <2>1. EntryTypeOK'
    BY <1>0, <1>3, CardOfData, FormOfData DEF FetchFails, EntryTypeOK
  <2>2. DataIsThere'
    BY <1>0, <1>3, CardOfData DEF FetchFails, DataIsThere, EntryTypeOK
  <2>3. WillBeShown'
    BY <1>3 DEF FetchFails, WillBeShown
  <2>4. QED
    BY <2>1, <2>2, <2>3
<1>4. QED
  BY <1>1, <1>2, <1>3

(* Sending and serving saves. *)
LEMMA ServerSteps ==
  ASSUME EntryInv, NEW s \in Slots, SaveHole(s) \/ (\E v \in Scores : Import(s, v)) \/ ServeSave(s)
  PROVE  EntryInv'
<1> USE DEF EntryInv
<1>0. UNCHANGED <<cached, failed, fetch, view, doubt>>
  BY DEF SaveHole, Import, ServeSave
<1>1. CASE SaveHole(s) \/ \E v \in Scores : Import(s, v)
  <2>1. stored' = stored /\ saves[s] = NoSave /\ cached # NoData /\ sent' = sent + 1
    BY <1>1 DEF SaveHole, Import, Send, FormShown, DataIsThere
  <2>2. PICK save \in Save : saves' = [saves EXCEPT ![s] = save]
    BY <1>1 DEF SaveHole, Import, Send, Save, EntryTypeOK
  <2>3. EntryTypeOK' /\ DataIsThere'
    <3>1. /\ card' \in [there : BOOLEAN, field : Scores \cup {Blank}, slot : Slots \cup {NoSlot}]
          /\ card'.there = card.there /\ form' \in Slots \cup {NoSlot}
      BY <1>1 DEF SaveHole, Import, EntryTypeOK
    <3>2. saves' \in [Slots -> Save \cup {NoSave}] /\ sent' \in Nat
      BY <2>1, <2>2 DEF EntryTypeOK
    <3>3. EntryTypeOK'
      BY <1>0, <2>1, <3>1, <3>2 DEF EntryTypeOK
    <3>4. DataIsThere'
      BY <1>0, <2>1, <3>1 DEF DataIsThere
    <3>5. QED
      BY <3>3, <3>4
  <2>4. \A r \in Slots : saves[r].state = "saved" => saves'[r].state = "saved"
    BY <2>1, <2>2 DEF EntryTypeOK, NoSave
  <2>5. WillBeShown => WillBeShown'
    BY <1>0, <2>1, <2>4 DEF WillBeShown
  <2>6. QED
    BY <1>0, <2>3, <2>5
<1>2. CASE ServeSave(s)
  <2>1. /\ card' = card /\ form' = form /\ sent' = sent /\ saves[s] \in Save /\ saves[s].state = "sent"
        /\ \/ stored' = [stored EXCEPT !.score = saves[s].score] /\ saves' = [saves EXCEPT ![s].state = "saved"]
           \/ stored' = stored /\ saves' = [saves EXCEPT ![s].state = "refused"]
    BY <1>2 DEF ServeSave, EntryTypeOK, NoSave
  <2>2. EntryTypeOK'
    <3>1. stored' \in Round
      BY <2>1 DEF EntryTypeOK, Round, Save
    <3>2. saves' \in [Slots -> Save \cup {NoSave}]
      BY <2>1 DEF EntryTypeOK, Save
    <3>3. QED
      BY <1>0, <2>1, <3>1, <3>2 DEF EntryTypeOK
  <2>3. DataIsThere'
    <3>1. cached # NoData
      BY <2>1 DEF DataIsThere, Save, NoSave
    <3>2. QED
      BY <1>0, <2>1, <3>1 DEF DataIsThere
  <2>4. CASE saves' = [saves EXCEPT ![s].state = "saved"]
    <3>1. saves'[s].state = "saved"
      BY <2>1, <2>4 DEF EntryTypeOK, Save
    <3>2. QED
      BY <2>2, <2>3, <3>1 DEF WillBeShown
  <2>5. CASE stored' = stored /\ saves' = [saves EXCEPT ![s].state = "refused"]
    <3>1. \A r \in Slots : saves[r].state = "saved" => saves'[r].state = "saved"
      BY <2>1, <2>5 DEF EntryTypeOK
    <3>2. WillBeShown => WillBeShown'
      BY <1>0, <2>5, <3>1 DEF WillBeShown
    <3>3. QED
      BY <1>0, <2>2, <2>3, <3>2
  <2>6. QED
    BY <2>1, <2>4, <2>5
<1>3. QED
  BY <1>1, <1>2

LEMMA ApproveStep == ASSUME EntryInv, Approve PROVE EntryInv'
<1>1. /\ UNCHANGED <<cached, failed, fetch, view, doubt, card, form, saves, sent>>
      /\ stored' \in Round /\ stored'.score = stored.score
  BY DEF Approve, EntryInv, EntryTypeOK, Round
<1>2. EntryTypeOK' /\ DataIsThere'
  BY <1>1 DEF EntryInv, EntryTypeOK, DataIsThere
<1>3. WillBeShown => WillBeShown'
  BY <1>1 DEF WillBeShown
<1>4. QED
  BY <1>1, <1>2, <1>3 DEF EntryInv

(* The end of a save: an invalidation appoints a fetch, as the query has data. *)
LEMMA AnswerSteps ==
  ASSUME EntryInv, NEW s \in Slots, CardAnswered(s) \/ CardFails(s) \/ ImportEnds(s)
  PROVE  EntryInv'
<1> USE DEF EntryInv
<1>1. /\ UNCHANGED <<stored, cached, failed, view, sent>>
      /\ saves' = [saves EXCEPT ![s] = NoSave] /\ saves[s] # NoSave
      /\ card'.there = card.there
      /\ card' \in [there : BOOLEAN, field : Scores \cup {Blank}, slot : Slots \cup {NoSlot}]
      /\ form' \in Slots \cup {NoSlot}
  <2>1. saves[s].by \in {"card", "csv"}
    BY DEF CardAnswered, CardFails, ImportEnds
  <2>2. saves[s] \in Save /\ saves[s] # NoSave
    BY <2>1 DEF NoSave, EntryTypeOK
  <2>3. CASE CardAnswered(s)
    BY <2>2, <2>3 DEF CardAnswered, EntryTypeOK, Save
  <2>4. CASE CardFails(s)
    BY <2>2, <2>4 DEF CardFails, EntryTypeOK
  <2>5. CASE ImportEnds(s)
    BY <2>2, <2>5 DEF ImportEnds, EntryTypeOK
  <2>6. QED
    BY <2>3, <2>4, <2>5
<1>2. cached # NoData
  BY <1>1 DEF DataIsThere
<1>3. CASE Invalidate
  <2>1. /\ fetch' = fetch \/ fetch' = Sent
        /\ view # "away" => fetch' = Sent
        /\ doubt' \in BOOLEAN
    BY <1>2, <1>3 DEF Invalidate, EntryTypeOK
  <2>2. EntryTypeOK'
    BY <1>1, <2>1 DEF EntryTypeOK
  <2>3. DataIsThere'
    BY <1>1, <1>2 DEF DataIsThere
  <2>4. QED
    BY <1>1, <2>1, <2>2, <2>3 DEF WillBeShown
<1>4. CASE CardFails(s)
  <2>1. fetch' = fetch /\ doubt' = (doubt \/ saves[s].state = "saved")
    BY <1>4 DEF CardFails
  <2>2. EntryTypeOK'
    BY <1>1, <2>1 DEF EntryTypeOK
  <2>3. DataIsThere'
    BY <1>1, <1>2 DEF DataIsThere
  <2>4. ~ doubt' => \A r \in Slots : saves[r].state = "saved" => saves'[r].state = "saved"
    BY <1>1, <2>1 DEF EntryTypeOK
  <2>5. ~ doubt' /\ WillBeShown => WillBeShown'
    BY <1>1, <2>1, <2>4 DEF WillBeShown
  <2>6. QED
    BY <1>1, <2>1, <2>2, <2>3, <2>5
<1>5. QED
  BY <1>3, <1>4 DEF CardAnswered, ImportEnds

(* The invariant of the score entry page holds in every state. *)
THEOREM EntryInvariant == EntrySpec => []EntryInv
<1>1. EntryInv /\ [EntryNext]_entryVars => EntryInv'
  <2> SUFFICES ASSUME EntryInv, [EntryNext]_entryVars PROVE EntryInv'
    OBVIOUS
  <2>1. CASE UNCHANGED entryVars
    BY <2>1 DEF entryVars, EntryInv, EntryTypeOK, DataIsThere, WillBeShown
  <2>2. QED
    BY <2>1, ViewSteps, QuerySteps, ServerSteps, ApproveStep, AnswerSteps DEF EntryNext
<1>2. QED
  BY <1>1, EntryInitInv, PTL DEF EntrySpec

(* When all is answered the page shows the score the server has, whatever was saved,
   imported and fetched in whatever order, for any number of saves at once. *)
THEOREM OwnSavesShown == EntrySpec => []OwnSavesAreShown
<1>1. EntryInv => OwnSavesAreShown
  BY DEF EntryInv, OwnSavesAreShown, AtRest, WillBeShown, NoFetch, Sent, NoSave
<1>2. QED
  BY <1>1, EntryInvariant, PTL

-----------------------------------------------------------------------------

(* What must be right about a page of the table: what it reads and does is granted to
   whom it is shown, and an answer that a write of the page changes is refreshed or
   dropped by it. *)
Refreshes(q, w) == (\E start \in w.then.stale : IsPrefix(start, q.key)) \/ q \in w.then.drop

Fits(p, u) ==
  u \in p.show =>
    /\ \A q \in p.reads : Granted(u, q.for)
    /\ \A w \in p.does : Granted(u, w.op.for)
    /\ \A q \in p.reads \ p.aside, w \in p.does :
         w.op.changes \cap q.tells # {} => Refreshes(q, w)

WellFormed(p) ==
  \A w \in p.does : w.op.for \in SUBSET Users /\ w.then.to \in PageNames \cup {Here}

(* The keys that the pages invalidate are starts of those they mean. *)
LEMMA KeysStart ==
  /\ IsPrefix(<<"rounds", "r">>, <<"rounds", "r">>)
  /\ IsPrefix(<<"players", "p", "rounds">>, <<"players", "p", "rounds">>)
  /\ IsPrefix(<<"admin", "rounds">>, <<"admin", "rounds">>)
  /\ IsPrefix(<<"admin", "rounds">>, <<"admin", "rounds", "day">>)
  /\ IsPrefix(<<"admin", "pcc", "t">>, <<"admin", "pcc", "t">>)
  /\ IsPrefix(<<"admin", "users">>, <<"admin", "users">>)
  /\ IsPrefix(<<"admin", "settings">>, <<"admin", "settings">>)
  /\ IsPrefix(<<"courses", "c">>, <<"courses", "c">>)
BY SMT DEF IsPrefix

LEMMA NamedPages ==
  PageNames = {"login", "register", "activate", "forgotPassword", "resetPassword", "home",
               "profile", "courses", "course", "rounds", "newRound", "roundEntry", "roundDetails",
               "accounts", "createUser", "createCourse", "pendingQueue", "roundsList", "review",
               "pcc", "settings", "audit"}
BY SMT DEF PageNames, AppRoutes, Users

(* Page by page. *)
LEMMA RoundPagesFit ==
  ASSUME NEW u \in Users
  PROVE  /\ Fits(MyRoundsPage, u) /\ WellFormed(MyRoundsPage)
         /\ Fits(NewRoundPage(u), u) /\ WellFormed(NewRoundPage(u))
         /\ Fits(RoundEntryPage, u) /\ WellFormed(RoundEntryPage)
         /\ Fits(RoundDetailsPage, u) /\ WellFormed(RoundDetailsPage)
         /\ Fits(AdminRoundReviewPage, u) /\ WellFormed(AdminRoundReviewPage)
         /\ Fits(AdminRoundsListPage, u) /\ WellFormed(AdminRoundsListPage)
         /\ Fits(AdminPendingQueuePage, u) /\ WellFormed(AdminPendingQueuePage)
         /\ Fits(DailyPccPage, u) /\ WellFormed(DailyPccPage)
<1> USE KeysStart, NamedPages DEF Fits, WellFormed, Granted, Refreshes, Page, Answers, Writes, Does,
       Refresh, Then, Here, Users, SignedIn, Admins, SuperAdmins
<1>1. Fits(MyRoundsPage, u) /\ WellFormed(MyRoundsPage)
  BY SMT DEF MyRoundsPage, OwnProfile, PlayerRounds, RoundQuery, DeleteRound
<1>2. Fits(NewRoundPage(u), u) /\ WellFormed(NewRoundPage(u))
  BY SMT DEF NewRoundPage, CourseList, CourseQuery, PlayerList, OwnProfile, PostRound
<1>3. Fits(RoundEntryPage, u) /\ WellFormed(RoundEntryPage)
  BY SMT DEF RoundEntryPage, RoundQuery, TeeQuery, SubmitRound, AddHoleScore, PlayedAt
<1>4. Fits(RoundDetailsPage, u) /\ WellFormed(RoundDetailsPage)
  BY SMT DEF RoundDetailsPage, RoundQuery, TeeQuery, PlayerRounds, PlayedAt, Remarks
<1>5. Fits(AdminRoundReviewPage, u) /\ WellFormed(AdminRoundReviewPage)
  BY SMT DEF AdminRoundReviewPage, RoundQuery, PlayerProfile, TeeQuery, RoundStatus, DeleteRound,
       Remarks
<1>6. Fits(AdminRoundsListPage, u) /\ WellFormed(AdminRoundsListPage)
  BY SMT DEF AdminRoundsListPage, AllRounds, RoundQuery, DeleteRound
<1>7. Fits(AdminPendingQueuePage, u) /\ WellFormed(AdminPendingQueuePage)
  BY SMT DEF AdminPendingQueuePage, PendingRounds
<1>8. Fits(DailyPccPage, u) /\ WellFormed(DailyPccPage)
  BY SMT DEF DailyPccPage, CourseList, CourseQuery, PccQuery, RoundsOfDay, SetDailyPcc
<1>9. QED
  BY ONLY <1>1, <1>2, <1>3, <1>4, <1>5, <1>6, <1>7, <1>8

LEMMA AccountPagesFit ==
  ASSUME NEW u \in Users
  PROVE  /\ Fits(LoginPage, u) /\ WellFormed(LoginPage)
         /\ Fits(RegisterPage, u) /\ WellFormed(RegisterPage)
         /\ Fits(ActivationPage, u) /\ WellFormed(ActivationPage)
         /\ Fits(ForgotPasswordPage, u) /\ WellFormed(ForgotPasswordPage)
         /\ Fits(ResetPasswordPage, u) /\ WellFormed(ResetPasswordPage)
         /\ Fits(HomeRoute(u), u) /\ WellFormed(HomeRoute(u))
         /\ Fits(ProfilePage, u) /\ WellFormed(ProfilePage)
         /\ Fits(AdminAccountsPage(u), u) /\ WellFormed(AdminAccountsPage(u))
         /\ Fits(AdminCreateUserPage(u), u) /\ WellFormed(AdminCreateUserPage(u))
         /\ Fits(AdminSettingsPage, u) /\ WellFormed(AdminSettingsPage)
         /\ Fits(AdminLoginAttemptsPage, u) /\ WellFormed(AdminLoginAttemptsPage)
<1> USE KeysStart, NamedPages DEF Fits, WellFormed, Granted, Refreshes, Page, Answers, Writes, Does,
       Refresh, Then, Here, Users, SignedIn, Admins, SuperAdmins
<1>1. Fits(LoginPage, u) /\ WellFormed(LoginPage)
  BY SMT DEF LoginPage, SelfRegistration
<1>2. Fits(RegisterPage, u) /\ WellFormed(RegisterPage)
  BY SMT DEF RegisterPage, SelfRegistration, Register
<1>3. Fits(ActivationPage, u) /\ WellFormed(ActivationPage)
  BY SMT DEF ActivationPage, ActivationQuery, MailRequest
<1>4. Fits(ForgotPasswordPage, u) /\ WellFormed(ForgotPasswordPage)
  BY SMT DEF ForgotPasswordPage, MailRequest
<1>5. Fits(ResetPasswordPage, u) /\ WellFormed(ResetPasswordPage)
  BY SMT DEF ResetPasswordPage, MailRequest
<1>6. Fits(HomeRoute(u), u) /\ WellFormed(HomeRoute(u))
  BY SMT DEF HomeRoute, PlayerDashboardPage, AdminDashboardPage, PlayerDashboard, AdminDashboard
<1>7. Fits(ProfilePage, u) /\ WellFormed(ProfilePage)
  BY SMT DEF ProfilePage, AccountQuery, ChangePassword
<1>8. Fits(AdminAccountsPage(u), u) /\ WellFormed(AdminAccountsPage(u))
  BY SMT DEF AdminAccountsPage, AccountWrites, UserList, UserWrite, RoleWrite
<1>9. Fits(AdminCreateUserPage(u), u) /\ WellFormed(AdminCreateUserPage(u))
  BY SMT DEF AdminCreateUserPage, AccountWrites, UserWrite, RoleWrite
<1>10. Fits(AdminSettingsPage, u) /\ WellFormed(AdminSettingsPage)
  BY SMT DEF AdminSettingsPage, SettingsQuery, SettingWrite
<1>11. Fits(AdminLoginAttemptsPage, u) /\ WellFormed(AdminLoginAttemptsPage)
  BY SMT DEF AdminLoginAttemptsPage, AuditQuery
<1>12. QED
  BY ONLY <1>1, <1>2, <1>3, <1>4, <1>5, <1>6, <1>7, <1>8, <1>9, <1>10, <1>11

LEMMA CoursePagesFit ==
  ASSUME NEW u \in Users
  PROVE  /\ Fits(CourseListPage, u) /\ WellFormed(CourseListPage)
         /\ Fits(CreateCoursePage, u) /\ WellFormed(CreateCoursePage)
         /\ Fits(CourseDetailPage(u), u) /\ WellFormed(CourseDetailPage(u))
<1> USE KeysStart, NamedPages DEF Fits, WellFormed, Granted, Refreshes, Page, Answers, Writes, Does,
       Refresh, Then, Here, Users, SignedIn, Admins, SuperAdmins
<1>1. Fits(CourseListPage, u) /\ WellFormed(CourseListPage)
  BY SMT DEF CourseListPage, CourseList
<1>2. Fits(CreateCoursePage, u) /\ WellFormed(CreateCoursePage)
  BY SMT DEF CreateCoursePage, CourseWrite
<1>3. Fits(CourseDetailPage(u), u) /\ WellFormed(CourseDetailPage(u))
  <2>1. CASE u \in Admins
    <3>1. CourseDetailPage(u).does =
            {Does(CourseWrite, Refresh({<<"courses", "c">>, <<"courses">>})),
             Does(TeeWrite, Refresh({<<"courses", "c">>, <<"courses">>})),
             Does(CourseWrite, Then({<<"courses">>}, {}, "courses"))}
      BY ONLY <2>1 DEF CourseDetailPage, TeeConfigurationsSection, CourseEditForm, Page
    <3>2. IsPrefix(<<"courses">>, <<"courses", "c">>)
      BY ONLY SMT DEF IsPrefix
    <3>3. /\ CourseDetailPage(u).reads = {CourseQuery} /\ CourseDetailPage(u).aside = {}
          /\ CourseDetailPage(u).show = SignedIn
      BY ONLY DEF CourseDetailPage, Page
    <3>4. QED
      BY <2>1, <3>1, <3>2, <3>3, SMT DEF CourseQuery, CourseWrite, TeeWrite
  <2>2. CASE u \notin Admins
    BY <2>2, SMT DEF CourseDetailPage, CourseQuery
  <2>3. QED
    BY ONLY <2>1, <2>2
<1>4. QED
  BY ONLY <1>1, <1>2, <1>3

LEMMA PagesFit ==
  ASSUME NEW u \in Users, NEW page \in PageNames
  PROVE  Fits(AppRoutes[u][page], u) /\ WellFormed(AppRoutes[u][page])
<1>1. AppRoutes[u] =
        [login |-> LoginPage, register |-> RegisterPage, activate |-> ActivationPage,
         forgotPassword |-> ForgotPasswordPage, resetPassword |-> ResetPasswordPage,
         home |-> HomeRoute(u), profile |-> ProfilePage, courses |-> CourseListPage,
         course |-> CourseDetailPage(u), rounds |-> MyRoundsPage, newRound |-> NewRoundPage(u),
         roundEntry |-> RoundEntryPage, roundDetails |-> RoundDetailsPage,
         accounts |-> AdminAccountsPage(u), createUser |-> AdminCreateUserPage(u),
         createCourse |-> CreateCoursePage, pendingQueue |-> AdminPendingQueuePage,
         roundsList |-> AdminRoundsListPage, review |-> AdminRoundReviewPage,
         pcc |-> DailyPccPage, settings |-> AdminSettingsPage, audit |-> AdminLoginAttemptsPage]
  BY DEF AppRoutes
<1>2. QED
  BY <1>1, NamedPages, RoundPagesFit, AccountPagesFit, CoursePagesFit, SMTT(30)

(* A page that is shown is one its user may see. *)
LEMMA LandingShown ==
  ASSUME NEW u \in Users, NEW page \in PageNames
  PROVE  Landing(page, u) \in PageNames /\ u \in AppRoutes[u][Landing(page, u)].show
<1>1. AppRoutes[u].login = LoginPage /\ AppRoutes[u].home = HomeRoute(u)
  BY DEF AppRoutes
<1>2. "none" \in LoginPage.show
  BY DEF LoginPage, Page
<1>3. u # "none" => u \in HomeRoute(u).show
  BY SMT DEF HomeRoute, PlayerDashboardPage, AdminDashboardPage, Page, SignedIn, Admins, Users
<1>4. "login" \in PageNames /\ "home" \in PageNames
  BY NamedPages
<1>5. QED
  BY <1>1, <1>2, <1>3, <1>4 DEF Landing

(* What a write of a page means for a query. *)
LEMMA EffectFits ==
  ASSUME NEW u \in Users, NEW page \in PageNames, NEW query \in Queries,
         u \in AppRoutes[u][page].show, NEW e \in EffectsOn(query, AppRoutes[u][page])
  PROVE  /\ e \in EffectType /\ Granted(u, e.for)
         /\ query \in AppRoutes[u][page].reads /\ query \notin AppRoutes[u][page].aside /\ e.hits
              => e.stale \/ e.drops
<1> DEFINE p == AppRoutes[u][page]
<1>1. PICK w \in p.does : e = Effect(query, w)
  BY DEF EffectsOn
<1>2. Fits(p, u) /\ WellFormed(p) /\ u \in p.show
  BY PagesFit
<1>3. /\ e.for = w.op.for /\ e.hits = (w.op.changes \cap query.tells # {})
      /\ e.stale = (\E start \in w.then.stale : IsPrefix(start, query.key))
      /\ e.drops = (query \in w.then.drop) /\ e.to = w.then.to
  BY <1>1 DEF Effect
<1> HIDE DEF p
<1>4. w.op.for \in SUBSET Users /\ w.then.to \in PageNames \cup {Here} /\ Granted(u, w.op.for)
  BY <1>2 DEF Fits, WellFormed
<1>5. e \in EffectType
  BY <1>1, <1>4 DEF Effect, EffectType
<1>6. query \in p.reads /\ query \notin p.aside /\ e.hits => e.stale \/ e.drops
  BY <1>2, <1>3 DEF Fits, Refreshes
<1>7. QED
  BY <1>3, <1>4, <1>5, <1>6 DEF p

(* The writes keep their shape when they are left behind or done. *)
LEMMA LeftShape ==
  ASSUME NEW ws \in SUBSET WriteType
  PROVE  /\ Elsewhere(ws) \in SUBSET WriteType
         /\ \A w \in Elsewhere(ws) : ~ w.here /\ \E v \in ws : w.effect = v.effect /\ w.done = v.done
BY DEF Elsewhere, WriteType

LEMMA DoneShape ==
  ASSUME NEW w \in WriteType
  PROVE  /\ [w EXCEPT !.done = TRUE] \in WriteType /\ [w EXCEPT !.done = TRUE].effect = w.effect
         /\ [w EXCEPT !.done = TRUE].here = w.here /\ [w EXCEPT !.done = TRUE].done
BY DEF WriteType

(* A query that a page has mounted is granted to its user. *)
LEMMA MountedGranted ==
  ASSUME PagesTypeOK, ScreenInv, mounted
  PROVE  Granted(user, watched.for) /\ user \in watched.for
<1>1. Fits(AppRoutes[user][screen], user)
  BY PagesFit DEF PagesTypeOK
<1>2. QED
  BY <1>1 DEF Fits, ScreenInv, Now, Granted

(* A write of the page on the screen that hits what it shows puts it right. *)
LEMMA OwnWritesPutRight ==
  ASSUME PagesInv, NEW w \in writes, w.here, w.effect.hits, mounted, watched \notin Now[screen].aside
  PROVE  w.effect.stale \/ w.effect.drops
<1>1. /\ user \in Users /\ screen \in PageNames /\ watched \in Queries
      /\ user \in AppRoutes[user][screen].show /\ watched \in AppRoutes[user][screen].reads
      /\ w.effect \in EffectsOn(watched, AppRoutes[user][screen])
  BY DEF PagesInv, PagesTypeOK, ScreenInv, Now
<1>2. QED
  BY <1>1, EffectFits DEF Now

(* A step that shows a page: nothing is mounted, and all writes are left behind. *)
LEMMA ShownKeeps ==
  ASSUME PagesInv, NEW ws \in SUBSET writes, writes' = Elsewhere(ws),
         user' \in Users, NEW page \in PageNames, Show(page, user'), denied' = FALSE,
         ~ changed' => ~ changed /\ (user' = user \/ user = "none"),
         watched' = watched, unsure' \in BOOLEAN, changed' \in BOOLEAN,
         data' \in {"none", "current", "behind"},
         asking' \in {"idle", "sent", "current", "behind"}, asking' = "sent" => asking = "sent" \/ mounted
  PROVE  PagesInv'
<1>1. /\ writes' \in SUBSET WriteType
      /\ \A w \in writes' : ~ w.here /\ \E v \in writes : w.effect = v.effect
  BY LeftShape DEF PagesInv, PagesTypeOK
<1>2. screen' \in PageNames /\ user' \in AppRoutes[user'][screen'].show /\ mounted' = FALSE
  BY LandingShown DEF Show
<1>3. PagesTypeOK'
  BY <1>1, <1>2 DEF PagesInv, PagesTypeOK
<1>4. ScreenInv'
  BY <1>1, <1>2 DEF ScreenInv, Now
<1>5. GrantedInv'
  <2>1. \A roles : ~ changed' /\ Granted(user, roles) => Granted(user', roles)
    BY DEF Granted
  <2>2. ~ changed /\ (asking = "sent" \/ mounted) => Granted(user, watched.for)
    BY MountedGranted DEF PagesInv, GrantedInv
  <2>3. ~ changed' => (asking' = "sent" => Granted(user', watched.for))
    BY <2>1, <2>2
  <2>4. ~ changed' => \A w \in writes' : Granted(user', w.effect.for)
    BY <1>1, <2>1 DEF PagesInv, GrantedInv
  <2>5. QED
    BY <2>3, <2>4 DEF GrantedInv
<1>6. BehindInv'
  BY <1>2 DEF BehindInv
<1>7. QED
  BY <1>3, <1>4, <1>5, <1>6 DEF PagesInv

LEMMA VisitKeeps ==
  ASSUME PagesInv, NEW page \in Matters, Visit(page)
  PROVE  PagesInv'
<1>1. page \in PageNames
  BY DEF Matters, PagesInv, PagesTypeOK
<1>2. QED
  BY <1>1, ShownKeeps DEF Visit, PagesInv, PagesTypeOK, GrantedInv

LEMMA RoleKeeps ==
  ASSUME PagesInv, NEW u \in Users, RoleChanges(u)
  PROVE  PagesInv'
<1>1. "login" \in PageNames /\ "home" \in PageNames
  BY NamedPages
<1>2. PICK page \in PageNames : Show(page, user')
  BY <1>1 DEF RoleChanges, PagesInv, PagesTypeOK
<1>3. ~ changed' => ~ changed /\ user = "none"
  BY DEF RoleChanges
<1>4. QED
  BY <1>2, <1>3, ShownKeeps DEF RoleChanges, PagesInv, PagesTypeOK, GrantedInv

(* A step that leaves the page where it is, and no write of an earlier page. *)
LEMMA MountKeeps == ASSUME PagesInv, Mount PROVE PagesInv'
<1>1. /\ mounted' = TRUE /\ UNCHANGED <<watched, user, changed, screen, data, denied, writes>>
      /\ watched \in Now[screen].reads
  BY DEF Mount
<1>2. \/ asking' = "sent" /\ unsure' = LeftBehind(writes)
      \/ asking' = asking /\ unsure' = TRUE /\ asking # "idle"
  BY <1>1 DEF Mount, Refetch, LeftBehind
<1>3. PagesTypeOK' /\ ScreenInv'
  BY <1>1, <1>2 DEF PagesInv, PagesTypeOK, ScreenInv, Now, LeftBehind
<1>4. Granted(user, watched.for)
  <2>1. Fits(AppRoutes[user][screen], user)
    BY PagesFit DEF PagesInv, PagesTypeOK
  <2>2. QED
    BY <1>1, <2>1 DEF Fits, PagesInv, ScreenInv, Now
<1>5. GrantedInv'
  BY <1>1, <1>4 DEF PagesInv, GrantedInv
<1>6. BehindInv'
  BY <1>1, <1>2 DEF BehindInv, Behind
<1>7. QED
  BY <1>3, <1>5, <1>6 DEF PagesInv

LEMMA RefocusKeeps == ASSUME PagesInv, Refocus PROVE PagesInv'
<1>1. /\ mounted /\ UNCHANGED <<watched, user, changed, screen, mounted, data, denied, writes>>
      /\ asking' = "sent" /\ unsure' = LeftBehind(writes)
  BY DEF Refocus, Refetch, LeftBehind
<1>2. Granted(user, watched.for)
  BY <1>1, MountedGranted DEF PagesInv
<1>3. QED
  BY <1>1, <1>2 DEF PagesInv, PagesTypeOK, ScreenInv, Now, LeftBehind, GrantedInv, BehindInv, Behind

LEMMA ServeQueryKeeps == ASSUME PagesInv, ServeQuery PROVE PagesInv'
<1>1. UNCHANGED <<watched, user, changed, screen, mounted, data, writes, unsure>> /\ asking = "sent"
  BY DEF ServeQuery
<1>2. denied' = FALSE /\ asking' \in {"current", "idle"} /\ (asking' = "idle" => ~ mounted)
  <2>1. CASE user \in watched.for /\ asking' = "current" /\ UNCHANGED denied
    BY <2>1 DEF PagesInv, GrantedInv
  <2>2. CASE Refused(watched.for) /\ asking' = "idle"
    <3>1. ~ mounted
      BY <2>2, MountedGranted DEF PagesInv, Refused
    <3>2. changed
      BY <1>1, <2>2 DEF PagesInv, GrantedInv, Refused, Granted
    <3>3. QED
      BY <2>2, <3>1, <3>2 DEF Refused, PagesInv, GrantedInv
  <2>3. QED
    BY <2>1, <2>2 DEF ServeQuery
<1>3. PagesTypeOK' /\ ScreenInv' /\ GrantedInv'
  BY <1>1, <1>2 DEF PagesInv, PagesTypeOK, ScreenInv, Now, LeftBehind, GrantedInv
<1>4. BehindInv'
  BY <1>1, <1>2 DEF BehindInv, Behind
<1>5. QED
  BY <1>3, <1>4 DEF PagesInv

LEMMA QueryAnswersKeeps == ASSUME PagesInv, QueryAnswers PROVE PagesInv'
<1>1. /\ UNCHANGED <<watched, user, changed, screen, mounted, writes, unsure, denied>>
      /\ asking \in {"current", "behind"} /\ data' = asking /\ asking' = "idle"
  BY DEF QueryAnswers
<1>2. PagesTypeOK' /\ ScreenInv' /\ GrantedInv'
  BY <1>1 DEF PagesInv, PagesTypeOK, ScreenInv, Now, LeftBehind, GrantedInv
<1>3. BehindInv'
  BY <1>1 DEF PagesInv, BehindInv, Behind, Now
<1>4. QED
  BY <1>2, <1>3 DEF PagesInv

LEMMA WriteKeeps ==
  ASSUME PagesInv, NEW effect \in EffectsOn(watched, Now[screen]), Write(effect)
  PROVE  PagesInv'
<1>1. UNCHANGED <<watched, user, changed, screen, mounted, data, asking, unsure, denied>>
  BY DEF Write
<1>2. /\ writes' = writes \cup {[effect |-> effect, done |-> FALSE, here |-> TRUE]}
      /\ writes \in SUBSET WriteType
  BY DEF Write, PagesInv, PagesTypeOK, WriteType
<1>3. effect \in EffectType /\ Granted(user, effect.for)
  BY EffectFits DEF PagesInv, PagesTypeOK, ScreenInv, Now
<1>4. PagesTypeOK'
  <2>1. [effect |-> effect, done |-> FALSE, here |-> TRUE] \in WriteType
    BY <1>3 DEF WriteType
  <2>2. QED
    BY <1>1, <1>2, <2>1 DEF PagesInv, PagesTypeOK
<1>5. ScreenInv'
  BY <1>1, <1>2 DEF PagesInv, ScreenInv, Now, LeftBehind
<1>6. GrantedInv'
  BY <1>1, <1>2, <1>3 DEF PagesInv, GrantedInv
<1>7. BehindInv'
  BY <1>1, <1>2 DEF PagesInv, BehindInv, Behind, Now
<1>8. QED
  BY <1>4, <1>5, <1>6, <1>7 DEF PagesInv

LEMMA ServeWriteKeeps ==
  ASSUME PagesInv, NEW w \in writes, ServeWrite(w)
  PROVE  PagesInv'
<1>1. UNCHANGED <<watched, user, changed, screen, mounted, unsure>> /\ ~ w.done
  BY DEF ServeWrite
<1>2. CASE Refused(w.effect.for) /\ UNCHANGED <<writes, data, asking>>
  <2>1. denied' = FALSE
    BY <1>2 DEF PagesInv, GrantedInv, Refused, Granted
  <2>2. QED
    BY <1>1, <1>2, <2>1 DEF PagesInv, PagesTypeOK, ScreenInv, Now, LeftBehind, GrantedInv,
         BehindInv, Behind
<1>3. CASE /\ writes' = (writes \ {w}) \cup {[w EXCEPT !.done = TRUE]}
           /\ IF w.effect.hits THEN data' = MadeOld(data) /\ asking' = MadeOld(asking)
              ELSE UNCHANGED <<data, asking>>
           /\ UNCHANGED denied
  <2> DEFINE v == [w EXCEPT !.done = TRUE]
  <2>1. writes \in SUBSET WriteType /\ w \in WriteType
    BY DEF PagesInv, PagesTypeOK
  <2>2. v \in WriteType /\ v.effect = w.effect /\ v.here = w.here /\ v.done
    BY <2>1, DoneShape
  <2>3. writes' = (writes \ {w}) \cup {v}
    BY <1>3
  <2> HIDE DEF v
  <2>4. PagesTypeOK'
    BY <1>1, <1>3, <2>1, <2>2, <2>3 DEF PagesInv, PagesTypeOK, MadeOld
  <2>5. ScreenInv'
    BY <1>1, <2>2, <2>3 DEF PagesInv, ScreenInv, Now, LeftBehind
  <2>6. GrantedInv'
    BY <1>1, <1>3, <2>2, <2>3 DEF PagesInv, GrantedInv, MadeOld
  <2>7. BehindInv'
    <3> SUFFICES ASSUME mounted, ~ unsure, watched \notin Now[screen].aside, Behind'
                 PROVE  \E x \in writes' : x.done /\ (x.effect.stale \/ x.effect.drops)
      BY <1>1 DEF BehindInv, Now
    <3>1. CASE w.effect.hits
      <4>1. w.here
        BY DEF PagesInv, ScreenInv, LeftBehind
      <4>2. v.effect.stale \/ v.effect.drops
        BY <2>2, <3>1, <4>1, OwnWritesPutRight
      <4>3. QED
        BY <2>2, <2>3, <4>2
    <3>2. CASE ~ w.effect.hits
      <4>1. \E x \in writes : x.done /\ (x.effect.stale \/ x.effect.drops)
        BY <1>3, <3>2 DEF PagesInv, BehindInv, Behind
      <4>2. QED
        BY <1>1, <2>3, <4>1
    <3>3. QED
      BY <3>1, <3>2
  <2>8. QED
    BY <2>4, <2>5, <2>6, <2>7 DEF PagesInv
<1>4. QED
  BY <1>2, <1>3 DEF ServeWrite

LEMMA WriteFailsKeeps ==
  ASSUME PagesInv, NEW w \in writes, WriteFails(w)
  PROVE  PagesInv'
<1>1. /\ UNCHANGED <<watched, user, changed, screen, mounted, data, asking, denied>>
      /\ writes' = writes \ {w} /\ unsure' = (unsure \/ w.done)
  BY DEF WriteFails
<1>2. w \in WriteType /\ unsure \in BOOLEAN
  BY DEF PagesInv, PagesTypeOK
<1>3. PagesTypeOK'
  BY <1>1, <1>2 DEF PagesInv, PagesTypeOK
<1>4. ScreenInv'
  BY <1>1, <1>2 DEF PagesInv, ScreenInv, Now, LeftBehind
<1>5. GrantedInv'
  BY <1>1 DEF PagesInv, GrantedInv
<1>6. BehindInv'
  BY <1>1 DEF PagesInv, BehindInv, Behind, Now
<1>7. QED
  BY <1>3, <1>4, <1>5, <1>6 DEF PagesInv

LEMMA WriteAnsweredKeeps ==
  ASSUME PagesInv, NEW w \in writes, WriteAnswered(w)
  PROVE  PagesInv'
<1> DEFINE left == writes \ {w}
           moves == w.effect.to # Here /\ Landing(w.effect.to, user) # screen
<1>1. /\ UNCHANGED <<watched, user, changed, denied>> /\ w.done
      /\ w \in WriteType /\ writes \in SUBSET WriteType
      /\ w.effect.to \in PageNames \cup {Here}
      /\ w.effect.drops \in BOOLEAN /\ w.effect.stale \in BOOLEAN
  BY DEF WriteAnswered, PagesInv, PagesTypeOK, WriteType, EffectType
<1>2. \/ data' = "none" /\ asking' = "idle" /\ unsure' = unsure /\ w.effect.drops
      \/ /\ w.effect.stale /\ mounted /\ ~ w.effect.drops /\ data' = data
         /\ \/ asking' = "sent" /\ unsure' = LeftBehind(writes')
            \/ asking' = asking /\ unsure' = TRUE
      \/ /\ ~ w.effect.drops /\ ~ (w.effect.stale /\ mounted)
         /\ data' = data /\ asking' = asking /\ unsure' = unsure
  <2>1. CASE w.effect.drops
    BY <2>1 DEF WriteAnswered
  <2>2. CASE w.effect.stale /\ mounted /\ ~ w.effect.drops
    BY <2>2 DEF WriteAnswered, Refetch
  <2>3. CASE ~ w.effect.drops /\ ~ (w.effect.stale /\ mounted)
    BY <2>3 DEF WriteAnswered
  <2>4. QED
    BY <1>1, <2>1, <2>2, <2>3
<1>3. (moves /\ Show(w.effect.to, user) /\ writes' = Elsewhere(left))
      \/ (screen' = screen /\ mounted' = (mounted /\ ~ w.effect.drops) /\ writes' = left)
  BY DEF WriteAnswered
<1>4. /\ data' \in {"none", "current", "behind"}
      /\ asking' \in {"idle", "sent", "current", "behind"} /\ unsure' \in BOOLEAN
  BY <1>2 DEF PagesInv, PagesTypeOK, LeftBehind
<1>5. asking' = "sent" => asking = "sent" \/ mounted
  BY <1>2
<1>6. CASE moves /\ Show(w.effect.to, user) /\ writes' = Elsewhere(left)
  <2>1. w.effect.to \in PageNames /\ left \in SUBSET writes
    BY <1>1, <1>6
  <2>2. user' \in Users /\ denied' = FALSE /\ changed' \in BOOLEAN
    BY <1>1 DEF PagesInv, PagesTypeOK, GrantedInv
  <2>3. QED
    BY <1>1, <1>4, <1>5, <1>6, <2>1, <2>2, ShownKeeps
<1>7. CASE screen' = screen /\ mounted' = (mounted /\ ~ w.effect.drops) /\ writes' = left
  <2>1. PagesTypeOK'
    BY <1>1, <1>4, <1>7 DEF PagesInv, PagesTypeOK
  <2>2. ScreenInv'
    BY <1>1, <1>2, <1>7 DEF PagesInv, ScreenInv, Now, LeftBehind
  <2>3. GrantedInv'
    <3>1. ~ changed /\ asking' = "sent" => Granted(user, watched.for)
      BY <1>5, MountedGranted DEF PagesInv, GrantedInv
    <3>2. QED
      BY <1>1, <1>7, <3>1 DEF PagesInv, GrantedInv
  <2>4. BehindInv'
    <3> SUFFICES ASSUME mounted, ~ w.effect.drops, ~ unsure', watched \notin Now[screen].aside, Behind'
                 PROVE  \E x \in left : x.done /\ (x.effect.stale \/ x.effect.drops)
      BY <1>1, <1>7 DEF BehindInv, Now
    <3>1. ~ w.effect.stale /\ ~ unsure /\ Behind
      BY <1>2 DEF Behind
    <3>2. QED
      BY <3>1 DEF PagesInv, BehindInv
  <2>5. QED
    BY <2>1, <2>2, <2>3, <2>4 DEF PagesInv
<1>8. QED
  BY <1>3, <1>6, <1>7

LEMMA PagesInitHolds == PagesInit => PagesInv
<1> SUFFICES ASSUME PagesInit PROVE PagesInv
  OBVIOUS
<1>1. "home" \in PageNames
  BY NamedPages
<1>2. /\ watched \in Queries /\ user \in Users /\ changed = FALSE /\ mounted = FALSE
      /\ screen = Landing("home", user) /\ data = "none" /\ asking = "idle" /\ writes = {}
      /\ unsure = FALSE /\ denied = FALSE
  BY DEF PagesInit
<1>3. screen \in PageNames /\ user \in Now[screen].show
  BY <1>1, <1>2, LandingShown DEF Now
<1>4. QED
  BY <1>2, <1>3 DEF PagesInv, PagesTypeOK, ScreenInv, GrantedInv, BehindInv, LeftBehind

(* The invariant of the pages: what is under way is granted, and what a page has
   changed and still shows as it was is refreshed by an answer to come. *)
THEOREM PagesInvariance == PagesSpec => []PagesInv
<1>1. PagesInv /\ [PagesNext]_pageVars => PagesInv'
  <2>1. ASSUME PagesInv, PagesNext PROVE PagesInv'
    BY <2>1, VisitKeeps, MountKeeps, RefocusKeeps, ServeQueryKeeps, QueryAnswersKeeps, WriteKeeps,
       ServeWriteKeeps, WriteAnsweredKeeps, WriteFailsKeeps, RoleKeeps DEF PagesNext
  <2>2. ASSUME PagesInv, UNCHANGED pageVars PROVE PagesInv'
    BY <2>2 DEF pageVars, PagesInv, PagesTypeOK, ScreenInv, GrantedInv, BehindInv, Behind, Now,
         LeftBehind
  <2>3. QED
    BY <2>1, <2>2
<1>2. QED
  BY <1>1, PagesInitHolds, PTL DEF PagesSpec

(* Once everything is answered, a page shows what its own writes changed. *)
THEOREM OwnWritesShown == PagesSpec => []OwnWritesAreShown
<1>1. PagesInv => OwnWritesAreShown
  BY DEF PagesInv, BehindInv, Behind, OwnWritesAreShown
<1>2. QED
  BY <1>1, PagesInvariance, PTL

(* Nobody is refused for a role that has not changed since the page was loaded. *)
THEOREM AskedWhatTheyMay == PagesSpec => []PagesAskWhatTheyMay
<1>1. PagesInv => PagesAskWhatTheyMay
  BY DEF PagesInv, GrantedInv, PagesAskWhatTheyMay
<1>2. QED
  BY <1>1, PagesInvariance, PTL

=============================================================================
