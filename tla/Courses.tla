------------------------------- MODULE Courses -------------------------------
(***************************************************************************)
(* The catalogue of courses and tee configurations (courses.repository.ts) *)
(* while rounds are created on it.  Deletions are soft, are refused while  *)
(* a round uses the row, and check that in statements of their own, on no  *)
(* lock.  A tee configuration is replaced whole, its row and then its      *)
(* holes, in a transaction that holds the lock of the row; readers of it   *)
(* read the row and the holes in statements of their own.                  *)
(*                                                                         *)
(* Clubs, cities and the values of ratings and holes are left out: a       *)
(* version stands for what one request gave for a row and its holes.  What *)
(* a transaction has written is kept with its request until it commits.    *)
(***************************************************************************)
EXTENDS Naturals, FiniteSets

CONSTANTS
  CourseIds, Tees, Rounds,  \* ids of the three tables
  Names,                    \* (lower-cased name, country) of a course
  Requests,                 \* requests of administrators under way at once
  MaxRequests,              \* bound on the requests that are started
  None

ASSUME NoneAssumption == None \notin CourseIds \cup Tees \cup Names
ASSUME DisjointAssumption == CourseIds \cap Tees = {}
ASSUME MaxAssumption == MaxRequests \in Nat

VARIABLES
  course,   \* courses
  tee,      \* tee_configurations
  holes,    \* the versions of which each tee configuration has holes
  plays,    \* rounds: the tee configuration of each, deleted rounds included
  req,      \* the request each slot serves
  started,  \* requests started; each brings a version of its own
  answers,  \* history: deletions of each course and tee that answered true
  overtaken \* history: readers whose tee was replaced between their two statements

history == <<answers, overtaken>>
vars    == <<course, tee, holes, plays, req, started, history>>

Deletes == {"delete_course", "delete_tee"}
Ops     == Deletes \cup {"create_course", "update_course", "create_tee", "update_tee", "read_tee"}
Steps   == {"find", "read_tees", "check", "soft_delete", "insert", "update",
            "lock", "delete_holes", "commit", "read_row", "read_holes", "answer"}
Version == 0 .. MaxRequests

NoCourse == [there |-> FALSE, name |-> None, deleted |-> FALSE]
NoTee    == [course |-> None, version |-> 0, deleted |-> FALSE]
Idle     == [op |-> "none", step |-> "idle", course |-> None, tee |-> None, name |-> None,
             version |-> 0, holes |-> {}, tees |-> {}, before |-> {}]

CourseRow == [there : BOOLEAN, name : Names \cup {None}, deleted : BOOLEAN]
TeeRow    == [course : CourseIds \cup {None}, version : Version, deleted : BOOLEAN]

TypeOK ==
  /\ course \in [CourseIds -> CourseRow]
  /\ tee \in [Tees -> TeeRow]
  /\ holes \in [Tees -> SUBSET Version]
  /\ plays \in [Rounds -> Tees \cup {None}]
  /\ req \in [Requests -> [op : Ops \cup {"none"}, step : Steps \cup {"idle"},
       course : CourseIds \cup {None}, tee : Tees \cup {None}, name : Names \cup {None},
       version : Version, holes : SUBSET Version, tees : SUBSET Tees, before : SUBSET Rounds]]
  /\ started \in Version
  /\ answers \in [CourseIds \cup Tees -> Nat]
  /\ overtaken \subseteq Requests

Init ==
  /\ course = [c \in CourseIds |-> NoCourse]
  /\ tee = [t \in Tees |-> NoTee] /\ holes = [t \in Tees |-> {}]
  /\ plays = [n \in Rounds |-> None]
  /\ req = [r \in Requests |-> Idle]
  /\ started = 0
  /\ answers = [x \in CourseIds \cup Tees |-> 0] /\ overtaken = {}

-----------------------------------------------------------------------------
There(t)   == tee[t].course # None
Live(c)    == course[c].there /\ ~course[c].deleted
LiveTee(t) == There(t) /\ ~tee[t].deleted
Played     == {n \in Rounds : plays[n] # None}

Begin(r, request) ==
  /\ req[r].step = "idle" /\ started < MaxRequests
  /\ started' = started + 1
  /\ req' = [req EXCEPT ![r] = [request EXCEPT !.version = started + 1, !.before = Played]]
  /\ UNCHANGED <<course, tee, holes, plays, history>>

At(r, op, step) == req[r].op = op /\ req[r].step = step
Go(r, step)     == req' = [req EXCEPT ![r].step = step]
End(r)          == req' = [req EXCEPT ![r] = Idle]

Arrive(r) ==
  \/ \E n \in Names : Begin(r, [Idle EXCEPT !.op = "create_course", !.step = "insert", !.name = n])
  \/ \E c \in CourseIds, n \in Names \cup {None} :
       Begin(r, [Idle EXCEPT !.op = "update_course", !.step = "update", !.course = c, !.name = n])
  \/ \E op \in {"delete_course", "create_tee"}, c \in CourseIds :
       Begin(r, [Idle EXCEPT !.op = op, !.step = "find", !.course = c])
  \/ \E t \in Tees : Begin(r, [Idle EXCEPT !.op = "update_tee", !.step = "lock", !.tee = t])
  \/ \E t \in Tees : Begin(r, [Idle EXCEPT !.op = "read_tee", !.step = "read_row", !.tee = t])
  \/ \E t \in Tees : Begin(r, [Idle EXCEPT !.op = "delete_tee", !.step = "find", !.tee = t])

(* A statement fails, or the process stops: an open transaction is rolled back. *)
Fails(r) ==
  /\ req[r].step # "idle"
  /\ End(r)
  /\ UNCHANGED <<course, tee, holes, plays, started, history>>

-----------------------------------------------------------------------------
(* create: the course with its tee configurations, in one transaction; update *)

NameTaken(name, c) ==
  name # None /\ \E d \in CourseIds \ {c} : Live(d) /\ course[d].name = name

CreateCourse(r) ==
  /\ At(r, "create_course", "insert") /\ ~NameTaken(req[r].name, None)
  /\ \E c \in CourseIds, new \in SUBSET {t \in Tees : ~There(t)} :
       /\ ~course[c].there
       /\ course' = [course EXCEPT ![c] = [NoCourse EXCEPT !.there = TRUE, !.name = req[r].name]]
       /\ tee' = [t \in Tees |-> IF t \in new
            THEN [NoTee EXCEPT !.course = c, !.version = req[r].version] ELSE tee[t]]
       /\ holes' = [t \in Tees |-> IF t \in new THEN {req[r].version} ELSE holes[t]]
  /\ End(r)
  /\ UNCHANGED <<plays, started, history>>

(* A name that is not given is kept. *)
UpdateCourse(r) ==
  LET c    == req[r].course
      name == IF req[r].name = None THEN course[c].name ELSE req[r].name
  IN
  /\ At(r, "update_course", "update") /\ ~NameTaken(name, c)
  /\ course' = IF Live(c) THEN [course EXCEPT ![c].name = name] ELSE course
  /\ End(r)
  /\ UNCHANGED <<tee, holes, plays, started, history>>

-----------------------------------------------------------------------------
(* createTeeConfiguration: the course is looked up before the transaction *)

FindCourse(r) ==
  /\ req[r].op \in {"create_tee", "delete_course"} /\ req[r].step = "find"
  /\ IF Live(req[r].course)
     THEN Go(r, IF req[r].op = "create_tee" THEN "commit" ELSE "read_tees")
     ELSE End(r)
  /\ UNCHANGED <<course, tee, holes, plays, started, history>>

CreateTee(r) ==
  /\ At(r, "create_tee", "commit")
  /\ \E t \in {s \in Tees : ~There(s)} :
       /\ tee' = [tee EXCEPT ![t].course = req[r].course, ![t].version = req[r].version]
       /\ holes' = [holes EXCEPT ![t] = {req[r].version}]
  /\ End(r)
  /\ UNCHANGED <<course, plays, started, history>>

-----------------------------------------------------------------------------
(* updateTeeConfiguration *)

HasLock(r) == req[r].op = "update_tee" /\ req[r].step \in {"delete_holes", "commit"}
Locked(t)  == \E q \in Requests : HasLock(q) /\ req[q].tee = t

\* Mutant: the row is locked whether or not it is deleted.
LockAnyTee(r) ==
  /\ At(r, "update_tee", "lock") /\ ~Locked(req[r].tee)
  /\ IF There(req[r].tee) THEN Go(r, "delete_holes") ELSE End(r)
  /\ UNCHANGED <<course, tee, holes, plays, started, history>>

\* Mutant: the row is only looked up at first, and updated after its holes.
FindTeeToReplace(r) ==
  /\ At(r, "update_tee", "lock")
  /\ IF LiveTee(req[r].tee) THEN Go(r, "delete_holes") ELSE End(r)
  /\ UNCHANGED <<course, tee, holes, plays, started, history>>

(* UPDATE tee_configurations ... AND deleted_at IS NULL, which waits for a
   replacement that has not committed. *)
LockTee(r) ==
  /\ At(r, "update_tee", "lock") /\ ~Locked(req[r].tee)
  /\ IF LiveTee(req[r].tee) THEN Go(r, "delete_holes") ELSE End(r)
  /\ UNCHANGED <<course, tee, holes, plays, started, history>>

(* DELETE FROM holes, of those that are committed when it starts. *)
DeleteHoles(r) ==
  /\ At(r, "update_tee", "delete_holes")
  /\ req' = [req EXCEPT ![r].step = "commit", ![r].holes = holes[req[r].tee]]
  /\ UNCHANGED <<course, tee, holes, plays, started, history>>

(* The new holes are inserted, and the transaction commits.  The index on the hole
   numbers stops this when a hole with the same number is left: a failure. *)
ReplaceTee(r) ==
  LET t == req[r].tee IN
  /\ At(r, "update_tee", "commit")
  /\ tee' = [tee EXCEPT ![t].version = req[r].version]
  /\ holes' = [holes EXCEPT ![t] = (@ \ req[r].holes) \cup {req[r].version}]
  /\ overtaken' = overtaken \cup
       {q \in Requests : At(q, "read_tee", "read_holes") /\ req[q].tee = t}
  /\ End(r)
  /\ UNCHANGED <<course, plays, started, answers>>

-----------------------------------------------------------------------------
(* getTeeConfiguration: the row, deleted or not, and then its holes *)

ReadRow(r) ==
  LET t == req[r].tee IN
  /\ At(r, "read_tee", "read_row")
  /\ IF There(t)
     THEN req' = [req EXCEPT ![r].step = "read_holes", ![r].version = tee[t].version]
     ELSE End(r)
  /\ overtaken' = overtaken \ {r}
  /\ UNCHANGED <<course, tee, holes, plays, started, answers>>

ReadHoles(r) ==
  /\ At(r, "read_tee", "read_holes")
  /\ req' = [req EXCEPT ![r].step = "answer", ![r].holes = holes[req[r].tee]]
  /\ UNCHANGED <<course, tee, holes, plays, started, history>>

AnswerTee(r) ==
  /\ At(r, "read_tee", "answer")
  /\ End(r)
  /\ UNCHANGED <<course, tee, holes, plays, started, history>>

-----------------------------------------------------------------------------
(* delete and deleteTeeConfiguration: look up, look for rounds, delete *)

FindTee(r) ==
  /\ At(r, "delete_tee", "find")
  /\ IF LiveTee(req[r].tee)
     THEN req' = [req EXCEPT ![r].step = "check", ![r].tees = {req[r].tee}]
     ELSE End(r)
  /\ UNCHANGED <<course, tee, holes, plays, started, history>>

\* Mutant: only the tee configurations that are offered are looked at.
ReadLiveTees(r) ==
  /\ At(r, "delete_course", "read_tees")
  /\ req' = [req EXCEPT ![r].step = "check",
       ![r].tees = {t \in Tees : tee[t].course = req[r].course /\ ~tee[t].deleted}]
  /\ UNCHANGED <<course, tee, holes, plays, started, history>>

(* All of the course, the deleted ones included. *)
ReadTees(r) ==
  /\ At(r, "delete_course", "read_tees")
  /\ req' = [req EXCEPT ![r].step = "check",
       ![r].tees = {t \in Tees : tee[t].course = req[r].course}]
  /\ UNCHANGED <<course, tee, holes, plays, started, history>>

hasReferencingRounds(tees) == \E n \in Rounds : plays[n] \in tees

CheckRounds(r) ==
  /\ req[r].op \in Deletes /\ req[r].step = "check"
  /\ IF hasReferencingRounds(req[r].tees) THEN End(r) ELSE Go(r, "soft_delete")
  /\ UNCHANGED <<course, tee, holes, plays, started, history>>

DeleteCourse(r) ==
  LET c == req[r].course IN
  /\ At(r, "delete_course", "soft_delete")
  /\ course' = [course EXCEPT ![c].deleted = TRUE]
  /\ answers' = [answers EXCEPT ![c] = @ + (IF course[c].deleted THEN 0 ELSE 1)]
  /\ End(r)
  /\ UNCHANGED <<tee, holes, plays, started, overtaken>>

DeleteTee(r) ==
  LET t == req[r].tee IN
  /\ At(r, "delete_tee", "soft_delete") /\ ~Locked(t)
  /\ tee' = [tee EXCEPT ![t].deleted = TRUE]
  /\ answers' = [answers EXCEPT ![t] = @ + (IF tee[t].deleted THEN 0 ELSE 1)]
  /\ End(r)
  /\ UNCHANGED <<course, holes, plays, started, overtaken>>

-----------------------------------------------------------------------------
(* createRound: the foreign key wants the row, deleted or not. *)
CreateRound(n, t) ==
  /\ plays[n] = None /\ There(t)
  /\ plays' = [plays EXCEPT ![n] = t]
  /\ UNCHANGED <<course, tee, holes, req, started, history>>

Step(r) ==
  \/ CreateCourse(r) \/ UpdateCourse(r) \/ FindCourse(r) \/ CreateTee(r)
  \/ LockTee(r) \/ DeleteHoles(r) \/ ReplaceTee(r)
  \/ ReadRow(r) \/ ReadHoles(r) \/ AnswerTee(r)
  \/ FindTee(r) \/ ReadTees(r) \/ CheckRounds(r) \/ DeleteCourse(r) \/ DeleteTee(r)
  \/ Fails(r)

Next ==
  \/ \E r \in Requests : Arrive(r) \/ Step(r)
  \/ \E n \in Rounds, t \in Tees : CreateRound(n, t)

Spec == Init /\ [][Next]_vars

-----------------------------------------------------------------------------
(* The holes of a tee configuration are those of the request its row is of, and of no
   other, however two replacements and their failures interleave: the rows of holes
   that a replacement deletes are all there are when it commits. *)
HolesMatchRow == \A t \in Tees : There(t) => holes[t] = {tee[t].version}

(* What is read of a tee configuration is of one request, row and holes, unless a
   replacement committed between the two statements: then, and only then, a rating of
   one version meets the stroke indexes of another. *)
ReadsAreWhole ==
  \A r \in Requests : At(r, "read_tee", "answer") =>
    r \in overtaken \/ req[r].holes = {req[r].version}

TeesAreWhole == HolesMatchRow /\ ReadsAreWhole

(* A deletion that is about to write found none of the rounds there were when it was
   asked for: a round may slip in behind the check, but none that an administrator
   could have seen is left on a course that is gone (hasReferencingRounds). *)
DeletionsSawEarlierRounds ==
  \A r \in Requests : req[r].step = "soft_delete" =>
    \A n \in req[r].before :
      /\ req[r].op = "delete_tee" => plays[n] # req[r].tee
      /\ req[r].op = "delete_course" => tee[plays[n]].course # req[r].course

(* Of several deletions of one row exactly one answers that it deleted it, the others
   that there is nothing to delete. *)
OneDeletionAnswers ==
  /\ \A c \in CourseIds : answers[c] = IF course[c].deleted THEN 1 ELSE 0
  /\ \A t \in Tees : answers[t] = IF tee[t].deleted THEN 1 ELSE 0

(* What is deleted is never changed again: a replacement or an update that found the
   row before, or waited for the deletion, does not touch it, so the rounds that use
   it keep their ratings. *)
DeletedRowsAreFrozen ==
  [][ /\ \A t \in Tees : tee[t].deleted => tee'[t] = tee[t] /\ holes'[t] = holes[t]
      /\ \A c \in CourseIds : course[c].deleted => course'[c] = course[c] ]_vars

-----------------------------------------------------------------------------
(* The inductive invariant *)

(* What a request names and has found, step by step. *)
HasArguments(q) ==
  /\ q.step = "insert" => q.op = "create_course" /\ q.name \in Names
  /\ q.op \in {"update_course", "create_tee", "delete_course"} => q.course \in CourseIds
  /\ q.op \in {"update_tee", "delete_tee", "read_tee"} => q.tee \in Tees
  /\ q.step \in {"check", "soft_delete"} => q.op \in Deletes
  /\ q.op = "delete_tee" /\ q.step \in {"check", "soft_delete"} => q.tees = {q.tee} /\ There(q.tee)
  /\ q.op = "delete_course" /\ q.step \in {"read_tees", "check", "soft_delete"} =>
       course[q.course].there
  /\ \A n \in q.before : plays[n] \in Tees

(* The rounds there were are on none of the tees that were read, or on none that a
   deletion would hide; a row whose lock is held is not deleted. *)
HasFound(q) ==
  /\ q.op = "delete_course" /\ q.step = "check" =>
       \A n \in q.before : tee[plays[n]].course = q.course => plays[n] \in q.tees
  /\ q.op = "update_tee" /\ q.step \in {"delete_holes", "commit"} => LiveTee(q.tee)
  /\ q.op = "update_tee" /\ q.step = "commit" => q.holes = holes[q.tee]
  /\ q.op = "read_tee" /\ q.step = "read_holes" => There(q.tee)

RoundsHaveTees == \A n \in Rounds : plays[n] # None => There(plays[n])

DeletedWereThere ==
  /\ \A c \in CourseIds : course[c].deleted => course[c].there
  /\ \A t \in Tees : tee[t].deleted => There(t)

OneLockHolder ==
  \A q, r \in Requests : HasLock(q) /\ HasLock(r) /\ req[q].tee = req[r].tee => q = r

(* A row that was read is still the one, unless it was replaced. *)
RowIsCurrent(r) ==
  At(r, "read_tee", "read_holes") => r \in overtaken \/ req[r].version = tee[req[r].tee].version

IInv ==
  /\ TypeOK
  /\ \A r \in Requests : HasArguments(req[r]) /\ HasFound(req[r])
  /\ \A r \in Requests : RowIsCurrent(r)
  /\ RoundsHaveTees /\ DeletedWereThere /\ OneLockHolder
  /\ TeesAreWhole /\ DeletionsSawEarlierRounds /\ OneDeletionAnswers
=============================================================================
