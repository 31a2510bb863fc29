-------------------------- MODULE SchemaMigrations --------------------------
(***************************************************************************)
(* The schema migrations of apps/api/src/data/migrations/apply.ts.  A run  *)
(* of migrate.js takes the advisory lock, reads the ledger, and goes       *)
(* through its release's .sql files in filename order: a recorded file is  *)
(* skipped when its checksum is unchanged and stops the run when it is     *)
(* not; any other is executed and recorded in one transaction.  The deploy *)
(* job, a manual run and an older release may be at it at once, and each   *)
(* may fail or lose its connection between any two statements.  An API     *)
(* process, meanwhile, compares its own files with the ledger at boot.     *)
(*                                                                         *)
(* A file is its rank in filename order, its text a version; checksums are *)
(* taken to tell versions apart.  The ledger table's creation is not a     *)
(* step of its own: a missing ledger and an empty one give the same run    *)
(* and the same report (42P01 reads as "every file is pending").           *)
(***************************************************************************)
EXTENDS Naturals, FiniteSets, Sequences

CONSTANTS Runs,         \* executions of migrate.js
          Boots,        \* starts of the API, each with its drift check
          FileCount,    \* names a migration file can have, in filename order
          Versions,     \* texts a file can have
          NoFile          \* no row, no lock holder

Files == 1..FileCount

(* A release's migration directory: the text of each file it ships.        *)
Releases == [Files -> Versions \cup {NoFile}]

CONSTANT Shipped        \* the releases that get deployed

ASSUME MigrationsAssumption ==
  /\ FileCount \in Nat
  /\ NoFile \notin Runs \cup Versions
  /\ Runs \cap Boots = {}
  /\ Shipped \subseteq Releases

VARIABLES release,      \* release of each run and boot, NoFile before it starts
          stage,        \* where each run is
          file,         \* file each run is looking at
          applied,      \* ledger rows each run read under the lock
          pending,      \* uncommitted effects of each run's transaction
          outcome,      \* how each run ended, or will
          lock,         \* session that holds advisory lock 727274
          schema,       \* the texts of each file that took effect, in their order
          ledger,       \* schema_migrations: recorded checksum of each file
          checked,      \* boots whose drift check got an answer
          report        \* pending files of that answer

runVars == <<stage, file, applied, pending, outcome>>
dbVars == <<lock, schema, ledger>>
bootVars == <<checked, report>>
ledgerVars == <<release, runVars, dbVars, bootVars>>

Phases == {"idle", "locking", "reading", "scanning", "sql", "record",
           "commit", "unlocking", "released", "ended"}
Outcomes == {"applied", "mismatch", "sqlError", "conflict", "lost"}
Effects == {"sql", "row"}

Unread == [f \in Files |-> NoFile]

LedgerTypeOK ==
  /\ release \in [Runs \cup Boots -> Shipped \cup {NoFile}]
  /\ stage \in [Runs -> Phases]
  /\ file \in [Runs -> 1..FileCount + 1]
  /\ applied \in [Runs -> [Files -> Versions \cup {NoFile}]]
  /\ pending \in [Runs -> SUBSET Effects]
  /\ outcome \in [Runs -> Outcomes]
  /\ lock \in Runs \cup {NoFile}
  /\ schema \in [Files -> Seq(Versions)]
  /\ ledger \in [Files -> Versions \cup {NoFile}]
  /\ checked \subseteq Boots
  /\ report \in [Boots -> SUBSET Files]

LedgerInit ==
  /\ release = [p \in Runs \cup Boots |-> NoFile]
  /\ stage = [r \in Runs |-> "idle"]
  /\ file = [r \in Runs |-> 1]
  /\ applied = [r \in Runs |-> Unread]
  /\ pending = [r \in Runs |-> {}]
  /\ outcome = [r \in Runs |-> "applied"]
  /\ lock = NoFile
  /\ schema = [f \in Files |-> <<>>]
  /\ ledger = Unread
  /\ checked = {}
  /\ report = [b \in Boots |-> {}]

-----------------------------------------------------------------------------

Enter(r, next) == stage' = [stage EXCEPT ![r] = next]

(* Leaving the try block: the error is kept, the finally clause unlocks.   *)
Stop(r, reason) ==
  /\ outcome' = [outcome EXCEPT ![r] = reason]
  /\ Enter(r, "unlocking")

Ships(rel) == {f \in Files : rel[f] # NoFile}

StartRun(r) ==
  /\ stage[r] = "idle"
  /\ \E rel \in Shipped : release' = [release EXCEPT ![r] = rel]
  /\ Enter(r, "locking")
  /\ UNCHANGED <<file, applied, pending, outcome, dbVars, bootVars>>

\* Mutant: the lock is tried, and its answer not looked at.
TriesLock(r) ==
  /\ stage[r] = "locking"
  /\ lock' = IF lock = NoFile THEN r ELSE lock
  /\ Enter(r, "reading")
  /\ UNCHANGED <<release, file, applied, pending, outcome, schema, ledger, bootVars>>

(* SELECT pg_advisory_lock: waits for the session that holds it.           *)
TakeLock(r) ==
  /\ stage[r] = "locking"
  /\ lock = NoFile
  /\ lock' = r
  /\ Enter(r, "reading")
  /\ UNCHANGED <<release, file, applied, pending, outcome, schema, ledger, bootVars>>

ReadLedger(r) ==
  /\ stage[r] = "reading"
  /\ applied' = [applied EXCEPT ![r] = ledger]
  /\ Enter(r, "scanning")
  /\ UNCHANGED <<release, file, pending, outcome, dbVars, bootVars>>

(* A file the release does not ship, or ships as it was recorded.          *)
Skippable(r) ==
  LET f == file[r] IN
  \/ release[r][f] = NoFile
  \/ applied[r][f] = release[r][f]

SkipFile(r) ==
  /\ stage[r] = "scanning" /\ file[r] <= FileCount
  /\ Skippable(r)
  /\ file' = [file EXCEPT ![r] = @ + 1]
  /\ UNCHANGED <<release, stage, applied, pending, outcome, dbVars, bootVars>>

ChecksumDiffers(r) ==
  LET f == file[r] IN
  release[r][f] # NoFile /\ applied[r][f] \notin {NoFile, release[r][f]}

\* Mutant: a modified file is reported and passed over.
MismatchPasses(r) ==
  /\ stage[r] = "scanning" /\ file[r] <= FileCount
  /\ ChecksumDiffers(r)
  /\ file' = [file EXCEPT ![r] = @ + 1]
  /\ UNCHANGED <<release, stage, applied, pending, outcome, dbVars, bootVars>>

MismatchFound(r) ==
  /\ stage[r] = "scanning" /\ file[r] <= FileCount
  /\ ChecksumDiffers(r)
  /\ Stop(r, "mismatch")
  /\ UNCHANGED <<release, file, applied, pending, dbVars, bootVars>>

(* BEGIN, for a file the ledger has no row of.                             *)
BeginFile(r) ==
  /\ stage[r] = "scanning" /\ file[r] <= FileCount
  /\ release[r][file[r]] # NoFile /\ applied[r][file[r]] = NoFile
  /\ Enter(r, "sql")
  /\ UNCHANGED <<release, file, applied, pending, outcome, dbVars, bootVars>>

ExecuteSql(r) ==
  /\ stage[r] = "sql"
  /\ pending' = [pending EXCEPT ![r] = {"sql"}]
  /\ Enter(r, "record")
  /\ UNCHANGED <<release, file, applied, outcome, dbVars, bootVars>>

(* INSERT INTO schema_migrations, whose primary key is the file name.      *)
RecordFile(r) ==
  /\ stage[r] = "record"
  /\ ledger[file[r]] = NoFile
  /\ pending' = [pending EXCEPT ![r] = @ \cup {"row"}]
  /\ Enter(r, "commit")
  /\ UNCHANGED <<release, file, applied, outcome, dbVars, bootVars>>

RecordConflicts(r) ==
  /\ stage[r] = "record"
  /\ ledger[file[r]] # NoFile
  /\ pending' = [pending EXCEPT ![r] = {}]
  /\ Stop(r, "conflict")
  /\ UNCHANGED <<release, file, applied, dbVars, bootVars>>

(* What COMMIT makes of the transaction's statements.                      *)
TakeEffect(r) ==
  LET text == release[r][file[r]] IN
  /\ schema' = [schema EXCEPT ![file[r]] = IF "sql" \in pending[r] THEN Append(@, text) ELSE @]
  /\ ledger' = [ledger EXCEPT ![file[r]] = IF "row" \in pending[r] THEN text ELSE @]
  /\ pending' = [pending EXCEPT ![r] = {}]

CommitFile(r) ==
  /\ stage[r] = "commit"
  /\ TakeEffect(r)
  /\ file' = [file EXCEPT ![r] = @ + 1]
  /\ Enter(r, "scanning")
  /\ UNCHANGED <<release, applied, outcome, lock, bootVars>>

(* The answer to COMMIT is lost: the file is applied, the run fails.       *)
CommitUnanswered(r) ==
  /\ stage[r] = "commit"
  /\ TakeEffect(r)
  /\ Stop(r, "lost")
  /\ UNCHANGED <<release, file, applied, lock, bootVars>>

(* Reading the ledger fails; or the file's SQL, the INSERT or the COMMIT,  *)
(* and the transaction is rolled back: the error is thrown on.             *)
StatementFails(r) ==
  /\ stage[r] \in {"reading", "sql", "record", "commit"}
  /\ pending' = [pending EXCEPT ![r] = {}]
  /\ Stop(r, "sqlError")
  /\ UNCHANGED <<release, file, applied, dbVars, bootVars>>

LastFileDone(r) ==
  /\ stage[r] = "scanning" /\ file[r] > FileCount
  /\ Enter(r, "unlocking")
  /\ UNCHANGED <<release, file, applied, pending, outcome, dbVars, bootVars>>

(* pg_advisory_unlock is best effort: its failure leaves the lock with the *)
(* session, which the pool keeps open until the process ends it.           *)
Unlock(r) ==
  /\ stage[r] = "unlocking"
  /\ \/ lock' = IF lock = r THEN NoFile ELSE lock
     \/ UNCHANGED lock
  /\ Enter(r, "released")
  /\ UNCHANGED <<release, file, applied, pending, outcome, schema, ledger, bootVars>>

\* Mutant: a lock that outlives its session, as a row of a table would.
CloseSessionLocked(r) ==
  /\ pending' = [pending EXCEPT ![r] = {}]
  /\ UNCHANGED lock
  /\ Enter(r, "ended")

(* A closed session loses its open transaction and its lock.               *)
CloseSession(r) ==
  /\ pending' = [pending EXCEPT ![r] = {}]
  /\ lock' = IF lock = r THEN NoFile ELSE lock
  /\ Enter(r, "ended")

(* migrate.js: pool.end() and exit.                                        *)
EndRun(r) ==
  /\ stage[r] = "released"
  /\ CloseSession(r)
  /\ UNCHANGED <<release, file, applied, outcome, schema, ledger, bootVars>>

(* The process is killed, or loses the database for good.                  *)
Crash(r) ==
  /\ stage[r] \notin {"idle", "ended"}
  /\ CloseSession(r)
  /\ outcome' = [outcome EXCEPT ![r] = "lost"]
  /\ UNCHANGED <<release, file, applied, schema, ledger, bootVars>>

-----------------------------------------------------------------------------

\* Mutant: the check looks no further than the last file of the release.
PendingLastFile(rel) ==
  {f \in Ships(rel) : ledger[f] = NoFile /\ \A g \in Ships(rel) : g <= f}

PendingFiles(rel) == {f \in Ships(rel) : ledger[f] = NoFile}

(* An API process starts: its listener does not wait for the check.        *)
Boot(b) ==
  /\ release[b] = NoFile
  /\ \E rel \in Shipped : release' = [release EXCEPT ![b] = rel]
  /\ UNCHANGED <<runVars, dbVars, bootVars>>

(* checkMigrationDrift; a query that fails for another reason than the     *)
(* missing table is no answer (checkError), which is not "up to date".     *)
CheckDrift(b) ==
  /\ release[b] # NoFile /\ b \notin checked
  /\ checked' = checked \cup {b}
  /\ report' = [report EXCEPT ![b] = PendingFiles(release[b])]
  /\ UNCHANGED <<release, runVars, dbVars>>

-----------------------------------------------------------------------------

RunStep(r) ==
  \/ TakeLock(r) \/ ReadLedger(r) \/ SkipFile(r) \/ MismatchFound(r)
  \/ BeginFile(r) \/ ExecuteSql(r) \/ RecordFile(r) \/ RecordConflicts(r)
  \/ CommitFile(r) \/ CommitUnanswered(r) \/ StatementFails(r)
  \/ LastFileDone(r) \/ Unlock(r) \/ EndRun(r)

LedgerNext ==
  \/ \E r \in Runs : StartRun(r) \/ RunStep(r) \/ Crash(r)
  \/ \E b \in Boots : Boot(b) \/ CheckDrift(b)

LedgerSpec == LedgerInit /\ [][LedgerNext]_ledgerVars

(* A run that was started goes on: nothing in migrate.js waits but for the *)
(* lock, and whoever holds that goes on as well.                           *)
LedgerFairness == \A r \in Runs : WF_ledgerVars(RunStep(r))

FairLedgerSpec == LedgerSpec /\ LedgerFairness

-----------------------------------------------------------------------------

(* apply.ts: "Any failure rolls both back together: a failed migration is  *)
(* never recorded."  Whatever fails and wherever a run is killed, of each  *)
(* file just the text that the ledger records has taken effect, once, and  *)
(* of a file it does not record none has.                                  *)
LedgerTellsSchema ==
  \A f \in Files : schema[f] = IF ledger[f] = NoFile THEN <<>> ELSE <<ledger[f]>>

(* Two runs at once do each other no harm: neither meets a row the other   *)
(* inserted after it read the ledger.                                      *)
RunsDoNotConflict == \A r \in Runs : outcome[r] # "conflict"

(* A file is applied by the holder of the lock, over a schema on which the *)
(* release's earlier files are all recorded just as it ships them; and no  *)
(* row of the ledger changes once it is there.                             *)
FilesApplyInOrder ==
  [][\A f \in Files : ledger'[f] # ledger[f] =>
       /\ ledger[f] = NoFile
       /\ \E r \in Runs :
            /\ lock = r /\ ledger'[f] = release[r][f]
            /\ \A g \in Ships(release[r]) : g < f => ledger[g] = release[r][g]]_ledgerVars

(* Of every file of its release, a boot that found nothing pending runs on *)
(* one text, applied once: the release's own, unless a run of a release    *)
(* that has another text of that file came first.  The check compares file *)
(* names only, so such a boot is told that the schema is up to date too.   *)
CleanReportsStayTrue ==
  \A b \in checked : report[b] = {} => \A f \in Ships(release[b]) :
    \/ schema[f] = <<release[b][f]>>
    \/ \E r \in Runs :
         /\ stage[r] # "idle" /\ release[r][f] \notin {NoFile, release[b][f]}
         /\ schema[f] = <<release[r][f]>>

(* Every run that started ends, waiting for the lock or not.               *)
RunsEnd == \A r \in Runs : stage[r] = "locking" ~> stage[r] = "ended"
-----------------------------------------------------------------------------
(* The inductive invariant.  The holder of the lock is the only run past   *)
(* it, so what it read of the ledger stays true; the files behind it are   *)
(* recorded as its release ships them, and the one in hand is not.         *)

HoldsLock(r) ==
  stage[r] \in {"reading", "scanning", "sql", "record", "commit", "unlocking"}

HasLedger(r) == stage[r] \in {"scanning", "sql", "record", "commit"}

Applying(r) == stage[r] \in {"sql", "record", "commit"}

RunInv(r) ==
  /\ stage[r] # "idle" => release[r] \in Shipped
  /\ HoldsLock(r) => lock = r
  /\ stage[r] \in {"idle", "locking", "reading"} => file[r] = 1
  /\ HasLedger(r) => \A f \in Files :
       /\ f >= file[r] => applied[r][f] = ledger[f]
       /\ f < file[r] /\ release[r][f] # NoFile => ledger[f] = release[r][f]
  /\ Applying(r) => file[r] \in Files /\ release[r][file[r]] # NoFile /\ ledger[file[r]] = NoFile
  /\ stage[r] = "commit" => pending[r] = Effects
  /\ stage[r] = "record" => pending[r] = {"sql"}
  /\ outcome[r] # "conflict"

BootInv(b) ==
  /\ b \in checked => release[b] # NoFile
  /\ b \in checked /\ report[b] = {} => \A f \in Ships(release[b]) : ledger[f] # NoFile

(* Every row of the ledger is of a run that ships that text.               *)
RowsAreOfRuns ==
  \A f \in Files : ledger[f] # NoFile =>
    \E r \in Runs : stage[r] # "idle" /\ release[r][f] = ledger[f]

LedgerInv ==
  /\ LedgerTypeOK
  /\ \A r \in Runs : RunInv(r)
  /\ \A b \in Boots : BootInv(b)
  /\ LedgerTellsSchema
  /\ RowsAreOfRuns
=============================================================================
