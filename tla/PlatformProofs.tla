---------------------------- MODULE PlatformProofs ----------------------------
(***************************************************************************)
(* The two parts of the platform, each by itself: they share no state.     *)
(*                                                                         *)
(* The inductive invariant of SchemaMigrations.  A step is either a step   *)
(* of one run that leaves the tables alone (RunMoves), or its COMMIT       *)
(* (CommitKeeps), which only the holder of the lock gets to.               *)
(*                                                                         *)
(* For ConnectionPool, what the connections are held by, for a pool of any *)
(* size and any number of requests, and the one way in which they can be   *)
(* stuck.                                                                  *)
(***************************************************************************)
EXTENDS SchemaMigrations, ConnectionPool, FiniteSetTheorems, TLAPS

Others(r) == Runs \ {r}

(* Only one run is past the lock. *)
LEMMA OneHolder ==
  ASSUME LedgerInv, NEW r \in Runs, HoldsLock(r), NEW q \in Others(r)
  PROVE  ~HoldsLock(q)
BY DEF LedgerInv, RunInv, Others

(* A run moves, and the tables stay as they are. *)
LEMMA RunMoves ==
  ASSUME LedgerInv, NEW r \in Runs, UNCHANGED <<schema, ledger, checked, report>>, LedgerTypeOK', RunInv(r)',
         stage[r] # "idle" => stage'[r] # "idle" /\ release'[r] = release[r],
         \A p \in Runs \cup Boots : p # r => release'[p] = release[p],
         \A q \in Others(r) : /\ stage'[q] = stage[q] /\ file'[q] = file[q] /\ applied'[q] = applied[q]
                              /\ pending'[q] = pending[q] /\ outcome'[q] = outcome[q]
                              /\ HoldsLock(q) => lock' = lock
  PROVE  LedgerInv'
<1> USE DEF LedgerInv
<1>1. ASSUME NEW q \in Runs
      PROVE  RunInv(q)'
  <2>1. CASE q = r
    BY <2>1
  <2>2. CASE q # r
    <3>1. /\ release'[q] = release[q] /\ stage'[q] = stage[q] /\ file'[q] = file[q]
          /\ applied'[q] = applied[q] /\ pending'[q] = pending[q] /\ outcome'[q] = outcome[q]
          /\ HoldsLock(q) => lock' = lock
      BY <2>2 DEF Others
    <3>2. QED
      BY <3>1 DEF RunInv, HoldsLock, HasLedger, Applying
  <2>3. QED
    BY <2>1, <2>2
<1>2. ASSUME NEW b \in Boots
      PROVE  BootInv(b)'
  <2>1. release'[b] = release[b]
    BY MigrationsAssumption
  <2>2. QED
    BY <2>1 DEF BootInv, Ships
<1>3. LedgerTellsSchema'
  BY DEF LedgerTellsSchema
<1>4. RowsAreOfRuns'
  <2>1. \A q \in Runs : stage[q] # "idle" => stage'[q] # "idle" /\ release'[q] = release[q]
    BY DEF Others
  <2>2. QED
    BY <2>1 DEF RowsAreOfRuns
<1>5. QED
  BY <1>1, <1>2, <1>3, <1>4

(* What a step of a run past the lock does to the other runs: nothing. *)
LEMMA Locked ==
  ASSUME LedgerInv, NEW r \in Runs, stage[r] # "idle", UNCHANGED <<schema, ledger, checked, report, release>>,
         NEW p \in Phases \ {"idle"}, stage' = [stage EXCEPT ![r] = p],
         \A q \in Others(r) : /\ file'[q] = file[q] /\ applied'[q] = applied[q]
                              /\ pending'[q] = pending[q] /\ outcome'[q] = outcome[q],
         lock' = lock \/ (lock = NoFile /\ lock' = r) \/ (lock = r /\ lock' = NoFile),
         file' \in [Runs -> 1..FileCount + 1], applied' \in [Runs -> [Files -> Versions \cup {NoFile}]],
         pending' \in [Runs -> SUBSET Effects], outcome' \in [Runs -> Outcomes],
         RunInv(r)'
  PROVE  LedgerInv'
<1>1. LedgerTypeOK'
  BY DEF LedgerInv, LedgerTypeOK
<1>2. \A q \in Others(r) : stage'[q] = stage[q] /\ (HoldsLock(q) => lock' = lock)
  BY MigrationsAssumption DEF LedgerInv, LedgerTypeOK, RunInv, Others
<1>3. stage'[r] # "idle"
  BY DEF LedgerInv, LedgerTypeOK
<1>4. QED
  BY <1>1, <1>2, <1>3, RunMoves

-----------------------------------------------------------------------------
(* The steps of a run *)

LEMMA StartRunKeeps ==
  ASSUME LedgerInv, NEW r \in Runs, StartRun(r)
  PROVE  LedgerInv'
<1>1. PICK rel \in Shipped : release' = [release EXCEPT ![r] = rel]
  BY DEF StartRun
<1>2. /\ stage[r] = "idle" /\ stage' = [stage EXCEPT ![r] = "locking"]
      /\ UNCHANGED <<file, applied, pending, outcome, lock, schema, ledger, checked, report>>
  BY DEF StartRun, Enter, dbVars, bootVars
<1>3. LedgerTypeOK'
  BY <1>1, <1>2 DEF LedgerInv, LedgerTypeOK, Phases
<1>4. RunInv(r)'
  BY <1>1, <1>2 DEF LedgerInv, LedgerTypeOK, RunInv, HoldsLock, HasLedger, Applying
<1>5. \A q \in Others(r) : stage'[q] = stage[q]
  BY <1>2 DEF LedgerInv, LedgerTypeOK, Others
<1>6. \A p \in Runs \cup Boots : p # r => release'[p] = release[p]
  BY <1>1 DEF LedgerInv, LedgerTypeOK
<1>7. QED
  BY <1>2, <1>3, <1>4, <1>5, <1>6, RunMoves

LEMMA TakeLockKeeps ==
  ASSUME LedgerInv, NEW r \in Runs, TakeLock(r)
  PROVE  LedgerInv'
<1>1. /\ stage[r] = "locking" /\ stage' = [stage EXCEPT ![r] = "reading"] /\ lock = NoFile /\ lock' = r
      /\ UNCHANGED <<release, file, applied, pending, outcome, schema, ledger, checked, report>>
  BY DEF TakeLock, Enter, bootVars
<1>2. RunInv(r)'
  BY <1>1 DEF LedgerInv, LedgerTypeOK, RunInv, HoldsLock, HasLedger, Applying
<1>3. "reading" \in Phases
  BY DEF Phases
<1>4. QED
  BY <1>1, <1>2, <1>3, Locked DEF LedgerInv, LedgerTypeOK

LEMMA ReadLedgerKeeps ==
  ASSUME LedgerInv, NEW r \in Runs, ReadLedger(r)
  PROVE  LedgerInv'
<1>1. /\ stage[r] = "reading" /\ stage' = [stage EXCEPT ![r] = "scanning"]
      /\ applied' = [applied EXCEPT ![r] = ledger]
      /\ UNCHANGED <<release, file, pending, outcome, lock, schema, ledger, checked, report>>
  BY DEF ReadLedger, Enter, dbVars, bootVars
<1>2. RunInv(r)'
  <2>1. applied'[r] = ledger /\ file'[r] = 1 /\ stage'[r] = "scanning"
    BY <1>1 DEF LedgerInv, LedgerTypeOK, RunInv
  <2>2. \A f \in Files : ~(f < 1)
    BY DEF Files
  <2>3. QED
    BY <1>1, <2>1, <2>2 DEF LedgerInv, RunInv, HoldsLock, HasLedger, Applying
<1>3. /\ applied' \in [Runs -> [Files -> Versions \cup {NoFile}]]
      /\ \A q \in Others(r) : applied'[q] = applied[q]
  BY <1>1 DEF LedgerInv, LedgerTypeOK, Others
<1>4. "scanning" \in Phases
  BY DEF Phases
<1>5. QED
  BY <1>1, <1>2, <1>3, <1>4, Locked DEF LedgerInv, LedgerTypeOK

LEMMA SkipFileKeeps ==
  ASSUME LedgerInv, NEW r \in Runs, SkipFile(r)
  PROVE  LedgerInv'
<1>1. /\ stage[r] = "scanning" /\ file[r] <= FileCount /\ Skippable(r)
      /\ file' = [file EXCEPT ![r] = file[r] + 1]
      /\ UNCHANGED <<release, stage, applied, pending, outcome, lock, schema, ledger, checked, report>>
  BY DEF SkipFile, dbVars, bootVars
<1>2. /\ file[r] \in Files /\ file'[r] = file[r] + 1 /\ file' \in [Runs -> 1..FileCount + 1]
      /\ \A q \in Others(r) : file'[q] = file[q]
  BY <1>1, MigrationsAssumption DEF LedgerInv, LedgerTypeOK, Files, Others
<1>3. \A f \in Files : (f >= file'[r] => f >= file[r]) /\ (f < file'[r] <=> f < file[r] \/ f = file[r])
  BY <1>2 DEF Files
<1>4. RunInv(r)'
  <2>1. release[r][file[r]] # NoFile => ledger[file[r]] = release[r][file[r]]
    BY <1>1, <1>2 DEF LedgerInv, RunInv, HasLedger, Skippable, Files
  <2>2. QED
    BY <1>1, <1>3, <2>1 DEF LedgerInv, RunInv, HoldsLock, HasLedger, Applying
<1>5. stage' = [stage EXCEPT ![r] = "scanning"] /\ "scanning" \in Phases
  BY <1>1 DEF Phases, LedgerInv, LedgerTypeOK
<1>6. QED
  BY <1>1, <1>2, <1>4, <1>5, Locked DEF LedgerInv, LedgerTypeOK

(* A run gives up: whatever the reason, but a conflict, it is about to unlock. *)
LEMMA Stops ==
  ASSUME LedgerInv, NEW r \in Runs, NEW reason \in Outcomes \ {"conflict"}, HoldsLock(r), Stop(r, reason),
         pending' = pending \/ pending' = [pending EXCEPT ![r] = {}],
         UNCHANGED <<release, file, applied, lock, schema, ledger, checked, report>>
  PROVE  LedgerInv'
<1>1. stage' = [stage EXCEPT ![r] = "unlocking"] /\ outcome' = [outcome EXCEPT ![r] = reason]
  BY DEF Stop, Enter
<1>2. /\ outcome' \in [Runs -> Outcomes] /\ pending' \in [Runs -> SUBSET Effects]
      /\ \A q \in Others(r) : outcome'[q] = outcome[q] /\ pending'[q] = pending[q]
  BY <1>1 DEF LedgerInv, LedgerTypeOK, Others
<1>3. RunInv(r)' /\ stage[r] # "idle"
  BY <1>1 DEF LedgerInv, LedgerTypeOK, RunInv, HoldsLock, HasLedger, Applying
<1>4. "unlocking" \in Phases
  BY DEF Phases
<1>5. QED
  BY <1>1, <1>2, <1>3, <1>4, Locked DEF LedgerInv, LedgerTypeOK

LEMMA MismatchFoundKeeps ==
  ASSUME LedgerInv, NEW r \in Runs, MismatchFound(r)
  PROVE  LedgerInv'
BY Stops DEF MismatchFound, HoldsLock, Outcomes, dbVars, bootVars

LEMMA StatementFailsKeeps ==
  ASSUME LedgerInv, NEW r \in Runs, StatementFails(r)
  PROVE  LedgerInv'
BY Stops DEF StatementFails, HoldsLock, Outcomes, dbVars, bootVars

(* The row a run inserts is not there yet: it read the ledger under the lock. *)
LEMMA NoConflict ==
  ASSUME LedgerInv, NEW r \in Runs
  PROVE  ~RecordConflicts(r)
BY DEF RecordConflicts, LedgerInv, RunInv, Applying

LEMMA BeginFileKeeps ==
  ASSUME LedgerInv, NEW r \in Runs, BeginFile(r)
  PROVE  LedgerInv'
<1>1. /\ stage[r] = "scanning" /\ file[r] <= FileCount /\ stage' = [stage EXCEPT ![r] = "sql"]
      /\ release[r][file[r]] # NoFile /\ applied[r][file[r]] = NoFile
      /\ UNCHANGED <<release, file, applied, pending, outcome, lock, schema, ledger, checked, report>>
  BY DEF BeginFile, Enter, dbVars, bootVars
<1>2. file[r] \in Files
  BY <1>1, MigrationsAssumption DEF LedgerInv, LedgerTypeOK, Files
<1>3. RunInv(r)'
  <2>1. ledger[file[r]] = NoFile
    BY <1>1, <1>2 DEF LedgerInv, RunInv, HasLedger, Files
  <2>2. QED
    BY <1>1, <1>2, <2>1 DEF LedgerInv, LedgerTypeOK, RunInv, HoldsLock, HasLedger, Applying
<1>4. "sql" \in Phases
  BY DEF Phases
<1>5. QED
  BY <1>1, <1>3, <1>4, Locked DEF LedgerInv, LedgerTypeOK

LEMMA ExecuteSqlKeeps ==
  ASSUME LedgerInv, NEW r \in Runs, ExecuteSql(r)
  PROVE  LedgerInv'
<1>1. /\ stage[r] = "sql" /\ stage' = [stage EXCEPT ![r] = "record"] /\ pending' = [pending EXCEPT ![r] = {"sql"}]
      /\ UNCHANGED <<release, file, applied, outcome, lock, schema, ledger, checked, report>>
  BY DEF ExecuteSql, Enter, dbVars, bootVars
<1>2. /\ pending' \in [Runs -> SUBSET Effects] /\ \A q \in Others(r) : pending'[q] = pending[q]
  BY <1>1 DEF LedgerInv, LedgerTypeOK, Others, Effects
<1>3. RunInv(r)' /\ "record" \in Phases
  BY <1>1 DEF LedgerInv, LedgerTypeOK, RunInv, HoldsLock, HasLedger, Applying, Phases
<1>4. QED
  BY <1>1, <1>2, <1>3, Locked DEF LedgerInv, LedgerTypeOK

LEMMA RecordFileKeeps ==
  ASSUME LedgerInv, NEW r \in Runs, RecordFile(r)
  PROVE  LedgerInv'
<1>1. /\ stage[r] = "record" /\ stage' = [stage EXCEPT ![r] = "commit"]
      /\ pending' = [pending EXCEPT ![r] = pending[r] \cup {"row"}]
      /\ UNCHANGED <<release, file, applied, outcome, lock, schema, ledger, checked, report>>
  BY DEF RecordFile, Enter, dbVars, bootVars
<1>2. /\ pending' \in [Runs -> SUBSET Effects] /\ \A q \in Others(r) : pending'[q] = pending[q]
      /\ pending'[r] = Effects
  BY <1>1 DEF LedgerInv, LedgerTypeOK, RunInv, Others, Effects
<1>3. RunInv(r)' /\ "commit" \in Phases
  BY <1>1, <1>2 DEF LedgerInv, LedgerTypeOK, RunInv, HoldsLock, HasLedger, Applying, Phases
<1>4. QED
  BY <1>1, <1>2, <1>3, Locked DEF LedgerInv, LedgerTypeOK

(* COMMIT: the file's SQL and its row, both or neither seen before, take effect. *)
LEMMA Committed ==
  ASSUME LedgerInv, NEW r \in Runs, stage[r] = "commit", TakeEffect(r),
         UNCHANGED <<release, applied, lock, checked, report>>,
         NEW p \in {"scanning", "unlocking"}, stage' = [stage EXCEPT ![r] = p],
         \/ p = "scanning" /\ file' = [file EXCEPT ![r] = file[r] + 1] /\ outcome' = outcome
         \/ p = "unlocking" /\ file' = file /\ outcome' = [outcome EXCEPT ![r] = "lost"]
  PROVE  LedgerInv'
<1> DEFINE f == file[r]
<1>1. /\ f \in Files /\ f \in Nat /\ lock = r /\ release[r] \in Shipped /\ release[r][f] \in Versions
      /\ ledger[f] = NoFile /\ schema[f] = <<>>
  <2>1. /\ f \in Files /\ f \in Nat /\ lock = r /\ release[r] \in Shipped
        /\ release[r][f] \in Versions /\ ledger[f] = NoFile
    BY MigrationsAssumption
       DEF LedgerInv, LedgerTypeOK, RunInv, HoldsLock, Applying, Releases, Files
  <2>2. schema[f] = <<>>
    BY <2>1, Zenon DEF LedgerInv, LedgerTellsSchema
  <2>3. QED
    BY <2>1, <2>2
<1>2. /\ schema' = [schema EXCEPT ![f] = <<release[r][f]>>] /\ ledger' = [ledger EXCEPT ![f] = release[r][f]]
      /\ pending' = [pending EXCEPT ![r] = {}]
  <2>1. "sql" \in pending[r] /\ "row" \in pending[r]
    BY DEF LedgerInv, RunInv, Effects
  <2>2. Append(<<>>, release[r][f]) = <<release[r][f]>>
    <3>1. <<>> \in Seq(Versions) /\ release[r][f] \in Versions
      BY <1>1
    <3> HIDE DEF f
    <3>2. QED
      BY <3>1
  <2>3. QED
    BY <1>1, <2>1, <2>2 DEF TakeEffect
<1>3. /\ ledger'[f] = release[r][f] /\ schema'[f] = <<release[r][f]>>
      /\ \A g \in Files : g # f => ledger'[g] = ledger[g] /\ schema'[g] = schema[g]
  BY <1>1, <1>2 DEF LedgerInv, LedgerTypeOK
<1>4. LedgerTypeOK'
  <2>1. file' \in [Runs -> 1..FileCount + 1]
    <3>1. f + 1 \in 1..FileCount + 1
      BY <1>1, MigrationsAssumption DEF Files
    <3>2. QED
      BY <3>1 DEF LedgerInv, LedgerTypeOK
  <2>2. stage' \in [Runs -> Phases] /\ outcome' \in [Runs -> Outcomes]
    BY DEF LedgerInv, LedgerTypeOK, Phases, Outcomes
  <2>3. schema' \in [Files -> Seq(Versions)] /\ ledger' \in [Files -> Versions \cup {NoFile}]
    BY <1>1, <1>2 DEF LedgerInv, LedgerTypeOK
  <2>4. pending' \in [Runs -> SUBSET Effects]
    BY <1>2 DEF LedgerInv, LedgerTypeOK
  <2>5. QED
    BY <2>1, <2>2, <2>3, <2>4 DEF LedgerInv, LedgerTypeOK
<1>5. RunInv(r)'
  <2>1. CASE p = "unlocking"
    BY <1>1, <2>1 DEF LedgerInv, LedgerTypeOK, RunInv, HoldsLock, HasLedger, Applying
  <2>2. CASE p = "scanning"
    <3>1. file'[r] = f + 1 /\ stage'[r] = "scanning" /\ outcome' = outcome
      BY <2>2 DEF LedgerInv, LedgerTypeOK
    <3>2. \A g \in Files : (g >= f + 1 => g >= f /\ g # f) /\ (g < f + 1 => g < f \/ g = f)
      BY <1>1 DEF Files
    <3>3. \A g \in Files : /\ g >= file'[r] => applied'[r][g] = ledger'[g]
                           /\ g < file'[r] /\ release'[r][g] # NoFile => ledger'[g] = release'[r][g]
      BY <1>3, <3>1, <3>2 DEF LedgerInv, RunInv, HasLedger
    <3>4. QED
      BY <1>1, <3>1, <3>3 DEF LedgerInv, RunInv, HoldsLock, HasLedger, Applying
  <2>3. QED
    BY <2>1, <2>2
<1>6. ASSUME NEW q \in Others(r)
      PROVE  RunInv(q)'
  <2>1. ~HoldsLock(q)
    BY <1>6, OneHolder DEF HoldsLock
  <2>2. /\ stage'[q] = stage[q] /\ file'[q] = file[q] /\ pending'[q] = pending[q] /\ outcome'[q] = outcome[q]
    BY <1>2, <1>6 DEF LedgerInv, LedgerTypeOK, Others
  <2>3. QED
    BY <1>6, <2>1, <2>2 DEF LedgerInv, RunInv, HoldsLock, HasLedger, Applying, Others
<1>7. ASSUME NEW b \in Boots
      PROVE  BootInv(b)'
  BY <1>1, <1>3, MigrationsAssumption DEF LedgerInv, BootInv, Ships
<1>8. LedgerTellsSchema'
  BY <1>1, <1>3, MigrationsAssumption DEF LedgerInv, LedgerTellsSchema
<1>9. RowsAreOfRuns'
  <2>1. \A q \in Runs : stage[q] # "idle" => stage'[q] # "idle"
    BY DEF LedgerInv, LedgerTypeOK
  <2>2. stage'[r] # "idle" /\ release' = release
    BY DEF LedgerInv, LedgerTypeOK
  <2>3. QED
    BY <1>3, <2>1, <2>2 DEF LedgerInv, RowsAreOfRuns
<1>10. QED
  BY <1>4, <1>5, <1>6, <1>7, <1>8, <1>9 DEF LedgerInv, Others

LEMMA CommitFileKeeps ==
  ASSUME LedgerInv, NEW r \in Runs, CommitFile(r)
  PROVE  LedgerInv'
BY Committed DEF CommitFile, Enter, bootVars

LEMMA CommitUnansweredKeeps ==
  ASSUME LedgerInv, NEW r \in Runs, CommitUnanswered(r)
  PROVE  LedgerInv'
BY Committed DEF CommitUnanswered, Stop, Enter, bootVars

LEMMA LastFileDoneKeeps ==
  ASSUME LedgerInv, NEW r \in Runs, LastFileDone(r)
  PROVE  LedgerInv'
<1>1. /\ stage[r] = "scanning" /\ stage' = [stage EXCEPT ![r] = "unlocking"]
      /\ UNCHANGED <<release, file, applied, pending, outcome, lock, schema, ledger, checked, report>>
  BY DEF LastFileDone, Enter, dbVars, bootVars
<1>2. RunInv(r)' /\ "unlocking" \in Phases
  BY <1>1 DEF LedgerInv, LedgerTypeOK, RunInv, HoldsLock, HasLedger, Applying, Phases
<1>3. QED
  BY <1>1, <1>2, Locked DEF LedgerInv, LedgerTypeOK

LEMMA UnlockKeeps ==
  ASSUME LedgerInv, NEW r \in Runs, Unlock(r)
  PROVE  LedgerInv'
<1>1. /\ stage[r] = "unlocking" /\ stage' = [stage EXCEPT ![r] = "released"]
      /\ lock' = lock \/ (lock = r /\ lock' = NoFile)
      /\ UNCHANGED <<release, file, applied, pending, outcome, schema, ledger, checked, report>>
  BY DEF Unlock, Enter, bootVars
<1>2. RunInv(r)' /\ "released" \in Phases
  BY <1>1 DEF LedgerInv, LedgerTypeOK, RunInv, HoldsLock, HasLedger, Applying, Phases
<1>3. QED
  BY <1>1, <1>2, Locked DEF LedgerInv, LedgerTypeOK

(* A session is closed, by the process itself or under it. *)
LEMMA Closes ==
  ASSUME LedgerInv, NEW r \in Runs, stage[r] # "idle", CloseSession(r),
         outcome' = outcome \/ outcome' = [outcome EXCEPT ![r] = "lost"],
         UNCHANGED <<release, file, applied, schema, ledger, checked, report>>
  PROVE  LedgerInv'
<1>1. /\ stage' = [stage EXCEPT ![r] = "ended"] /\ pending' = [pending EXCEPT ![r] = {}]
      /\ lock' = lock \/ (lock = r /\ lock' = NoFile)
  BY DEF CloseSession, Enter
<1>2. /\ outcome' \in [Runs -> Outcomes] /\ pending' \in [Runs -> SUBSET Effects]
      /\ \A q \in Others(r) : outcome'[q] = outcome[q] /\ pending'[q] = pending[q]
  BY <1>1 DEF LedgerInv, LedgerTypeOK, Others, Outcomes
<1>3. RunInv(r)' /\ "ended" \in Phases
  BY <1>1 DEF LedgerInv, LedgerTypeOK, RunInv, HoldsLock, HasLedger, Applying, Phases
<1>4. QED
  BY <1>1, <1>2, <1>3, Locked DEF LedgerInv, LedgerTypeOK

LEMMA EndRunKeeps ==
  ASSUME LedgerInv, NEW r \in Runs, EndRun(r)
  PROVE  LedgerInv'
BY Closes DEF EndRun, bootVars

LEMMA CrashKeeps ==
  ASSUME LedgerInv, NEW r \in Runs, Crash(r)
  PROVE  LedgerInv'
BY Closes DEF Crash, bootVars

-----------------------------------------------------------------------------
(* The steps of an API process *)

LEMMA BootKeeps ==
  ASSUME LedgerInv, NEW b \in Boots, Boot(b)
  PROVE  LedgerInv'
<1>1. PICK rel \in Shipped : release' = [release EXCEPT ![b] = rel]
  BY DEF Boot
<1>2. UNCHANGED <<stage, file, applied, pending, outcome, lock, schema, ledger, checked, report>> /\ release[b] = NoFile
  BY DEF Boot, runVars, dbVars, bootVars
<1>3. /\ release'[b] = rel /\ \A p \in Runs \cup Boots : p # b => release'[p] = release[p]
      /\ release' \in [Runs \cup Boots -> Shipped \cup {NoFile}]
  BY <1>1 DEF LedgerInv, LedgerTypeOK
<1>4. ASSUME NEW r \in Runs PROVE RunInv(r)'
  <2>1. release'[r] = release[r]
    BY <1>3, MigrationsAssumption
  <2>2. QED
    BY <1>2, <2>1 DEF LedgerInv, RunInv, HoldsLock, HasLedger, Applying
<1>5. b \notin checked
  BY <1>2 DEF LedgerInv, BootInv
<1>6. ASSUME NEW c \in Boots PROVE BootInv(c)'
  <2>1. CASE c = b
    BY <1>2, <1>5, <2>1 DEF BootInv
  <2>2. CASE c # b
    BY <1>2, <1>3, <2>2 DEF LedgerInv, BootInv, Ships
  <2>3. QED
    BY <2>1, <2>2
<1>7. RowsAreOfRuns'
  BY <1>2, <1>3, MigrationsAssumption DEF LedgerInv, RowsAreOfRuns
<1>8. QED
  BY <1>2, <1>3, <1>4, <1>6, <1>7 DEF LedgerInv, LedgerTypeOK, LedgerTellsSchema

LEMMA CheckDriftKeeps ==
  ASSUME LedgerInv, NEW b \in Boots, CheckDrift(b)
  PROVE  LedgerInv'
<1>1. /\ report' = [report EXCEPT ![b] = PendingFiles(release[b])] /\ checked' = checked \cup {b}
      /\ release[b] # NoFile /\ release[b] \in Shipped
      /\ UNCHANGED <<release, stage, file, applied, pending, outcome, lock, schema, ledger>>
  BY DEF CheckDrift, runVars, dbVars, bootVars, LedgerInv, LedgerTypeOK
<1>2. LedgerTypeOK'
  BY <1>1 DEF LedgerInv, LedgerTypeOK, PendingFiles, Ships
<1>3. ASSUME NEW c \in Boots PROVE BootInv(c)'
  <2>1. CASE c = b
    <3>1. report'[c] = PendingFiles(release[c])
      BY <1>1, <2>1 DEF LedgerInv, LedgerTypeOK
    <3>2. QED
      BY <1>1, <2>1, <3>1 DEF BootInv, PendingFiles, Ships
  <2>2. CASE c # b
    BY <1>1, <2>2 DEF LedgerInv, LedgerTypeOK, BootInv, Ships
  <2>3. QED
    BY <2>1, <2>2
<1>4. \A r \in Runs : RunInv(r)'
  BY <1>1 DEF LedgerInv, RunInv, HoldsLock, HasLedger, Applying
<1>5. QED
  BY <1>1, <1>2, <1>3, <1>4 DEF LedgerInv, LedgerTellsSchema, RowsAreOfRuns

-----------------------------------------------------------------------------
(* The theorems *)

LEMMA InitHolds == LedgerInit => LedgerInv
<1> SUFFICES ASSUME LedgerInit PROVE LedgerInv
  OBVIOUS
<1>1. LedgerTypeOK
  BY MigrationsAssumption DEF LedgerInit, LedgerTypeOK, Phases, Outcomes, Unread
<1>2. \A r \in Runs : RunInv(r)
  BY DEF LedgerInit, RunInv, HoldsLock, HasLedger, Applying
<1>3. \A b \in Boots : BootInv(b)
  BY DEF LedgerInit, BootInv
<1>4. QED
  BY <1>1, <1>2, <1>3 DEF LedgerInit, LedgerInv, LedgerTellsSchema, RowsAreOfRuns, BootInv, Unread

(* The inductive invariant: the files behind the holder of the lock are recorded as its
   release ships them. *)
THEOREM Invariance == LedgerSpec => []LedgerInv
<1>1. LedgerInv /\ [LedgerNext]_ledgerVars => LedgerInv'
  <2> SUFFICES ASSUME LedgerInv, [LedgerNext]_ledgerVars PROVE LedgerInv'
    OBVIOUS
  <2>1. CASE UNCHANGED ledgerVars
    <3>1. LedgerTypeOK' /\ LedgerTellsSchema' /\ RowsAreOfRuns'
      BY <2>1 DEF ledgerVars, runVars, dbVars, LedgerInv, LedgerTypeOK, LedgerTellsSchema,
           RowsAreOfRuns, bootVars
    <3>2. \A r \in Runs : RunInv(r)'
      BY <2>1 DEF ledgerVars, runVars, dbVars, LedgerInv, RunInv, HoldsLock, HasLedger, Applying
    <3>3. \A b \in Boots : BootInv(b)'
      BY <2>1 DEF ledgerVars, dbVars, bootVars, LedgerInv, BootInv, Ships
    <3>4. QED
      BY <3>1, <3>2, <3>3 DEF LedgerInv
  <2>2. ASSUME NEW r \in Runs, StartRun(r) \/ RunStep(r) \/ Crash(r) PROVE LedgerInv'
    BY <2>2, StartRunKeeps, TakeLockKeeps, ReadLedgerKeeps, SkipFileKeeps, MismatchFoundKeeps,
       BeginFileKeeps, ExecuteSqlKeeps, RecordFileKeeps, NoConflict, CommitFileKeeps,
       CommitUnansweredKeeps, StatementFailsKeeps, LastFileDoneKeeps, UnlockKeeps, EndRunKeeps,
       CrashKeeps DEF RunStep
  <2>3. QED
    BY <2>1, <2>2, BootKeeps, CheckDriftKeeps DEF LedgerNext
<1>2. QED
  BY InitHolds, <1>1, PTL DEF LedgerSpec

(* Type correctness. *)
THEOREM TypeCorrect == LedgerSpec => []LedgerTypeOK
BY Invariance, PTL DEF LedgerInv

(* Of each file just the text that the ledger records took effect, once; of a file
   that it does not record, none did. *)
THEOREM LedgerIsTrue == LedgerSpec => []LedgerTellsSchema
BY Invariance, PTL DEF LedgerInv

(* No run inserts a row that another has inserted since it read the ledger. *)
THEOREM NoConflicts == LedgerSpec => []RunsDoNotConflict
<1>1. LedgerInv => RunsDoNotConflict
  BY DEF LedgerInv, RunInv, RunsDoNotConflict
<1>2. QED
  BY <1>1, Invariance, PTL

(* Of every file of its release a boot that found nothing pending has one text applied:
   its own, unless a run of a release with another text of that file came first. *)
THEOREM CleanReports == LedgerSpec => []CleanReportsStayTrue
<1>1. LedgerInv => CleanReportsStayTrue
  <2> SUFFICES ASSUME LedgerInv, NEW b \in checked, report[b] = {}, NEW f \in Ships(release[b])
               PROVE  \/ schema[f] = <<release[b][f]>>
                      \/ \E r \in Runs :
                           /\ stage[r] # "idle" /\ release[r][f] \notin {NoFile, release[b][f]}
                           /\ schema[f] = <<release[r][f]>>
    BY DEF CleanReportsStayTrue
  <2>1. f \in Files /\ b \in Boots
    BY DEF Ships, LedgerInv, LedgerTypeOK
  <2>2. ledger[f] # NoFile
    BY <2>1 DEF LedgerInv, BootInv
  <2>3. schema[f] = <<ledger[f]>>
    BY <2>1, <2>2 DEF LedgerInv, LedgerTellsSchema
  <2>4. PICK r \in Runs : stage[r] # "idle" /\ release[r][f] = ledger[f]
    BY <2>1, <2>2 DEF LedgerInv, RowsAreOfRuns
  <2>5. QED
    BY <2>2, <2>3, <2>4
<1>2. QED
  BY <1>1, Invariance, PTL

(* A file is applied by the holder of the lock, after its release's earlier files. *)
THEOREM InOrder == LedgerSpec => FilesApplyInOrder
<1> DEFINE Orderly ==
      \A f \in Files : ledger'[f] # ledger[f] =>
        /\ ledger[f] = NoFile
        /\ \E r \in Runs :
             /\ lock = r /\ ledger'[f] = release[r][f]
             /\ \A g \in Ships(release[r]) : g < f => ledger[g] = release[r][g]
<1>1. LedgerInv /\ [LedgerNext]_ledgerVars => [Orderly]_ledgerVars
  <2> SUFFICES ASSUME LedgerInv, LedgerNext, NEW f \in Files, ledger'[f] # ledger[f]
               PROVE  /\ ledger[f] = NoFile
                      /\ \E r \in Runs :
                           /\ lock = r /\ ledger'[f] = release[r][f]
                           /\ \A g \in Ships(release[r]) : g < f => ledger[g] = release[r][g]
    BY DEF ledgerVars
  <2>1. PICK r \in Runs : stage[r] = "commit" /\ TakeEffect(r)
    BY DEF LedgerNext, StartRun, RunStep, TakeLock, ReadLedger, SkipFile, MismatchFound, BeginFile,
         ExecuteSql, RecordFile, RecordConflicts, CommitFile, CommitUnanswered, StatementFails,
         LastFileDone, Unlock, EndRun, Crash, Boot, CheckDrift, dbVars
  <2>2. f = file[r] /\ ledger'[f] = release[r][f]
    BY <2>1 DEF TakeEffect, LedgerInv, LedgerTypeOK
  <2>3. ledger[f] = NoFile /\ lock = r
    BY <2>1, <2>2 DEF LedgerInv, RunInv, HoldsLock, Applying
  <2>4. \A g \in Ships(release[r]) : g < f => ledger[g] = release[r][g]
    BY <2>1, <2>2 DEF LedgerInv, RunInv, HasLedger, Ships
  <2>5. QED
    BY <2>2, <2>3, <2>4
<1>2. QED
  BY <1>1, Invariance, PTL DEF LedgerSpec, FilesApplyInOrder

-----------------------------------------------------------------------------
(* ConnectionPool *)

LEMMA FiniteRequests ==
  ASSUME PoolTypeOK
  PROVE  /\ IsFiniteSet(holds) /\ IsFiniteSet(reading)
         /\ Cardinality(holds) \in Nat /\ Cardinality(reading) \in Nat
<1>1. IsFiniteSet(PoolRequests)
  BY PoolAssumption, FS_Union DEF PoolRequests
<1>2. IsFiniteSet(holds) /\ IsFiniteSet(reading)
  BY <1>1, PoolAssumption, FS_Subset DEF PoolTypeOK
<1>3. QED
  BY <1>2, FS_CardinalityType

(* A connection more is one that was free. *)
LEMMA OneMore ==
  ASSUME PoolInv, IsFree, NEW q,
         \/ holds' = holds \cup {q} /\ reading' = reading
         \/ reading' = reading \cup {q} /\ holds' = holds
  PROVE  Cardinality(holds') + Cardinality(reading') <= PoolSize
<1>1. /\ IsFiniteSet(holds) /\ IsFiniteSet(reading)
      /\ Cardinality(holds) \in Nat /\ Cardinality(reading) \in Nat
  BY FiniteRequests DEF PoolInv
<1>2. /\ Cardinality(holds \cup {q}) \in {Cardinality(holds), Cardinality(holds) + 1}
      /\ Cardinality(reading \cup {q}) \in {Cardinality(reading), Cardinality(reading) + 1}
  BY <1>1, FS_AddElement
<1>3. QED
  BY <1>1, <1>2, PoolAssumption DEF IsFree

(* No connection more. *)
LEMMA NoneMore ==
  ASSUME PoolInv, holds' \subseteq holds, reading' \subseteq reading
  PROVE  Cardinality(holds') + Cardinality(reading') <= PoolSize
<1>1. /\ IsFiniteSet(holds) /\ IsFiniteSet(reading)
      /\ Cardinality(holds) \in Nat /\ Cardinality(reading) \in Nat
  BY FiniteRequests DEF PoolInv
<1>2. /\ Cardinality(holds') \in Nat /\ Cardinality(holds') <= Cardinality(holds)
      /\ Cardinality(reading') \in Nat /\ Cardinality(reading') <= Cardinality(reading)
  BY <1>1, FS_Subset, FS_CardinalityType
<1>3. QED
  BY <1>1, <1>2, PoolAssumption DEF PoolInv

(* A request moves on: it keeps what its new phase has. *)
LEMMA Moves ==
  ASSUME PoolInv, NEW q \in PoolRequests, NEW p \in PoolPhases, phase' = [phase EXCEPT ![q] = p],
         q \in Queries => p \in {"connect", "release", "done"}, UNCHANGED row,
         Cardinality(holds') + Cardinality(reading') <= PoolSize,
         p \notin {"connect", "done"} => holds' = holds \cup {q},
         p \in {"connect", "done"} => holds' = holds \ {q},
         reading' \subseteq reading, p \notin {"inside", "answer"} => q \notin reading',
         \A x \in Rows : \/ lockedBy'[x] = Unheld
                         \/ lockedBy'[x] = lockedBy[x] /\ lockedBy[x] # q
                         \/ lockedBy'[x] = q /\ p \in {"inside", "commit"},
         lockedBy' \in [Rows -> Transactions \cup {Unheld}]
  PROVE  PoolInv'
<1> USE DEF PoolInv
<1>1. phase'[q] = p /\ \A r \in PoolRequests : r # q => phase'[r] = phase[r]
  BY DEF PoolTypeOK
<1>2. PoolTypeOK'
  BY DEF PoolTypeOK
<1>3. holds' = {r \in PoolRequests : phase'[r] \notin {"connect", "done"}}
  BY <1>1 DEF PoolTypeOK
<1>4. \A r \in Queries : phase'[r] \in {"connect", "release", "done"}
  BY <1>1 DEF PoolRequests
<1>5. \A t \in reading' : phase'[t] \in {"inside", "answer"}
  BY <1>1 DEF PoolRequests, PoolTypeOK
<1>6. \A x \in Rows : lockedBy'[x] # Unheld => phase'[lockedBy'[x]] \in {"inside", "commit"}
  BY <1>1 DEF PoolRequests, PoolTypeOK
<1>7. QED
  BY <1>2, <1>3, <1>4, <1>5, <1>6

LEMMA QueryKeeps ==
  ASSUME PoolInv, NEW q \in Queries, QueryStep(q)
  PROVE  PoolInv'
<1>1. q \in PoolRequests /\ q \notin Transactions /\ q \notin reading
  BY PoolAssumption DEF PoolRequests, PoolInv, PoolTypeOK
<1>2. /\ \A x \in Rows : lockedBy[x] = Unheld \/ lockedBy[x] # q
      /\ lockedBy \in [Rows -> Transactions \cup {Unheld}]
  BY <1>1 DEF PoolInv, PoolTypeOK
<1>3. CASE QueryConnects(q)
  <2>1. Cardinality(holds') + Cardinality(reading') <= PoolSize
    BY <1>3, OneMore DEF QueryConnects
  <2>2. QED
    BY <1>1, <1>2, <1>3, <2>1, Moves DEF QueryConnects, Proceed, PoolPhases
<1>4. CASE QueryEnds(q)
  <2>1. Cardinality(holds') + Cardinality(reading') <= PoolSize
    BY <1>4, NoneMore DEF QueryEnds
  <2>2. QED
    BY <1>1, <1>2, <1>4, <2>1, Moves DEF QueryEnds, Proceed, PoolPhases
<1>5. QED
  BY <1>3, <1>4 DEF QueryStep

(* A transaction reads through the pool as well. *)
LEMMA ReadKeeps ==
  ASSUME PoolInv, NEW t \in Transactions, ReadInside(t) \/ ReadAnswer(t)
  PROVE  PoolInv'
<1>1. /\ IsFree /\ phase[t] \in {"inside", "answer"} /\ reading' = reading \cup {t}
      /\ UNCHANGED <<phase, row, holds, lockedBy>>
  BY DEF ReadInside, ReadAnswer
<1>2. Cardinality(holds') + Cardinality(reading') <= PoolSize
  BY <1>1, OneMore
<1>3. QED
  BY <1>1, <1>2 DEF PoolInv, PoolTypeOK

LEMMA TransactionKeeps ==
  ASSUME PoolInv, NEW t \in Transactions, TransactionStep(t)
  PROVE  PoolInv'
<1> USE DEF Proceed, PoolPhases
<1>1. t \in PoolRequests /\ t \notin Queries /\ PoolTypeOK
  BY PoolAssumption DEF PoolRequests, PoolInv
<1>2. \A x \in Rows : lockedBy[x] = t => phase[t] \in {"inside", "commit"}
  BY PoolAssumption DEF PoolInv
<1>3. t \in reading => phase[t] \in {"inside", "answer"}
  BY DEF PoolInv
<1>4. phase[t] \notin {"connect", "done"} => t \in holds
  BY <1>1 DEF PoolInv
<1>5. CASE Connect(t)
  <2>1. Cardinality(holds') + Cardinality(reading') <= PoolSize
    BY <1>5, OneMore DEF Connect
  <2>2. QED
    BY <1>1, <1>2, <1>3, <1>5, <2>1, Moves DEF Connect, PoolTypeOK
<1>6. CASE LockRow(t)
  <2>1. Cardinality(holds') + Cardinality(reading') <= PoolSize
    BY <1>6, NoneMore DEF LockRow
  <2>2. lockedBy' \in [Rows -> Transactions \cup {Unheld}] /\ holds' = holds \cup {t}
    BY <1>1, <1>4, <1>6 DEF LockRow, PoolTypeOK
  <2>3. \A x \in Rows : lockedBy'[x] = t \/ (lockedBy'[x] = lockedBy[x] /\ lockedBy[x] # t)
    BY <1>1, <1>2, <1>6 DEF LockRow, PoolTypeOK
  <2>4. QED
    BY <1>1, <1>6, <2>1, <2>2, <2>3, Moves DEF LockRow
<1>7. /\ Unlocked(t) \in [Rows -> Transactions \cup {Unheld}]
      /\ \A x \in Rows : \/ Unlocked(t)[x] = Unheld
                         \/ Unlocked(t)[x] = lockedBy[x] /\ lockedBy[x] # t
  BY <1>1 DEF Unlocked, PoolTypeOK
<1>8. CASE ReadInsideEnds(t)
  <2>1. Cardinality(holds') + Cardinality(reading') <= PoolSize
    BY <1>8, NoneMore DEF ReadInsideEnds
  <2>2. holds' = holds \cup {t}
    BY <1>4, <1>8 DEF ReadInsideEnds
  <2>3. QED
    BY <1>1, <1>8, <2>1, <2>2, Moves DEF ReadInsideEnds, PoolTypeOK
<1>9. CASE ReadAnswerEnds(t)
  <2>1. Cardinality(holds') + Cardinality(reading') <= PoolSize
    BY <1>9, NoneMore DEF ReadAnswerEnds
  <2>2. holds' = holds \cup {t}
    BY <1>4, <1>9 DEF ReadAnswerEnds
  <2>3. QED
    BY <1>1, <1>2, <1>9, <2>1, <2>2, Moves DEF ReadAnswerEnds, PoolTypeOK
<1>10. CASE Commit(t)
  <2>1. Cardinality(holds') + Cardinality(reading') <= PoolSize
    BY <1>10, NoneMore DEF Commit
  <2>2. holds' = holds \cup {t}
    BY <1>4, <1>10 DEF Commit
  <2>3. reading' \subseteq reading /\ t \notin reading' /\ lockedBy' = Unlocked(t) /\ UNCHANGED row
    BY <1>3, <1>10 DEF Commit
  <2>4. CASE phase' = [phase EXCEPT ![t] = "answer"]
    <3>1. /\ lockedBy' \in [Rows -> Transactions \cup {Unheld}]
          /\ \A x \in Rows : \/ lockedBy'[x] = Unheld
                             \/ lockedBy'[x] = lockedBy[x] /\ lockedBy[x] # t
                             \/ lockedBy'[x] = t /\ "answer" \in {"inside", "commit"}
      BY <1>7, <2>3
    <3>2. QED
      BY <1>1, <2>1, <2>2, <2>3, <2>4, <3>1, Moves
  <2>5. CASE phase' = [phase EXCEPT ![t] = "release"]
    <3>1. /\ lockedBy' \in [Rows -> Transactions \cup {Unheld}]
          /\ \A x \in Rows : \/ lockedBy'[x] = Unheld
                             \/ lockedBy'[x] = lockedBy[x] /\ lockedBy[x] # t
                             \/ lockedBy'[x] = t /\ "release" \in {"inside", "commit"}
      BY <1>7, <2>3
    <3>2. QED
      BY <1>1, <2>1, <2>2, <2>3, <2>5, <3>1, Moves
  <2>6. QED
    BY <1>10, <2>4, <2>5 DEF Commit
<1>11. CASE RollbackTransaction(t)
  <2>1. Cardinality(holds') + Cardinality(reading') <= PoolSize
    BY <1>11, NoneMore DEF RollbackTransaction
  <2>2. holds' = holds \cup {t}
    BY <1>4, <1>11 DEF RollbackTransaction
  <2>3. /\ reading' \subseteq reading /\ t \notin reading' /\ lockedBy' = Unlocked(t) /\ UNCHANGED row
        /\ phase' = [phase EXCEPT ![t] = "release"]
    BY <1>11 DEF RollbackTransaction
  <2>4. /\ lockedBy' \in [Rows -> Transactions \cup {Unheld}]
        /\ \A x \in Rows : \/ lockedBy'[x] = Unheld
                           \/ lockedBy'[x] = lockedBy[x] /\ lockedBy[x] # t
                           \/ lockedBy'[x] = t /\ "release" \in {"inside", "commit"}
    BY <1>7, <2>3
  <2>5. QED
    BY <1>1, <2>1, <2>2, <2>3, <2>4, Moves
<1>12. CASE ReleaseClient(t)
  <2>1. Cardinality(holds') + Cardinality(reading') <= PoolSize
    BY <1>12, NoneMore DEF ReleaseClient
  <2>2. QED
    BY <1>1, <1>2, <1>3, <1>12, <2>1, Moves DEF ReleaseClient, PoolTypeOK
<1>13. QED
  BY <1>5, <1>6, <1>8, <1>9, <1>10, <1>11, <1>12, ReadKeeps DEF TransactionStep

LEMMA PoolInitHolds == PoolInit => PoolInv
<1> SUFFICES ASSUME PoolInit PROVE PoolInv
  OBVIOUS
<1>1. Cardinality(holds) = 0 /\ Cardinality(reading) = 0
  BY FS_EmptySet DEF PoolInit
<1>2. QED
  BY <1>1, PoolAssumption DEF PoolInit, PoolInv, PoolTypeOK, PoolPhases, PoolRequests

(* The inductive invariant: connections and rows are held by whom the code has them held. *)
THEOREM PoolInvariance == PoolSpec => []PoolInv
<1>1. PoolInv /\ [PoolNext]_poolVars => PoolInv'
  <2> SUFFICES ASSUME PoolInv, [PoolNext]_poolVars PROVE PoolInv'
    OBVIOUS
  <2>1. CASE UNCHANGED poolVars
    BY <2>1 DEF poolVars, PoolInv, PoolTypeOK
  <2>2. QED
    BY <2>1, QueryKeeps, TransactionKeeps DEF PoolNext
<1>2. QED
  BY PoolInitHolds, <1>1, PTL DEF PoolSpec

(* What it takes to be stuck. *)
LEMMA FullWhenStuck ==
  ASSUME PoolInv, Stuck
  PROVE  /\ Cardinality(holds) = PoolSize
         /\ \A q \in holds : q \in Transactions /\ phase[q] \in {"row", "inside", "answer"}
<1> USE DEF PoolInv
<1>1. \A q \in PoolRequests : phase[q] # "done" => Waiting(q)
  BY DEF Stuck, Unfinished
<1>2. reading = {}
  BY <1>1 DEF PoolTypeOK, Waiting, PoolRequests
<1>3. ~IsFree
  <2>1. PICK q \in PoolRequests : phase[q] # "done"
    BY DEF Stuck, Unfinished
  <2>2. Waiting(q)
    BY <1>1, <2>1
  <2>3. CASE phase[q] = "row" /\ lockedBy[row[q]] # Unheld
    <3>1. q \in Transactions /\ row[q] \in Rows
      BY <2>3 DEF PoolRequests, PoolTypeOK
    <3>2. /\ lockedBy[row[q]] \in Transactions
          /\ phase[lockedBy[row[q]]] \in {"inside", "commit"}
      BY <2>3, <3>1 DEF PoolTypeOK
    <3>3. Waiting(lockedBy[row[q]])
      BY <1>1, <3>2 DEF PoolRequests
    <3>4. QED
      BY <3>2, <3>3 DEF Waiting
  <2>4. QED
    BY <2>2, <2>3 DEF Waiting
<1>4. Cardinality(holds) = PoolSize
  BY <1>2, <1>3, FS_EmptySet, FiniteRequests, PoolAssumption DEF IsFree
<1>5. ASSUME NEW q \in holds
      PROVE  q \in Transactions /\ phase[q] \in {"row", "inside", "answer"}
  <2>1. q \in PoolRequests /\ phase[q] \notin {"connect", "done"}
    OBVIOUS
  <2>2. Waiting(q)
    BY <1>1, <2>1
  <2>3. QED
    BY <2>1, <2>2 DEF Waiting, PoolRequests
<1>6. QED
  BY <1>4, <1>5

(* The requests are stuck only when every connection is held by a transaction that wants a
   second one or waits for the row of another. *)
THEOREM StuckOnlyWhenFull == PoolSpec => []StuckOnFullPool
<1>1. PoolInv => StuckOnFullPool
  BY FullWhenStuck DEF StuckOnFullPool
<1>2. QED
  BY <1>1, PoolInvariance, PTL

(* Fewer open transactions than connections never get stuck, however many queries there are. *)
THEOREM FewNeverStick == PoolSpec => [](Cardinality(OpenTransactions) < PoolSize => ~Stuck)
<1>1. PoolInv => (Cardinality(OpenTransactions) < PoolSize => ~Stuck)
  <2> SUFFICES ASSUME PoolInv, Stuck PROVE ~(Cardinality(OpenTransactions) < PoolSize)
    OBVIOUS
  <2>1. holds = OpenTransactions
    <3>1. OpenTransactions \subseteq holds
      BY DEF PoolInv, OpenTransactions, PoolRequests
    <3>2. QED
      BY <3>1, FullWhenStuck DEF PoolInv, OpenTransactions
  <2>2. QED
    BY <2>1, FullWhenStuck, PoolAssumption
<1>2. QED
  BY <1>1, PoolInvariance, PTL
=============================================================================
