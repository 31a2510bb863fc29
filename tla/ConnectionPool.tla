--------------------------- MODULE ConnectionPool ---------------------------
(***************************************************************************)
(* The API's database connections: one pg.Pool (apps/api/src/data/pool.ts) *)
(* of PoolSize connections and no time limit on waiting for one.  A plain  *)
(* query takes a connection for one statement.  A transaction keeps its    *)
(* connection from BEGIN until the finally clause releases it, locks the   *)
(* row it is about, and in the meantime reads through the pool as well:    *)
(* players.get and the scoring read of the tee configuration while the row *)
(* is locked (recalculation.service.ts, rounds.service.ts), and the        *)
(* transition's answer, repository.get, after COMMIT and before release.   *)
(***************************************************************************)
EXTENDS Naturals, FiniteSets

CONSTANTS Queries,      \* requests that make one plain query
          Transactions, \* requests that run one transaction
          Rows,         \* rows that transactions lock first
          PoolSize,     \* pg's default for max, which pool.ts leaves as it is
          Unheld          \* an unlocked row

ASSUME PoolAssumption ==
  /\ Queries \cap Transactions = {}
  /\ PoolSize \in Nat \ {0}
  /\ Unheld \notin Transactions
  /\ IsFiniteSet(Queries) /\ IsFiniteSet(Transactions)

VARIABLES phase,        \* where each request is
          row,          \* row each transaction is about
          holds,        \* requests that hold the connection they began on
          reading,      \* transactions that hold a second connection
          lockedBy      \* holder of each row's lock

poolVars == <<phase, row, holds, reading, lockedBy>>

PoolRequests == Queries \cup Transactions

(* A transaction waits for a connection, for its row, for the connection   *)
(* of a read inside, and, the row unlocked, for that of the last read.     *)
PoolPhases == {"connect", "row", "inside", "commit", "answer", "release", "done"}

PoolTypeOK ==
  /\ phase \in [PoolRequests -> PoolPhases]
  /\ row \in [Transactions -> Rows]
  /\ holds \subseteq PoolRequests
  /\ reading \subseteq Transactions
  /\ lockedBy \in [Rows -> Transactions \cup {Unheld}]

PoolInit ==
  /\ phase = [q \in PoolRequests |-> "connect"]
  /\ row \in [Transactions -> Rows]
  /\ holds = {} /\ reading = {}
  /\ lockedBy = [x \in Rows |-> Unheld]

-----------------------------------------------------------------------------

Proceed(q, next) == phase' = [phase EXCEPT ![q] = next]

IsFree == Cardinality(holds) + Cardinality(reading) < PoolSize

(* pool.query of a request outside a transaction: it takes a connection... *)
QueryConnects(q) ==
  /\ phase[q] = "connect" /\ IsFree
  /\ holds' = holds \cup {q}
  /\ Proceed(q, "release")
  /\ UNCHANGED <<row, reading, lockedBy>>

(* ... and gives it back with its answer.                                  *)
QueryEnds(q) ==
  /\ phase[q] = "release"
  /\ holds' = holds \ {q}
  /\ Proceed(q, "done")
  /\ UNCHANGED <<row, reading, lockedBy>>

(* pool.connect() and BEGIN                                                *)
Connect(t) ==
  /\ phase[t] = "connect" /\ IsFree
  /\ holds' = holds \cup {t}
  /\ Proceed(t, "row")
  /\ UNCHANGED <<row, reading, lockedBy>>

(* SELECT ... FOR UPDATE                                                   *)
LockRow(t) ==
  /\ phase[t] = "row" /\ lockedBy[row[t]] = Unheld
  /\ lockedBy' = [lockedBy EXCEPT ![row[t]] = t]
  /\ Proceed(t, "inside")
  /\ UNCHANGED <<row, holds, reading>>

(* A read through the pool, not through the transaction's client.          *)
ReadInside(t) ==
  /\ phase[t] = "inside"
  /\ t \notin reading /\ IsFree
  /\ reading' = reading \cup {t}
  /\ UNCHANGED <<phase, row, holds, lockedBy>>

ReadInsideEnds(t) ==
  /\ phase[t] = "inside" /\ t \in reading
  /\ reading' = reading \ {t}
  /\ Proceed(t, "commit")
  /\ UNCHANGED <<row, holds, lockedBy>>

Unlocked(t) == [x \in Rows |-> IF lockedBy[x] = t THEN Unheld ELSE lockedBy[x]]

(* COMMIT; transitions answer with what they read next, others do not.     *)
Commit(t) ==
  /\ phase[t] = "commit"
  /\ lockedBy' = Unlocked(t)
  /\ Proceed(t, "answer") \/ Proceed(t, "release")
  /\ UNCHANGED <<row, holds, reading>>

ReadAnswer(t) ==
  /\ phase[t] = "answer"
  /\ t \notin reading /\ IsFree
  /\ reading' = reading \cup {t}
  /\ UNCHANGED <<phase, row, holds, lockedBy>>

ReadAnswerEnds(t) ==
  /\ phase[t] = "answer" /\ t \in reading
  /\ reading' = reading \ {t}
  /\ Proceed(t, "release")
  /\ UNCHANGED <<row, holds, lockedBy>>

\* Mutant: the error leaves by a path that does not pass client.release().
RollbackKeepsClient(t) ==
  /\ phase[t] \in {"row", "inside", "commit", "answer"}
  /\ phase[t] = "row" => lockedBy[row[t]] = Unheld
  /\ phase[t] \in {"inside", "answer"} => t \in reading
  /\ reading' = reading \ {t}
  /\ lockedBy' = Unlocked(t)
  /\ Proceed(t, "done")
  /\ UNCHANGED <<row, holds>>

(* An error in the try block: a statement's, or the nested read's.  The    *)
(* transaction rolls back and falls through to the finally clause.         *)
RollbackTransaction(t) ==
  /\ phase[t] \in {"row", "inside", "commit", "answer"}
  /\ phase[t] = "row" => lockedBy[row[t]] = Unheld
  /\ phase[t] \in {"inside", "answer"} => t \in reading
  /\ reading' = reading \ {t}
  /\ lockedBy' = Unlocked(t)
  /\ Proceed(t, "release")
  /\ UNCHANGED <<row, holds>>

(* client.release()                                                        *)
ReleaseClient(t) ==
  /\ phase[t] = "release"
  /\ holds' = holds \ {t}
  /\ Proceed(t, "done")
  /\ UNCHANGED <<row, reading, lockedBy>>

-----------------------------------------------------------------------------

QueryStep(q) == QueryConnects(q) \/ QueryEnds(q)

TransactionStep(t) ==
  \/ Connect(t) \/ LockRow(t) \/ ReadInside(t) \/ ReadInsideEnds(t)
  \/ Commit(t) \/ ReadAnswer(t) \/ ReadAnswerEnds(t) \/ RollbackTransaction(t) \/ ReleaseClient(t)

PoolNext ==
  \/ \E q \in Queries : QueryStep(q)
  \/ \E t \in Transactions : TransactionStep(t)

PoolSpec == PoolInit /\ [][PoolNext]_poolVars

-----------------------------------------------------------------------------

Waiting(q) ==
  \/ phase[q] = "connect" /\ ~IsFree
  \/ phase[q] = "row" /\ lockedBy[row[q]] # Unheld
  \/ phase[q] \in {"inside", "answer"} /\ q \notin reading /\ ~IsFree

Unfinished == {q \in PoolRequests : phase[q] # "done"}

Stuck == Unfinished # {} /\ \A q \in Unfinished : Waiting(q)

(* PoolRequests wait on each other for good only if the pool's connections are *)
(* all held by transactions that want a second one, or wait for the row of *)
(* one that does: a plain query, or an error path, never uses one up.      *)
StuckOnFullPool ==
  Stuck => /\ Cardinality(holds) = PoolSize
           /\ \A q \in holds : q \in Transactions /\ phase[q] \in {"row", "inside", "answer"}

-----------------------------------------------------------------------------
(* The inductive invariant: a connection is held from connecting to release *)
(* and not a moment longer, and so is a row between its lock and COMMIT.    *)

OpenTransactions == {t \in Transactions : phase[t] \notin {"connect", "done"}}

PoolInv ==
  /\ PoolTypeOK
  /\ holds = {q \in PoolRequests : phase[q] \notin {"connect", "done"}}
  /\ \A q \in Queries : phase[q] \in {"connect", "release", "done"}
  /\ \A t \in reading : phase[t] \in {"inside", "answer"}
  /\ \A x \in Rows : lockedBy[x] # Unheld => phase[lockedBy[x]] \in {"inside", "commit"}
  /\ Cardinality(holds) + Cardinality(reading) <= PoolSize
=============================================================================
