--------------------------- MODULE UsageLogSqlite ---------------------------
(***************************************************************************)
(* A TokenLogger in SQLite mode (internal/logging/token.go): Log sends to  *)
(* a buffered channel without blocking, batchWriter collects entries and   *)
(* writes them in transactions, Close drains the channel and closes the    *)
(* database.  Entries are numbered in the order in which Log sees them.    *)
(*                                                                         *)
(* Close is called once and Log not after it (Reload is about what         *)
(* happens otherwise).                                                     *)
(***************************************************************************)
EXTENDS Naturals, FiniteSets, SequencesExt, Retention

CONSTANTS ChanCap,    \* the 256 of logCh
          BatchCap,   \* the 32 of batchWriter
          MaxEntries  \* bound: calls of Log

ASSUME UsageLogAssumption == ChanCap \in Nat /\ BatchCap \in Nat \ {0} /\ MaxEntries \in Nat

VARIABLES logged,   \* calls of Log so far
          logCh,    \* the channel's buffer
          open,     \* logCh is not closed
          writer,   \* pc of batchWriter
          batch,    \* its batch
          db,       \* rows of token_usage, in the order of their ids
          dbOpen,
          dropped,  \* droppedEntries
          closer,   \* pc of Close
          expired   \* history: entries that cleanupOldEntries deleted

sqliteVars == <<logged, logCh, open, writer, batch, db, dbOpen, dropped, closer, expired>>
store == <<db, dbOpen, expired>>

Entries == 1..logged

SqliteInit ==
    /\ logged = 0 /\ logCh = <<>> /\ open = TRUE /\ writer = "select" /\ batch = <<>>
    /\ db = <<>> /\ dbOpen = TRUE /\ dropped = 0 /\ closer = "none" /\ expired = {}

-----------------------------------------------------------------------------
(* Log.                                                                    *)

LogToChannel ==
    /\ open /\ logged < MaxEntries
    /\ logged' = logged + 1
    /\ IF Len(logCh) < ChanCap
       THEN logCh' = Append(logCh, logged + 1) /\ UNCHANGED dropped
       ELSE dropped' = dropped + 1 /\ UNCHANGED logCh
    /\ UNCHANGED <<open, writer, batch, store, closer>>

-----------------------------------------------------------------------------
(* batchWriter.  Its last write, after logCh was closed and emptied, is    *)
(* "last" and "last_retry"; then it is "done".                             *)

Receive ==
    /\ writer = "select" /\ logCh # <<>>
    /\ batch' = Append(batch, Head(logCh)) /\ logCh' = Tail(logCh)
    /\ writer' = IF Len(batch) + 1 >= BatchCap THEN "write" ELSE "select"
    /\ UNCHANGED <<logged, open, store, dropped, closer>>

\* The ticker of 500 ms.
Flush ==
    /\ writer = "select" /\ batch # <<>>
    /\ writer' = "write"
    /\ UNCHANGED <<logged, logCh, open, batch, store, dropped, closer>>

\* Mutant: the rest of the batch is not written when the channel is closed.
ReceiveClosedForgets ==
    /\ writer = "select" /\ logCh = <<>> /\ ~open
    /\ writer' = "done"
    /\ UNCHANGED <<logged, logCh, open, batch, store, dropped, closer>>

ReceiveClosed ==
    /\ writer = "select" /\ logCh = <<>> /\ ~open
    /\ writer' = IF batch = <<>> THEN "done" ELSE "last"
    /\ UNCHANGED <<logged, logCh, open, batch, store, dropped, closer>>

\* cleanupOldEntries deletes the rows before the cutoff, or fails.
Cleanup ==
    /\ writer = "select" /\ dbOpen
    /\ \E old \in SUBSET ToSet(db) :
          /\ db' \in Without(db, old)
          /\ expired' = expired \cup old
    /\ UNCHANGED <<logged, logCh, open, writer, batch, dbOpen, dropped, closer>>

After(pc) == IF pc \in {"last", "last_retry"} THEN "done" ELSE "select"

\* tryWriteBatch: one transaction.  One that db.Close finds running may still
\* commit, which nothing can tell from a commit just before the Close.
Commit ==
    /\ writer \in {"write", "retry", "last", "last_retry"} /\ dbOpen
    /\ db' = db \o batch /\ batch' = <<>>
    /\ writer' = After(writer)
    /\ UNCHANGED <<logged, logCh, open, dbOpen, expired, dropped, closer>>

\* Mutant: no transaction, the rows before the error stay.
FailPartly ==
    /\ writer \in {"write", "last"}
    /\ writer' = IF writer = "write" THEN "retry" ELSE "last_retry"
    /\ db' = db \o SubSeq(batch, 1, Len(batch) - 1)
    /\ UNCHANGED <<logged, logCh, open, batch, dbOpen, expired, dropped, closer>>

\* The first attempt is rolled back; the same entries are tried again.
Fail ==
    /\ writer \in {"write", "last"}
    /\ writer' = IF writer = "write" THEN "retry" ELSE "last_retry"
    /\ UNCHANGED <<logged, logCh, open, batch, store, dropped, closer>>

\* Mutant: the batch is kept for the next write, and counted all the same.
GiveUpKeeping ==
    /\ writer \in {"retry", "last_retry"}
    /\ dropped' = dropped + Len(batch)
    /\ writer' = After(writer)
    /\ UNCHANGED <<logged, logCh, open, batch, store, closer>>

\* So is the second one, and the entries are dropped.
GiveUp ==
    /\ writer \in {"retry", "last_retry"}
    /\ dropped' = dropped + Len(batch) /\ batch' = <<>>
    /\ writer' = After(writer)
    /\ UNCHANGED <<logged, logCh, open, store, closer>>

Write == Commit \/ Fail \/ GiveUp
Writer == Receive \/ Flush \/ ReceiveClosed \/ Cleanup \/ Write

-----------------------------------------------------------------------------
(* Close.                                                                  *)

CloseChannel ==
    /\ closer = "none"
    /\ open' = FALSE /\ closer' = "waiting"
    /\ UNCHANGED <<logged, logCh, writer, batch, store, dropped>>

Drained ==
    /\ closer = "waiting" /\ writer = "done"
    /\ dbOpen' = FALSE /\ closer' = "drained"
    /\ UNCHANGED <<logged, logCh, open, writer, batch, db, expired, dropped>>

\* 5 s passed: the database is closed under the writer, which goes on and
\* fails.
Forced ==
    /\ closer = "waiting" /\ writer # "done"
    /\ dbOpen' = FALSE /\ closer' = "forced"
    /\ UNCHANGED <<logged, logCh, open, writer, batch, db, expired, dropped>>

SqliteNext == LogToChannel \/ Writer \/ CloseChannel \/ Drained \/ Forced

SqliteSpec == SqliteInit /\ [][SqliteNext]_sqliteVars

\* The writer is a goroutine that never blocks for good: a write succeeds or
\* fails, the busy time-out being 5 s.
SqliteFairness == /\ WF_sqliteVars(Receive \/ ReceiveClosed)
                  /\ WF_sqliteVars(Flush)
                  /\ WF_sqliteVars(Write)

-----------------------------------------------------------------------------
(* Properties.                                                             *)

Pending == ToSet(logCh) \cup ToSet(batch)
Stored  == ToSet(db) \cup expired

\* Nothing is lost without being counted: whatever writes fail, and also when
\* the database is closed under the writer, DroppedEntries is the number of
\* entries that are neither stored nor still on their way.
DropsAreCounted == dropped = Cardinality(Entries \ (Pending \cup Stored))

\* Rows have the order of the calls of Log and no entry is stored twice, in
\* spite of retries.
OrderKept ==
    LET all == db \o batch \o logCh
    IN  \A i, j \in DOMAIN all : i < j => all[i] < all[j]

\* A Close that was not forced leaves nothing behind: every entry ever logged
\* is in the database, expired, or counted as dropped.
CloseDrains == closer = "drained" => Pending = {}

\* Every entry that Log took is stored or dropped in the end, by ticks alone,
\* and also if the logger is closed.
EveryEntrySettles == \A e \in 1..MaxEntries : e \in Pending ~> e \notin Pending

=============================================================================
