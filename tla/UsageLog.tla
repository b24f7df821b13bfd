------------------------------ MODULE UsageLog ------------------------------
(***************************************************************************)
(* The TokenLogger of internal/logging/token.go: NewTokenLogger takes the  *)
(* mode from the extension of the file's name, and each method begins with *)
(* a test of it.                                                           *)
(***************************************************************************)
EXTENDS UsageLogSqlite, UsageLogJsonl

VARIABLE mode

vars == <<mode, sqliteVars, jsonlVars>>

\* NewTokenLogger.
Init == /\ mode \in {"sqlite", "jsonl"}
        /\ SqliteInit
        /\ JsonlInit

Next == \/ mode = "sqlite" /\ SqliteNext /\ UNCHANGED <<mode, jsonlVars>>
        \/ mode = "jsonl" /\ JsonlNext /\ UNCHANGED <<mode, sqliteVars>>

Spec == Init /\ [][Next]_vars
FairSpec == Spec /\ SqliteFairness

\* Entries have the order of the calls of Log and none is there twice, in
\* either mode: in spite of transactions that are tried again (rows and the
\* batch), and of cleanups that fail half-way or that two loggers make (lines).
EntriesInOrder == OrderKept /\ LinesInOrder
=============================================================================
