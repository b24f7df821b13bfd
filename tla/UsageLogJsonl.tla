---------------------------- MODULE UsageLogJsonl ----------------------------
(***************************************************************************)
(* TokenLoggers in JSONL mode (internal/logging/token.go) that append to   *)
(* one path.  Normally there is one; after a reload that changed only      *)
(* retention_days the old one and the new one share the path until the old *)
(* one is closed, and requests may still hold the old one.                 *)
(*                                                                         *)
(* Files are numbered; `path' is the one the name leads to.  A descriptor  *)
(* keeps its file when the name is moved.  Entries are numbered in the     *)
(* order of their writes; those up to the cutoff are past the retention.   *)
(***************************************************************************)
EXTENDS Naturals, SequencesExt, Retention

CONSTANTS Loggers, First,  \* First is the logger made at start-up
          MaxLines,        \* bound: calls of Log
          MaxFiles         \* bound: files ever made

ASSUME JsonlAssumption == First \in Loggers /\ MaxLines \in Nat /\ MaxFiles \in Nat \ {0}

VARIABLES newest,  \* entries so far
          cutoff,  \* the newest entry that retention_days has reached
          file,    \* file[f]: its lines
          path,    \* the file that l.path names
          files,   \* files made so far
          logger,  \* logger[l]: its fields and the locals of its cleanup; l.mu is
                   \* held while pc is "rewrite", and jsonlStopCh is closed when
                   \* it is `closing'
          written  \* history: the entries whose write succeeded

jsonlVars == <<newest, cutoff, file, path, files, logger, written>>

Opened(f) == [pc |-> "open", file |-> f, closing |-> FALSE, kept |-> <<>>]
Unmade == [Opened(1) EXCEPT !.pc = "none"]

JsonlInit ==
    /\ newest = 0 /\ cutoff = 0 /\ written = {}
    /\ file = [f \in 1..MaxFiles |-> <<>>]
    /\ path = 1 /\ files = 1
    /\ logger = [l \in Loggers |-> IF l = First THEN Opened(1) ELSE Unmade]

\* newJSONLLogger, on a reload.
Open(l) ==
    /\ logger[l].pc = "none"
    /\ logger' = [logger EXCEPT ![l] = Opened(path)]
    /\ UNCHANGED <<newest, cutoff, file, path, files, written>>

\* Mutant: Log does not take l.mu.
LogUnlocked(l) ==
    /\ newest < MaxLines /\ logger[l].pc # "none"
    /\ newest' = newest + 1
    /\ IF logger[l].pc = "closed" THEN UNCHANGED <<file, written>>
       ELSE /\ file' = [file EXCEPT ![logger[l].file] = Append(@, newest + 1)]
            /\ written' = written \cup {newest + 1}
    /\ UNCHANGED <<cutoff, path, files, logger>>

\* Log, under l.mu.  A write to a closed file fails, and the entry is gone.
LogToFile(l) ==
    /\ newest < MaxLines /\ logger[l].pc \in {"open", "closed"}
    /\ newest' = newest + 1
    /\ IF logger[l].pc = "closed" THEN UNCHANGED <<file, written>>
       ELSE /\ file' = [file EXCEPT ![logger[l].file] = Append(@, newest + 1)]
            /\ written' = written \cup {newest + 1}
    /\ UNCHANGED <<cutoff, path, files, logger>>

\* cleanupOldJSONLEntries, under l.mu: the file is read by its name ...
ReadAll(l) ==
    /\ logger[l].pc = "open" /\ files < MaxFiles
    /\ \E e \in ToSet(file[path]) : e <= cutoff
    /\ \E kept \in Without(file[path], 1..cutoff) :
          logger' = [logger EXCEPT ![l].pc = "rewrite", ![l].kept = kept]
    /\ UNCHANGED <<newest, cutoff, file, path, files, written>>

\* ... and replaced by a new one with what is kept, which is opened first.
Rewrite(l) ==
    /\ logger[l].pc = "rewrite" /\ files < MaxFiles
    /\ files' = files + 1
    /\ file' = [file EXCEPT ![files + 1] = logger[l].kept]
    /\ path' = files + 1
    /\ logger' = [logger EXCEPT ![l].pc = "open", ![l].file = files + 1, ![l].kept = <<>>]
    /\ UNCHANGED <<newest, cutoff, written>>

\* Writing, reopening or renaming the temporary file failed.
RewriteFails(l) ==
    /\ logger[l].pc = "rewrite"
    /\ logger' = [logger EXCEPT ![l].pc = "open", ![l].kept = <<>>]
    /\ UNCHANGED <<newest, cutoff, file, path, files, written>>

\* Close: the cleanup loop is told to stop ...
StopCleanup(l) ==
    /\ logger[l].pc \in {"open", "rewrite"} /\ ~logger[l].closing
    /\ logger' = [logger EXCEPT ![l].closing = TRUE]
    /\ UNCHANGED <<newest, cutoff, file, path, files, written>>

\* ... and the file is closed under l.mu, so after a cleanup that is under
\* way, whether or not the wait of 5 s for the loop was long enough.
CloseFile(l) ==
    /\ logger[l].closing /\ logger[l].pc = "open"
    /\ logger' = [logger EXCEPT ![l].pc = "closed"]
    /\ UNCHANGED <<newest, cutoff, file, path, files, written>>

\* Time passes.
Expire ==
    /\ cutoff < newest
    /\ cutoff' = cutoff + 1
    /\ UNCHANGED <<newest, file, path, files, logger, written>>

JsonlNext ==
    \/ \E l \in Loggers : \/ Open(l) \/ LogToFile(l) \/ ReadAll(l) \/ Rewrite(l)
                         \/ RewriteFails(l) \/ StopCleanup(l) \/ CloseFile(l)
    \/ Expire

JsonlSpec == JsonlInit /\ [][JsonlNext]_jsonlVars

-----------------------------------------------------------------------------
(* Properties.                                                             *)

\* Cleanups, also two at once or one that failed half-way, neither reorder
\* the lines of the file nor repeat one.
LinesInOrder == \A i, j \in DOMAIN file[path] : i < j => file[path][i] < file[path][j]

\* What was written and is within the retention is in the file that the name
\* leads to, whatever cleanups and failures of them came in between, while one
\* logger has the file.  Two loggers lose entries: the cleanup of one moves the
\* name away from the file that the other one appends to, and l.mu is not
\* shared.
EntriesSurviveCleanup ==
    (\A l \in Loggers \ {First} : logger[l].pc = "none")
        => written \ (1..cutoff) \subseteq ToSet(file[path])

==============================================================================
