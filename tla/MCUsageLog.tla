----------------------------- MODULE MCUsageLog -----------------------------
(* Small instances of UsageLog for TLC. *)
EXTENDS UsageLog

CONSTANTS old, new

TwoLoggers == {old, new}
=============================================================================
