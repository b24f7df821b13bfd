--------------------------- MODULE MCHttpForward ---------------------------
(* Small instances of HttpForward for TLC. *)
EXTENDS HttpForward

CONSTANTS r1, r2, b1, b2

TwoRequests == {r1, r2}
OneBackend  == {b1}
TwoBackends == {b1, b2}

\* An alias that both backends serve, the first with priority.
FirstThenSecond == {<<b1, b2>>}
OnlyFirst == {<<b1>>}

NoneChecked  == {}
FirstChecked == {b1}
=============================================================================
