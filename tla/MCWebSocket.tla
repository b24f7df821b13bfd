----------------------------- MODULE MCWebSocket -----------------------------
(* Small instances of WebSocket for TLC. *)
EXTENDS WebSocket

CONSTANTS s1, b1, b2, b3

OneSession    == {s1}
ThreeBackends == {b1, b2, b3}

\* No backend, a fail-over, and a backend without WebSocket that repeats the
\* name of the model as an alias and so is a candidate twice.
Lists == {<<>>, <<b1, b2>>, <<b3, b3>>}
ThirdOnly == {b3}

Settings == [threshold |-> 2, recovery |-> 1, slots |-> 1]
=============================================================================
