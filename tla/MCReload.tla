------------------------------ MODULE MCReload ------------------------------
(* Small instances of Reload for TLC. *)
EXTENDS Reload

CONSTANTS b1, b2, r1, p1, p2, c1, sqlite, other

OneBackend   == {b1}
TwoBackends  == {b1, b2}
OneRequest   == {r1}
OneReloader  == {p1}
TwoReloaders == {p1, p2}
OneCloser    == {c1}
NoOne        == {}

\* Two reloads and a shutdown, or a reload and a request.
CallsOrRequest == {[callers |-> {p1, p2, c1}, requests |-> {}, gens |-> 3],
                   [callers |-> {p1}, requests |-> {r1}, gens |-> 2]}
ReloadAndRequest == {[callers |-> {p1}, requests |-> {r1}, gens |-> 2]}

Settings == [threshold |-> 1, recovery |-> 1, slots |-> 1]

\* The first backend is checked actively; or the second one is disabled, nothing
\* is checked and the token log is another file.
Start  == [listed |-> Backends, enabled |-> Backends, checked |-> {b1}, tokenLog |-> sqlite]
Edited == [listed |-> Backends, enabled |-> {b1}, checked |-> {}, tokenLog |-> other]
Toggle == {Start, Edited}
=============================================================================
