--------------------------- MODULE CircuitBreaker ---------------------------
(***************************************************************************)
(* The circuit-breaker entry that a HealthManager keeps for one backend    *)
(* (internal/server/health.go) and the operations on it.  Every operation  *)
(* of the code runs under the mutex of its entry, so each is one operator  *)
(* from entry to entry here and one atomic step in the modules that use    *)
(* it.                                                                     *)
(*                                                                         *)
(* lastFailTime is modelled by `age', the ticks elapsed since it was set:  *)
(* the code only compares now - lastFailTime with RecoveryTimeout.  Ages   *)
(* stop at MaxAge; a zero lastFailTime ("long ago") is an age of MaxAge.   *)
(***************************************************************************)
EXTENDS Integers

CONSTANT MaxAge  \* bound on ages; at least every RecoveryTimeout in use

ASSUME MaxAgeAssumption == MaxAge \in Nat

CircuitState == {"healthy", "tripped", "probing"}

\* HealthManagerConfig after the defaults of NewHealthManager.
BreakerConfig == [threshold : Nat \ {0}, recovery : 1..MaxAge, slots : Nat \ {0}]

\* `defaultRecovery' stands for the 30 seconds of the code.
Normalised(raw, defaultRecovery) ==
    [threshold |-> IF raw.threshold <= 0 THEN 1 ELSE raw.threshold,
     recovery  |-> IF raw.recovery <= 0 THEN defaultRecovery ELSE raw.recovery,
     slots     |-> IF raw.slots <= 0 THEN 1 ELSE raw.slots]

BackendHealth == [state : CircuitState, fails : Nat, age : 0..MaxAge, inFlight : Nat]

\* What getOrCreate puts in the map for a backend it has not seen.
FreshEntry == [state |-> "healthy", fails |-> 0, age |-> MaxAge, inFlight |-> 0]

Aged(e) == [e EXCEPT !.age = IF @ < MaxAge THEN @ + 1 ELSE @]

-----------------------------------------------------------------------------
(* The operations.  c is the manager's configuration, e the entry.         *)

\* maybeMoveToHalfOpenLocked: IsHealthy, TryAcquireProbe, CircuitState,
\* Snapshot and AllBackendsDown all start with it.
HalfOpened(c, e) ==
    IF e.state = "tripped" /\ e.age >= c.recovery
    THEN [e EXCEPT !.state = "probing", !.fails = 0, !.inFlight = 0]
    ELSE e

\* The condition IsHealthy and TryAcquireProbe evaluate after HalfOpened.
Admits(c, e) ==
    \/ e.state = "healthy"
    \/ e.state = "probing" /\ e.inFlight < c.slots

IsHealthy(c, e) == Admits(c, HalfOpened(c, e))

\* TryAcquireProbe returned true: a slot is reserved only while probing.
Acquired(c, e) ==
    LET h == HalfOpened(c, e)
    IN  IF h.state = "probing" THEN [h EXCEPT !.inFlight = @ + 1] ELSE h

\* Mutant: a slot is given back though none is counted.
ReleasedUnguarded(e) ==
    IF e.state = "probing" THEN [e EXCEPT !.inFlight = @ - 1] ELSE e

\* ReleaseProbe.
Released(e) ==
    IF e.state = "probing" /\ e.inFlight > 0
    THEN [e EXCEPT !.inFlight = @ - 1]
    ELSE e

\* Mutant: a success is ignored while the circuit is tripped.
SucceededUnlessTripped(e) == IF e.state = "tripped" THEN e ELSE FreshEntry

\* ReportSuccess: from every state, whatever the cool-down.
Succeeded(e) == FreshEntry

\* Mutant: a trip does not forget the reservations of the episode.
FailedKeepsSlots(c, e) ==
    LET trips == \/ e.state = "healthy" /\ e.fails + 1 >= c.threshold
                 \/ e.state = "probing"
    IN  [state    |-> IF trips THEN "tripped" ELSE e.state,
         fails    |-> CASE e.state = "healthy" -> e.fails + 1
                        [] e.state = "probing" -> c.threshold
                        [] e.state = "tripped" -> e.fails,
         age      |-> 0,
         inFlight |-> e.inFlight]

\* ReportFailure: unlike the others it never moves the entry to probing.
Failed(c, e) ==
    LET trips == \/ e.state = "healthy" /\ e.fails + 1 >= c.threshold
                 \/ e.state = "probing"
    IN  [state    |-> IF trips THEN "tripped" ELSE e.state,
         fails    |-> CASE e.state = "healthy" -> e.fails + 1
                        [] e.state = "probing" -> c.threshold
                        [] e.state = "tripped" -> e.fails,
         age      |-> 0,
         inFlight |-> IF trips THEN 0 ELSE e.inFlight]
-----------------------------------------------------------------------------
(* What an entry satisfies between two operations.  The counter never      *)
(* exceeds half_open_max_requests, and only a probing entry counts: a      *)
(* reservation never survives the episode it was made in.  The failure     *)
(* count is that of the current streak: below the threshold while healthy, *)
(* at the threshold while tripped.                                         *)
EntryInv(c, e) ==
    /\ e.inFlight <= c.slots
    /\ e.state # "probing" => e.inFlight = 0
    /\ e.state = "healthy" => e.fails < c.threshold
    /\ e.state = "tripped" => e.fails = c.threshold
    /\ e.state = "probing" => e.fails = 0
=============================================================================
