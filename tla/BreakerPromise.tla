--------------------------- MODULE BreakerPromise ---------------------------
(***************************************************************************)
(* What fail-over with circuit breakers promises about any one attempt,    *)
(* without candidate lists, locks, ages or the order of the code: when a   *)
(* backend may be asked, and what opens and closes its circuit.            *)
(* HttpForward implements it.                                              *)
(***************************************************************************)
EXTENDS Naturals

CONSTANTS Requests, Backends,
          Checked,    \* backends with an active health check
          Threshold,  \* failures in a row that open a circuit
          Slots       \* reservations a circuit on trial counts

VARIABLES gate,       \* gate[b]: the circuit of b, its failures in a row, slots taken
          waiting,    \* waiting[r]: the backend r waits for, as a set of at most one
          mode        \* mode[r]: whether r heeds the circuits, once it is known

vars == <<gate, waiting, mode>>

Closed == [circuit |-> "closed", streak |-> 0, taken |-> 0]
Open   == [circuit |-> "open", streak |-> 0, taken |-> 0]

Init == /\ gate = [b \in Backends |-> Closed]
        /\ waiting = [r \in Requests |-> {}]
        /\ mode = [r \in Requests |-> "none"]

\* A failure opens a circuit on trial, or a closed one at the end of a streak.
AfterFailure(g) ==
    IF g.circuit = "closed" /\ g.streak + 1 < Threshold
    THEN [g EXCEPT !.streak = @ + 1]
    ELSE Open

-----------------------------------------------------------------------------
(* A request.                                                              *)

\* It heeds the circuits until it ends, or disregards them until it ends.
Starts(r) ==
    /\ mode[r] = "none"
    /\ \E m \in {"guarded", "last_resort"} : mode' = [mode EXCEPT ![r] = m]
    /\ UNCHANGED <<gate, waiting>>

Asks(r, b) ==
    /\ mode[r] = "guarded" /\ waiting[r] = {}
    /\ \/ gate[b].circuit = "closed" /\ UNCHANGED gate
       \/ /\ gate[b].circuit = "trial" /\ gate[b].taken < Slots
          /\ gate' = [gate EXCEPT ![b].taken = @ + 1]
    /\ waiting' = [waiting EXCEPT ![r] = {b}]
    /\ UNCHANGED mode

AsksAnyway(r, b) ==
    /\ mode[r] = "last_resort" /\ waiting[r] = {}
    /\ waiting' = [waiting EXCEPT ![r] = {b}]
    /\ UNCHANGED <<gate, mode>>

Ends(r) == /\ waiting' = [waiting EXCEPT ![r] = {}]
           /\ mode' = [mode EXCEPT ![r] = "none"]

\* Only an answer of the backend, or a passed check, closes its circuit.
Answered(r, b) ==
    /\ waiting[r] = {b}
    /\ gate' = [gate EXCEPT ![b] = Closed]
    /\ Ends(r)

Failed(r, b) ==
    /\ waiting[r] = {b}
    /\ gate' = [gate EXCEPT ![b] = AfterFailure(@)]
    /\ \/ Ends(r)
       \/ waiting' = [waiting EXCEPT ![r] = {}] /\ UNCHANGED mode

\* A request that heeds the circuits gives a slot back, with or before its end.
GivesBack(r, b) ==
    /\ mode[r] = "guarded"
    /\ gate' = [gate EXCEPT ![b].taken = IF @ > 0 THEN @ - 1 ELSE @]
    /\ Ends(r) \/ UNCHANGED <<waiting, mode>>

Leaves(r) == mode[r] # "none" /\ Ends(r) /\ UNCHANGED gate

-----------------------------------------------------------------------------
(* The others.                                                             *)

CheckPasses(b) == gate' = [gate EXCEPT ![b] = Closed] /\ UNCHANGED <<waiting, mode>>
CheckFails(b) == gate' = [gate EXCEPT ![b] = AfterFailure(@)] /\ UNCHANGED <<waiting, mode>>

\* Open circuits whose recovery time-out is over are on trial.
Rested(S) ==
    /\ \A b \in S : gate[b].circuit = "open"
    /\ gate' = [b \in Backends |-> IF b \in S THEN [gate[b] EXCEPT !.circuit = "trial"] ELSE gate[b]]
    /\ UNCHANGED <<waiting, mode>>

Next == \/ \E r \in Requests : Starts(r) \/ Leaves(r)
        \/ \E r \in Requests, b \in Backends :
              Asks(r, b) \/ AsksAnyway(r, b) \/ Answered(r, b) \/ Failed(r, b) \/ GivesBack(r, b)
        \/ \E b \in Checked : CheckPasses(b) \/ CheckFails(b)
        \/ \E S \in SUBSET Backends : Rested(S)

Spec == Init /\ [][Next]_vars
=============================================================================
