------------------------------ MODULE Retention ------------------------------
(***************************************************************************)
(* What both modes of the usage log (internal/logging/token.go) do to the  *)
(* entries past their retention: they are taken out, and the others stay   *)
(* in their order.                                                         *)
(***************************************************************************)
EXTENDS Naturals, FiniteSets, Sequences

\* What s is without the elements in `gone', as the set of that one sequence:
\* its elements are those of the positions that stay, counted upwards.
Without(s, gone) ==
    LET at == {i \in DOMAIN s : s[i] \notin gone}
        Upwards(p) == \A j, k \in DOMAIN p : j < k => p[j] < p[k]
    IN  {[k \in 1..Cardinality(at) |-> s[p[k]]] :
            p \in {q \in [1..Cardinality(at) -> at] : Upwards(q)}}
=============================================================================
