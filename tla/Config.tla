------------------------------- MODULE Config -------------------------------
(***************************************************************************)
(* NormalizeAndValidate (internal/config/config.go), which every           *)
(* configuration passes before it comes into force: what it accepts of the *)
(* backends.  Values it checks one by one (URLs, durations, efforts,       *)
(* temperatures) are well-formed here.                                     *)
(***************************************************************************)
EXTENDS Codec, FiniteSets

Model == [name : STRING, aliases : Seq(STRING)]

\* A backend, without what nothing here depends on.  Its prefix may be none.
Backend == [name : STRING, protocol : Protocols, enabled : BOOLEAN, default : BOOLEAN,
            priority : Int,
            prefix : {P \in SUBSET Seq(STRING) : P = {} \/ \E p \in P : P = {p}},
            models : Seq(Model)]

\* The names a model goes by in its backend; an alias may repeat the name.
GoesBy(m) == Without(<<m.name>>, {""}) \o Without(m.aliases, {"", m.name})

\* Mutant: aliases are not checked.
UniqueModelNames(b) ==
    \A i, j \in DOMAIN b.models :
        (i # j /\ b.models[i].name # "") => b.models[i].name # b.models[j].name

\* Within a backend no name stands for two models.
UniqueModels(b) == IsInjective(FlattenSeq([j \in DOMAIN b.models |-> GoesBy(b.models[j])]))

\* Backends without a name are not told apart.
UniqueNames(backends) ==
    \A i, j \in DOMAIN backends :
        (i # j /\ backends[i].name # "") => backends[i].name # backends[j].name

\* Disabled backends count too.
OneDefault(backends) ==
    \A i, j \in DOMAIN backends : (backends[i].default /\ backends[j].default) => i = j

Accepted(backends) == /\ backends # <<>>
                      /\ UniqueNames(backends)
                      /\ OneDefault(backends)
                      /\ \A i \in DOMAIN backends : UniqueModels(backends[i])
=============================================================================
