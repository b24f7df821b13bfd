------------------------------- MODULE Routing -------------------------------
(***************************************************************************)
(* From a request to the backends that are asked for it, in order: the     *)
(* ModelIndex (internal/server/resolve.go), the BackendSelector            *)
(* (selector.go) and the decisions of Handle and handleWithBackend         *)
(* (server.go), while reloads replace the configuration.                   *)
(*                                                                         *)
(* A path and a path prefix are sequences of segments, the prefix "/" is   *)
(* the empty one; a backend has `prefix' = {} or {its prefix}.  A model of *)
(* "" is none.  Each reload makes new Backend values, so a pointer to one  *)
(* is told apart by the generation it was taken in.  Weights are left out: *)
(* nothing on the way of a request reads them.                             *)
(***************************************************************************)
EXTENDS Config

CONSTANTS Requests,
          Configs,        \* sequences of backends, not all of them valid
          StartConfigs,   \* those of them that the process may start with
          Paths, Models,  \* of the requests
          MaxGen          \* bound: configurations ever in force

ASSUME RoutingAssumption ==
    /\ Configs \subseteq Seq(Backend)
    /\ StartConfigs \subseteq Configs /\ \A c \in StartConfigs : Accepted(c)
    /\ Paths \subseteq Seq(STRING) /\ Models \subseteq STRING
    /\ MaxGen \in Nat \ {0}

VARIABLES conf, gen,  \* the configuration in force, and its generation
          req         \* req[r]: the locals of Handle

routingVars == <<conf, gen, req>>

-----------------------------------------------------------------------------
(* ModelIndex.  An entry of the index is [backend, model].                 *)

Enabled(c) == Keep(c, {b \in ToSet(c) : b.enabled})

\* A model is registered under its name and under each of its aliases: twice
\* if an alias repeats the name, which NormalizeAndValidate allows.
Registered(b, alias) ==
    FlattenSeq([j \in DOMAIN b.models |->
        LET m == b.models[j]
            keys == Keep(<<m.name>> \o m.aliases, {alias} \ {""})
        IN  [k \in DOMAIN keys |-> [backend |-> b, model |-> m.name]]])

\* sort.SliceStable by priority: each entry after those it does not precede.
Inserted(s, e) ==
    LET before == {d \in ToSet(s) : d.backend.priority <= e.backend.priority}
    IN  Keep(s, before) \o <<e>> \o Without(s, before)
Sorted(entries) ==
    LET f[i \in 0..Len(entries)] == IF i = 0 THEN <<>> ELSE Inserted(f[i - 1], entries[i])
    IN  f[Len(entries)]

ResolveCandidates(c, alias) ==
    LET enabled == Enabled(c)
    IN  Sorted(FlattenSeq([i \in DOMAIN enabled |-> Registered(enabled[i], alias)]))

\* The enabled backend marked as default, or else the only enabled one.  A
\* sequence of at most one: NormalizeAndValidate refuses a second default.
DefaultBackend(c) ==
    LET marked == Keep(Enabled(c), {b \in ToSet(c) : b.default})
    IN  IF marked = <<>> /\ Len(Enabled(c)) = 1 THEN Enabled(c) ELSE marked

Matches(b, path) == \E p \in b.prefix : IsPrefix(p, path)
Longer(b, d) == \A p \in b.prefix, q \in d.prefix : Len(p) > Len(q)

\* The loop over the backends that have a prefix.
Better(best, b, path) ==
    IF Matches(b, path) /\ \A d \in best : Longer(b, d) THEN {b} ELSE best
BestOf(s, path) ==
    LET best[i \in 0..Len(s)] == IF i = 0 THEN {} ELSE Better(best[i - 1], s[i], path)
    IN  best[Len(s)]

\* Mutant: also disabled backends are indexed by their prefix.
MatchAnyByPrefix(c, path) == BestOf(c, path)

\* The longest prefix; of two equal ones the first in the configuration.
MatchByPrefix(c, path) == BestOf(Enabled(c), path)

-----------------------------------------------------------------------------
(* BackendSelector.                                                        *)

\* SelectOrdered: the groups of equal priority one after the other are the
\* candidates as they are; the healthy ones of them.
SelectOrdered(cands, healthy) == Keep(cands, {e \in ToSet(cands) : e.backend.name \in healthy})

SelectFallback(cands) == cands

-----------------------------------------------------------------------------
(* Handle.  `in' is the configuration of its snapshot.                     *)

Idle == [pc |-> "idle"]

RoutingInit ==
    /\ conf \in StartConfigs /\ gen = 1
    /\ req = [r \in Requests |-> Idle]

\* The path prefix decides first; then the model, then the default backend.
ByModel(c, model) ==
    IF model # "" /\ ResolveCandidates(c, model) # <<>> THEN ResolveCandidates(c, model)
    ELSE [i \in DOMAIN DefaultBackend(c) |-> [backend |-> DefaultBackend(c)[i], model |-> model]]

Route(r) ==
    /\ req[r].pc = "idle"
    /\ \E path \in Paths, model \in Models :
          LET best == MatchByPrefix(conf, path)
              cands == IF best = {} THEN ByModel(conf, model)
                       ELSE <<[backend |-> CHOOSE b \in best : TRUE, model |-> model]>>
          IN  req' = [req EXCEPT ![r] =
                 [pc |-> IF best # {} THEN "prefix" ELSE IF cands = <<>> THEN "not_found" ELSE "select",
                  path |-> path, model |-> model, in |-> conf, gen |-> gen, cands |-> cands,
                  ordered |-> <<>>, healthy |-> {}]]
    /\ UNCHANGED <<conf, gen>>

\* Mutant: the entries of all backends.
WithinAny(c, alias, b) == ResolveCandidates(c, alias)

\* ResolveWithinBackend: the pointers are those of the index's generation.
Within(c, alias, b) ==
    LET entries == ResolveCandidates(c, alias)
    IN  Keep(entries, {e \in ToSet(entries) : e.backend = b})

\* handleWithBackend takes another snapshot and looks the model up in it; the
\* backend stays.  An entry without a name keeps the model asked for.
PrefixResolve(r) ==
    /\ req[r].pc = "prefix"
    /\ LET b == req[r].cands[1].backend
           found == IF gen = req[r].gen /\ req[r].model # ""
                    THEN Within(conf, req[r].model, b) ELSE <<>>
           model == IF found = <<>> \/ found[1].model = "" THEN req[r].model ELSE found[1].model
       IN  req' = [req EXCEPT ![r].pc = "select", ![r].cands = <<[backend |-> b, model |-> model]>>]
    /\ UNCHANGED <<conf, gen>>

\* prepareRequestBody: the name the backend sees.
Forwarded(e, asked) == IF e.model = "" THEN asked ELSE e.model

\* forwardWithRetry: what is healthy is up to the circuit breakers.
Select(r) ==
    /\ req[r].pc = "select"
    /\ \E healthy \in SUBSET {e.backend.name : e \in ToSet(req[r].cands)} :
          LET ordered == SelectOrdered(req[r].cands, healthy)
          IN  req' = [req EXCEPT ![r].pc = "forward", ![r].healthy = healthy,
                 ![r].ordered = IF ordered = <<>> THEN SelectFallback(req[r].cands) ELSE ordered]
    /\ UNCHANGED <<conf, gen>>

Finish(r) ==
    /\ req[r].pc \in {"forward", "not_found"}
    /\ req' = [req EXCEPT ![r] = Idle]
    /\ UNCHANGED <<conf, gen>>

\* Gateway.Reload: a configuration that validates replaces the one in force,
\* with a new ModelIndex.
Reload ==
    /\ gen < MaxGen
    /\ \E c \in Configs : Accepted(c) /\ conf' = c
    /\ gen' = gen + 1
    /\ UNCHANGED req

RoutingNext ==
    \/ \E r \in Requests : Route(r) \/ PrefixResolve(r) \/ Select(r) \/ Finish(r)
    \/ Reload

-----------------------------------------------------------------------------
(* Properties.                                                             *)

Routed(r) == req[r].pc \in {"select", "forward"}

\* What b calls the model that clients call `model'; {} if b does not offer it.
Names(b, model) ==
    {IF m.name = "" THEN model ELSE m.name :
        m \in {m \in ToSet(b.models) : model = m.name \/ model \in ToSet(m.aliases)}}
MappedIn(r) ==
    \A e \in ToSet(req[r].cands) :
        LET names == Names(e.backend, req[r].model)
        IN  (req[r].model # "" /\ names # {}) => Forwarded(e, req[r].model) \in names

ByPrefix(r) == \E b \in ToSet(req[r].in) : b.enabled /\ Matches(b, req[r].path)
Positions(r, b) == {i \in DOMAIN req[r].in : req[r].in[i] = b}

\* Whatever reloads do meanwhile, a backend that is asked was enabled in the
\* configuration the request was routed by, each request with a prefix goes
\* to the longest one, and the first such backend.
PrefixIsLongest ==
    \A r \in Requests : (req[r].pc = "prefix" \/ Routed(r)) =>
        LET b == req[r].cands[1].backend
        IN  /\ \A e \in ToSet(req[r].cands) : e.backend.enabled
            /\ ByPrefix(r) =>
                 /\ Matches(b, req[r].path)
                 /\ \A d \in ToSet(Enabled(req[r].in)) : Matches(d, req[r].path) =>
                       \A p \in b.prefix, q \in d.prefix :
                           \/ Len(q) < Len(p)
                           \/ q = p /\ \A j \in Positions(r, d) : \E i \in Positions(r, b) : i <= j

\* The backend for what nobody offers: the enabled one that is marked as
\* default, or the only one that is enabled.
IsDefault(c, b) ==
    b.enabled /\ (b.default \/ \A i, j \in DOMAIN c : (c[i].enabled /\ c[j].enabled) => i = j)

\* A model that is known is looked for in all enabled backends and no other:
\* the candidates are each backend that offers it, under the one name it has
\* there, by priority and then in the order of the configuration.  Any other
\* model, or none, has the default backend for its only candidate, which is
\* asked for it by the name the client used; and only without such a backend
\* is the request answered with 404.
CandidatesAreExact ==
    \A r \in Requests : (Routed(r) \/ req[r].pc = "not_found") /\ ~ByPrefix(r) =>
        LET cands == req[r].cands
            asked == req[r].model
            offers == {b \in ToSet(req[r].in) : b.enabled /\ asked # "" /\ Names(b, asked) # {}}
        IN  /\ offers = {} =>
                 /\ Len(cands) <= 1
                 /\ {e.backend : e \in ToSet(cands)} = {b \in ToSet(req[r].in) : IsDefault(req[r].in, b)}
                 /\ \A e \in ToSet(cands) : Forwarded(e, asked) = asked
            /\ req[r].pc = "not_found" <=> cands = <<>>
            /\ offers # {} =>
                 /\ \A b \in offers : Cardinality(Names(b, asked)) = 1
                 /\ {e.backend : e \in ToSet(cands)} = offers
                 /\ \A b \in offers :
                       {Forwarded(e, asked) : e \in {e \in ToSet(cands) : e.backend = b}}
                           = Names(b, asked)
                 /\ \A i, j \in DOMAIN cands : i < j =>
                       \/ cands[i].backend.priority < cands[j].backend.priority
                       \/ /\ cands[i].backend.priority = cands[j].backend.priority
                          /\ \E p \in Positions(r, cands[i].backend),
                                q \in Positions(r, cands[j].backend) : p <= q

\* A backend is asked for a model by the name it has there, never by an alias,
\* unless a reload came between the two snapshots: ResolveWithinBackend
\* compares pointers, finds none of the old backend's, and the alias stays.
ModelIsMapped ==
    \A r \in Requests : (Routed(r) /\ req[r].gen = gen) => MappedIn(r)
=============================================================================
