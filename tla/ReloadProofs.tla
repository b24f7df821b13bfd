----------------------------- MODULE ReloadProofs -----------------------------
(* Safety of hot reload and shutdown for any number of callers, requests,     *)
(* backends, configurations and reloads, whatever overlaps.                   *)
EXTENDS Reload, FiniteSetTheorems, TLAPS

-----------------------------------------------------------------------------
(* The operations on one entry that requests, checks and reloads use, for    *)
(* every configuration and every entry.                                      *)

\* A new entry and the passage of time.
LEMMA FreshEntryOK ==
    ASSUME NEW c \in BreakerConfig
    PROVE  FreshEntry \in BackendHealth /\ EntryInv(c, FreshEntry)
BY MaxAgeAssumption DEF FreshEntry, BackendHealth, CircuitState, EntryInv, BreakerConfig

LEMMA AgedOK ==
    ASSUME NEW c \in BreakerConfig, NEW e \in BackendHealth, EntryInv(c, e)
    PROVE  /\ Aged(e) \in BackendHealth
           /\ EntryInv(c, Aged(e))
           /\ Aged(e).state = e.state /\ Aged(e).inFlight = e.inFlight
BY MaxAgeAssumption DEF Aged, BackendHealth, CircuitState, EntryInv, BreakerConfig

\* The move to probing counts nothing; otherwise the entry is as it was.
LEMMA HalfOpenedOK ==
    ASSUME NEW c \in BreakerConfig, NEW e \in BackendHealth, EntryInv(c, e)
    PROVE  /\ HalfOpened(c, e) \in BackendHealth
           /\ EntryInv(c, HalfOpened(c, e))
           /\ HalfOpened(c, e).inFlight = e.inFlight
BY DEF HalfOpened, BackendHealth, CircuitState, EntryInv, BreakerConfig

\* A granted TryAcquireProbe stays within the limit and counts at most one
\* more slot.
LEMMA AcquiredOK ==
    ASSUME NEW c \in BreakerConfig, NEW e \in BackendHealth, EntryInv(c, e), IsHealthy(c, e)
    PROVE  /\ Acquired(c, e) \in BackendHealth
           /\ EntryInv(c, Acquired(c, e))
           /\ Acquired(c, e).inFlight <= e.inFlight + 1
<1> DEFINE h == HalfOpened(c, e)
<1>1. h \in BackendHealth /\ EntryInv(c, h) /\ h.inFlight = e.inFlight
  BY HalfOpenedOK
<1>2. Admits(c, h)
  BY DEF IsHealthy
<1>3. Acquired(c, e) = IF h.state = "probing" THEN [h EXCEPT !.inFlight = @ + 1] ELSE h
  BY DEF Acquired
<1> HIDE DEF h
<1>4. QED
  BY <1>1, <1>2, <1>3 DEF Admits, BackendHealth, CircuitState, EntryInv, BreakerConfig

\* ReleaseProbe gives one slot back if there is one to give.
LEMMA ReleasedOK ==
    ASSUME NEW c \in BreakerConfig, NEW e \in BackendHealth, EntryInv(c, e)
    PROVE  /\ Released(e) \in BackendHealth
           /\ EntryInv(c, Released(e))
           /\ Released(e).inFlight = IF e.inFlight > 0 THEN e.inFlight - 1 ELSE 0
BY DEF Released, BackendHealth, CircuitState, EntryInv, BreakerConfig

\* ReportFailure leaves no slot counted.
LEMMA FailedOK ==
    ASSUME NEW c \in BreakerConfig, NEW e \in BackendHealth, EntryInv(c, e)
    PROVE  /\ Failed(c, e) \in BackendHealth
           /\ EntryInv(c, Failed(c, e))
           /\ Failed(c, e).inFlight = 0
<1>1. CASE e.state = "healthy"
  BY <1>1, MaxAgeAssumption DEF Failed, BackendHealth, CircuitState, EntryInv, BreakerConfig
<1>2. CASE e.state = "probing"
  BY <1>2, MaxAgeAssumption DEF Failed, BackendHealth, CircuitState, EntryInv, BreakerConfig
<1>3. CASE e.state = "tripped"
  BY <1>3, MaxAgeAssumption DEF Failed, BackendHealth, CircuitState, EntryInv, BreakerConfig
<1>4. QED
  BY <1>1, <1>2, <1>3 DEF BackendHealth, CircuitState

-----------------------------------------------------------------------------
(* Slots and those who hold them.                                            *)

\* A counter n of slots is covered by k lost ones and the users in W.  It
\* stays so when only r may stop being a user, if r gives its slot back, still
\* holds it, never held it, or its slot is lost, or if the counter is reset.
LEMMA SlotsStayCovered ==
    ASSUME NEW W, NEW V, NEW r, IsFiniteSet(W), IsFiniteSet(V), W \ {r} \subseteq V,
           NEW n \in Nat, NEW m \in Nat, NEW k \in Nat, NEW l \in Nat,
           n <= k + Cardinality(W),
           \/ m = 0
           \/ m <= n /\ k <= l /\ (r \in W => r \in V)
           \/ m = (IF n > 0 THEN n - 1 ELSE 0) /\ k <= l
           \/ m <= n + 1 /\ k <= l /\ r \notin W /\ r \in V
           \/ m <= n /\ k + 1 <= l
    PROVE  m <= l + Cardinality(V)
<1>1. Cardinality(W) \in Nat /\ Cardinality(V) \in Nat
  BY FS_CardinalityType
<1>2. IsFiniteSet(W \ {r}) /\ Cardinality(W \ {r}) <= Cardinality(V)
  BY FS_Subset
<1>3. Cardinality(W \ {r}) = IF r \in W THEN Cardinality(W) - 1 ELSE Cardinality(W)
  BY FS_RemoveElement
<1>4. ASSUME r \notin W, r \in V PROVE Cardinality(W) + 1 <= Cardinality(V)
  <2>1. W \cup {r} \subseteq V
    BY <1>4
  <2>2. Cardinality(W \cup {r}) = Cardinality(W) + 1
    BY <1>4, FS_AddElement
  <2>3. QED
    BY <2>1, <2>2, FS_Subset
<1>5. ASSUME r \in W => r \in V PROVE Cardinality(W) <= Cardinality(V)
  BY <1>5, FS_Subset
<1>6. QED
  BY <1>1, <1>2, <1>3, <1>4, <1>5

-----------------------------------------------------------------------------
(* The inductive invariant.                                                  *)

EntriesOK == /\ bh \in [Generations -> [Backends -> BackendHealth]]
             /\ \A g \in Generations, b \in Backends : EntryInv(Cfg, bh[g][b])
             /\ lent \in [Generations -> [Backends -> Nat]]
             /\ known \in [Generations -> SUBSET Backends]

RequestType == [pc : {"idle", "routed", "try", "sent", "log", "write"}, gen : Nat,
                backend : Backends \cup {NoRequest.backend}, acquired : BOOLEAN,
                slot : BOOLEAN, log : Nat]
RequestOK(q) == /\ q.pc \in {"routed", "try", "sent"} => q.backend \in Backends
                /\ q.pc \in {"try", "sent"} => q.gen \in Generations
                /\ q.slot => q.acquired
RequestsOK == rq \in [Requests -> RequestType] /\ \A r \in Requests : RequestOK(rq[r])

Stopping == {"stop", "wait"}
CallType == [pc : {"idle", "adopt", "swap", "closed"} \cup Stopping, conf : Configs,
             new : Nat, todo : SUBSET Backends, mustTrip : SUBSET Backends,
             old : Nat, oldLog : Nat]
ServerOK == /\ gens \in Generations /\ logs \in Nat /\ closedLogs \subseteq 1..logs
            /\ srv \in [conf : Configs, health : 1..gens, tokenLog : 1..logs]
            /\ call \in [Callers -> CallType]

\* The lock is held by the one call that makes a manager: the newest, which
\* nobody is to stop yet.
Making(p) == call[p].pc \in {"adopt", "swap"}
LockOK == /\ lock \in Callers \cup {"free"}
          /\ \A p \in Callers : Making(p) <=> lock = p
MakersOK == /\ \A p \in Callers : call[p].old <= gens
            /\ \A p \in Callers : Making(p) =>
                  /\ call[p].new = gens /\ srv.health < gens
                  /\ \A q \in Callers : call[q].old < gens

\* Checks run for the current manager, for the one that is about to be, and for
\* those that a call is to stop; a manager that Close stopped runs none again.
ChecksOK ==
    /\ running \in [Generations -> SUBSET Backends]
    /\ \A p \in Callers : /\ call[p].pc \in Stopping \cup {"closed"} => call[p].old \in 1..gens
                          /\ call[p].pc = "closed" => running[call[p].old] = {}
    /\ \A g \in Generations : running[g] # {} =>
          \/ g = srv.health
          \/ \E p \in Callers : call[p].pc = "swap" /\ g = call[p].new
          \/ \E p \in Callers : call[p].pc \in Stopping /\ g = call[p].old

\* Until a Close begins, the log in force and those that reloads are to close
\* are different ones, and open.
ToClose(p) == call[p].pc \in Stopping /\ call[p].oldLog # 0
LogsOK ==
    /\ \A p \in Callers : call[p].oldLog <= logs
    /\ (\A p \in Closers : call[p].pc = "idle") =>
          /\ srv.tokenLog \notin closedLogs /\ "close_of_closed" \notin panics
          /\ \A p \in Callers : ToClose(p) =>
                /\ call[p].oldLog \notin closedLogs \cup {srv.tokenLog}
                /\ \A q \in Callers : ToClose(q) /\ q # p => call[q].oldLog # call[p].oldLog

\* Every enabled backend is known to its manager.
SeededOK == /\ srv.conf.enabled \subseteq known[srv.health]
            /\ \A p \in Callers : call[p].pc = "swap" =>
                  call[p].conf.enabled \subseteq known[call[p].new]

\* A circuit that must not heal is open in the old manager until its entry is
\* taken over, and in the new one after.
TripsOK ==
    \A p \in Callers : \A b \in call[p].mustTrip :
        /\ call[p].pc = "adopt" =>
              IF b \in call[p].todo THEN bh[srv.health][b].state # "healthy"
              ELSE bh[call[p].new][b].state # "healthy"
        /\ call[p].pc = "swap" => bh[call[p].new][b].state # "healthy"

Control == ServerOK /\ LockOK /\ MakersOK /\ ChecksOK /\ LogsOK
IInv == EntriesOK /\ RequestsOK /\ Control /\ SeededOK /\ TripsOK /\ cast \in Casts

-----------------------------------------------------------------------------
(* Entries.                                                                  *)

\* f may come after e: well-formed, and healthy only if e was.
Follows(f, e) == /\ f \in BackendHealth /\ EntryInv(Cfg, f)
                 /\ e.state # "healthy" => f.state # "healthy"

LEMMA OperationsFollow ==
    ASSUME NEW e \in BackendHealth, EntryInv(Cfg, e)
    PROVE  /\ Follows(e, e)
           /\ Follows(HalfOpened(Cfg, e), e) /\ HalfOpened(Cfg, e).inFlight = e.inFlight
           /\ Follows(Failed(Cfg, e), e) /\ Failed(Cfg, e).inFlight = 0
           /\ Follows(Aged(e), e) /\ Aged(e).inFlight = e.inFlight
           /\ Follows(Released(e), e)
           /\ Released(e).inFlight = (IF e.inFlight > 0 THEN e.inFlight - 1 ELSE 0)
<1>1. Cfg \in BreakerConfig
  BY ReloadAssumption
<1>2. Follows(e, e)
  BY DEF Follows
<1>3. Follows(HalfOpened(Cfg, e), e) /\ HalfOpened(Cfg, e).inFlight = e.inFlight
  <2>1. e.state # "healthy" => HalfOpened(Cfg, e).state # "healthy"
    BY DEF HalfOpened, BackendHealth
  <2>2. QED
    BY <1>1, <2>1, HalfOpenedOK DEF Follows
<1>4. Follows(Failed(Cfg, e), e) /\ Failed(Cfg, e).inFlight = 0
  <2>1. e.state # "healthy" => Failed(Cfg, e).state # "healthy"
    BY DEF Failed
  <2>2. QED
    BY <1>1, <2>1, FailedOK DEF Follows
<1>5. Follows(Aged(e), e) /\ Aged(e).inFlight = e.inFlight
  BY <1>1, AgedOK DEF Follows
<1>6. Follows(Released(e), e)
      /\ Released(e).inFlight = (IF e.inFlight > 0 THEN e.inFlight - 1 ELSE 0)
  <2>1. Released(e).state = e.state
    BY DEF Released, BackendHealth
  <2>2. QED
    BY <1>1, <2>1, ReleasedOK DEF Follows
<1>7. QED
  BY <1>2, <1>3, <1>4, <1>5, <1>6

LEMMA AcquiredFollows ==
    ASSUME NEW e \in BackendHealth, EntryInv(Cfg, e), Admits(Cfg, HalfOpened(Cfg, e))
    PROVE  /\ Follows(Acquired(Cfg, e), e)
           /\ Acquired(Cfg, e).inFlight <= e.inFlight + 1
           /\ HalfOpened(Cfg, e).state # "probing" => Acquired(Cfg, e).inFlight = e.inFlight
<1>1. Cfg \in BreakerConfig /\ IsHealthy(Cfg, e)
  BY ReloadAssumption DEF IsHealthy
<1> DEFINE h == HalfOpened(Cfg, e)
<1>2. h \in BackendHealth /\ h.inFlight = e.inFlight /\ (e.state # "healthy" => h.state # "healthy")
  BY OperationsFollow DEF Follows
<1>3. Acquired(Cfg, e) = IF h.state = "probing" THEN [h EXCEPT !.inFlight = @ + 1] ELSE h
  BY DEF Acquired
<1> HIDE DEF h
<1>4. Acquired(Cfg, e).state = h.state /\ (h.state # "probing" => Acquired(Cfg, e).inFlight = e.inFlight)
  BY <1>2, <1>3 DEF BackendHealth
<1>5. QED
  BY <1>1, <1>2, <1>4, AcquiredOK DEF Follows, h

LEMMA SucceededOKHere == Succeeded(FreshEntry) \in BackendHealth /\ EntryInv(Cfg, FreshEntry)
                         /\ FreshEntry \in BackendHealth /\ FreshEntry.inFlight = 0
BY ReloadAssumption, FreshEntryOK DEF Succeeded, FreshEntry

\* The entry of b in manager g becomes e.
Becomes(g, b, e) == bh' = [bh EXCEPT ![g][b] = e]

LEMMA BecomesOK ==
    ASSUME EntriesOK, NEW g \in Generations, NEW b \in Backends,
           NEW e \in BackendHealth, EntryInv(Cfg, e), Becomes(g, b, e),
           lent' \in [Generations -> [Backends -> Nat]],
           known' \in [Generations -> SUBSET Backends]
    PROVE  /\ EntriesOK'
           /\ \A h \in Generations, x \in Backends :
                 bh'[h][x] = IF h = g /\ x = b THEN e ELSE bh[h][x]
<1>1. \A h \in Generations, x \in Backends : bh'[h][x] = IF h = g /\ x = b THEN e ELSE bh[h][x]
  BY DEF EntriesOK, Becomes
<1>2. bh' \in [Generations -> [Backends -> BackendHealth]]
  BY DEF EntriesOK, Becomes
<1>3. QED
  BY <1>1, <1>2 DEF EntriesOK

-----------------------------------------------------------------------------
(* Steps of those who use a snapshot, which leave calls where they are.      *)

SameCall(p) == /\ call'[p].pc = call[p].pc /\ call'[p].conf = call[p].conf
               /\ call'[p].new = call[p].new /\ call'[p].old = call[p].old
               /\ call'[p].oldLog = call[p].oldLog
               /\ call'[p].mustTrip \subseteq call[p].mustTrip

CallsStand == /\ UNCHANGED <<gens, srv, lock, logs, closedLogs>>
              /\ call' \in [Callers -> CallType]
              /\ \A p \in Callers : SameCall(p)
              /\ running' \in [Generations -> SUBSET Backends]
              /\ \A g \in Generations : running'[g] \subseteq running[g] /\ known[g] \subseteq known'[g]
              /\ "close_of_closed" \in panics' => "close_of_closed" \in panics

\* No entry is taken over.
TodoStands == \A p \in Callers : call'[p].todo = call[p].todo

\* No entry heals that a call under way must not heal.
NoneHeals == \A p \in Callers : \A b \in call'[p].mustTrip : \A g \in Generations :
                bh[g][b].state # "healthy" => bh'[g][b].state # "healthy"

LEMMA StandKeepsControl ==
    ASSUME Control, CallsStand
    PROVE  Control'
<1> USE DEF Control, CallsStand, SameCall
<1>1. ServerOK'
  BY DEF ServerOK
<1>2. LockOK'
  BY DEF LockOK, Making
<1>3. MakersOK'
  BY DEF MakersOK, Making
<1>4. ChecksOK'
  <2>1. \A p \in Callers : /\ call'[p].pc \in Stopping \cup {"closed"} => call'[p].old \in 1..gens'
                           /\ call'[p].pc = "closed" => running'[call'[p].old] = {}
    <3> SUFFICES ASSUME NEW p \in Callers, call[p].pc \in Stopping \cup {"closed"}
                 PROVE  /\ call[p].old \in 1..gens
                        /\ call[p].pc = "closed" => running'[call[p].old] = {}
      OBVIOUS
    <3>1. call[p].old \in 1..gens /\ (call[p].pc = "closed" => running[call[p].old] = {})
      BY DEF ChecksOK
    <3>2. call[p].old \in Generations
      BY <3>1, ReloadAssumption DEF ServerOK, Generations
    <3>3. running'[call[p].old] \subseteq running[call[p].old]
      BY <3>2
    <3>4. QED
      BY <3>1, <3>3
  <2>2. ASSUME NEW g \in Generations, running'[g] # {}
        PROVE  \/ g = srv'.health
               \/ \E p \in Callers : call'[p].pc = "swap" /\ g = call'[p].new
               \/ \E p \in Callers : call'[p].pc \in Stopping /\ g = call'[p].old
    <3>1. running[g] # {}
      BY <2>2
    <3>2. QED
      BY <3>1 DEF ChecksOK
  <2>3. QED
    BY <2>1, <2>2 DEF ChecksOK
<1>5. LogsOK'
  BY DEF LogsOK, ToClose, Callers
<1>6. QED
  BY <1>1, <1>2, <1>3, <1>4, <1>5

LEMMA StandKeepsRest ==
    ASSUME Control, SeededOK, TripsOK, CallsStand
    PROVE  SeededOK' /\ (NoneHeals /\ TodoStands => TripsOK')
<1>1. srv.health \in Generations /\ \A p \in Callers : Making(p) => call[p].new \in Generations
  BY ReloadAssumption DEF Control, ServerOK, MakersOK, Generations
<1>2. SeededOK'
  <2>1. srv'.conf.enabled \subseteq known'[srv'.health]
    BY <1>1 DEF SeededOK, CallsStand
  <2>2. ASSUME NEW p \in Callers, call'[p].pc = "swap"
        PROVE  call'[p].conf.enabled \subseteq known'[call'[p].new]
    <3>1. /\ call[p].pc = "swap" /\ call[p].conf = call'[p].conf /\ call[p].new = call'[p].new
      BY <2>2 DEF CallsStand, SameCall
    <3>2. known[call[p].new] \subseteq known'[call[p].new]
      BY <1>1, <3>1 DEF CallsStand, Making
    <3>3. QED
      BY <3>1, <3>2 DEF SeededOK
  <2>3. QED
    BY <2>1, <2>2 DEF SeededOK
<1>3. NoneHeals /\ TodoStands => TripsOK'
  BY <1>1 DEF NoneHeals, TodoStands, TripsOK, CallsStand, SameCall, Making
<1>4. QED
  BY <1>2, <1>3

\* What CallsStand says of calls, if they do not change at all.
LEMMA SameCalls ==
    ASSUME ServerOK, ChecksOK, UNCHANGED <<gens, srv, lock, call, logs, closedLogs, running, panics>>,
           \A g \in Generations : known[g] \subseteq known'[g]
    PROVE  CallsStand
BY DEF ServerOK, ChecksOK, CallsStand, SameCall

\* How the slots counted in an entry and their holders may move, when only r
\* may start or stop to be one of them.
SlotsFollow(r, g, b) ==
    LET n == bh[g][b].inFlight
        m == bh'[g][b].inFlight
    IN  \/ m = 0
        \/ m <= n /\ (r \in Holders(g, b) => r \in Holders(g, b)')
        \/ m = (IF n > 0 THEN n - 1 ELSE 0)
        \/ m <= n + 1 /\ r \notin Holders(g, b) /\ r \in Holders(g, b)'

\* What every step of a user does: entries and requests stay well-formed, calls
\* stand, no circuit heals that must not, and slots follow their holders.
UserStep(r) == /\ EntriesOK' /\ RequestsOK' /\ CallsStand /\ TodoStands /\ NoneHeals
               /\ lent' = lent
               /\ \A q \in Requests \ {r} : rq'[q] = rq[q]
               /\ \A g \in Generations, b \in Backends : SlotsFollow(r, g, b)

LEMMA RequestMoves ==
    ASSUME RequestsOK, NEW r \in Requests, NEW q \in RequestType, RequestOK(q),
           rq' = [rq EXCEPT ![r] = q]
    PROVE  RequestsOK' /\ rq'[r] = q /\ \A x \in Requests \ {r} : rq'[x] = rq[x]
<1>1. rq'[r] = q /\ \A x \in Requests \ {r} : rq'[x] = rq[x]
  BY DEF RequestsOK
<1>2. rq' \in [Requests -> RequestType]
  BY DEF RequestsOK
<1>3. \A x \in Requests : RequestOK(rq'[x])
  BY <1>1 DEF RequestsOK
<1>4. QED
  BY <1>1, <1>2, <1>3 DEF RequestsOK, RequestOK

\* A step that changes no entry, and only a request that holds no slot.
LEMMA QuietStep ==
    ASSUME EntriesOK, RequestsOK, ServerOK, ChecksOK, NEW r \in Requests,
           UNCHANGED <<health, goroutines, logs, closedLogs, gens, srv, lock, call, lent>>,
           "close_of_closed" \in panics' => "close_of_closed" \in panics,
           rq[r].pc # "sent",
           NEW q \in RequestType, RequestOK(q), rq' = [rq EXCEPT ![r] = q]
    PROVE  UserStep(r)
<1>1. RequestsOK' /\ \A x \in Requests \ {r} : rq'[x] = rq[x]
  BY RequestMoves
<1>2. EntriesOK'
  BY DEF EntriesOK, health
<1>3. CallsStand
  BY DEF CallsStand, SameCall, ServerOK, ChecksOK, goroutines, health
<1>4. NoneHeals
  BY DEF NoneHeals, health
<1>5. ASSUME NEW g \in Generations, NEW b \in Backends PROVE SlotsFollow(r, g, b)
  <2>1. r \notin Holders(g, b) /\ bh' = bh
    BY DEF Holders, health
  <2>2. bh[g][b].inFlight \in Nat
    BY DEF EntriesOK, BackendHealth
  <2>3. QED
    BY <2>1, <2>2 DEF SlotsFollow
<1>6. QED
  BY <1>1, <1>2, <1>3, <1>4, <1>5 DEF UserStep, TodoStands

LEMMA ArriveOK ==
    ASSUME IInv, NEW r \in Requests, Arrive(r)
    PROVE  UserStep(r)
<1>1. PICK b \in srv.conf.enabled :
          rq' = [rq EXCEPT ![r] = [NoRequest EXCEPT !.pc = "routed", !.backend = b]]
  BY DEF Arrive
<1> DEFINE q == [NoRequest EXCEPT !.pc = "routed", !.backend = b]
<1>2. b \in Backends
  BY ReloadAssumption DEF IInv, Control, ServerOK
<1>3. q \in RequestType /\ RequestOK(q)
  BY <1>2 DEF NoRequest, RequestType, RequestOK
<1> HIDE DEF q
<1>4. rq' = [rq EXCEPT ![r] = q]
  BY <1>1 DEF q
<1>5. QED
  BY <1>3, <1>4, QuietStep DEF Arrive, IInv, Control, logger

LEMMA EnterOK ==
    ASSUME IInv, NEW r \in Requests, Enter(r)
    PROVE  UserStep(r)
<1> DEFINE q == [rq[r] EXCEPT !.pc = "try", !.gen = srv.health]
<1>1. srv.health \in Generations \cap Nat /\ rq[r] \in RequestType /\ RequestOK(rq[r])
  BY ReloadAssumption DEF IInv, Control, ServerOK, Generations, RequestsOK
<1>2. q \in RequestType /\ RequestOK(q)
  BY <1>1 DEF Enter, RequestType, RequestOK, Generations
<1>3. rq' = [rq EXCEPT ![r] = q]
  BY DEF Enter, IInv, RequestsOK
<1> HIDE DEF q
<1>4. QED
  BY <1>2, <1>3, QuietStep DEF Enter, IInv, Control, logger

LEMMA LogSnapshotOK ==
    ASSUME IInv, NEW r \in Requests, LogSnapshot(r)
    PROVE  UserStep(r)
<1> DEFINE q == [rq[r] EXCEPT !.pc = "write", !.log = srv.tokenLog]
<1>1. srv.tokenLog \in Nat /\ rq[r] \in RequestType /\ RequestOK(rq[r])
  BY DEF IInv, Control, ServerOK, RequestsOK
<1>2. q \in RequestType /\ RequestOK(q)
  BY <1>1 DEF LogSnapshot, RequestType, RequestOK
<1>3. rq' = [rq EXCEPT ![r] = q]
  BY DEF LogSnapshot, IInv, RequestsOK
<1> HIDE DEF q
<1>4. QED
  BY <1>2, <1>3, QuietStep DEF LogSnapshot, IInv, Control, logger

LEMMA LogOK ==
    ASSUME IInv, NEW r \in Requests, Log(r)
    PROVE  UserStep(r)
<1>1. NoRequest \in RequestType /\ RequestOK(NoRequest)
  BY DEF NoRequest, RequestType, RequestOK
<1>2. "close_of_closed" \in panics' => "close_of_closed" \in panics
  BY DEF Log
<1>3. QED
  BY <1>1, <1>2, QuietStep DEF Log, IInv, Control, logger

\* A step that moves one entry and heals nothing.
MayLearn(g, b) == known' = known \/ known' = [known EXCEPT ![g] = @ \cup {b}]

LEMMA EntryMoves ==
    ASSUME EntriesOK, ServerOK, ChecksOK, NEW g \in Generations, NEW b \in Backends,
           NEW e, Follows(e, bh[g][b]), Becomes(g, b, e),
           MayLearn(g, b),
           UNCHANGED <<goroutines, logger, gens, srv, lock, call, lent>>
    PROVE  /\ EntriesOK' /\ CallsStand /\ NoneHeals
           /\ \A h \in Generations, x \in Backends :
                 bh'[h][x] = IF h = g /\ x = b THEN e ELSE bh[h][x]
<1>1. known' \in [Generations -> SUBSET Backends] /\ \A h \in Generations : known[h] \subseteq known'[h]
  BY DEF EntriesOK, MayLearn
<1>2. EntriesOK' /\ \A h \in Generations, x \in Backends :
                       bh'[h][x] = IF h = g /\ x = b THEN e ELSE bh[h][x]
  <2>1. e \in BackendHealth /\ EntryInv(Cfg, e)
    BY DEF Follows
  <2>2. lent' \in [Generations -> [Backends -> Nat]]
    BY DEF EntriesOK
  <2>3. QED
    BY <1>1, <2>1, <2>2, BecomesOK
<1>3. CallsStand
  BY <1>1, SameCalls DEF goroutines, logger
<1>4. NoneHeals
  <2> SUFFICES ASSUME NEW p \in Callers, NEW x \in call'[p].mustTrip, NEW h \in Generations,
                      bh[h][x].state # "healthy"
               PROVE  bh'[h][x].state # "healthy"
    BY DEF NoneHeals
  <2>1. x \in Backends
    BY DEF ServerOK, CallType
  <2>2. QED
    BY <1>2, <2>1 DEF Follows
<1>5. QED
  BY <1>2, <1>3, <1>4

LEMMA AttemptOK ==
    ASSUME IInv, NEW r \in Requests, Attempt(r)
    PROVE  UserStep(r)
<1>1. PICK g \in Generations, b \in Backends :
         g = rq[r].gen /\ b = rq[r].backend /\ rq[r] \in RequestType /\ rq[r].pc = "try"
  BY DEF Attempt, IInv, RequestsOK, RequestOK
<1> DEFINE h == HalfOpened(Cfg, bh[g][b])
<1>2. PICK fallback \in BOOLEAN :
         LET admitted == ~fallback /\ Admits(Cfg, h)
         IN  /\ bh' = [bh EXCEPT ![g][b] = IF admitted THEN Acquired(Cfg, @) ELSE h]
             /\ rq' = [rq EXCEPT ![r].pc = IF admitted \/ fallback THEN "sent" ELSE "log",
                                 ![r].acquired = admitted,
                                 ![r].slot = (admitted /\ h.state = "probing")]
  BY <1>1 DEF Attempt
<1>3. bh[g][b] \in BackendHealth /\ EntryInv(Cfg, bh[g][b])
  BY DEF IInv, EntriesOK
<1>4. PICK e, q : /\ Becomes(g, b, e) /\ rq' = [rq EXCEPT ![r] = q]
                  /\ Follows(e, bh[g][b]) /\ e.inFlight <= bh[g][b].inFlight + 1
                  /\ ~q.slot => e.inFlight = bh[g][b].inFlight
                  /\ q \in RequestType /\ RequestOK(q)
                  /\ q.gen = g /\ q.backend = b /\ (q.slot => q.pc = "sent")
  <2> DEFINE admitted == ~fallback /\ Admits(Cfg, h)
             e == IF admitted THEN Acquired(Cfg, bh[g][b]) ELSE h
             q == [rq[r] EXCEPT !.pc = IF admitted \/ fallback THEN "sent" ELSE "log",
                                !.acquired = admitted,
                                !.slot = (admitted /\ h.state = "probing")]
  <2>1. Becomes(g, b, e)
    BY <1>2 DEF Becomes, IInv, EntriesOK
  <2>2. rq' = [rq EXCEPT ![r] = q]
    BY <1>2 DEF IInv, RequestsOK
  <2>3. /\ Follows(e, bh[g][b]) /\ e.inFlight <= bh[g][b].inFlight + 1
        /\ ~q.slot => e.inFlight = bh[g][b].inFlight
    <3>1. CASE admitted
      <4>1. q.slot <=> h.state = "probing"
        BY <1>1, <3>1 DEF RequestType
      <4>2. QED
        BY <1>3, <3>1, <4>1, AcquiredFollows
    <3>2. CASE ~admitted
      BY <1>3, <3>2, OperationsFollow DEF BackendHealth
    <3>3. QED
      BY <3>1, <3>2
  <2>4. q \in RequestType /\ RequestOK(q) /\ q.gen = g /\ q.backend = b /\ (q.slot => q.pc = "sent")
    BY <1>1 DEF RequestType, RequestOK
  <2>5. QED
    BY <2>1, <2>2, <2>3, <2>4
<1>5. /\ EntriesOK' /\ CallsStand /\ NoneHeals
      /\ \A k \in Generations, x \in Backends : bh'[k][x] = IF k = g /\ x = b THEN e ELSE bh[k][x]
  <2>1. MayLearn(g, b)
    BY <1>1 DEF Attempt, MayLearn
  <2>2. UNCHANGED <<goroutines, logger, gens, srv, lock, call, lent>>
    BY DEF Attempt
  <2>3. EntriesOK /\ ServerOK /\ ChecksOK
    BY DEF IInv, Control
  <2>4. Follows(e, bh[g][b]) /\ Becomes(g, b, e)
    BY <1>4
  <2>5. QED
    BY <2>1, <2>2, <2>3, <2>4, EntryMoves
<1>6. RequestsOK' /\ rq'[r] = q /\ \A x \in Requests \ {r} : rq'[x] = rq[x]
  BY <1>4, RequestMoves DEF IInv
<1>7. ASSUME NEW k \in Generations, NEW x \in Backends PROVE SlotsFollow(r, k, x)
  <2>1. r \notin Holders(k, x)
    BY <1>1 DEF Holders
  <2>2. CASE k = g /\ x = b /\ q.slot
    <3>1. r \in Holders(k, x)'
      BY <1>4, <1>6, <2>2 DEF Holders
    <3>2. QED
      BY <1>4, <1>5, <2>1, <2>2, <3>1 DEF SlotsFollow
  <2>3. CASE ~(k = g /\ x = b /\ q.slot)
    <3>1. bh'[k][x].inFlight = bh[k][x].inFlight /\ bh[k][x].inFlight \in Nat
      BY <1>4, <1>5, <2>3 DEF IInv, EntriesOK, BackendHealth
    <3>2. QED
      BY <2>1, <3>1 DEF SlotsFollow
  <2>4. QED
    BY <2>2, <2>3
<1>8. QED
  BY <1>5, <1>6, <1>7 DEF UserStep, TodoStands, Attempt

LEMMA CancelledOK ==
    ASSUME IInv, NEW r \in Requests, Cancelled(r)
    PROVE  UserStep(r)
<1>1. PICK g \in Generations, b \in Backends :
         g = rq[r].gen /\ b = rq[r].backend /\ rq[r] \in RequestType /\ RequestOK(rq[r])
  BY DEF Cancelled, IInv, RequestsOK, RequestOK
<1>2. bh[g][b] \in BackendHealth /\ EntryInv(Cfg, bh[g][b])
  BY DEF IInv, EntriesOK
<1>3. PICK e : /\ e = IF rq[r].acquired THEN Released(bh[g][b]) ELSE bh[g][b]
               /\ Becomes(g, b, e) /\ Follows(e, bh[g][b])
  <2> DEFINE e == IF rq[r].acquired THEN Released(bh[g][b]) ELSE bh[g][b]
  <2>1. Becomes(g, b, e)
    BY <1>1 DEF Cancelled, Becomes, IInv, EntriesOK
  <2>2. Follows(e, bh[g][b])
    BY <1>2, OperationsFollow
  <2>3. QED
    BY <2>1, <2>2
<1>4. PICK q \in RequestType : rq' = [rq EXCEPT ![r] = q] /\ RequestOK(q) /\ ~q.slot
  <2> DEFINE q == [rq[r] EXCEPT !.pc = "log", !.slot = FALSE]
  <2>1. q \in RequestType /\ RequestOK(q) /\ ~q.slot
    BY <1>1 DEF RequestType, RequestOK
  <2>2. rq' = [rq EXCEPT ![r] = q]
    BY DEF Cancelled, IInv, RequestsOK
  <2>3. QED
    BY <2>1, <2>2
<1>5. /\ EntriesOK' /\ CallsStand /\ NoneHeals
      /\ \A k \in Generations, x \in Backends : bh'[k][x] = IF k = g /\ x = b THEN e ELSE bh[k][x]
  <2>1. EntriesOK /\ ServerOK /\ ChecksOK
    BY DEF IInv, Control
  <2>2. MayLearn(g, b) /\ UNCHANGED <<goroutines, logger, gens, srv, lock, call, lent>>
    BY DEF Cancelled, MayLearn
  <2>3. QED
    BY <1>3, <2>1, <2>2, EntryMoves
<1>6. RequestsOK' /\ rq'[r] = q /\ \A x \in Requests \ {r} : rq'[x] = rq[x]
  BY <1>4, RequestMoves DEF IInv
<1>7. ASSUME NEW k \in Generations, NEW x \in Backends PROVE SlotsFollow(r, k, x)
  <2>1. bh[k][x].inFlight \in Nat
    BY DEF IInv, EntriesOK, BackendHealth
  <2>2. CASE k = g /\ x = b /\ rq[r].acquired
    BY <1>2, <1>3, <1>5, <2>2, OperationsFollow DEF SlotsFollow
  <2>3. CASE ~(k = g /\ x = b /\ rq[r].acquired)
    <3>1. bh'[k][x].inFlight = bh[k][x].inFlight
      BY <1>3, <1>5, <2>3
    <3>2. r \notin Holders(k, x)
      BY <1>1, <2>3 DEF Holders, RequestOK
    <3>3. QED
      BY <2>1, <3>1, <3>2 DEF SlotsFollow
  <2>4. QED
    BY <2>2, <2>3
<1>8. QED
  BY <1>5, <1>6, <1>7 DEF UserStep, TodoStands, Cancelled

\* A report to a manager, by a request or a check.  A success clears what the
\* calls remember of that backend.
LEMMA ReportOK ==
    ASSUME IInv, NEW g \in Generations, NEW b \in Backends, NEW ok \in BOOLEAN, Report(g, b, ok),
           UNCHANGED <<goroutines, logger, gens, srv, lock, lent>>
    PROVE  /\ EntriesOK' /\ CallsStand /\ TodoStands /\ NoneHeals
           /\ \A k \in Generations, x \in Backends :
                 bh'[k][x].inFlight = IF k = g /\ x = b THEN 0 ELSE bh[k][x].inFlight
<1>1. bh[g][b] \in BackendHealth /\ EntryInv(Cfg, bh[g][b])
  BY DEF IInv, EntriesOK
<1>2. PICK e : /\ e = IF ok THEN Succeeded(bh[g][b]) ELSE Failed(Cfg, bh[g][b])
               /\ Becomes(g, b, e)
  BY DEF Report, Becomes, IInv, EntriesOK
<1>3. e \in BackendHealth /\ EntryInv(Cfg, e) /\ e.inFlight = 0 /\ (~ok => Follows(e, bh[g][b]))
  BY <1>1, <1>2, OperationsFollow, SucceededOKHere DEF Follows, Succeeded
<1>4. /\ known' \in [Generations -> SUBSET Backends] /\ lent' = lent
      /\ \A h \in Generations : known[h] \subseteq known'[h]
  BY DEF Report, IInv, EntriesOK
<1>5. EntriesOK' /\ \A k \in Generations, x \in Backends :
                       bh'[k][x] = IF k = g /\ x = b THEN e ELSE bh[k][x]
  <2>1. EntriesOK /\ lent' \in [Generations -> [Backends -> Nat]]
    BY <1>4 DEF IInv, EntriesOK
  <2>2. QED
    BY <1>2, <1>3, <1>4, <2>1, BecomesOK
<1>6. CallsStand /\ TodoStands /\ (ok => \A p \in Callers : b \notin call'[p].mustTrip)
  <2>1. call \in [Callers -> CallType] /\ running \in [Generations -> SUBSET Backends]
    BY DEF IInv, Control, ServerOK, ChecksOK
  <2>2. /\ call' \in [Callers -> CallType] /\ (\A p \in Callers : SameCall(p)) /\ TodoStands
        /\ ok => \A p \in Callers : b \notin call'[p].mustTrip
    BY <2>1 DEF Report, Healed, CallType, SameCall, TodoStands
  <2>3. QED
    BY <1>4, <2>1, <2>2 DEF CallsStand, goroutines, logger
<1>7. NoneHeals
  <2> SUFFICES ASSUME NEW p \in Callers, NEW x \in call'[p].mustTrip, NEW k \in Generations,
                      bh[k][x].state # "healthy"
               PROVE  bh'[k][x].state # "healthy"
    BY DEF NoneHeals
  <2>1. x \in Backends
    BY <1>6 DEF CallsStand, CallType
  <2>2. QED
    BY <1>3, <1>5, <1>6, <2>1 DEF Follows
<1>8. QED
  BY <1>3, <1>5, <1>6, <1>7

LEMMA AnsweredOK ==
    ASSUME IInv, NEW r \in Requests, Answered(r)
    PROVE  UserStep(r)
<1>1. PICK g \in Generations, b \in Backends :
         g = rq[r].gen /\ b = rq[r].backend /\ rq[r] \in RequestType /\ RequestOK(rq[r])
  BY DEF Answered, IInv, RequestsOK, RequestOK
<1>2. PICK ok \in BOOLEAN : Report(g, b, ok)
  BY <1>1 DEF Answered
<1>3. PICK q \in RequestType : rq' = [rq EXCEPT ![r] = q] /\ RequestOK(q)
  <2> DEFINE q == [rq[r] EXCEPT !.pc = "log", !.slot = FALSE]
  <2>1. q \in RequestType /\ RequestOK(q)
    BY <1>1 DEF RequestType, RequestOK
  <2>2. rq' = [rq EXCEPT ![r] = q]
    BY DEF Answered, IInv, RequestsOK
  <2>3. QED
    BY <2>1, <2>2
<1>4. UNCHANGED <<goroutines, logger, gens, srv, lock, lent>>
  BY DEF Answered
<1>5. /\ EntriesOK' /\ CallsStand /\ TodoStands /\ NoneHeals
      /\ \A k \in Generations, x \in Backends :
            bh'[k][x].inFlight = IF k = g /\ x = b THEN 0 ELSE bh[k][x].inFlight
  BY <1>2, <1>4, ReportOK
<1>6. RequestsOK' /\ \A x \in Requests \ {r} : rq'[x] = rq[x]
  BY <1>3, RequestMoves DEF IInv
<1>7. ASSUME NEW k \in Generations, NEW x \in Backends PROVE SlotsFollow(r, k, x)
  <2>1. CASE k = g /\ x = b
    BY <1>5, <2>1 DEF SlotsFollow
  <2>2. CASE ~(k = g /\ x = b)
    <3>1. bh'[k][x].inFlight = bh[k][x].inFlight /\ bh[k][x].inFlight \in Nat
      BY <1>5, <2>2 DEF IInv, EntriesOK, BackendHealth
    <3>2. r \notin Holders(k, x)
      BY <1>1, <2>2 DEF Holders
    <3>3. QED
      BY <3>1, <3>2 DEF SlotsFollow
  <2>3. QED
    BY <2>1, <2>2
<1>8. QED
  BY <1>4, <1>5, <1>6, <1>7 DEF UserStep

\* Steps of no request: whoever r is, it stays as it is.
LEMMA CheckOK ==
    ASSUME IInv, NEW g \in Generations, NEW b \in Backends, Check(g, b), NEW r
    PROVE  UserStep(r)
<1>1. PICK ok \in BOOLEAN : Report(g, b, ok)
  BY DEF Check
<1>2. UNCHANGED <<goroutines, logger, gens, srv, lock, rq, lent>>
  BY DEF Check
<1>3. /\ EntriesOK' /\ CallsStand /\ TodoStands /\ NoneHeals
      /\ \A k \in Generations, x \in Backends :
            bh'[k][x].inFlight = IF k = g /\ x = b THEN 0 ELSE bh[k][x].inFlight
  BY <1>1, <1>2, ReportOK
<1>4. RequestsOK'
  BY <1>2 DEF IInv, RequestsOK
<1>5. ASSUME NEW k \in Generations, NEW x \in Backends PROVE SlotsFollow(r, k, x)
  <2>1. bh[k][x].inFlight \in Nat /\ Holders(k, x)' = Holders(k, x)
    BY <1>2 DEF IInv, EntriesOK, BackendHealth, Holders
  <2>2. QED
    BY <1>3, <2>1 DEF SlotsFollow
<1>6. QED
  BY <1>2, <1>3, <1>4, <1>5 DEF UserStep

LEMMA LoopExitsOK ==
    ASSUME IInv, NEW g \in Generations, NEW b \in Backends, LoopExits(g, b), NEW r
    PROVE  UserStep(r)
<1>1. UNCHANGED <<health, stopCh, logger, gens, srv, lock, call, rq, lent>>
  BY DEF LoopExits
<1>2. EntriesOK' /\ RequestsOK' /\ NoneHeals
  BY <1>1 DEF IInv, EntriesOK, RequestsOK, NoneHeals, health
<1>3. CallsStand
  <2>1. /\ running' \in [Generations -> SUBSET Backends]
        /\ \A k \in Generations : running'[k] \subseteq running[k]
    BY DEF LoopExits, IInv, Control, ChecksOK
  <2>2. QED
    BY <1>1, <2>1 DEF CallsStand, SameCall, IInv, Control, ServerOK, health, logger
<1>4. ASSUME NEW k \in Generations, NEW x \in Backends PROVE SlotsFollow(r, k, x)
  BY <1>1 DEF SlotsFollow, Holders, health, IInv, EntriesOK, BackendHealth
<1>5. QED
  BY <1>1, <1>2, <1>3, <1>4 DEF UserStep, TodoStands

LEMMA ConsoleReadOK ==
    ASSUME IInv, NEW b \in Backends, ConsoleRead(b), NEW r
    PROVE  UserStep(r)
<1>1. PICK g \in Generations : g = srv.health
  BY ReloadAssumption DEF IInv, Control, ServerOK, Generations
<1>2. bh[g][b] \in BackendHealth /\ EntryInv(Cfg, bh[g][b])
  BY DEF IInv, EntriesOK
<1>3. PICK e : /\ Becomes(g, b, e) /\ Follows(e, bh[g][b]) /\ e.inFlight = bh[g][b].inFlight
  <2>1. Becomes(g, b, HalfOpened(Cfg, bh[g][b]))
    BY <1>1 DEF ConsoleRead, Becomes, IInv, EntriesOK
  <2>2. QED
    BY <1>2, <2>1, OperationsFollow
<1>4. UNCHANGED <<goroutines, logger, gens, srv, lock, call, rq, lent>>
  BY DEF ConsoleRead
<1>5. /\ EntriesOK' /\ CallsStand /\ NoneHeals
      /\ \A k \in Generations, x \in Backends : bh'[k][x] = IF k = g /\ x = b THEN e ELSE bh[k][x]
  <2>1. EntriesOK /\ ServerOK /\ ChecksOK
    BY DEF IInv, Control
  <2>2. MayLearn(g, b)
    BY <1>1 DEF ConsoleRead, MayLearn
  <2>3. QED
    BY <1>3, <1>4, <2>1, <2>2, EntryMoves
<1>6. RequestsOK'
  BY <1>4 DEF IInv, RequestsOK
<1>7. ASSUME NEW k \in Generations, NEW x \in Backends PROVE SlotsFollow(r, k, x)
  <2>1. bh[k][x].inFlight \in Nat /\ Holders(k, x)' = Holders(k, x)
    BY <1>4 DEF IInv, EntriesOK, BackendHealth, Holders
  <2>2. QED
    BY <1>3, <1>5, <2>1 DEF SlotsFollow
<1>8. QED
  BY <1>4, <1>5, <1>6, <1>7 DEF UserStep, TodoStands

LEMMA TickOK ==
    ASSUME IInv, Tick, NEW r
    PROVE  UserStep(r)
<1>1. UNCHANGED <<known, goroutines, logger, gens, srv, lock, call, rq, lent>>
  BY DEF Tick
<1>2. \A g \in Generations, b \in Backends :
         /\ bh[g][b] \in BackendHealth /\ bh'[g][b] = Aged(bh[g][b])
         /\ Follows(Aged(bh[g][b]), bh[g][b]) /\ Aged(bh[g][b]).inFlight = bh[g][b].inFlight
  BY OperationsFollow DEF Tick, IInv, EntriesOK
<1>3. EntriesOK'
  <2>1. bh' \in [Generations -> [Backends -> BackendHealth]]
    BY <1>2 DEF Follows, Tick
  <2>2. QED
    BY <1>1, <1>2, <2>1 DEF Follows, IInv, EntriesOK
<1>4. CallsStand
  <2>1. ServerOK /\ ChecksOK /\ \A g \in Generations : known[g] \subseteq known'[g]
    BY <1>1 DEF IInv, Control
  <2>2. QED
    BY <1>1, <2>1, SameCalls DEF goroutines, logger
<1>5. NoneHeals
  BY <1>1, <1>2 DEF NoneHeals, Follows, IInv, Control, ServerOK, CallType
<1>6. RequestsOK'
  BY <1>1 DEF IInv, RequestsOK
<1>7. ASSUME NEW k \in Generations, NEW x \in Backends PROVE SlotsFollow(r, k, x)
  <2>1. bh[k][x].inFlight \in Nat /\ Holders(k, x)' = Holders(k, x)
    BY <1>1 DEF IInv, EntriesOK, BackendHealth, Holders
  <2>2. QED
    BY <1>2, <2>1 DEF SlotsFollow
<1>8. QED
  BY <1>1, <1>3, <1>4, <1>5, <1>6, <1>7 DEF UserStep, TodoStands

LEMMA UserStepKeeps ==
    ASSUME IInv, NEW r, UserStep(r), cast' = cast
    PROVE  IInv'
<1>1. Control'
  BY StandKeepsControl DEF IInv, UserStep
<1>2. SeededOK' /\ TripsOK'
  BY StandKeepsRest DEF IInv, UserStep
<1>3. QED
  BY <1>1, <1>2 DEF IInv, UserStep

-----------------------------------------------------------------------------
(* Steps of ReloadConfig and Close.                                          *)

\* Call p moves to c, and nothing is reported to any manager.
Moves(p, c) == /\ call' = [call EXCEPT ![p] = c]
               /\ UNCHANGED <<rq, cast>>

LEMMA CallMoves ==
    ASSUME Control, NEW p \in Callers, NEW c \in CallType, Moves(p, c)
    PROVE  /\ call' \in [Callers -> CallType] /\ call'[p] = c
           /\ \A q \in Callers \ {p} : call'[q] = call[q]
BY DEF Control, ServerOK, Moves

LEMMA RequestsStand ==
    ASSUME RequestsOK, rq' = rq
    PROVE  RequestsOK'
BY DEF RequestsOK

LEMMA BeginReloadOK ==
    ASSUME IInv, NEW p \in Reloaders, BeginReload(p)
    PROVE  IInv'
<1> USE DEF Control, Callers
<1>1. PICK c \in Configs :
         Moves(p, [NoCall EXCEPT !.pc = "adopt", !.conf = c, !.new = gens + 1,
              !.todo = known[srv.health],
              !.mustTrip = {b \in known[srv.health] : bh[srv.health][b].state = "tripped"}])
  BY DEF BeginReload, Moves
<1> DEFINE d == [NoCall EXCEPT !.pc = "adopt", !.conf = c, !.new = gens + 1,
              !.todo = known[srv.health],
              !.mustTrip = {b \in known[srv.health] : bh[srv.health][b].state = "tripped"}]
<1>2. /\ gens' = gens + 1 /\ gens' \in Generations /\ gens \in Nat /\ gens' \in Nat
      /\ lock = "free" /\ lock' = p /\ call[p].pc = "idle"
      /\ UNCHANGED <<health, goroutines, logger, srv, rq, lent, cast>>
  BY ReloadAssumption DEF BeginReload, IInv, ServerOK, Generations
<1>3. srv.health \in Generations /\ srv.health \in 1..gens
  BY ReloadAssumption DEF IInv, ServerOK, Generations
<1>4. /\ d \in CallType /\ d.pc = "adopt" /\ d.new = gens + 1 /\ d.old = 0 /\ d.oldLog = 0
      /\ \A b \in d.mustTrip : b \in d.todo /\ bh[srv.health][b].state = "tripped"
  BY <1>2, <1>3, ReloadAssumption DEF NoCall, CallType, IInv, EntriesOK
<1> HIDE DEF d
<1>5. /\ call' \in [Callers -> CallType] /\ call'[p] = d
      /\ \A q \in Callers \ {p} : call'[q] = call[q]
  <2>1. p \in Callers /\ Control
    BY DEF IInv
  <2>2. QED
    BY <1>1, <1>4, <2>1, CallMoves DEF d
<1>6. EntriesOK' /\ RequestsOK'
  BY <1>2, RequestsStand DEF IInv, EntriesOK, health
<1>7. ServerOK'
  BY <1>2, <1>5 DEF IInv, ServerOK, logger
<1>8. LockOK'
  BY <1>2, <1>4, <1>5, ReloadAssumption DEF IInv, LockOK, Making
<1>9. \A q \in Callers : ~Making(q)
  BY <1>2, ReloadAssumption DEF IInv, LockOK
<1>10. MakersOK'
  <2>1. \A q \in Callers : call'[q].old <= gens /\ call[q].old \in Nat
    BY <1>2, <1>4, <1>5 DEF IInv, MakersOK, ServerOK, CallType
  <2>2. \A q \in Callers : Making(q)' => q = p
    BY <1>5, <1>9 DEF Making
  <2>3. srv'.health \in Nat /\ srv'.health <= gens
    BY <1>2, <1>3
  <2>4. \A q \in Callers : call'[q].old < gens' /\ call'[q].old <= gens'
    BY <1>2, <1>4, <1>5, <2>1
  <2>5. QED
    BY <1>2, <1>4, <1>5, <2>2, <2>3, <2>4 DEF MakersOK
<1>11. ChecksOK'
  <2>1. running' = running /\ srv' = srv /\ running' \in [Generations -> SUBSET Backends]
    BY <1>2 DEF IInv, ChecksOK, goroutines
  <2>2. \A q \in Callers : /\ call'[q].pc \in Stopping \cup {"closed"} => call'[q].old \in 1..gens'
                           /\ call'[q].pc = "closed" => running'[call'[q].old] = {}
    <3> SUFFICES ASSUME NEW q \in Callers, call'[q].pc \in Stopping \cup {"closed"}
                 PROVE  call'[q].old \in 1..gens' /\ (call'[q].pc = "closed" => running'[call'[q].old] = {})
      OBVIOUS
    <3>1. q # p /\ call'[q] = call[q]
      BY <1>4, <1>5 DEF Stopping
    <3>2. call[q].old \in 1..gens /\ (call[q].pc = "closed" => running[call[q].old] = {})
      BY <3>1 DEF IInv, ChecksOK
    <3>3. QED
      BY <1>2, <2>1, <3>1, <3>2
  <2>3. ASSUME NEW g \in Generations, running'[g] # {}, g # srv'.health
        PROVE  \E q \in Callers : call'[q].pc \in Stopping /\ g = call'[q].old
    <3>1. PICK q \in Callers : call[q].pc \in Stopping /\ g = call[q].old
      BY <1>9, <2>1, <2>3 DEF IInv, ChecksOK, Making
    <3>2. q # p
      BY <1>2, <3>1 DEF Stopping
    <3>3. QED
      BY <1>5, <3>1, <3>2
  <2>4. QED
    BY <2>1, <2>2, <2>3 DEF ChecksOK
<1>12. LogsOK'
  BY <1>2, <1>4, <1>5, ReloadAssumption DEF IInv, LogsOK, ToClose, Stopping, logger, ServerOK
<1>13. SeededOK'
  BY <1>2, <1>4, <1>5 DEF IInv, SeededOK, health
<1>14. TripsOK'
  BY <1>2, <1>4, <1>5, <1>9 DEF IInv, TripsOK, Making, health
<1>15. QED
  BY <1>2, <1>6, <1>7, <1>8, <1>10, <1>11, <1>12, <1>13, <1>14 DEF IInv

\* What is known of the call that holds the lock.
LEMMA MakerFacts ==
    ASSUME IInv, NEW p \in Callers, Making(p)
    PROVE  /\ call[p] \in CallType /\ call[p].new \in Generations /\ call[p].new = gens
           /\ gens \in Nat /\ srv.health \in Generations /\ srv.health \in 1..gens
           /\ srv.health # call[p].new
           /\ \A q \in Callers : call[q].old \in Nat /\ call[q].old < gens
           /\ \A q \in Callers : Making(q) => q = p
<1>1. lock = p /\ \A q \in Callers : Making(q) => q = p
  BY DEF IInv, Control, LockOK
<1>2. call[p] \in CallType /\ gens \in Generations /\ gens \in Nat /\ srv.health \in 1..gens
  BY ReloadAssumption DEF IInv, Control, ServerOK, Generations
<1>3. \A q \in Callers : call[q].old \in Nat
  BY DEF IInv, Control, ServerOK, CallType
<1>4. srv.health \in Generations
  BY <1>2, ReloadAssumption DEF Generations
<1>5. QED
  BY <1>1, <1>2, <1>3, <1>4 DEF IInv, Control, MakersOK

LEMMA AdoptOK ==
    ASSUME IInv, NEW p \in Reloaders, Adopt(p)
    PROVE  IInv'
<1>1. p \in Callers /\ Making(p) /\ call[p].pc = "adopt"
  BY DEF Adopt, Making, Callers
<1>2. /\ call[p] \in CallType /\ call[p].new \in Generations /\ srv.health \in Generations
      /\ srv.health # call[p].new /\ \A q \in Callers : Making(q) => q = p
  BY <1>1, MakerFacts
<1>3. PICK b \in call[p].todo :
          /\ bh' = [bh EXCEPT ![call[p].new][b] = bh[srv.health][b]]
          /\ known' = [known EXCEPT ![call[p].new] = @ \cup {b}]
          /\ lent' = [lent EXCEPT ![call[p].new][b] = bh[srv.health][b].inFlight]
          /\ call' = [call EXCEPT ![p].todo = @ \ {b}]
  BY DEF Adopt
<1>4. b \in Backends /\ UNCHANGED <<goroutines, logger, gens, srv, lock, rq, cast>>
  BY <1>2 DEF CallType, Adopt
<1>5. PICK g \in Generations, e \in BackendHealth :
         /\ g = call[p].new /\ e = bh[srv.health][b] /\ EntryInv(Cfg, e) /\ Becomes(g, b, e)
         /\ lent' \in [Generations -> [Backends -> Nat]]
         /\ known' \in [Generations -> SUBSET Backends]
         /\ \A h \in Generations : known[h] \subseteq known'[h]
  <2>1. bh[srv.health][b] \in BackendHealth /\ EntryInv(Cfg, bh[srv.health][b])
    BY <1>2, <1>4 DEF IInv, EntriesOK
  <2>2. bh[srv.health][b].inFlight \in Nat
    BY <2>1 DEF BackendHealth
  <2>3. lent' \in [Generations -> [Backends -> Nat]]
    BY <1>2, <1>3, <1>4, <2>2 DEF IInv, EntriesOK
  <2>4. /\ known' \in [Generations -> SUBSET Backends]
        /\ \A h \in Generations : known[h] \subseteq known'[h]
    BY <1>2, <1>3, <1>4 DEF IInv, EntriesOK
  <2>5. QED
    BY <1>2, <1>3, <2>1, <2>3, <2>4 DEF Becomes
<1>6. EntriesOK' /\ \A h \in Generations, x \in Backends :
                       bh'[h][x] = IF h = g /\ x = b THEN e ELSE bh[h][x]
  <2>1. EntriesOK
    BY DEF IInv
  <2>2. QED
    BY <1>4, <1>5, <2>1, BecomesOK
<1>7. /\ call' \in [Callers -> CallType] /\ \A q \in Callers : SameCall(q)
      /\ call'[p].todo = call[p].todo \ {b}
  BY <1>1, <1>2, <1>3 DEF SameCall, CallType, IInv, Control, ServerOK
<1>8. CallsStand
  BY <1>4, <1>5, <1>7 DEF CallsStand, goroutines, logger, IInv, Control, ChecksOK
<1>9. Control' /\ SeededOK' /\ RequestsOK'
  BY <1>4, <1>8, StandKeepsControl, StandKeepsRest, RequestsStand DEF IInv
<1>10. TripsOK'
  <2> SUFFICES ASSUME NEW q \in Callers, NEW x \in call'[q].mustTrip, Making(q)'
               PROVE  /\ call'[q].pc = "adopt" =>
                            IF x \in call'[q].todo THEN bh'[srv'.health][x].state # "healthy"
                            ELSE bh'[call'[q].new][x].state # "healthy"
                      /\ call'[q].pc = "swap" => bh'[call'[q].new][x].state # "healthy"
    BY DEF TripsOK, Making
  <2>1. q = p /\ x \in call[p].mustTrip /\ x \in Backends /\ call'[p].pc = "adopt"
        /\ call'[p].new = g
    BY <1>1, <1>2, <1>5, <1>7 DEF Making, SameCall, CallType
  <2>2. IF x \in call[p].todo THEN bh[srv.health][x].state # "healthy"
        ELSE bh[g][x].state # "healthy"
    BY <1>1, <1>5, <2>1 DEF IInv, TripsOK
  <2>3. bh'[srv.health][x] = bh[srv.health][x]
    BY <1>2, <1>5, <1>6, <2>1
  <2>4. bh'[g][x] = IF x = b THEN bh[srv.health][b] ELSE bh[g][x]
    BY <1>5, <1>6, <2>1
  <2>5. QED
    BY <1>3, <1>4, <1>7, <2>1, <2>2, <2>3, <2>4
<1>11. QED
  BY <1>4, <1>6, <1>9, <1>10 DEF IInv

LEMMA StartChecksOK ==
    ASSUME IInv, NEW p \in Reloaders, StartChecks(p)
    PROVE  IInv'
<1> USE DEF Control
<1>1. p \in Callers /\ Making(p) /\ call[p].pc = "adopt" /\ call[p].todo = {}
  BY DEF StartChecks, Making, Callers
<1>2. /\ call[p] \in CallType /\ call[p].new \in Generations /\ call[p].new = gens /\ gens \in Nat
      /\ srv.health \in Generations /\ \A q \in Callers : Making(q) => q = p
      /\ \A q \in Callers : call[q].old \in Nat /\ call[q].old < gens
  BY <1>1, MakerFacts
<1>3. /\ known' = [known EXCEPT ![call[p].new] = @ \cup call[p].conf.enabled]
      /\ running' = [running EXCEPT ![call[p].new] = call[p].conf.checked]
      /\ UNCHANGED <<bh, stopCh, logger, gens, srv, lock, rq, lent, cast>>
  BY DEF StartChecks
<1>4. /\ call' \in [Callers -> CallType] /\ call'[p] = [call[p] EXCEPT !.pc = "swap"]
      /\ \A q \in Callers \ {p} : call'[q] = call[q]
  BY <1>1, <1>2 DEF StartChecks, IInv, ServerOK, CallType
<1>5. \A q \in Callers : /\ call'[q].new = call[q].new /\ call'[q].old = call[q].old
                         /\ call'[q].oldLog = call[q].oldLog
                         /\ call'[q].mustTrip = call[q].mustTrip /\ call'[q].conf = call[q].conf
                         /\ q # p => call'[q].pc = call[q].pc
                         /\ q = p => call'[q].pc = "swap"
  BY <1>2, <1>4 DEF CallType
<1>6. call[p].conf.enabled \subseteq Backends /\ call[p].conf.checked \subseteq Backends
  BY <1>2, ReloadAssumption DEF CallType
<1>7. /\ known' \in [Generations -> SUBSET Backends] /\ running' \in [Generations -> SUBSET Backends]
      /\ \A g \in Generations : known[g] \subseteq known'[g]
      /\ call[p].conf.enabled \subseteq known'[call[p].new]
      /\ \A g \in Generations : g # gens => running'[g] = running[g]
  BY <1>2, <1>3, <1>6 DEF IInv, EntriesOK, ChecksOK
<1>8. EntriesOK' /\ RequestsOK'
  BY <1>3, <1>7, RequestsStand DEF IInv, EntriesOK
<1>9. ServerOK' /\ LogsOK'
  <2>1. ServerOK'
    BY <1>3, <1>4 DEF IInv, ServerOK, logger
  <2>2. \A q \in Closers : q # p
    BY ReloadAssumption
  <2>3. \A q \in Callers : ToClose(q)' <=> ToClose(q)
    BY <1>1, <1>5 DEF ToClose, Stopping
  <2>4. QED
    BY <1>3, <1>5, <2>1, <2>2, <2>3 DEF IInv, LogsOK, logger, Callers
<1>10. \A q \in Callers : Making(q)' <=> Making(q)
  BY <1>1, <1>5 DEF Making
<1>11. LockOK' /\ MakersOK'
  BY <1>3, <1>5, <1>10 DEF IInv, LockOK, MakersOK
<1>12. ChecksOK'
  <2>1. ASSUME NEW q \in Callers, call'[q].pc \in Stopping \cup {"closed"}
        PROVE  call'[q].old \in 1..gens' /\ (call'[q].pc = "closed" => running'[call'[q].old] = {})
    <3>1. q # p /\ call'[q].pc = call[q].pc /\ call'[q].old = call[q].old
      BY <1>5, <2>1 DEF Stopping
    <3>2. call[q].old \in 1..gens /\ (call[q].pc = "closed" => running[call[q].old] = {})
      BY <2>1, <3>1 DEF IInv, ChecksOK
    <3>3. call[q].old \in Generations /\ call[q].old # gens
      BY <1>2, <3>2, ReloadAssumption DEF Generations
    <3>4. QED
      BY <1>3, <1>7, <3>1, <3>2, <3>3
  <2>2. ASSUME NEW g \in Generations, running'[g] # {}, g # srv'.health, g # gens
        PROVE  \E q \in Callers : call'[q].pc \in Stopping /\ g = call'[q].old
    <3>1. PICK q \in Callers : call[q].pc \in Stopping /\ g = call[q].old
      BY <1>1, <1>2, <1>3, <1>7, <2>2 DEF IInv, ChecksOK, Making
    <3>2. QED
      BY <1>1, <1>5, <3>1 DEF Stopping
  <2>3. QED
    BY <1>1, <1>2, <1>5, <1>7, <2>1, <2>2 DEF ChecksOK
<1>13. SeededOK'
  <2>1. \A q \in Callers : call'[q].pc = "swap" => q = p
    BY <1>2, <1>10 DEF Making
  <2>2. QED
    BY <1>2, <1>3, <1>5, <1>7, <2>1 DEF IInv, SeededOK
<1>14. TripsOK'
  <2>1. \A q \in Callers : call'[q].pc \in {"adopt", "swap"} => q = p
    BY <1>2, <1>10 DEF Making
  <2>2. QED
    BY <1>1, <1>3, <1>5, <2>1 DEF IInv, TripsOK
<1>15. QED
  BY <1>3, <1>8, <1>9, <1>11, <1>12, <1>13, <1>14 DEF IInv

LEMMA FailRebuildOK ==
    ASSUME IInv, NEW p \in Reloaders, FailRebuild(p)
    PROVE  IInv'
<1> USE DEF Control
<1>1. p \in Callers /\ Making(p) /\ call[p].pc = "swap"
  BY DEF FailRebuild, Making, Callers
<1>2. /\ call[p] \in CallType /\ call[p].new = gens /\ gens \in Nat /\ gens \in Generations
      /\ \A q \in Callers : Making(q) => q = p
      /\ \A q \in Callers : call[q].old \in Nat /\ call[q].old < gens
  BY <1>1, MakerFacts
<1>3. lock' = "free" /\ UNCHANGED <<health, goroutines, logger, gens, srv, rq, lent, cast>>
  BY DEF FailRebuild
<1>4. /\ call' \in [Callers -> CallType] /\ \A q \in Callers \ {p} : call'[q] = call[q]
      /\ call'[p].pc = "stop" /\ call'[p].old = gens /\ call'[p].oldLog = 0
  BY <1>1, <1>2 DEF FailRebuild, IInv, ServerOK, CallType, Stopping
<1>5. EntriesOK' /\ RequestsOK'
  BY <1>3, RequestsStand DEF IInv, EntriesOK, health
<1>6. ServerOK'
  BY <1>3, <1>4 DEF IInv, ServerOK, logger
<1>7. \A q \in Callers : ~Making(q)'
  BY <1>2, <1>4 DEF Making
<1>8. LockOK' /\ MakersOK'
  <2>1. \A q \in Callers : q # "free"
    BY ReloadAssumption DEF Callers
  <2>2. \A q \in Callers : call'[q].old <= gens
    BY <1>2, <1>4
  <2>3. QED
    BY <1>3, <1>7, <2>1, <2>2 DEF LockOK, MakersOK
<1>9. ChecksOK'
  <2>1. ASSUME NEW q \in Callers, call'[q].pc \in Stopping \cup {"closed"}
        PROVE  call'[q].old \in 1..gens' /\ (call'[q].pc = "closed" => running'[call'[q].old] = {})
    <3>1. CASE q = p
      BY <1>2, <1>3, <1>4, <3>1, ReloadAssumption DEF Generations
    <3>2. CASE q # p
      BY <1>3, <1>4, <2>1, <3>2 DEF IInv, ChecksOK, goroutines
    <3>3. QED
      BY <3>1, <3>2
  <2>2. ASSUME NEW g \in Generations, running'[g] # {}, g # srv'.health
        PROVE  \E q \in Callers : call'[q].pc \in Stopping /\ g = call'[q].old
    <3>1. CASE g = gens
      BY <1>1, <1>4, <3>1 DEF Stopping
    <3>2. CASE g # gens
      <4>1. PICK q \in Callers : call[q].pc \in Stopping /\ g = call[q].old
        BY <1>2, <1>3, <2>2, <3>2 DEF IInv, ChecksOK, Making, goroutines
      <4>2. QED
        BY <1>1, <1>4, <4>1 DEF Stopping
    <3>3. QED
      BY <3>1, <3>2
  <2>3. QED
    BY <1>3, <2>1, <2>2 DEF IInv, ChecksOK, goroutines
<1>10. LogsOK'
  <2>1. \A q \in Callers : ToClose(q)' => q # p /\ ToClose(q)
    BY <1>4 DEF ToClose
  <2>2. \A q \in Closers : q # p /\ q \in Callers
    BY ReloadAssumption DEF Callers
  <2>3. \A q \in Callers : call'[q].oldLog <= logs'
    BY <1>3, <1>4 DEF IInv, LogsOK, ServerOK, logger
  <2>4. QED
    BY <1>3, <1>4, <2>1, <2>2, <2>3 DEF IInv, LogsOK, logger
<1>11. SeededOK' /\ TripsOK'
  <2>1. \A q \in Callers : call'[q].pc \notin {"adopt", "swap"}
    BY <1>7 DEF Making
  <2>2. QED
    BY <1>3, <2>1 DEF IInv, SeededOK, TripsOK, health
<1>12. QED
  BY <1>3, <1>5, <1>6, <1>8, <1>9, <1>10, <1>11 DEF IInv

LEMMA SwapOK ==
    ASSUME IInv, NEW p \in Reloaders, Swap(p)
    PROVE  IInv'
<1> USE DEF Control
<1>1. p \in Callers /\ Making(p) /\ call[p].pc = "swap"
  BY DEF Swap, Making, Callers
<1>2. /\ call[p] \in CallType /\ call[p].new = gens /\ gens \in Nat /\ gens \in 1..gens
      /\ \A q \in Callers : Making(q) => q = p
      /\ srv.health \in 1..gens
      /\ \A q \in Callers : call[q].old \in Nat /\ call[q].old < gens
  BY <1>1, MakerFacts, ReloadAssumption DEF Generations
<1>3. lock' = "free" /\ UNCHANGED <<health, goroutines, closedLogs, panics, gens, rq, lent, cast>>
  BY DEF Swap
<1>4. /\ srv.tokenLog \in 1..logs /\ logs \in Nat /\ closedLogs \subseteq 1..logs
      /\ call[p].conf \in Configs
      /\ \A q \in Callers : call[q].oldLog \in Nat /\ call[q].oldLog <= logs
  BY <1>2 DEF IInv, ServerOK, LogsOK, CallType
<1>5. \/ srv'.tokenLog = srv.tokenLog /\ logs' = logs /\ call'[p].oldLog = 0
      \/ srv'.tokenLog = logs + 1 /\ logs' = logs + 1 /\ call'[p].oldLog = srv.tokenLog
  BY <1>1, <1>2 DEF Swap, IInv, ServerOK, CallType
<1>6. /\ call' \in [Callers -> CallType] /\ \A q \in Callers \ {p} : call'[q] = call[q]
      /\ call'[p].pc = "stop" /\ call'[p].old = srv.health
  <2> DEFINE c == [call[p] EXCEPT !.pc = "stop", !.old = srv.health,
                                   !.oldLog = IF RebuildsLog(p) THEN srv.tokenLog ELSE 0]
  <2>1. call \in [Callers -> CallType]
    BY DEF IInv, ServerOK
  <2>2. call' = [call EXCEPT ![p] = c]
    BY <1>1, <2>1 DEF Swap
  <2>3. c \in CallType /\ c.pc = "stop" /\ c.old = srv.health
    <3>1. srv.health \in Nat /\ srv.tokenLog \in Nat
      BY <1>2, <1>4
    <3>2. QED
      BY <1>2, <3>1 DEF CallType, Stopping
  <2> HIDE DEF c
  <2>4. QED
    BY <1>1, <2>1, <2>2, <2>3
<1>7. srv'.health = gens /\ srv'.conf = call[p].conf /\ srv' = [conf |-> srv'.conf, health |-> srv'.health, tokenLog |-> srv'.tokenLog]
  BY <1>2 DEF Swap
<1>8. EntriesOK' /\ RequestsOK'
  BY <1>3, RequestsStand DEF IInv, EntriesOK, health
<1>9. ServerOK'
  <2>1. logs' \in Nat /\ srv'.tokenLog \in 1..logs' /\ closedLogs' \subseteq 1..logs'
    BY <1>3, <1>4, <1>5
  <2>2. srv' \in [conf : Configs, health : 1..gens', tokenLog : 1..logs']
    BY <1>2, <1>3, <1>4, <1>7, <2>1
  <2>3. QED
    BY <1>3, <1>6, <2>1, <2>2 DEF IInv, ServerOK
<1>10. \A q \in Callers : ~Making(q)'
  BY <1>2, <1>6 DEF Making
<1>11. LockOK' /\ MakersOK'
  <2>1. \A q \in Callers : q # "free"
    BY ReloadAssumption DEF Callers
  <2>2. \A q \in Callers : call'[q].old <= gens
    BY <1>2, <1>6
  <2>3. QED
    BY <1>3, <1>10, <2>1, <2>2 DEF LockOK, MakersOK
<1>12. ChecksOK'
  <2>1. ASSUME NEW q \in Callers, call'[q].pc \in Stopping \cup {"closed"}
        PROVE  call'[q].old \in 1..gens' /\ (call'[q].pc = "closed" => running'[call'[q].old] = {})
    <3>1. CASE q = p
      BY <1>2, <1>3, <1>6, <3>1
    <3>2. CASE q # p
      BY <1>3, <1>6, <2>1, <3>2 DEF IInv, ChecksOK, goroutines
    <3>3. QED
      BY <3>1, <3>2
  <2>2. ASSUME NEW g \in Generations, running'[g] # {}, g # srv'.health
        PROVE  \E q \in Callers : call'[q].pc \in Stopping /\ g = call'[q].old
    <3>1. CASE g = srv.health
      BY <1>1, <1>6, <3>1 DEF Stopping
    <3>2. CASE g # srv.health
      <4>1. PICK q \in Callers : call[q].pc \in Stopping /\ g = call[q].old
        BY <1>2, <1>3, <1>7, <2>2, <3>2 DEF IInv, ChecksOK, Making, goroutines
      <4>2. QED
        BY <1>1, <1>6, <4>1 DEF Stopping
    <3>3. QED
      BY <3>1, <3>2
  <2>3. QED
    BY <1>3, <2>1, <2>2 DEF IInv, ChecksOK, goroutines
<1>13. LogsOK'
  <2>1. \A q \in Callers : call'[q].oldLog <= logs'
    BY <1>4, <1>5, <1>6
  <2>2. \A q \in Closers : q \in Callers /\ call'[q] = call[q]
    BY <1>6, ReloadAssumption DEF Callers
  <2>3. \A q \in Callers \ {p} : ToClose(q)' = ToClose(q) /\ call'[q].oldLog = call[q].oldLog
    BY <1>6 DEF ToClose
  <2>4. ASSUME \A q \in Closers : call'[q].pc = "idle"
        PROVE  /\ srv'.tokenLog \notin closedLogs' /\ "close_of_closed" \notin panics'
               /\ \A q \in Callers : ToClose(q)' =>
                     /\ call'[q].oldLog \notin closedLogs' \cup {srv'.tokenLog}
                     /\ \A x \in Callers : ToClose(x)' /\ x # q => call'[x].oldLog # call'[q].oldLog
    <3>1. /\ srv.tokenLog \notin closedLogs /\ "close_of_closed" \notin panics
          /\ \A q \in Callers : ToClose(q) =>
                /\ call[q].oldLog \notin closedLogs \cup {srv.tokenLog}
                /\ \A x \in Callers : ToClose(x) /\ x # q => call[x].oldLog # call[q].oldLog
      BY <2>2, <2>4 DEF IInv, LogsOK
    <3>2. CASE srv'.tokenLog = srv.tokenLog /\ call'[p].oldLog = 0
      <4>1. ~ToClose(p)'
        BY <3>2 DEF ToClose
      <4>2. QED
        BY <1>3, <2>3, <3>1, <3>2, <4>1
    <3>3. CASE srv'.tokenLog = logs + 1 /\ call'[p].oldLog = srv.tokenLog
      <4>1. logs + 1 \notin closedLogs /\ \A q \in Callers : call[q].oldLog # logs + 1
        BY <1>4
      <4>2. srv.tokenLog # logs + 1
        BY <1>4
      <4>3. QED
        BY <1>3, <2>3, <3>1, <3>3, <4>1, <4>2
    <3>4. QED
      BY <1>5, <3>2, <3>3
  <2>5. QED
    BY <2>1, <2>4 DEF LogsOK
<1>14. SeededOK' /\ TripsOK'
  <2>1. \A q \in Callers : call'[q].pc \notin {"adopt", "swap"}
    BY <1>10 DEF Making
  <2>2. call[p].conf.enabled \subseteq known[gens]
    BY <1>1, <1>2 DEF IInv, SeededOK
  <2>3. QED
    BY <1>3, <1>7, <2>1, <2>2 DEF SeededOK, TripsOK, health
<1>15. QED
  BY <1>3, <1>8, <1>9, <1>11, <1>12, <1>13, <1>14 DEF IInv

LEMMA BeginCloseOK ==
    ASSUME IInv, NEW p \in Closers, BeginClose(p)
    PROVE  IInv'
<1> USE DEF Control
<1>1. p \in Callers /\ call[p].pc = "idle" /\ lock = "free"
  BY DEF BeginClose, Callers
<1>2. UNCHANGED <<health, goroutines, logger, gens, srv, lock, rq, lent, cast>>
  BY DEF BeginClose
<1>3. /\ gens \in Nat /\ srv.health \in 1..gens /\ srv.tokenLog \in 1..logs /\ logs \in Nat
      /\ call \in [Callers -> CallType]
  BY ReloadAssumption DEF IInv, ServerOK, Generations
<1>4. /\ call' \in [Callers -> CallType] /\ \A q \in Callers \ {p} : call'[q] = call[q]
      /\ call'[p].pc = "stop" /\ call'[p].old = srv.health /\ call'[p].oldLog = srv.tokenLog
  <2> DEFINE c == [NoCall EXCEPT !.pc = "stop", !.old = srv.health, !.oldLog = srv.tokenLog]
  <2>1. call' = [call EXCEPT ![p] = c]
    BY DEF BeginClose
  <2>2. c \in CallType /\ c.pc = "stop" /\ c.old = srv.health /\ c.oldLog = srv.tokenLog
    <3>1. srv.health \in Nat /\ srv.tokenLog \in Nat
      BY <1>3
    <3>2. QED
      BY <3>1, ReloadAssumption DEF NoCall, CallType, Stopping
  <2> HIDE DEF c
  <2>3. QED
    BY <1>1, <1>3, <2>1, <2>2
<1>5. EntriesOK' /\ RequestsOK' /\ ServerOK'
  BY <1>2, <1>4, RequestsStand DEF IInv, EntriesOK, ServerOK, health, logger
<1>6. \A q \in Callers : ~Making(q) /\ ~Making(q)'
  BY <1>1, <1>4, ReloadAssumption DEF IInv, LockOK, Making, Callers
<1>7. LockOK' /\ MakersOK'
  <2>1. \A q \in Callers : q # "free"
    BY ReloadAssumption DEF Callers
  <2>2. \A q \in Callers : call'[q].old <= gens
    BY <1>3, <1>4 DEF IInv, MakersOK
  <2>3. QED
    BY <1>1, <1>2, <1>6, <2>1, <2>2 DEF LockOK, MakersOK
<1>8. ChecksOK'
  <2>1. ASSUME NEW q \in Callers, call'[q].pc \in Stopping \cup {"closed"}
        PROVE  call'[q].old \in 1..gens' /\ (call'[q].pc = "closed" => running'[call'[q].old] = {})
    <3>1. CASE q = p
      BY <1>2, <1>3, <1>4, <3>1
    <3>2. CASE q # p
      BY <1>2, <1>4, <2>1, <3>2 DEF IInv, ChecksOK, goroutines
    <3>3. QED
      BY <3>1, <3>2
  <2>2. ASSUME NEW g \in Generations, running'[g] # {}, g # srv'.health
        PROVE  \E q \in Callers : call'[q].pc \in Stopping /\ g = call'[q].old
    <3>1. PICK q \in Callers : call[q].pc \in Stopping /\ g = call[q].old
      BY <1>2, <1>6, <2>2 DEF IInv, ChecksOK, Making, goroutines
    <3>2. QED
      BY <1>1, <1>4, <3>1 DEF Stopping
  <2>3. QED
    BY <1>2, <2>1, <2>2 DEF IInv, ChecksOK, goroutines
<1>9. LogsOK'
  <2>1. \A q \in Callers : call'[q].oldLog <= logs'
    BY <1>2, <1>3, <1>4 DEF IInv, LogsOK, logger
  <2>2. call'[p].pc # "idle"
    BY <1>4
  <2>3. QED
    BY <2>1, <2>2 DEF LogsOK
<1>10. SeededOK' /\ TripsOK'
  <2>1. \A q \in Callers : call'[q].pc \notin {"adopt", "swap"}
    BY <1>6 DEF Making
  <2>2. QED
    BY <1>2, <2>1 DEF IInv, SeededOK, TripsOK, health
<1>11. QED
  BY <1>2, <1>5, <1>7, <1>8, <1>9, <1>10 DEF IInv

LEMMA StopChecksOK ==
    ASSUME IInv, NEW p \in Callers, StopChecks(p)
    PROVE  IInv'
<1> USE DEF Control
<1>1. call[p].pc = "stop" /\ UNCHANGED <<health, running, logger, gens, srv, lock, rq, lent, cast>>
  BY DEF StopChecks
<1>2. /\ call' \in [Callers -> CallType]
      /\ \A q \in Callers : /\ call'[q].new = call[q].new /\ call'[q].old = call[q].old
                            /\ call'[q].oldLog = call[q].oldLog /\ call'[q].conf = call[q].conf
                            /\ call'[q].todo = call[q].todo /\ call'[q].mustTrip = call[q].mustTrip
                            /\ q # p => call'[q].pc = call[q].pc
                            /\ q = p => call'[q].pc = "wait"
  BY <1>1 DEF StopChecks, IInv, ServerOK, CallType, Stopping
<1>3. \A q \in Callers : /\ \A s \in {"idle", "adopt", "swap", "closed"} : call'[q].pc = s <=> call[q].pc = s
                         /\ call'[q].pc \in Stopping <=> call[q].pc \in Stopping
                         /\ Making(q)' <=> Making(q)
                         /\ ToClose(q)' <=> ToClose(q)
  BY <1>1, <1>2 DEF Stopping, Making, ToClose
<1>4. EntriesOK' /\ RequestsOK' /\ ServerOK'
  BY <1>1, <1>2, RequestsStand DEF IInv, EntriesOK, ServerOK, health, logger
<1>5. LockOK' /\ MakersOK'
  BY <1>1, <1>2, <1>3 DEF IInv, LockOK, MakersOK
<1>6. ChecksOK'
  <2>1. \A q \in Callers : /\ call'[q].pc \in Stopping \cup {"closed"} => call'[q].old \in 1..gens'
                           /\ call'[q].pc = "closed" => running'[call'[q].old] = {}
    BY <1>1, <1>2, <1>3 DEF IInv, ChecksOK
  <2>2. ASSUME NEW g \in Generations, running'[g] # {}
        PROVE  \/ g = srv'.health
               \/ \E q \in Callers : call'[q].pc = "swap" /\ g = call'[q].new
               \/ \E q \in Callers : call'[q].pc \in Stopping /\ g = call'[q].old
    <3>1. \/ g = srv.health
          \/ \E q \in Callers : call[q].pc = "swap" /\ g = call[q].new
          \/ \E q \in Callers : call[q].pc \in Stopping /\ g = call[q].old
      BY <1>1, <2>2 DEF IInv, ChecksOK
    <3>2. QED
      BY <1>1, <1>2, <1>3, <3>1
  <2>3. QED
    BY <1>1, <2>1, <2>2 DEF IInv, ChecksOK
<1>7. LogsOK'
  BY <1>1, <1>2, <1>3 DEF IInv, LogsOK, logger, Callers
<1>8. SeededOK' /\ TripsOK'
  BY <1>1, <1>2, <1>3 DEF IInv, SeededOK, TripsOK, health
<1>9. QED
  BY <1>1, <1>4, <1>5, <1>6, <1>7, <1>8 DEF IInv

LEMMA ChecksStoppedOK ==
    ASSUME IInv, NEW p \in Callers, ChecksStopped(p)
    PROVE  IInv'
<1> USE DEF Control
<1>1. /\ call[p].pc = "wait" /\ running[call[p].old] = {}
      /\ closedLogs' = IF call[p].oldLog = 0 THEN closedLogs ELSE closedLogs \cup {call[p].oldLog}
      /\ panics' = IF call[p].oldLog \in closedLogs THEN panics \cup {"close_of_closed"} ELSE panics
      /\ UNCHANGED <<health, goroutines, logs, gens, srv, lock, rq, lent, cast>>
  BY DEF ChecksStopped
<1>2. /\ gens \in Nat /\ logs \in Nat /\ closedLogs \subseteq 1..logs
      /\ call \in [Callers -> CallType] /\ call[p].old \in 1..gens
      /\ call[p].oldLog \in Nat /\ call[p].oldLog <= logs
  BY <1>1, ReloadAssumption DEF IInv, ServerOK, ChecksOK, LogsOK, Generations, CallType, Stopping
<1>3. /\ call' \in [Callers -> CallType] /\ \A q \in Callers \ {p} : call'[q] = call[q]
      /\ call'[p].oldLog = 0
      /\ \/ p \in Closers /\ call'[p].pc = "closed" /\ call'[p].old = call[p].old
         \/ p \notin Closers /\ call'[p].pc = "idle" /\ call'[p].old = 0
  <2> DEFINE c == IF p \in Closers THEN [NoCall EXCEPT !.pc = "closed", !.old = call[p].old] ELSE NoCall
  <2>1. call' = [call EXCEPT ![p] = c]
    BY DEF ChecksStopped
  <2>2. c \in CallType /\ c.oldLog = 0
    BY <1>2, ReloadAssumption DEF NoCall, CallType, Stopping
  <2>3. \/ p \in Closers /\ c.pc = "closed" /\ c.old = call[p].old
        \/ p \notin Closers /\ c.pc = "idle" /\ c.old = 0
    BY DEF NoCall
  <2> HIDE DEF c
  <2>4. QED
    BY <1>2, <2>1, <2>2, <2>3
<1>4. EntriesOK' /\ RequestsOK'
  BY <1>1, RequestsStand DEF IInv, EntriesOK, health
<1>5. ServerOK'
  <2>1. closedLogs' \subseteq 1..logs'
    <3>1. call[p].oldLog # 0 => call[p].oldLog \in 1..logs
      BY <1>2
    <3>2. logs' = logs
      BY <1>1
    <3>3. QED
      BY <1>1, <1>2, <3>1, <3>2
  <2>2. QED
    BY <1>1, <1>3, <2>1 DEF IInv, ServerOK
<1>6. \A q \in Callers : Making(q)' <=> Making(q) /\ q # p
  BY <1>1, <1>3 DEF Making
<1>7. LockOK' /\ MakersOK'
  <2>1. ~Making(p)
    BY <1>1 DEF Making
  <2>2. LockOK'
    BY <1>1, <1>6, <2>1 DEF IInv, LockOK
  <2>3. \A q \in Callers : call'[q].old = call[q].old \/ call'[q].old = 0
    BY <1>3
  <2>4. \A q \in Callers : call'[q].old <= gens
    BY <1>2, <2>3 DEF IInv, MakersOK
  <2>5. ASSUME NEW q \in Callers, Making(q)'
        PROVE  call'[q].new = gens /\ srv.health < gens /\ \A x \in Callers : call'[x].old < gens
    <3>1. q # p /\ Making(q) /\ call'[q] = call[q]
      BY <1>3, <1>6, <2>5
    <3>2. call[q].new = gens /\ srv.health < gens /\ \A x \in Callers : call[x].old < gens
      BY <3>1 DEF IInv, MakersOK
    <3>3. srv.health \in 1..gens
      BY DEF IInv, ServerOK
    <3>4. QED
      BY <1>2, <2>3, <3>1, <3>2, <3>3
  <2>6. QED
    BY <1>1, <2>2, <2>4, <2>5 DEF MakersOK
<1>8. ChecksOK'
  <2>1. ASSUME NEW q \in Callers, call'[q].pc \in Stopping \cup {"closed"}
        PROVE  call'[q].old \in 1..gens' /\ (call'[q].pc = "closed" => running'[call'[q].old] = {})
    <3>1. CASE q = p
      BY <1>1, <1>2, <1>3, <2>1, <3>1 DEF Stopping, goroutines
    <3>2. CASE q # p
      BY <1>1, <1>3, <2>1, <3>2 DEF IInv, ChecksOK, goroutines
    <3>3. QED
      BY <3>1, <3>2
  <2>2. ASSUME NEW g \in Generations, running'[g] # {}
        PROVE  \/ g = srv'.health
               \/ \E q \in Callers : call'[q].pc = "swap" /\ g = call'[q].new
               \/ \E q \in Callers : call'[q].pc \in Stopping /\ g = call'[q].old
    <3>1. running[g] # {} /\ g # call[p].old
      BY <1>1, <2>2 DEF goroutines
    <3>2. \/ g = srv.health
          \/ \E q \in Callers \ {p} : call[q].pc = "swap" /\ g = call[q].new
          \/ \E q \in Callers \ {p} : call[q].pc \in Stopping /\ g = call[q].old
      BY <1>1, <3>1 DEF IInv, ChecksOK
    <3>3. QED
      BY <1>1, <1>3, <3>2
  <2>3. QED
    BY <1>1, <2>1, <2>2 DEF IInv, ChecksOK, goroutines
<1>9. LogsOK'
  <2>1. \A q \in Callers : call'[q].oldLog <= logs'
    BY <1>1, <1>2, <1>3 DEF IInv, LogsOK
  <2>2. \A q \in Callers : ToClose(q)' => q # p /\ ToClose(q) /\ call'[q].oldLog = call[q].oldLog
    BY <1>3 DEF ToClose
  <2>3. ASSUME \A q \in Closers : call'[q].pc = "idle"
        PROVE  /\ srv'.tokenLog \notin closedLogs' /\ "close_of_closed" \notin panics'
               /\ \A q \in Callers : ToClose(q)' =>
                     /\ call'[q].oldLog \notin closedLogs' \cup {srv'.tokenLog}
                     /\ \A x \in Callers : ToClose(x)' /\ x # q => call'[x].oldLog # call'[q].oldLog
    <3>1. p \notin Closers /\ \A q \in Closers : q \in Callers /\ call[q].pc = "idle"
      BY <1>3, <2>3 DEF Callers
    <3>2. /\ srv.tokenLog \notin closedLogs /\ "close_of_closed" \notin panics
          /\ \A q \in Callers : ToClose(q) =>
                /\ call[q].oldLog \notin closedLogs \cup {srv.tokenLog}
                /\ \A x \in Callers : ToClose(x) /\ x # q => call[x].oldLog # call[q].oldLog
      BY <3>1 DEF IInv, LogsOK
    <3>3. CASE call[p].oldLog = 0
      <4>1. closedLogs' = closedLogs /\ panics' = panics
        BY <1>1, <1>2, <3>3
      <4>2. QED
        BY <1>1, <2>2, <3>2, <4>1
    <3>4. CASE call[p].oldLog # 0
      <4>1. ToClose(p)
        BY <1>1, <3>4 DEF ToClose, Stopping
      <4>2. panics' = panics /\ closedLogs' = closedLogs \cup {call[p].oldLog}
        BY <1>1, <3>2, <3>4, <4>1
      <4>3. QED
        BY <1>1, <2>2, <3>2, <4>1, <4>2
    <3>5. QED
      BY <3>3, <3>4
  <2>4. QED
    BY <2>1, <2>3 DEF LogsOK
<1>10. SeededOK' /\ TripsOK'
  <2>1. \A q \in Callers : call'[q].pc \in {"adopt", "swap"} => q # p /\ call'[q] = call[q]
    BY <1>3
  <2>2. QED
    BY <1>1, <2>1 DEF IInv, SeededOK, TripsOK, health
<1>11. QED
  BY <1>1, <1>4, <1>5, <1>7, <1>8, <1>9, <1>10 DEF IInv

-----------------------------------------------------------------------------
(* The invariant.                                                            *)

LEMMA InitOK ==
    ASSUME Init
    PROVE  IInv
<1> USE ReloadAssumption DEF Init
<1>1. \A b \in Backends, g \in Generations : bh[g][b] = FreshEntry
  OBVIOUS
<1>2. EntriesOK
  <2>1. StartConfig.enabled \subseteq Backends
    OBVIOUS
  <2>2. QED
    BY <1>1, <2>1, SucceededOKHere DEF EntriesOK
<1>3. RequestsOK
  BY DEF RequestsOK, RequestType, RequestOK, NoRequest
<1>4. \A p \in Callers : call[p] = NoCall
  OBVIOUS
<1>5. ServerOK /\ LockOK /\ MakersOK
  <2>1. NoCall \in CallType /\ NoCall.pc = "idle" /\ NoCall.old = 0
    BY DEF NoCall, CallType
  <2>2. \A p \in Callers : ~Making(p) /\ p # "free"
    BY <1>4, <2>1 DEF Making, Callers
  <2>3. QED
    BY <1>4, <2>1, <2>2 DEF ServerOK, LockOK, MakersOK, Generations
<1>6. ChecksOK
  <2>1. StartConfig.checked \subseteq Backends
    OBVIOUS
  <2>2. running \in [Generations -> SUBSET Backends]
    BY <2>1
  <2>3. QED
    BY <1>4, <2>2 DEF ChecksOK, NoCall, Stopping
<1>7. LogsOK
  BY <1>4 DEF LogsOK, NoCall, ToClose, Stopping
<1>8. SeededOK /\ TripsOK
  BY <1>4 DEF SeededOK, TripsOK, NoCall, Generations
<1>9. QED
  BY <1>2, <1>3, <1>5, <1>6, <1>7, <1>8 DEF IInv, Control

\* A step of a request r, or one that is nobody's.
LEMMA UserSteps ==
    ASSUME IInv,
           \/ \E r \in Requests : Arrive(r) \/ RequestStep(r)
           \/ \E g \in Generations, b \in Backends : Check(g, b) \/ LoopExits(g, b)
           \/ \E b \in Backends : ConsoleRead(b)
           \/ Tick
    PROVE  cast' = cast /\ \E r : UserStep(r)
<1>1. ASSUME NEW r \in Requests, Arrive(r) \/ RequestStep(r)
      PROVE  cast' = cast /\ UserStep(r)
  <2>1. UserStep(r)
    BY <1>1, ArriveOK, EnterOK, AttemptOK, AnsweredOK, CancelledOK, LogSnapshotOK, LogOK
       DEF RequestStep
  <2>2. cast' = cast
    BY <1>1 DEF Arrive, RequestStep, Enter, Attempt, Answered, Cancelled, LogSnapshot, Log
  <2>3. QED
    BY <2>1, <2>2
<1>2. ASSUME NEW g \in Generations, NEW b \in Backends, Check(g, b) \/ LoopExits(g, b)
      PROVE  cast' = cast /\ UserStep("nobody")
  BY <1>2, CheckOK, LoopExitsOK DEF Check, LoopExits
<1>3. ASSUME NEW b \in Backends, ConsoleRead(b)
      PROVE  cast' = cast /\ UserStep("nobody")
  BY <1>3, ConsoleReadOK DEF ConsoleRead
<1>4. ASSUME Tick
      PROVE  cast' = cast /\ UserStep("nobody")
  BY <1>4, TickOK DEF Tick
<1>5. QED
  BY <1>1, <1>2, <1>3, <1>4

LEMMA StutterOK ==
    ASSUME IInv, UNCHANGED vars
    PROVE  IInv'
<1> USE DEF vars, health, goroutines, logger
<1>1. EntriesOK' /\ RequestsOK'
  BY DEF IInv, EntriesOK, RequestsOK
<1>2. Control'
  <2>1. CallsStand
    BY SameCalls DEF IInv, Control
  <2>2. QED
    BY <2>1, StandKeepsControl DEF IInv
<1>3. SeededOK' /\ TripsOK'
  BY DEF IInv, SeededOK, TripsOK
<1>4. QED
  BY <1>1, <1>2, <1>3 DEF IInv

LEMMA NextOK ==
    ASSUME IInv, [Next]_vars
    PROVE  IInv'
<1>1. ASSUME NEW p \in Reloaders, BeginReload(p) \/ ReloadStep(p)
      PROVE  IInv'
  BY <1>1, BeginReloadOK, AdoptOK, StartChecksOK, FailRebuildOK, SwapOK DEF ReloadStep
<1>2. ASSUME NEW p \in Closers, BeginClose(p)
      PROVE  IInv'
  BY <1>2, BeginCloseOK
<1>3. ASSUME NEW p \in Callers, StopStep(p)
      PROVE  IInv'
  BY <1>3, StopChecksOK, ChecksStoppedOK DEF StopStep
<1>4. ASSUME \/ \E r \in Requests : Arrive(r) \/ RequestStep(r)
             \/ \E g \in Generations, b \in Backends : Check(g, b) \/ LoopExits(g, b)
             \/ \E b \in Backends : ConsoleRead(b)
             \/ Tick
      PROVE  IInv'
  BY <1>4, UserSteps, UserStepKeeps
<1>5. QED
  BY <1>1, <1>2, <1>3, <1>4, StutterOK DEF Next

THEOREM Invariance == Spec => []IInv
<1>1. Init => IInv
  BY InitOK
<1>2. IInv /\ [Next]_vars => IInv'
  BY NextOK
<1>3. QED
  BY <1>1, <1>2, PTL DEF Spec

-----------------------------------------------------------------------------
(* What follows.                                                             *)

\* /healthz/detail answers 503 only when every enabled backend is tripped,
\* whatever sequence of reloads, also overlapping and failing ones, came before.
THEOREM HealthIsTruthful == Spec => []DownIsTruthful
<1>1. IInv => DownIsTruthful
  BY DEF IInv, SeededOK, DownIsTruthful, AllBackendsDown
<1>2. QED
  BY <1>1, Invariance, PTL

\* Once no reload and no shutdown is under way, only the current manager runs
\* active checks, and not even that one after a Close that stopped it; the one
\* that a reload swaps in after Close took its snapshot escapes.
THEOREM ChecksEnd == Spec => []NoOrphanChecks
<1>1. IInv => NoOrphanChecks
  <2> SUFFICES ASSUME IInv, \A p \in Callers : call[p].pc \in {"idle", "closed"}
               PROVE  /\ \A g \in Generations \ {srv.health} : running[g] = {}
                      /\ \A p \in Closers : call[p].pc = "closed" => running[call[p].old] = {}
    BY DEF NoOrphanChecks
  <2>1. \A p \in Callers : call[p].pc \notin Stopping \cup {"swap"}
    BY DEF Stopping
  <2>2. QED
    BY <2>1 DEF IInv, Control, ChecksOK, Callers
<1>2. QED
  BY <1>1, Invariance, PTL

\* Until the server is closed the token logger in force is open, and no reload,
\* however many overlap, closes a logger twice.
THEOREM LogStaysOpen == Spec => []CurrentLogIsOpen
<1>1. IInv => CurrentLogIsOpen
  BY DEF IInv, Control, LogsOK, CurrentLogIsOpen
<1>2. QED
  BY <1>1, Invariance, PTL

\* A reload that takes effect has healed no circuit that was tripped when it
\* began, unless that backend answered in between.
THEOREM TripsSurviveReload == Spec => ReloadKeepsTrips
<1>1. IInv => AdoptedStep
  BY DEF IInv, TripsOK, AdoptedStep, Callers
<1>2. QED
  BY <1>1, Invariance, PTL DEF ReloadKeepsTrips

\* A slot that an entry counts has a holder that will report to that entry, or
\* was taken over from the manager before: no other reservation is ever lost.
LEMMA SlotsStart ==
    ASSUME Init
    PROVE  SlotsAreAccounted
<1> SUFFICES ASSUME NEW g \in Generations, NEW b \in Backends
             PROVE  bh[g][b].inFlight <= lent[g][b] + Cardinality(Holders(g, b))
  BY DEF SlotsAreAccounted
<1>1. bh[g][b].inFlight = 0 /\ lent[g][b] = 0
  BY DEF Init, FreshEntry
<1>2. IsFiniteSet(Holders(g, b))
  BY ReloadAssumption, FS_Subset DEF Holders
<1>3. Cardinality(Holders(g, b)) \in Nat
  BY <1>2, FS_CardinalityType
<1>4. QED
  BY <1>1, <1>3

LEMMA UserKeepsSlots ==
    ASSUME IInv, SlotsAreAccounted, NEW r, UserStep(r)
    PROVE  SlotsAreAccounted'
<1> SUFFICES ASSUME NEW g \in Generations, NEW b \in Backends
             PROVE  bh'[g][b].inFlight <= lent'[g][b] + Cardinality(Holders(g, b)')
  BY DEF SlotsAreAccounted
<1>1. /\ bh[g][b].inFlight \in Nat /\ bh'[g][b].inFlight \in Nat /\ lent[g][b] \in Nat
      /\ lent'[g][b] = lent[g][b] /\ SlotsFollow(r, g, b)
      /\ \A q \in Requests \ {r} : rq'[q] = rq[q]
  BY DEF IInv, UserStep, EntriesOK, BackendHealth
<1>2. PICK W, V : W = Holders(g, b) /\ V = Holders(g, b)'
  OBVIOUS
<1>3. IsFiniteSet(W) /\ IsFiniteSet(V) /\ W \ {r} \subseteq V
  BY <1>1, <1>2, ReloadAssumption, FS_Subset DEF Holders
<1>4. PICK n \in Nat, m \in Nat, k \in Nat :
         n = bh[g][b].inFlight /\ m = bh'[g][b].inFlight /\ k = lent[g][b]
  BY <1>1
<1>5. n <= k + Cardinality(W)
  BY <1>2, <1>4 DEF SlotsAreAccounted
<1>6. \/ m = 0
      \/ m <= n /\ k <= k /\ (r \in W => r \in V)
      \/ m = (IF n > 0 THEN n - 1 ELSE 0) /\ k <= k
      \/ m <= n + 1 /\ k <= k /\ r \notin W /\ r \in V
      \/ m <= n /\ k + 1 <= k
  BY <1>1, <1>2, <1>4 DEF SlotsFollow
<1>7. m <= k + Cardinality(V)
  BY <1>3, <1>5, <1>6, SlotsStayCovered
<1>8. QED
  BY <1>1, <1>2, <1>4, <1>7

LEMMA CallKeepsSlots ==
    ASSUME IInv, SlotsAreAccounted, IInv',
           \/ UNCHANGED <<bh, lent, rq>>
           \/ \E p \in Reloaders : Adopt(p)
    PROVE  SlotsAreAccounted'
<1> SUFFICES ASSUME NEW g \in Generations, NEW b \in Backends
             PROVE  bh'[g][b].inFlight <= lent'[g][b] + Cardinality(Holders(g, b)')
  BY DEF SlotsAreAccounted
<1>1. Holders(g, b)' = Holders(g, b)
  BY DEF Holders, Adopt
<1>2. Cardinality(Holders(g, b)) \in Nat
  <2>1. IsFiniteSet(Holders(g, b))
    BY ReloadAssumption, FS_Subset DEF Holders
  <2>2. QED
    BY <2>1, FS_CardinalityType
<1>3. \/ bh'[g][b].inFlight = bh[g][b].inFlight /\ lent'[g][b] = lent[g][b]
      \/ bh'[g][b].inFlight = lent'[g][b] /\ lent'[g][b] \in Nat
  <2>1. ASSUME NEW p \in Reloaders, Adopt(p)
        PROVE  \/ bh'[g][b].inFlight = bh[g][b].inFlight /\ lent'[g][b] = lent[g][b]
               \/ bh'[g][b].inFlight = lent'[g][b]
    <3>1. PICK x \in call[p].todo :
             /\ bh' = [bh EXCEPT ![call[p].new][x] = bh[srv.health][x]]
             /\ lent' = [lent EXCEPT ![call[p].new][x] = bh[srv.health][x].inFlight]
      BY <2>1 DEF Adopt
    <3>2. CASE g = call[p].new /\ b = x
      <4>1. bh'[g][b] = bh[srv.health][x] /\ lent'[g][b] = bh[srv.health][x].inFlight
        BY <3>1, <3>2 DEF IInv, EntriesOK
      <4>2. QED
        BY <4>1
    <3>3. CASE ~(g = call[p].new /\ b = x)
      <4>1. bh'[g][b] = bh[g][b] /\ lent'[g][b] = lent[g][b]
        BY <3>1, <3>3 DEF IInv, EntriesOK
      <4>2. QED
        BY <4>1
    <3>4. QED
      BY <3>2, <3>3
  <2>2. lent'[g][b] \in Nat
    BY DEF IInv, EntriesOK
  <2>3. QED
    BY <2>1, <2>2
<1>4. CASE bh'[g][b].inFlight = lent'[g][b] /\ lent'[g][b] \in Nat
  BY <1>1, <1>2, <1>4
<1>5. CASE bh'[g][b].inFlight = bh[g][b].inFlight /\ lent'[g][b] = lent[g][b]
  BY <1>1, <1>5 DEF SlotsAreAccounted
<1>6. QED
  BY <1>3, <1>4, <1>5

THEOREM SlotsHaveHolders == Spec => []SlotsAreAccounted
<1>1. Init => SlotsAreAccounted
  BY SlotsStart
<1>2. IInv /\ IInv' /\ SlotsAreAccounted /\ [Next]_vars => SlotsAreAccounted'
  <2> SUFFICES ASSUME IInv, IInv', SlotsAreAccounted, [Next]_vars
               PROVE  SlotsAreAccounted'
    OBVIOUS
  <2>1. ASSUME \/ \E p \in Reloaders : BeginReload(p) \/ ReloadStep(p)
               \/ \E p \in Closers : BeginClose(p)
               \/ \E p \in Callers : StopStep(p)
               \/ UNCHANGED vars
        PROVE  UNCHANGED <<bh, lent, rq>> \/ \E p \in Reloaders : Adopt(p)
    BY <2>1 DEF BeginReload, ReloadStep, StartChecks, FailRebuild, Swap, BeginClose, StopStep,
                StopChecks, ChecksStopped, vars, health
  <2>2. CASE \/ \E p \in Reloaders : BeginReload(p) \/ ReloadStep(p)
             \/ \E p \in Closers : BeginClose(p)
             \/ \E p \in Callers : StopStep(p)
             \/ UNCHANGED vars
    BY <2>1, <2>2, CallKeepsSlots
  <2>3. CASE \/ \E r \in Requests : Arrive(r) \/ RequestStep(r)
             \/ \E g \in Generations, b \in Backends : Check(g, b) \/ LoopExits(g, b)
             \/ \E b \in Backends : ConsoleRead(b)
             \/ Tick
    BY <2>3, UserSteps, UserKeepsSlots
  <2>4. QED
    BY <2>2, <2>3 DEF Next
<1>3. QED
  BY <1>1, <1>2, Invariance, PTL DEF Spec
===============================================================================
