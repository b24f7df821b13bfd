-------------------------- MODULE HttpForwardProofs --------------------------
(* Safety of the HTTP data path, and that it implements BreakerPromise, for   *)
(* any number of requests, backends and candidates and for every              *)
(* configuration of the breaker.                                              *)
EXTENDS HttpForward, FiniteSetTheorems, TLAPS

-----------------------------------------------------------------------------
(* The operations on one entry, for every configuration and every entry.     *)

\* NewHealthManager turns every configuration into one with a positive
\* threshold, window and number of slots.
LEMMA NormalisedType ==
    ASSUME NEW raw, raw.threshold \in Int, raw.recovery \in Int, raw.slots \in Int,
           NEW d \in 1..MaxAge, raw.recovery <= MaxAge
    PROVE  Normalised(raw, d) \in BreakerConfig
BY MaxAgeAssumption DEF Normalised, BreakerConfig

\* A new entry, the passage of time and ReportSuccess.
LEMMA FreshEntryOK ==
    ASSUME NEW c \in BreakerConfig
    PROVE  FreshEntry \in BackendHealth /\ EntryInv(c, FreshEntry)
BY MaxAgeAssumption DEF FreshEntry, BackendHealth, CircuitState, EntryInv, BreakerConfig

LEMMA AgedOK ==
    ASSUME NEW c \in BreakerConfig, NEW e \in BackendHealth, EntryInv(c, e)
    PROVE  /\ Aged(e) \in BackendHealth
           /\ EntryInv(c, Aged(e))
           /\ Aged(e).state = e.state /\ Aged(e).inFlight = e.inFlight
BY MaxAgeAssumption DEF Aged, BackendHealth, CircuitState, EntryInv, BreakerConfig

LEMMA SucceededOK ==
    ASSUME NEW c \in BreakerConfig, NEW e \in BackendHealth
    PROVE  /\ Succeeded(e) \in BackendHealth
           /\ EntryInv(c, Succeeded(e))
           /\ Succeeded(e).inFlight = 0
BY FreshEntryOK DEF Succeeded, FreshEntry

\* The move to probing counts nothing; otherwise the entry is as it was.
LEMMA HalfOpenedOK ==
    ASSUME NEW c \in BreakerConfig, NEW e \in BackendHealth, EntryInv(c, e)
    PROVE  /\ HalfOpened(c, e) \in BackendHealth
           /\ EntryInv(c, HalfOpened(c, e))
           /\ HalfOpened(c, e).inFlight = e.inFlight
BY DEF HalfOpened, BackendHealth, CircuitState, EntryInv, BreakerConfig

\* A granted TryAcquireProbe stays within the limit and counts at most one
\* more slot.
LEMMA AcquiredOK ==
    ASSUME NEW c \in BreakerConfig, NEW e \in BackendHealth, EntryInv(c, e), IsHealthy(c, e)
    PROVE  /\ Acquired(c, e) \in BackendHealth
           /\ EntryInv(c, Acquired(c, e))
           /\ Acquired(c, e).inFlight <= e.inFlight + 1
<1> DEFINE h == HalfOpened(c, e)
<1>1. h \in BackendHealth /\ EntryInv(c, h) /\ h.inFlight = e.inFlight
  BY HalfOpenedOK
<1>2. Admits(c, h)
  BY DEF IsHealthy
<1>3. Acquired(c, e) = IF h.state = "probing" THEN [h EXCEPT !.inFlight = @ + 1] ELSE h
  BY DEF Acquired
<1> HIDE DEF h
<1>4. QED
  BY <1>1, <1>2, <1>3 DEF Admits, BackendHealth, CircuitState, EntryInv, BreakerConfig

\* ReleaseProbe gives one slot back if there is one to give.
LEMMA ReleasedOK ==
    ASSUME NEW c \in BreakerConfig, NEW e \in BackendHealth, EntryInv(c, e)
    PROVE  /\ Released(e) \in BackendHealth
           /\ EntryInv(c, Released(e))
           /\ Released(e).inFlight = IF e.inFlight > 0 THEN e.inFlight - 1 ELSE 0
BY DEF Released, BackendHealth, CircuitState, EntryInv, BreakerConfig

\* ReportFailure leaves no slot counted.
LEMMA FailedOK ==
    ASSUME NEW c \in BreakerConfig, NEW e \in BackendHealth, EntryInv(c, e)
    PROVE  /\ Failed(c, e) \in BackendHealth
           /\ EntryInv(c, Failed(c, e))
           /\ Failed(c, e).inFlight = 0
<1>1. CASE e.state = "healthy"
  BY <1>1, MaxAgeAssumption DEF Failed, BackendHealth, CircuitState, EntryInv, BreakerConfig
<1>2. CASE e.state = "probing"
  BY <1>2, MaxAgeAssumption DEF Failed, BackendHealth, CircuitState, EntryInv, BreakerConfig
<1>3. CASE e.state = "tripped"
  BY <1>3, MaxAgeAssumption DEF Failed, BackendHealth, CircuitState, EntryInv, BreakerConfig
<1>4. QED
  BY <1>1, <1>2, <1>3 DEF BackendHealth, CircuitState

-----------------------------------------------------------------------------
(* Slots and those who hold them.                                            *)

\* A counter n of slots is covered by k lost ones and the users in W.  It
\* stays so when only r may stop being a user, if r gives its slot back, still
\* holds it, never held it, or its slot is lost, or if the counter is reset.
LEMMA SlotsStayCovered ==
    ASSUME NEW W, NEW V, NEW r, IsFiniteSet(W), IsFiniteSet(V), W \ {r} \subseteq V,
           NEW n \in Nat, NEW m \in Nat, NEW k \in Nat, NEW l \in Nat,
           n <= k + Cardinality(W),
           \/ m = 0
           \/ m <= n /\ k <= l /\ (r \in W => r \in V)
           \/ m = (IF n > 0 THEN n - 1 ELSE 0) /\ k <= l
           \/ m <= n + 1 /\ k <= l /\ r \notin W /\ r \in V
           \/ m <= n /\ k + 1 <= l
    PROVE  m <= l + Cardinality(V)
<1>1. Cardinality(W) \in Nat /\ Cardinality(V) \in Nat
  BY FS_CardinalityType
<1>2. IsFiniteSet(W \ {r}) /\ Cardinality(W \ {r}) <= Cardinality(V)
  BY FS_Subset
<1>3. Cardinality(W \ {r}) = IF r \in W THEN Cardinality(W) - 1 ELSE Cardinality(W)
  BY FS_RemoveElement
<1>4. ASSUME r \notin W, r \in V PROVE Cardinality(W) + 1 <= Cardinality(V)
  <2>1. W \cup {r} \subseteq V
    BY <1>4
  <2>2. Cardinality(W \cup {r}) = Cardinality(W) + 1
    BY <1>4, FS_AddElement
  <2>3. QED
    BY <2>1, <2>2, FS_Subset
<1>5. ASSUME r \in W => r \in V PROVE Cardinality(W) <= Cardinality(V)
  BY <1>5, FS_Subset
<1>6. QED
  BY <1>1, <1>2, <1>3, <1>4, <1>5

-----------------------------------------------------------------------------
(* The inductive invariant.                                                  *)

\* The two halves of the inductive invariant: the entries, and the handlers.
HealthOK == /\ bh \in [Backends -> BackendHealth]
            /\ probes \in [Backends -> SUBSET Requests]
            /\ EpisodeInv

RequestOK(q) == /\ q.pc = "select" => q.k \in 1..Len(q.cands)
                /\ q.pc # "idle" => q.k >= 1
                /\ q.pc \in {"sent", "accept", "backoff"} => q.k <= Len(q.ordered)

HandlersOK == /\ req \in [Requests -> Request]
              /\ \A r \in Requests : RequestOK(req[r])

IInv == HealthOK /\ HandlersOK

LEMMA IInvIsTyping == IInv <=> TypeOK /\ EpisodeInv
BY DEF IInv, HealthOK, HandlersOK, RequestOK, TypeOK, HasCandidate

LEMMA CfgType == Cfg \in BreakerConfig
<1> DEFINE raw == [threshold |-> FailThreshold, recovery |-> RecoveryTimeout,
                   slots |-> HalfOpenMaxRequests]
<1>1. raw.threshold \in Int /\ raw.recovery \in Int /\ raw.slots \in Int
      /\ raw.recovery <= MaxAge /\ DefaultRecovery \in 1..MaxAge
  BY ForwardAssumption
<1>2. Normalised(raw, DefaultRecovery) \in BreakerConfig
  <2> HIDE DEF raw
  <2> QED BY <1>1, NormalisedType
<1>3. QED
  BY <1>2 DEF Cfg

\* The candidate a handler works on is a backend.
LEMMA CurrentIsBackend ==
    ASSUME HandlersOK, NEW r \in Requests, req[r].pc # "idle", HasCandidate(r)
    PROVE  Current(r) \in Backends
BY DEF HandlersOK, RequestOK, HasCandidate, Current, Request

-----------------------------------------------------------------------------
(* The effects keep HealthOK; what they do to the counters.                  *)

\* slotsOf' b is n, and no other counter moves.
OnlyCounter(b, n) == /\ bh'[b].inFlight = n
                     /\ \A x \in Backends \ {b} : bh'[x].inFlight = bh[x].inFlight

LEMMA UpdateOK ==
    ASSUME HealthOK, NEW b \in Backends, NEW e \in BackendHealth, EntryInv(Cfg, e),
           NEW kept \in SUBSET Requests, Update(b, e, kept)
    PROVE  HealthOK' /\ OnlyCounter(b, e.inFlight)
BY CfgType DEF HealthOK, EpisodeInv, Update, OnlyCounter

LEMMA ObserveOK ==
    ASSUME HealthOK, NEW b \in Backends, Observe(b)
    PROVE  HealthOK' /\ OnlyCounter(b, bh[b].inFlight)
<1>1. bh[b] \in BackendHealth /\ EntryInv(Cfg, bh[b])
  BY DEF HealthOK, EpisodeInv
<1>2. CASE UNCHANGED <<bh, probes>>
  BY <1>2 DEF HealthOK, EpisodeInv, OnlyCounter, Cfg
<1>3. CASE Update(b, HalfOpened(Cfg, bh[b]), {})
  BY <1>1, <1>3, CfgType, HalfOpenedOK, UpdateOK
<1>4. QED
  BY <1>2, <1>3 DEF Observe

LEMMA ReportSuccessOK ==
    ASSUME HealthOK, NEW b \in Backends, ReportSuccess(b)
    PROVE  HealthOK' /\ OnlyCounter(b, 0)
<1>1. bh[b] \in BackendHealth /\ EntryInv(Cfg, bh[b])
  BY DEF HealthOK, EpisodeInv
<1>2. QED
  BY <1>1, CfgType, SucceededOK, UpdateOK DEF ReportSuccess

LEMMA ReportFailureOK ==
    ASSUME HealthOK, NEW b \in Backends, ReportFailure(b)
    PROVE  HealthOK' /\ OnlyCounter(b, 0)
<1>1. bh[b] \in BackendHealth /\ EntryInv(Cfg, bh[b])
  BY DEF HealthOK, EpisodeInv
<1> DEFINE kept == IF bh[b].state = "probing" THEN {} ELSE probes[b]
<1>2. kept \in SUBSET Requests
  BY DEF HealthOK
<1>3. Update(b, Failed(Cfg, bh[b]), kept)
  BY DEF ReportFailure
<1> HIDE DEF kept
<1>4. QED
  BY <1>1, <1>2, <1>3, CfgType, FailedOK, UpdateOK

LEMMA ReleaseProbeOK ==
    ASSUME HealthOK, NEW b \in Backends, NEW r \in Requests, ReleaseProbe(b, r)
    PROVE  HealthOK' /\ OnlyCounter(b, IF bh[b].inFlight > 0 THEN bh[b].inFlight - 1 ELSE 0)
<1>1. bh[b] \in BackendHealth /\ EntryInv(Cfg, bh[b])
  BY DEF HealthOK, EpisodeInv
<1>2. probes[b] \ {r} \in SUBSET Requests
  BY DEF HealthOK
<1>3. QED
  BY <1>1, <1>2, CfgType, ReleasedOK, UpdateOK DEF ReleaseProbe

LEMMA AcquireProbeOK ==
    ASSUME HealthOK, NEW b \in Backends, NEW r \in Requests,
           IsHealthy(Cfg, bh[b]), AcquireProbe(b, r)
    PROVE  /\ HealthOK'
           /\ OnlyCounter(b, Acquired(Cfg, bh[b]).inFlight)
           /\ Acquired(Cfg, bh[b]).inFlight <= bh[b].inFlight + 1
<1>1. bh[b] \in BackendHealth /\ EntryInv(Cfg, bh[b])
  BY DEF HealthOK, EpisodeInv
<1>2. PICK kept \in SUBSET Requests : Update(b, Acquired(Cfg, bh[b]), kept)
  BY DEF AcquireProbe, HealthOK
<1>3. QED
  BY <1>1, <1>2, CfgType, AcquiredOK, UpdateOK

-----------------------------------------------------------------------------
(* Every step keeps the inductive invariant.                                 *)

\* Only the handler of r moves.
OnlyHandler(r) == \A q \in Requests \ {r} : req'[q] = req[q]

LEMMA MoveOK ==
    ASSUME HandlersOK, NEW r \in Requests, NEW q \in Request, RequestOK(q),
           req' = [req EXCEPT ![r] = q]
    PROVE  HandlersOK' /\ OnlyHandler(r) /\ req'[r] = q
BY DEF HandlersOK, OnlyHandler

LEMMA FinishOK ==
    ASSUME HandlersOK, NEW r \in Requests, NEW o \in Outcome, Finish(r, o)
    PROVE  HandlersOK' /\ OnlyHandler(r) /\ req'[r] = Idle(o)
<1>1. Idle(o) \in Request /\ RequestOK(Idle(o))
  BY DEF Idle, Request, RequestOK
<1>2. QED
  BY <1>1, MoveOK DEF Finish

LEMMA NextCandidateOK ==
    ASSUME HandlersOK, NEW r \in Requests, NextCandidate(r), req[r].pc # "idle"
    PROVE  HandlersOK' /\ OnlyHandler(r) /\ req'[r].pc = "loop"
           /\ req'[r].attempts = req[r].attempts
<1>1. req[r] \in Request /\ RequestOK(req[r])
  BY DEF HandlersOK
<1>2. PICK n \in Nat : n = req[r].k + 1
  BY <1>1 DEF Request
<1> DEFINE q == [req[r] EXCEPT !.pc = "loop", !.k = n]
<1>3. q \in Request
  BY <1>1 DEF Request
<1>4. RequestOK(q) /\ q.pc = "loop" /\ q.attempts = req[r].attempts
  BY <1>1, <1>2 DEF Request, RequestOK
<1>5. req' = [req EXCEPT ![r] = q]
  BY <1>2 DEF NextCandidate
<1> HIDE DEF q
<1>6. QED
  BY <1>3, <1>4, <1>5, MoveOK

LEMMA SendOK ==
    ASSUME HandlersOK, NEW r \in Requests, NEW a \in BOOLEAN, Send(r, a),
           req[r].pc = "loop", HasCandidate(r)
    PROVE  /\ HandlersOK' /\ OnlyHandler(r)
           /\ req'[r].pc = "sent" /\ req'[r].acquired = a
           /\ req'[r].k = req[r].k /\ req'[r].ordered = req[r].ordered
<1>1. req[r] \in Request /\ RequestOK(req[r])
  BY DEF HandlersOK
<1>2. PICK n \in Nat : n = req[r].attempts + 1
  BY <1>1 DEF Request
<1> DEFINE q == [req[r] EXCEPT !.pc = "sent", !.acquired = a, !.attempts = n]
<1>3. q \in Request
  BY <1>1 DEF Request
<1>4. q.pc = "sent" /\ q.acquired = a /\ q.k = req[r].k /\ q.ordered = req[r].ordered
  BY <1>1 DEF Request
<1>5. RequestOK(q)
  BY <1>1, <1>4 DEF RequestOK, HasCandidate
<1>6. req' = [req EXCEPT ![r] = q]
  BY <1>2 DEF Send
<1> HIDE DEF q
<1>7. QED
  BY <1>3, <1>4, <1>5, <1>6, MoveOK

\* The handler moves to another point of the same attempt.
LEMMA JumpOK ==
    ASSUME HandlersOK, NEW r \in Requests, NEW to \in {"loop", "accept", "backoff"},
           req[r].pc \in {"sent", "backoff"},
           req' = [req EXCEPT ![r] = [req[r] EXCEPT !.pc = to]]
    PROVE  /\ HandlersOK' /\ OnlyHandler(r) /\ req'[r].pc = to
           /\ req'[r].attempts = req[r].attempts
<1>1. req[r] \in Request /\ RequestOK(req[r])
  BY DEF HandlersOK
<1> DEFINE q == [req[r] EXCEPT !.pc = to]
<1>2. q \in Request
  BY <1>1 DEF Request
<1>3. RequestOK(q) /\ q.pc = to /\ q.attempts = req[r].attempts
  BY <1>1 DEF Request, RequestOK
<1> HIDE DEF q
<1>4. QED
  BY <1>2, <1>3, MoveOK DEF q

LEMMA ArriveOK ==
    ASSUME HandlersOK, NEW r \in Requests, Arrive(r)
    PROVE  /\ HandlersOK' /\ OnlyHandler(r) /\ req'[r].pc = "select"
           /\ req'[r].attempts = 0
<1>1. PICK c \in CandidateLists :
         req' = [req EXCEPT ![r] = [Idle("none") EXCEPT !.pc = "select", !.cands = c, !.k = 1]]
  BY DEF Arrive
<1> DEFINE q == [Idle("none") EXCEPT !.pc = "select", !.cands = c, !.k = 1]
<1>2. c \in Seq(Backends) /\ c # <<>>
  BY ForwardAssumption
<1>3. Len(c) >= 1
  BY <1>2
<1>4. q \in Request
  <2>1. Idle("none") \in Request
    BY DEF Idle, Request, Outcome
  <2>2. QED
    BY <1>2, <2>1 DEF Request
<1>5. q.pc = "select" /\ q.k = 1 /\ q.cands = c /\ q.attempts = 0
  BY DEF Idle
<1>6. RequestOK(q)
  <2> HIDE DEF q
  <2> QED BY <1>2, <1>3, <1>5 DEF RequestOK
<1> HIDE DEF q
<1>7. QED
  BY <1>1, <1>4, <1>5, <1>6, MoveOK DEF q

\* SelectOrdered keeps a list of backends whatever the entries say.
LEMMA SelectOK ==
    ASSUME HandlersOK, NEW r \in Requests, Select(r)
    PROVE  /\ HandlersOK' /\ OnlyHandler(r) /\ req'[r].pc \in {"select", "loop"}
           /\ req'[r].attempts = req[r].attempts
<1> DEFINE b    == req[r].cands[req[r].k]
           kept == IF IsHealthy(Cfg, bh[b]) THEN Append(req[r].ordered, b) ELSE req[r].ordered
           last == req[r].k = Len(req[r].cands)
<1>1. /\ req[r] \in Request /\ RequestOK(req[r]) /\ req[r].pc = "select"
  BY DEF HandlersOK, Select
<1>2. /\ req[r].cands \in Seq(Backends) /\ req[r].ordered \in Seq(Backends)
      /\ req[r].k \in Nat /\ req[r].k \in 1..Len(req[r].cands)
  BY <1>1 DEF Request, RequestOK
<1>3. kept \in Seq(Backends)
  BY <1>2
<1>4. req' = [req EXCEPT ![r] =
                 IF ~last THEN [req[r] EXCEPT !.ordered = kept, !.k = req[r].k + 1]
                 ELSE [req[r] EXCEPT !.pc = "loop", !.k = 1,
                                     !.ordered = IF kept = <<>> THEN req[r].cands ELSE kept,
                                     !.fallback = (kept = <<>>)]]
  BY DEF Select
<1> HIDE DEF kept, b
<1>5. CASE ~last
  <2>1. PICK n \in Nat : n = req[r].k + 1
    BY <1>2
  <2> DEFINE q == [req[r] EXCEPT !.ordered = kept, !.k = n]
  <2>2. q \in Request
    BY <1>1, <1>3 DEF Request
  <2>3. /\ q.pc = "select" /\ q.k = n /\ q.cands = req[r].cands /\ q.ordered = kept
        /\ q.attempts = req[r].attempts
    BY <1>1 DEF Request
  <2>4. req' = [req EXCEPT ![r] = q]
    BY <1>4, <1>5, <2>1
  <2> HIDE DEF q
  <2>5. n \in 1..Len(q.cands)
    BY <1>2, <1>5, <2>1, <2>3
  <2>6. RequestOK(q)
    BY <2>3, <2>5 DEF RequestOK
  <2>7. QED
    BY <2>2, <2>3, <2>4, <2>6, MoveOK
<1>6. CASE last
  <2>1. PICK s \in Seq(Backends) : s = IF kept = <<>> THEN req[r].cands ELSE kept
    BY <1>2, <1>3
  <2>2. PICK f \in BOOLEAN : f = (kept = <<>>)
    OBVIOUS
  <2> DEFINE q == [req[r] EXCEPT !.pc = "loop", !.k = 1, !.ordered = s, !.fallback = f]
  <2>3. q \in Request
    BY <1>1 DEF Request
  <2>4. q.pc = "loop" /\ q.k = 1 /\ q.attempts = req[r].attempts
    BY <1>1 DEF Request
  <2>5. req' = [req EXCEPT ![r] = q]
    BY <1>4, <1>6, <2>1, <2>2
  <2> HIDE DEF q
  <2>6. RequestOK(q)
    BY <2>4 DEF RequestOK
  <2>7. QED
    BY <2>3, <2>4, <2>5, <2>6, MoveOK
<1>7. QED
  BY <1>5, <1>6

LEMMA InitIInv == Init => IInv
<1> SUFFICES ASSUME Init PROVE IInv
  OBVIOUS
<1>1. HealthOK
  BY CfgType, FreshEntryOK DEF Init, HealthOK, EpisodeInv
<1>2. Idle("none") \in Request /\ RequestOK(Idle("none"))
  BY DEF Idle, Request, RequestOK, Outcome
<1>3. HandlersOK
  BY <1>2 DEF Init, HandlersOK
<1>4. QED
  BY <1>1, <1>3 DEF IInv

\* A step of one handler.
LEMMA HandlerStep ==
    ASSUME IInv, NEW r \in Requests, Arrive(r) \/ Handle(r)
    PROVE  IInv' /\ OnlyHandler(r)
<1> USE DEF IInv
<1>a. UNCHANGED <<bh, probes>> => HealthOK'
  BY DEF HealthOK, EpisodeInv, Cfg
<1>b. ASSUME req[r].pc \in {"sent", "accept", "backoff"} PROVE Current(r) \in Backends
  BY <1>b, CurrentIsBackend DEF HandlersOK, RequestOK, HasCandidate
<1>c. ASSUME req[r].pc = "loop", HasCandidate(r) PROVE Current(r) \in Backends
  BY <1>c, CurrentIsBackend
<1>1. CASE Arrive(r)
  BY <1>1, <1>a, ArriveOK DEF Arrive
<1>2. CASE Select(r)
  <2>1. req[r].cands[req[r].k] \in Backends
    BY <1>2 DEF Select, HandlersOK, RequestOK, Request
  <2>2. HealthOK'
    BY <1>2, <2>1, ObserveOK DEF Select
  <2>3. QED
    BY <1>2, <2>2, SelectOK
<1>3. CASE TryProbe(r)
  BY <1>3, <1>c, AcquireProbeOK, SendOK DEF TryProbe
<1>4. CASE Skip(r)
  BY <1>4, <1>c, ObserveOK, NextCandidateOK DEF Skip
<1>5. CASE TryFallback(r)
  BY <1>5, <1>c, ObserveOK, SendOK DEF TryFallback
<1>6. CASE Exhausted(r)
  <2>1. PICK o \in Outcome : Finish(r, o)
    BY <1>6 DEF Exhausted, Outcome
  <2>2. QED
    BY <1>6, <1>a, <2>1, FinishOK DEF Exhausted
<1>7. CASE NetworkError(r)
  BY <1>7, <1>b, ReportFailureOK, NextCandidateOK DEF NetworkError
<1>8. CASE RequestError(r)
  BY <1>8, <1>a, <1>b, ReleaseProbeOK, FinishOK DEF RequestError, Outcome
<1>9. CASE RetriableStatus(r)
  <2>1. HealthOK' /\ req[r].pc = "sent"
    BY <1>9, <1>b, ReportFailureOK DEF RetriableStatus
  <2>2. PICK o \in Outcome : \/ req' = [req EXCEPT ![r] = [req[r] EXCEPT !.pc = "backoff"]]
                             \/ NextCandidate(r)
                             \/ Finish(r, o)
    BY <1>9 DEF RetriableStatus, Outcome
  <2>3. QED
    BY <2>1, <2>2, JumpOK, NextCandidateOK, FinishOK
<1>10. CASE Success(r)
  BY <1>10, <1>b, ReportSuccessOK, FinishOK DEF Success, Outcome
<1>11. CASE ClientError(r)
  BY <1>11, <1>b, ReleaseProbeOK, ReportSuccessOK, JumpOK, FinishOK DEF ClientError, Outcome
<1>12. CASE AcceptClientError(r)
  BY <1>12, <1>b, ReportSuccessOK, FinishOK DEF AcceptClientError, Outcome
<1>13. CASE BackoffElapsed(r)
  BY <1>13, <1>a, NextCandidateOK DEF BackoffElapsed
<1>14. CASE BackoffCancelled(r)
  BY <1>14, <1>a, <1>b, ReleaseProbeOK, FinishOK DEF BackoffCancelled, Outcome
<1>15. QED
  BY <1>1, <1>2, <1>3, <1>4, <1>5, <1>6, <1>7, <1>8, <1>9, <1>10, <1>11, <1>12, <1>13, <1>14
     DEF Handle, Respond

\* A step of a checker, of a reader of the entries, or of the clock.
EnvironmentStep == \/ \E b \in Backends : CheckPasses(b) \/ CheckFails(b) \/ Poll(b)
                   \/ Tick

LEMMA EnvironmentKeepsIInv ==
    ASSUME IInv, EnvironmentStep
    PROVE  /\ IInv' /\ req' = req
           /\ \A x \in Backends : bh'[x].inFlight = bh[x].inFlight \/ bh'[x].inFlight = 0
<1> USE DEF IInv
<1>a. req' = req /\ HandlersOK'
  BY DEF EnvironmentStep, CheckPasses, CheckFails, Poll, Tick, HandlersOK
<1>1. ASSUME NEW b \in Backends, CheckPasses(b) PROVE HealthOK' /\ OnlyCounter(b, 0)
  BY <1>1, ReportSuccessOK DEF CheckPasses
<1>2. ASSUME NEW b \in Backends, CheckFails(b) PROVE HealthOK' /\ OnlyCounter(b, 0)
  BY <1>2, ReportFailureOK DEF CheckFails
<1>3. ASSUME NEW b \in Backends, Poll(b) PROVE HealthOK' /\ OnlyCounter(b, bh[b].inFlight)
  BY <1>3, ObserveOK DEF Poll
<1>4. CASE Tick
  <2>1. \A b \in Backends : /\ Aged(bh[b]) \in BackendHealth
                            /\ EntryInv(Cfg, Aged(bh[b]))
                            /\ Aged(bh[b]).inFlight = bh[b].inFlight
    BY CfgType, AgedOK DEF HealthOK, EpisodeInv
  <2>2. HealthOK' /\ \A x \in Backends : bh'[x].inFlight = bh[x].inFlight
    BY <1>4, <2>1 DEF Tick, HealthOK, EpisodeInv, Cfg
  <2>3. QED
    BY <1>a, <2>2
<1>5. QED
  BY <1>a, <1>1, <1>2, <1>3, <1>4 DEF EnvironmentStep, OnlyCounter

LEMMA NextIInv == IInv /\ [Next]_vars => IInv'
<1> SUFFICES ASSUME IInv, [Next]_vars PROVE IInv'
  OBVIOUS
<1>1. ASSUME NEW r \in Requests, Arrive(r) \/ Handle(r) PROVE IInv'
  BY <1>1, HandlerStep
<1>2. CASE EnvironmentStep
  BY <1>2, EnvironmentKeepsIInv
<1>3. CASE UNCHANGED vars
  BY <1>3 DEF vars, IInv, HealthOK, HandlersOK, EpisodeInv, Cfg
<1>4. QED
  BY <1>1, <1>2, <1>3 DEF Next, EnvironmentStep

LEMMA Invariance == Spec => []IInv
BY InitIInv, NextIInv, PTL DEF Spec

\* Type correctness of the data path.
THEOREM TypeCorrect == Spec => []TypeOK
BY Invariance, IInvIsTyping, PTL

\* In every state every breaker entry counts at most half_open_max_requests
\* slots, none outside probing, and a failure count that fits its state.
THEOREM EpisodeCorrect == Spec => []EpisodeInv
BY Invariance, IInvIsTyping, PTL

-----------------------------------------------------------------------------
(* No probe slot leaks.  A handler that stops waiting for a backend either   *)
(* leaves the entry with no slot counted or has given one back; every other  *)
(* handler goes on waiting for the same backend.                             *)

LEMMA WaitingFinite ==
    ASSUME NEW x \in Backends
    PROVE  IsFiniteSet(Waiting(x)) /\ IsFiniteSet(Waiting(x)')
           /\ Cardinality(Waiting(x)) \in Nat /\ Cardinality(Waiting(x)') \in Nat
BY ForwardAssumption, FS_Subset, FS_CardinalityType DEF Waiting

LEMMA OthersWait ==
    ASSUME NEW r \in Requests, OnlyHandler(r), NEW x \in Backends
    PROVE  Waiting(x) \ {r} \subseteq Waiting(x)'
BY DEF OnlyHandler, Waiting, Current

\* Each case under which the step of r keeps the count of x covered.
LEMMA CountStaysCovered ==
    ASSUME HealthOK, HealthOK', NEW r \in Requests, OnlyHandler(r), NEW x \in Backends,
           bh[x].inFlight <= Cardinality(Waiting(x)),
           \/ bh'[x].inFlight = 0
           \/ bh'[x].inFlight = bh[x].inFlight /\ (r \in Waiting(x) => r \in Waiting(x)')
           \/ bh'[x].inFlight <= bh[x].inFlight /\ r \notin Waiting(x)
           \/ bh'[x].inFlight = IF bh[x].inFlight > 0 THEN bh[x].inFlight - 1 ELSE 0
           \/ /\ bh'[x].inFlight <= bh[x].inFlight + 1
              /\ r \notin Waiting(x) /\ r \in Waiting(x)'
    PROVE  bh'[x].inFlight <= Cardinality(Waiting(x)')
<1>1. bh[x].inFlight \in Nat /\ bh'[x].inFlight \in Nat
  BY DEF HealthOK, BackendHealth
<1>2. IsFiniteSet(Waiting(x)) /\ IsFiniteSet(Waiting(x)') /\ Waiting(x) \ {r} \subseteq Waiting(x)'
  BY WaitingFinite, OthersWait
<1>3. bh[x].inFlight <= 0 + Cardinality(Waiting(x))
  BY WaitingFinite
<1> DEFINE W == Waiting(x)  V == Waiting(x)'
           n == bh[x].inFlight  m == bh'[x].inFlight
<1>4. /\ n \in Nat /\ m \in Nat /\ n <= 0 + Cardinality(W)
      /\ IsFiniteSet(W) /\ IsFiniteSet(V) /\ W \ {r} \subseteq V
      /\ \/ m = 0
         \/ m = n /\ (r \in W => r \in V)
         \/ m <= n /\ r \notin W
         \/ m = IF n > 0 THEN n - 1 ELSE 0
         \/ m <= n + 1 /\ r \notin W /\ r \in V
  BY <1>1, <1>2, <1>3
<1> HIDE DEF W, V, n, m
<1>5. m <= 0 + Cardinality(V)
  BY <1>4, SlotsStayCovered
<1>6. QED
  BY <1>5, WaitingFinite DEF V, m

LEMMA HandlerKeepsNoSlotLeak ==
    ASSUME IInv, NoSlotLeak, NEW r \in Requests, Arrive(r) \/ Handle(r)
    PROVE  NoSlotLeak'
<1>0. HealthOK /\ HandlersOK /\ HealthOK' /\ HandlersOK' /\ OnlyHandler(r)
  BY HandlerStep DEF IInv
<1> SUFFICES ASSUME NEW x \in Backends
             PROVE  bh'[x].inFlight <= Cardinality(Waiting(x)')
  BY DEF NoSlotLeak
<1>a. bh[x].inFlight <= Cardinality(Waiting(x))
  BY DEF NoSlotLeak
<1>b. r \in Waiting(x) => req[r].pc = "sent" /\ req[r].acquired /\ x = Current(r)
  BY DEF Waiting
<1>c. ASSUME req[r].pc \in {"sent", "accept", "backoff"} PROVE Current(r) \in Backends
  BY <1>0, <1>c, CurrentIsBackend DEF HandlersOK, RequestOK, HasCandidate
<1>d. ASSUME req[r].pc = "loop", HasCandidate(r) PROVE Current(r) \in Backends
  BY <1>0, <1>d, CurrentIsBackend
<1>e. ASSUME UNCHANGED <<bh, probes>>, r \notin Waiting(x)
      PROVE  bh'[x].inFlight <= Cardinality(Waiting(x)')
  <2>1. bh'[x].inFlight <= bh[x].inFlight
    BY <1>0, <1>e DEF HealthOK, BackendHealth
  <2>2. QED
    BY <1>0, <1>a, <1>e, <2>1, CountStaysCovered
<1>f. ASSUME NEW b \in Backends, Observe(b), r \notin Waiting(x)
      PROVE  bh'[x].inFlight <= Cardinality(Waiting(x)')
  <2>1. bh'[x].inFlight = bh[x].inFlight
    BY <1>0, <1>f, ObserveOK DEF OnlyCounter
  <2>2. QED
    BY <1>0, <1>a, <1>f, <2>1, CountStaysCovered
\* A report about the current candidate covers it and leaves the others alone.
<1>g. ASSUME Current(r) \in Backends, ReportSuccess(Current(r)) \/ ReportFailure(Current(r))
      PROVE  bh'[x].inFlight <= Cardinality(Waiting(x)')
  <2>1. OnlyCounter(Current(r), 0)
    BY <1>0, <1>g, ReportSuccessOK, ReportFailureOK
  <2>2. CASE x = Current(r)
    BY <1>0, <1>a, <2>1, <2>2, CountStaysCovered DEF OnlyCounter
  <2>3. CASE x # Current(r)
    BY <1>0, <1>a, <1>b, <2>1, <2>3, CountStaysCovered DEF OnlyCounter
  <2>4. QED
    BY <2>2, <2>3
<1>h. ASSUME Current(r) \in Backends, ReleaseProbe(Current(r), r)
      PROVE  bh'[x].inFlight <= Cardinality(Waiting(x)')
  <2>1. OnlyCounter(Current(r), IF bh[Current(r)].inFlight > 0
                                THEN bh[Current(r)].inFlight - 1 ELSE 0)
    BY <1>0, <1>h, ReleaseProbeOK
  <2>2. CASE x = Current(r)
    BY <1>0, <1>a, <2>1, <2>2, CountStaysCovered DEF OnlyCounter
  <2>3. CASE x # Current(r)
    BY <1>0, <1>a, <1>b, <2>1, <2>3, CountStaysCovered DEF OnlyCounter
  <2>4. QED
    BY <2>2, <2>3
<1>1. CASE Arrive(r)
  BY <1>1, <1>b, <1>e DEF Arrive
<1>2. CASE Select(r)
  <2>0. req[r] \in Request /\ RequestOK(req[r]) /\ req[r].pc = "select"
    BY <1>2 DEF Select, IInv, HandlersOK
  <2>1. req[r].cands[req[r].k] \in Backends
    BY <2>0 DEF RequestOK, Request
  <2>2. QED
    BY <1>2, <1>b, <1>f, <2>1 DEF Select
<1>3. CASE TryProbe(r)
  <2>1. Current(r) \in Backends /\ r \notin Waiting(x)
    BY <1>3, <1>b, <1>d DEF TryProbe
  <2>2. /\ OnlyCounter(Current(r), Acquired(Cfg, bh[Current(r)]).inFlight)
        /\ Acquired(Cfg, bh[Current(r)]).inFlight <= bh[Current(r)].inFlight + 1
    BY <1>0, <1>3, <2>1, AcquireProbeOK DEF TryProbe
  <2>3. r \in Waiting(Current(r))'
    BY <1>0, <1>3, SendOK DEF TryProbe, Waiting, Current
  <2>4. CASE x = Current(r)
    <3>1. bh'[x].inFlight <= bh[x].inFlight + 1
      BY <2>2, <2>4 DEF OnlyCounter
    <3>2. r \in Waiting(x)'
      BY <1>0, <1>3, <2>4, SendOK DEF TryProbe, Waiting, Current
    <3>3. QED
      BY <1>0, <1>a, <2>1, <3>1, <3>2, CountStaysCovered
  <2>5. CASE x # Current(r)
    BY <1>0, <1>a, <2>1, <2>2, <2>5, CountStaysCovered DEF OnlyCounter
  <2>6. QED
    BY <2>4, <2>5
<1>4. CASE Skip(r)
  BY <1>4, <1>b, <1>d, <1>f DEF Skip
<1>5. CASE TryFallback(r)
  BY <1>5, <1>b, <1>d, <1>f DEF TryFallback
<1>6. CASE Exhausted(r)
  BY <1>6, <1>b, <1>e DEF Exhausted
<1>7. CASE NetworkError(r)
  BY <1>7, <1>c, <1>g DEF NetworkError
<1>8. CASE RequestError(r)
  BY <1>8, <1>b, <1>c, <1>e, <1>h DEF RequestError
<1>9. CASE RetriableStatus(r)
  BY <1>9, <1>c, <1>g DEF RetriableStatus
<1>10. CASE Success(r)
  BY <1>10, <1>c, <1>g DEF Success
<1>11. CASE ClientError(r)
  BY <1>11, <1>c, <1>g, <1>h DEF ClientError
<1>12. CASE AcceptClientError(r)
  BY <1>12, <1>c, <1>g DEF AcceptClientError
<1>13. CASE BackoffElapsed(r)
  BY <1>13, <1>b, <1>e DEF BackoffElapsed
<1>14. CASE BackoffCancelled(r)
  BY <1>14, <1>b, <1>c, <1>e, <1>h DEF BackoffCancelled
<1>15. QED
  BY <1>1, <1>2, <1>3, <1>4, <1>5, <1>6, <1>7, <1>8, <1>9, <1>10, <1>11, <1>12, <1>13, <1>14
     DEF Handle, Respond

\* The data path never loses a probe slot: each slot an entry counts belongs
\* to a request that waits for that backend, for any number of requests,
\* backends and slots.
THEOREM SlotsNeverLeak == Spec => []NoSlotLeak
<1>1. Init => NoSlotLeak
  <2> SUFFICES ASSUME Init, NEW x \in Backends
               PROVE  bh[x].inFlight <= Cardinality(Waiting(x))
    BY DEF NoSlotLeak
  <2>1. bh[x].inFlight = 0 /\ Cardinality(Waiting(x)) \in Nat
    BY WaitingFinite DEF Init, FreshEntry
  <2>2. QED
    BY <2>1
<1>2. IInv /\ NoSlotLeak /\ [Next]_vars => NoSlotLeak'
  <2> SUFFICES ASSUME IInv, NoSlotLeak, [Next]_vars PROVE NoSlotLeak'
    OBVIOUS
  <2>1. ASSUME NEW r \in Requests, Arrive(r) \/ Handle(r) PROVE NoSlotLeak'
    BY <2>1, HandlerKeepsNoSlotLeak
  <2>2. ASSUME \A x \in Backends : bh'[x].inFlight = bh[x].inFlight \/ bh'[x].inFlight = 0,
               req' = req
        PROVE  NoSlotLeak'
    <3>1. \A x \in Backends : Waiting(x)' = Waiting(x) /\ Cardinality(Waiting(x)) \in Nat
      BY <2>2, WaitingFinite DEF Waiting, Current
    <3>2. QED
      BY <2>2, <3>1 DEF NoSlotLeak
  <2>3. CASE EnvironmentStep
    BY <2>2, <2>3, EnvironmentKeepsIInv
  <2>4. CASE UNCHANGED vars
    BY <2>2, <2>4 DEF vars
  <2>5. QED
    BY <2>1, <2>3, <2>4 DEF Next, EnvironmentStep
<1>3. QED
  BY <1>1, <1>2, Invariance, PTL DEF Spec

-----------------------------------------------------------------------------
(* Fail-over is exhaustive.                                                  *)

Final == {"http_429", "http_5xx", "upstream_failed", "circuit_tripped"}

\* The step of r that ends its request on such an answer comes after the last
\* candidate: every other end has another result.
LEMMA FinalComesLast ==
    ASSUME HandlersOK, NEW r \in Requests, Handle(r),
           req'[r].pc = "idle", req'[r].result \in Final
    PROVE  req[r].k >= Len(req[r].ordered)
<1>0. req[r].k \in Nat /\ Len(req[r].ordered) \in Nat
  BY DEF HandlersOK, Request
<1>a. ASSUME NEW o \in Outcome \ Final, Finish(r, o) PROVE FALSE
  <2>1. req'[r] = Idle(o)
    BY <1>a, FinishOK
  <2>2. QED
    BY <1>a, <2>1 DEF Idle
<1>1. CASE Exhausted(r)
  BY <1>0, <1>1 DEF Exhausted, HasCandidate
<1>2. CASE RetriableStatus(r)
  <2>1. req[r].pc = "sent" /\ "backoff" \in {"loop", "accept", "backoff"}
    BY <1>2 DEF RetriableStatus
  <2>2. CASE req[r].k < Len(req[r].ordered)
    BY <1>2, <2>1, <2>2, JumpOK, NextCandidateOK DEF RetriableStatus
  <2>3. QED
    BY <1>0, <2>2
<1>3. CASE Select(r)
  BY <1>3, SelectOK
<1>4. CASE TryProbe(r) \/ TryFallback(r)
  BY <1>4, SendOK DEF TryProbe, TryFallback
<1>5. CASE Skip(r) \/ NetworkError(r) \/ BackoffElapsed(r)
  BY <1>5, NextCandidateOK DEF Skip, NetworkError, BackoffElapsed
<1>6. CASE RequestError(r) \/ BackoffCancelled(r) \/ Success(r) \/ AcceptClientError(r)
  BY <1>6, <1>a DEF RequestError, BackoffCancelled, Success, AcceptClientError, Outcome, Final
<1>7. CASE ClientError(r)
  BY <1>7, <1>a, JumpOK DEF ClientError, Outcome, Final
<1>8. QED
  BY <1>1, <1>2, <1>3, <1>4, <1>5, <1>6, <1>7 DEF Handle, Respond

\* An answer or error that calls for another candidate reaches the client only
\* when there is none left, whatever the candidates and the breakers' verdicts.
THEOREM FailoverExhausts == Spec => FailoverIsExhaustive
<1> DEFINE Last == \A r \in Requests :
                       (/\ req[r].pc # "idle" /\ req'[r].pc = "idle"
                        /\ req'[r].result \in Final) => req[r].k >= Len(req[r].ordered)
<1>1. IInv /\ [Next]_vars => [Last]_vars
  <2> SUFFICES ASSUME IInv, Next, NEW r \in Requests,
                      req[r].pc # "idle", req'[r].pc = "idle", req'[r].result \in Final
               PROVE  req[r].k >= Len(req[r].ordered)
    OBVIOUS
  <2>1. ASSUME NEW q \in Requests, Arrive(q) \/ Handle(q) PROVE q = r /\ Handle(r)
    <3>1. q # r => req'[r] = req[r]
      BY <2>1, HandlerStep DEF OnlyHandler
    <3>2. QED
      BY <2>1, <3>1 DEF Arrive
  <2>2. ~EnvironmentStep
    BY EnvironmentKeepsIInv
  <2>3. Handle(r)
    BY <2>1, <2>2 DEF Next, EnvironmentStep
  <2>4. QED
    BY <2>3, FinalComesLast DEF IInv
<1>2. QED
  BY <1>1, Invariance, PTL DEF Spec, FailoverIsExhaustive, Final
-----------------------------------------------------------------------------
(* HttpForward implements BreakerPromise.                                     *)

\* What the abstract variables are mapped to.
Gates == [b \in Backends |-> GateOf(bh[b])]
Waits == [r \in Requests |-> WaitsFor(r)]
Modes == [r \in Requests |-> ModeOf(req[r])]

-----------------------------------------------------------------------------
(* The operations on an entry, seen through GateOf.                          *)

LEMMA GateTypes ==
    ASSUME NEW e \in BackendHealth
    PROVE  /\ GateOf(e).taken = e.inFlight
           /\ GateOf(e).circuit = "closed" <=> e.state = "healthy"
           /\ GateOf(e).circuit = "open" <=> (e.state = "tripped" /\ e.age < Cfg.recovery)
           /\ e.state = "healthy" => GateOf(e).streak = e.fails
BY DEF GateOf, BackendHealth, CircuitState

\* Moving a tripped entry to probing is not seen.
LEMMA GateHalfOpened ==
    ASSUME NEW e \in BackendHealth, EntryInv(Cfg, e)
    PROVE  GateOf(HalfOpened(Cfg, e)) = GateOf(e)
BY CfgType DEF GateOf, HalfOpened, BackendHealth, CircuitState, EntryInv, BreakerConfig

LEMMA GateSucceeded ==
    ASSUME NEW e
    PROVE  GateOf(Succeeded(e)) = Promise!Closed
BY DEF GateOf, Succeeded, FreshEntry, Promise!Closed

LEMMA GateFailed ==
    ASSUME NEW e \in BackendHealth, EntryInv(Cfg, e)
    PROVE  GateOf(Failed(Cfg, e)) = Promise!AfterFailure(GateOf(e))
<1>1. CASE e.state = "healthy"
  BY <1>1, CfgType DEF GateOf, Failed, BackendHealth, CircuitState, EntryInv, BreakerConfig,
                       Promise!AfterFailure, Promise!Open
<1>2. CASE e.state = "probing"
  BY <1>2, CfgType DEF GateOf, Failed, BackendHealth, CircuitState, EntryInv, BreakerConfig,
                       Promise!AfterFailure, Promise!Open
<1>3. CASE e.state = "tripped"
  BY <1>3, CfgType DEF GateOf, Failed, BackendHealth, CircuitState, EntryInv, BreakerConfig,
                       Promise!AfterFailure, Promise!Open
<1>4. QED
  BY <1>1, <1>2, <1>3 DEF BackendHealth, CircuitState

LEMMA GateReleased ==
    ASSUME NEW e \in BackendHealth, EntryInv(Cfg, e)
    PROVE  GateOf(Released(e)) = [GateOf(e) EXCEPT !.taken = IF @ > 0 THEN @ - 1 ELSE @]
BY DEF GateOf, Released, BackendHealth, CircuitState, EntryInv

LEMMA GateAcquired ==
    ASSUME NEW e \in BackendHealth, EntryInv(Cfg, e), IsHealthy(Cfg, e)
    PROVE  \/ /\ GateOf(e).circuit = "closed"
              /\ GateOf(Acquired(Cfg, e)) = GateOf(e)
           \/ /\ GateOf(e).circuit = "trial" /\ GateOf(e).taken < Cfg.slots
              /\ GateOf(Acquired(Cfg, e)) = [GateOf(e) EXCEPT !.taken = @ + 1]
<1>1. CASE e.state = "healthy"
  BY <1>1 DEF GateOf, Acquired, HalfOpened
<1>2. CASE e.state = "probing"
  BY <1>2, CfgType DEF GateOf, Acquired, HalfOpened, IsHealthy, Admits, BackendHealth, BreakerConfig
<1>3. CASE e.state = "tripped"
  BY <1>3, CfgType DEF GateOf, Acquired, HalfOpened, IsHealthy, Admits, BackendHealth, EntryInv,
                       BreakerConfig
<1>4. QED
  BY <1>1, <1>2, <1>3 DEF BackendHealth, CircuitState

LEMMA GateAged ==
    ASSUME NEW e \in BackendHealth
    PROVE  \/ GateOf(Aged(e)) = GateOf(e)
           \/ /\ GateOf(e).circuit = "open"
              /\ GateOf(Aged(e)) = [GateOf(e) EXCEPT !.circuit = "trial"]
BY CfgType, MaxAgeAssumption DEF GateOf, Aged, BackendHealth, CircuitState, BreakerConfig

-----------------------------------------------------------------------------
(* The effects of HttpForward on the mapped variables.                       *)

LEMMA EntryOK ==
    ASSUME IInv, NEW b \in Backends
    PROVE  bh[b] \in BackendHealth /\ EntryInv(Cfg, bh[b]) /\ Gates[b] = GateOf(bh[b])
BY DEF IInv, HealthOK, EpisodeInv, Gates

LEMMA GatesUpdated ==
    ASSUME IInv, NEW b \in Backends, NEW e, NEW kept, Update(b, e, kept)
    PROVE  Gates' = [Gates EXCEPT ![b] = GateOf(e)]
<1>1. bh' = [bh EXCEPT ![b] = e] /\ bh \in [Backends -> BackendHealth]
  BY DEF Update, IInv, HealthOK
<1>2. \A x \in Backends : GateOf(bh[x])' = IF x = b THEN GateOf(e) ELSE GateOf(bh[x])
  BY <1>1 DEF GateOf, Cfg
<1>3. QED
  BY <1>2 DEF Gates

LEMMA GatesSame ==
    ASSUME UNCHANGED <<bh, probes>>
    PROVE  Gates' = Gates
BY DEF Gates, GateOf, Cfg

LEMMA GatesObserved ==
    ASSUME IInv, NEW b \in Backends, Observe(b)
    PROVE  Gates' = Gates
<1>1. CASE UNCHANGED <<bh, probes>>
  BY <1>1, GatesSame
<1>2. CASE Update(b, HalfOpened(Cfg, bh[b]), {})
  <2>1. Gates' = [Gates EXCEPT ![b] = GateOf(HalfOpened(Cfg, bh[b]))]
    BY <1>2, GatesUpdated
  <2>2. GateOf(HalfOpened(Cfg, bh[b])) = Gates[b]
    BY EntryOK, GateHalfOpened
  <2>3. QED
    BY <2>1, <2>2 DEF Gates
<1>3. QED
  BY <1>1, <1>2 DEF Observe

LEMMA GatesSucceeded ==
    ASSUME IInv, NEW b \in Backends, ReportSuccess(b)
    PROVE  Gates' = [Gates EXCEPT ![b] = Promise!Closed]
BY GatesUpdated, GateSucceeded DEF ReportSuccess

LEMMA GatesFailed ==
    ASSUME IInv, NEW b \in Backends, ReportFailure(b)
    PROVE  Gates' = [Gates EXCEPT ![b] = Promise!AfterFailure(Gates[b])]
<1>1. Gates' = [Gates EXCEPT ![b] = GateOf(Failed(Cfg, bh[b]))]
  BY GatesUpdated DEF ReportFailure
<1>2. QED
  BY <1>1, EntryOK, GateFailed

LEMMA GatesReleased ==
    ASSUME IInv, NEW b \in Backends, NEW r \in Requests, ReleaseProbe(b, r)
    PROVE  Gates' = [Gates EXCEPT ![b].taken = IF @ > 0 THEN @ - 1 ELSE @]
<1>1. Gates' = [Gates EXCEPT ![b] = GateOf(Released(bh[b]))]
  BY GatesUpdated DEF ReleaseProbe
<1>2. GateOf(Released(bh[b])) = [Gates[b] EXCEPT !.taken = IF @ > 0 THEN @ - 1 ELSE @]
  BY EntryOK, GateReleased
<1>3. QED
  BY <1>1, <1>2

\* The handler of r moves on to wait for w in mode m.
LEMMA Moved ==
    ASSUME NEW r \in Requests, OnlyHandler(r), NEW w, NEW m,
           WaitsFor(r)' = w, ModeOf(req[r])' = m
    PROVE  Waits' = [Waits EXCEPT ![r] = w] /\ Modes' = [Modes EXCEPT ![r] = m]
<1>1. \A q \in Requests : /\ WaitsFor(q)' = IF q = r THEN w ELSE WaitsFor(q)
                          /\ ModeOf(req[q])' = IF q = r THEN m ELSE ModeOf(req[q])
  BY DEF OnlyHandler, WaitsFor, Current, ModeOf
<1>2. QED
  BY <1>1 DEF Waits, Modes

\* It ends.
LEMMA Ended ==
    ASSUME HandlersOK, NEW r \in Requests, NEW o \in Outcome, Finish(r, o)
    PROVE  Waits' = [Waits EXCEPT ![r] = {}] /\ Modes' = [Modes EXCEPT ![r] = "none"]
<1>1. OnlyHandler(r) /\ req'[r] = Idle(o)
  BY FinishOK
<1>2. WaitsFor(r)' = {} /\ ModeOf(req[r])' = "none"
  BY <1>1 DEF WaitsFor, ModeOf, Idle
<1>3. QED
  BY <1>1, <1>2, Moved

\* It goes on with the loop, or with a back-off, in the mode it was in.
LEMMA WentOn ==
    ASSUME HandlersOK, NEW r \in Requests, req[r].pc \in {"loop", "sent", "backoff"},
           \/ NextCandidate(r)
           \/ req[r].pc = "sent" /\ req' = [req EXCEPT ![r] = [req[r] EXCEPT !.pc = "backoff"]]
    PROVE  Waits' = [Waits EXCEPT ![r] = {}] /\ Modes' = Modes
<1>1. req[r] \in Request /\ req \in [Requests -> Request]
  BY DEF HandlersOK
<1>2. OnlyHandler(r)
  BY NextCandidateOK, JumpOK
<1>3. req'[r].pc \in {"loop", "backoff"} /\ req'[r].fallback = req[r].fallback
  BY <1>1 DEF NextCandidate, Request
<1>4. WaitsFor(r)' = {} /\ ModeOf(req[r])' = ModeOf(req[r])
  BY <1>3 DEF WaitsFor, ModeOf
<1>5. Modes' = [Modes EXCEPT ![r] = Modes[r]] /\ Waits' = [Waits EXCEPT ![r] = {}]
  BY <1>2, <1>4, Moved DEF Modes
<1>6. QED
  BY <1>5 DEF Modes

\* It sends to its current candidate.
LEMMA Sent ==
    ASSUME HandlersOK, NEW r \in Requests, NEW a \in BOOLEAN, Send(r, a),
           req[r].pc = "loop", HasCandidate(r)
    PROVE  /\ Waits' = [Waits EXCEPT ![r] = {Current(r)}] /\ Modes' = Modes
           /\ Waits[r] = {}
           /\ Modes[r] = IF req[r].fallback THEN "last_resort" ELSE "guarded"
<1>1. req[r] \in Request /\ req \in [Requests -> Request]
  BY DEF HandlersOK
<1>2. /\ OnlyHandler(r)
      /\ req'[r].pc = "sent" /\ req'[r].k = req[r].k /\ req'[r].ordered = req[r].ordered
  BY SendOK
<1>3. req'[r].fallback = req[r].fallback
  BY <1>1 DEF Send, Request
<1>4. WaitsFor(r)' = {Current(r)} /\ ModeOf(req[r])' = ModeOf(req[r])
  BY <1>2, <1>3 DEF WaitsFor, ModeOf, Current
<1>5. Modes' = [Modes EXCEPT ![r] = Modes[r]] /\ Waits' = [Waits EXCEPT ![r] = {Current(r)}]
  BY <1>2, <1>4, Moved DEF Modes
<1>6. QED
  BY <1>5 DEF Modes, Waits, WaitsFor, ModeOf

\* What the abstract variables say of a handler at each point of its code.
LEMMA Mapped ==
    ASSUME NEW r \in Requests
    PROVE  /\ req[r].pc \in {"sent", "accept"} => Waits[r] = {Current(r)}
           /\ req[r].pc \notin {"sent", "accept"} => Waits[r] = {}
           /\ req[r].pc \in {"idle", "select"} => Modes[r] = "none"
           /\ req[r].pc \notin {"idle", "select"} =>
                 Modes[r] = IF req[r].fallback THEN "last_resort" ELSE "guarded"
BY DEF Waits, Modes, WaitsFor, ModeOf

-----------------------------------------------------------------------------
(* A handler in fallback reserved nothing.                                   *)

HoldsNothing(q) == /\ q.fallback => ~q.acquired
                   /\ q.pc = "select" => ~q.acquired

FallbackHoldsNothing == \A r \in Requests : HoldsNothing(req[r])

LEMMA HandlerHoldsNothing ==
    ASSUME IInv, NEW r \in Requests, HoldsNothing(req[r]), Arrive(r) \/ Handle(r)
    PROVE  HoldsNothing(req'[r])
<1>0. HandlersOK /\ req \in [Requests -> Request] /\ req[r] \in Request
  BY DEF IInv, HandlersOK
<1>a. ASSUME NEW o \in Outcome, Finish(r, o) PROVE HoldsNothing(req'[r])
  <2>1. req'[r] = Idle(o)
    BY <1>0, <1>a, FinishOK
  <2>2. req'[r].pc = "idle" /\ req'[r].fallback = FALSE
    BY <2>1 DEF Idle
  <2>3. QED
    BY <2>2 DEF HoldsNothing
<1>b. ASSUME NextCandidate(r) PROVE HoldsNothing(req'[r])
  <2>1. req'[r].pc = "loop" /\ req'[r].fallback = req[r].fallback /\ req'[r].acquired = req[r].acquired
    BY <1>0, <1>b DEF NextCandidate, Request
  <2>2. QED
    BY <2>1 DEF HoldsNothing
<1>c. ASSUME NEW to \in {"accept", "backoff"}, req' = [req EXCEPT ![r] = [req[r] EXCEPT !.pc = to]]
      PROVE  HoldsNothing(req'[r])
  <2>1. req'[r].pc = to /\ req'[r].fallback = req[r].fallback /\ req'[r].acquired = req[r].acquired
    BY <1>0, <1>c DEF Request
  <2>2. QED
    BY <2>1 DEF HoldsNothing
<1>1. CASE Arrive(r)
  <2>1. PICK c \in CandidateLists :
           req' = [req EXCEPT ![r] = [Idle("none") EXCEPT !.pc = "select", !.cands = c, !.k = 1]]
    BY <1>1 DEF Arrive
  <2>2. req'[r] = [Idle("none") EXCEPT !.pc = "select", !.cands = c, !.k = 1]
    BY <1>0, <2>1
  <2>3. QED
    BY <2>2 DEF HoldsNothing, Idle
<1>2. CASE Select(r)
  <2>1. ~req[r].acquired
    BY <1>2 DEF Select, HoldsNothing
  <2>2. req'[r].acquired = req[r].acquired
    BY <1>0, <1>2 DEF Select, Request
  <2>3. QED
    BY <2>1, <2>2 DEF HoldsNothing
<1>3. CASE TryProbe(r)
  <2>1. req'[r].pc = "sent" /\ req'[r].fallback = req[r].fallback
    BY <1>0, <1>3 DEF TryProbe, Send, Request
  <2>2. QED
    BY <1>3, <2>1 DEF TryProbe, HoldsNothing
<1>4. CASE TryFallback(r)
  <2>1. req'[r].pc = "sent" /\ req'[r].acquired = FALSE
    BY <1>0, <1>4 DEF TryFallback, Send, Request
  <2>2. QED
    BY <2>1 DEF HoldsNothing
<1>5. CASE Skip(r) \/ NetworkError(r) \/ BackoffElapsed(r)
  BY <1>5, <1>b DEF Skip, NetworkError, BackoffElapsed
<1>6. CASE Exhausted(r)
  BY <1>6, <1>a DEF Exhausted, Outcome
<1>7. CASE RequestError(r) \/ Success(r) \/ AcceptClientError(r) \/ BackoffCancelled(r)
  BY <1>7, <1>a DEF RequestError, Success, AcceptClientError, BackoffCancelled, Outcome
<1>8. CASE RetriableStatus(r)
  <2>1. PICK o \in Outcome : \/ req' = [req EXCEPT ![r] = [req[r] EXCEPT !.pc = "backoff"]]
                             \/ NextCandidate(r)
                             \/ Finish(r, o)
    BY <1>8 DEF RetriableStatus, Outcome
  <2>2. QED
    BY <2>1, <1>a, <1>b, <1>c
<1>9. CASE ClientError(r)
  BY <1>9, <1>a, <1>c DEF ClientError, Outcome
<1>10. QED
  BY <1>1, <1>2, <1>3, <1>4, <1>5, <1>6, <1>7, <1>8, <1>9 DEF Handle, Respond

LEMMA NothingHeldInFallback == Spec => []FallbackHoldsNothing
<1>1. Init => FallbackHoldsNothing
  BY DEF Init, Idle, FallbackHoldsNothing, HoldsNothing
<1>2. IInv /\ FallbackHoldsNothing /\ [Next]_vars => FallbackHoldsNothing'
  <2> SUFFICES ASSUME IInv, FallbackHoldsNothing, [Next]_vars PROVE FallbackHoldsNothing'
    OBVIOUS
  <2>1. ASSUME NEW r \in Requests, Arrive(r) \/ Handle(r) PROVE FallbackHoldsNothing'
    BY <2>1, HandlerStep, HandlerHoldsNothing DEF FallbackHoldsNothing, OnlyHandler
  <2>2. CASE EnvironmentStep \/ UNCHANGED vars
    <3>1. req' = req
      BY <2>2, EnvironmentKeepsIInv DEF vars
    <3>2. QED
      BY <3>1 DEF FallbackHoldsNothing
  <2>3. QED
    BY <2>1, <2>2 DEF Next, EnvironmentStep
<1>3. QED
  BY <1>1, <1>2, Invariance, PTL DEF Spec

-----------------------------------------------------------------------------
(* Every step of HttpForward is one of BreakerPromise, or is not seen.       *)

PromiseStep == Promise!Next \/ UNCHANGED <<Gates, Waits, Modes>>

\* The abstract steps, by what they do to the mapped variables.
LEMMA RequestPromise ==
    ASSUME NEW r \in Requests, NEW b \in Backends,
           \/ /\ Waits[r] = {b}
              /\ \/ Gates' = [Gates EXCEPT ![b] = Promise!Closed]
                 \/ Gates' = [Gates EXCEPT ![b] = Promise!AfterFailure(@)]
           \/ /\ Modes[r] = "guarded"
              /\ Gates' = [Gates EXCEPT ![b].taken = IF @ > 0 THEN @ - 1 ELSE @],
           Waits' = [Waits EXCEPT ![r] = {}],
           Modes' = [Modes EXCEPT ![r] = "none"]
    PROVE  Promise!Next
<1>1. Promise!Ends(r)
  BY DEF Promise!Ends, Waits, Modes
<1>2. CASE Waits[r] = {b} /\ Gates' = [Gates EXCEPT ![b] = Promise!Closed]
  <2>1. Promise!Answered(r, b)
    BY <1>1, <1>2 DEF Promise!Answered, Gates, Waits
  <2>2. QED
    BY <2>1 DEF Promise!Next
<1>3. CASE Waits[r] = {b} /\ Gates' = [Gates EXCEPT ![b] = Promise!AfterFailure(@)]
  <2>1. Promise!Failed(r, b)
    BY <1>1, <1>3 DEF Promise!Failed, Gates, Waits
  <2>2. QED
    BY <2>1 DEF Promise!Next
<1>4. CASE Modes[r] = "guarded" /\ Gates' = [Gates EXCEPT ![b].taken = IF @ > 0 THEN @ - 1 ELSE @]
  <2>1. Promise!GivesBack(r, b)
    BY <1>1, <1>4 DEF Promise!GivesBack, Gates, Modes
  <2>2. QED
    BY <2>1 DEF Promise!Next
<1>5. QED
  BY <1>2, <1>3, <1>4

\* A handler that is past the selection may end without a word.
LEMMA LeavePromise ==
    ASSUME NEW r \in Requests, Modes[r] # "none", Gates' = Gates,
           Waits' = [Waits EXCEPT ![r] = {}], Modes' = [Modes EXCEPT ![r] = "none"]
    PROVE  Promise!Next
<1>1. Promise!Leaves(r)
  BY DEF Promise!Leaves, Promise!Ends, Gates, Waits, Modes
<1>2. QED
  BY <1>1 DEF Promise!Next

\* A handler that loses its backend but not its mode saw it fail.
LEMMA FailurePromise ==
    ASSUME NEW r \in Requests, NEW b \in Backends, Waits[r] = {b},
           Gates' = [Gates EXCEPT ![b] = Promise!AfterFailure(@)],
           Waits' = [Waits EXCEPT ![r] = {}], Modes' = Modes
    PROVE  Promise!Next
<1>1. Promise!Failed(r, b)
  BY DEF Promise!Failed, Gates, Waits, Modes
<1>2. QED
  BY <1>1 DEF Promise!Next

LEMMA HandlerKeepsPromise ==
    ASSUME IInv, FallbackHoldsNothing, NEW r \in Requests, Arrive(r) \/ Handle(r)
    PROVE  PromiseStep
<1>0. HandlersOK /\ req[r] \in Request /\ RequestOK(req[r]) /\ HoldsNothing(req[r]) /\ OnlyHandler(r)
  BY HandlerStep DEF IInv, HandlersOK, FallbackHoldsNothing
<1>a. ASSUME req[r].pc \in {"sent", "accept", "backoff"} PROVE Current(r) \in Backends
  BY <1>0, <1>a, CurrentIsBackend DEF RequestOK, HasCandidate
<1>b. ASSUME req[r].pc = "loop", HasCandidate(r) PROVE Current(r) \in Backends
  BY <1>0, <1>b, CurrentIsBackend
<1>c. \/ ~req[r].acquired
      \/ req[r].pc \notin {"idle", "select"} => Modes[r] = "guarded"
  BY <1>0, Mapped DEF HoldsNothing
\* The handler stops waiting, if it was, and nothing is reported.
<1>d. ASSUME req[r].pc \in {"loop", "backoff"}, NextCandidate(r), Gates' = Gates
      PROVE  PromiseStep
  <2>1. Waits' = Waits /\ Modes' = Modes
    BY <1>0, <1>d, WentOn, Mapped DEF Waits
  <2>2. QED
    BY <1>d, <2>1 DEF PromiseStep
<1>1. CASE Arrive(r)
  <2>1. Gates' = Gates /\ req[r].pc = "idle" /\ req'[r].pc = "select"
    BY <1>0, <1>1, GatesSame, ArriveOK DEF Arrive
  <2>2. WaitsFor(r)' = {} /\ ModeOf(req[r])' = "none"
    BY <2>1 DEF WaitsFor, ModeOf
  <2>3. Waits[r] = {} /\ Modes[r] = "none"
    BY <2>1, Mapped
  <2>4. Waits' = [Waits EXCEPT ![r] = Waits[r]] /\ Modes' = [Modes EXCEPT ![r] = Modes[r]]
    BY <1>0, <2>2, <2>3, Moved
  <2>5. QED
    BY <2>1, <2>4 DEF PromiseStep, Waits, Modes
<1>2. CASE Select(r)
  <2>1. req[r].cands[req[r].k] \in Backends
    BY <1>0, <1>2 DEF Select, RequestOK, Request
  <2>2. Gates' = Gates
    BY <1>2, <2>1, GatesObserved DEF Select
  <2>3. req[r].pc = "select" /\ req'[r].pc \in {"select", "loop"}
    BY <1>0, <1>2, SelectOK DEF Select
  <2>4. Waits[r] = {} /\ Modes[r] = "none" /\ WaitsFor(r)' = {}
    BY <2>3, Mapped DEF WaitsFor
  <2>5. PICK m \in {"none", "guarded", "last_resort"} : ModeOf(req[r])' = m
    BY DEF ModeOf
  <2>6. Waits' = Waits /\ Modes' = [Modes EXCEPT ![r] = m]
    BY <1>0, <2>4, <2>5, Moved DEF Waits
  <2>7. CASE m = "none"
    BY <2>2, <2>4, <2>6, <2>7 DEF PromiseStep, Modes
  <2>8. CASE m # "none"
    <3>1. Promise!Starts(r)
      BY <2>2, <2>4, <2>5, <2>6, <2>8 DEF Promise!Starts, Gates, Waits, Modes
    <3>2. QED
      BY <3>1 DEF PromiseStep, Promise!Next
  <2>9. QED
    BY <2>7, <2>8
<1>3. CASE TryProbe(r)
  <2> DEFINE b == Current(r)
  <2>1. b \in Backends /\ ~req[r].fallback /\ IsHealthy(Cfg, bh[b])
    BY <1>3, <1>b DEF TryProbe
  <2>2. /\ Waits' = [Waits EXCEPT ![r] = {b}] /\ Modes' = Modes
        /\ Waits[r] = {} /\ Modes[r] = "guarded"
    BY <1>0, <1>3, <2>1, Sent DEF TryProbe
  <2>3. PICK kept : Update(b, Acquired(Cfg, bh[b]), kept)
    BY <1>3 DEF TryProbe, AcquireProbe
  <2>4. Gates' = [Gates EXCEPT ![b] = GateOf(Acquired(Cfg, bh[b]))]
    BY <2>1, <2>3, GatesUpdated
  <2>5. \/ Gates[b].circuit = "closed" /\ Gates' = Gates
        \/ /\ Gates[b].circuit = "trial" /\ Gates[b].taken < Cfg.slots
           /\ Gates' = [Gates EXCEPT ![b].taken = @ + 1]
    <3>1. bh[b] \in BackendHealth /\ EntryInv(Cfg, bh[b]) /\ Gates[b] = GateOf(bh[b])
      BY <2>1, EntryOK
    <3>2. \/ Gates[b].circuit = "closed" /\ GateOf(Acquired(Cfg, bh[b])) = Gates[b]
          \/ /\ Gates[b].circuit = "trial" /\ Gates[b].taken < Cfg.slots
             /\ GateOf(Acquired(Cfg, bh[b])) = [Gates[b] EXCEPT !.taken = @ + 1]
      BY <2>1, <3>1, GateAcquired
    <3>3. [Gates EXCEPT ![b] = Gates[b]] = Gates
      BY DEF Gates
    <3>4. CASE Gates[b].circuit = "closed" /\ GateOf(Acquired(Cfg, bh[b])) = Gates[b]
      BY <2>4, <3>3, <3>4
    <3>5. CASE /\ Gates[b].circuit = "trial" /\ Gates[b].taken < Cfg.slots
               /\ GateOf(Acquired(Cfg, bh[b])) = [Gates[b] EXCEPT !.taken = @ + 1]
      BY <2>4, <3>5
    <3>6. QED
      BY <3>2, <3>4, <3>5
  <2> HIDE DEF b
  <2>6. Promise!Asks(r, b)
    BY <2>1, <2>2, <2>5 DEF Promise!Asks, Gates, Waits, Modes
  <2>7. QED
    BY <2>1, <2>6 DEF PromiseStep, Promise!Next
<1>4. CASE Skip(r)
  <2>1. Gates' = Gates
    BY <1>4, <1>b, GatesObserved DEF Skip
  <2>2. QED
    BY <1>4, <1>d, <2>1 DEF Skip
<1>5. CASE TryFallback(r)
  <2>1. Gates' = Gates /\ Current(r) \in Backends
    BY <1>5, <1>b, GatesObserved DEF TryFallback
  <2>2. /\ Waits' = [Waits EXCEPT ![r] = {Current(r)}] /\ Modes' = Modes
        /\ Waits[r] = {} /\ Modes[r] = "last_resort"
    BY <1>0, <1>5, Sent DEF TryFallback
  <2>3. Promise!AsksAnyway(r, Current(r))
    BY <2>1, <2>2 DEF Promise!AsksAnyway, Gates, Waits, Modes
  <2>4. QED
    BY <2>1, <2>3 DEF PromiseStep, Promise!Next
<1>e. ASSUME NEW o \in Outcome, Finish(r, o), req[r].pc \notin {"idle", "select"}, Gates' = Gates
      PROVE  PromiseStep
  <2>1. Modes[r] # "none"
    BY <1>e, Mapped
  <2>2. QED
    BY <1>0, <1>e, <2>1, Ended, LeavePromise DEF PromiseStep
<1>f. ASSUME NEW o \in Outcome, Finish(r, o), req[r].pc \in {"sent", "backoff"},
             req[r].acquired, ReleaseProbe(Current(r), r)
      PROVE  PromiseStep
  <2>1. Current(r) \in Backends /\ Modes[r] = "guarded"
    BY <1>a, <1>c, <1>f
  <2>2. Gates' = [Gates EXCEPT ![Current(r)].taken = IF @ > 0 THEN @ - 1 ELSE @]
    BY <1>f, <2>1, GatesReleased
  <2>3. QED
    BY <1>0, <1>f, <2>1, <2>2, Ended, RequestPromise DEF PromiseStep
<1>g. ASSUME NEW o \in Outcome, Finish(r, o), req[r].pc \in {"sent", "accept"},
             ReportSuccess(Current(r)) \/ ReportFailure(Current(r))
      PROVE  PromiseStep
  <2>1. Current(r) \in Backends /\ Waits[r] = {Current(r)}
    BY <1>a, <1>g, Mapped
  <2>2. \/ Gates' = [Gates EXCEPT ![Current(r)] = Promise!Closed]
        \/ Gates' = [Gates EXCEPT ![Current(r)] = Promise!AfterFailure(@)]
    BY <1>g, <2>1, GatesSucceeded, GatesFailed
  <2>3. QED
    BY <1>0, <1>g, <2>1, <2>2, Ended, RequestPromise DEF PromiseStep
<1>h. ASSUME req[r].pc = "sent", ReportFailure(Current(r)),
             NextCandidate(r) \/ req' = [req EXCEPT ![r] = [req[r] EXCEPT !.pc = "backoff"]]
      PROVE  PromiseStep
  <2>1. Current(r) \in Backends /\ Waits[r] = {Current(r)}
    BY <1>a, <1>h, Mapped
  <2>2. Gates' = [Gates EXCEPT ![Current(r)] = Promise!AfterFailure(@)]
    BY <1>h, <2>1, GatesFailed
  <2>3. QED
    BY <1>0, <1>h, <2>1, <2>2, WentOn, FailurePromise DEF PromiseStep
<1>6. CASE Exhausted(r)
  BY <1>6, <1>e, GatesSame DEF Exhausted, Outcome
<1>7. CASE NetworkError(r)
  BY <1>7, <1>h DEF NetworkError
<1>8. CASE RequestError(r)
  BY <1>8, <1>e, <1>f, GatesSame DEF RequestError, Outcome
<1>9. CASE RetriableStatus(r)
  <2>1. PICK o \in Outcome : \/ req' = [req EXCEPT ![r] = [req[r] EXCEPT !.pc = "backoff"]]
                             \/ NextCandidate(r)
                             \/ Finish(r, o)
    BY <1>9 DEF RetriableStatus, Outcome
  <2>2. QED
    BY <1>9, <1>g, <1>h, <2>1 DEF RetriableStatus
<1>10. CASE Success(r)
  BY <1>10, <1>g DEF Success, Outcome
<1>11. CASE ClientError(r)
  <2>1. CASE req[r].acquired
    <3>1. /\ req[r].pc = "sent" /\ ReleaseProbe(Current(r), r)
          /\ req' = [req EXCEPT ![r] = [req[r] EXCEPT !.pc = "accept"]]
      BY <1>11, <2>1 DEF ClientError
    <3>2. Current(r) \in Backends /\ Modes[r] = "guarded" /\ Waits[r] = {Current(r)}
      BY <1>a, <1>c, <2>1, <3>1, Mapped
    <3>3. Gates' = [Gates EXCEPT ![Current(r)].taken = IF @ > 0 THEN @ - 1 ELSE @]
      BY <3>1, <3>2, GatesReleased
    <3>4. /\ req'[r].pc = "accept" /\ req'[r].fallback = req[r].fallback
          /\ req'[r].k = req[r].k /\ req'[r].ordered = req[r].ordered
      BY <1>0, <3>1 DEF HandlersOK, Request
    <3>5. WaitsFor(r)' = {Current(r)} /\ ModeOf(req[r])' = ModeOf(req[r])
      BY <3>1, <3>4 DEF WaitsFor, Current, ModeOf
    <3>6. Waits' = Waits /\ Modes' = Modes
      BY <1>0, <3>2, <3>5, Moved DEF Waits, Modes
    <3>7. Promise!GivesBack(r, Current(r))
      BY <3>2, <3>3, <3>6 DEF Promise!GivesBack, Gates, Waits, Modes
    <3>8. QED
      BY <3>2, <3>7 DEF PromiseStep, Promise!Next
  <2>2. CASE ~req[r].acquired
    BY <1>11, <1>g, <2>2 DEF ClientError, Outcome
  <2>3. QED
    BY <2>1, <2>2
<1>12. CASE AcceptClientError(r)
  BY <1>12, <1>g DEF AcceptClientError, Outcome
<1>13. CASE BackoffElapsed(r)
  BY <1>13, <1>d, GatesSame DEF BackoffElapsed
<1>14. CASE BackoffCancelled(r)
  BY <1>14, <1>e, <1>f, GatesSame DEF BackoffCancelled, Outcome
<1>15. QED
  BY <1>1, <1>2, <1>3, <1>4, <1>5, <1>6, <1>7, <1>8, <1>9, <1>10, <1>11, <1>12, <1>13, <1>14
     DEF Handle, Respond

LEMMA EnvironmentKeepsPromise ==
    ASSUME IInv, EnvironmentStep
    PROVE  PromiseStep
<1>0. Waits' = Waits /\ Modes' = Modes
  BY EnvironmentKeepsIInv DEF Waits, Modes, WaitsFor, Current, ModeOf
<1>1. ASSUME NEW b \in Backends, CheckPasses(b) PROVE PromiseStep
  <2>1. b \in Checked /\ Gates' = [Gates EXCEPT ![b] = Promise!Closed]
    BY <1>1, GatesSucceeded DEF CheckPasses
  <2>2. Promise!CheckPasses(b)
    BY <1>0, <2>1 DEF Promise!CheckPasses, Gates, Waits, Modes
  <2>3. QED
    BY <2>1, <2>2 DEF PromiseStep, Promise!Next
<1>2. ASSUME NEW b \in Backends, CheckFails(b) PROVE PromiseStep
  <2>1. b \in Checked /\ Gates' = [Gates EXCEPT ![b] = Promise!AfterFailure(@)]
    BY <1>2, GatesFailed DEF CheckFails
  <2>2. Promise!CheckFails(b)
    BY <1>0, <2>1 DEF Promise!CheckFails, Gates, Waits, Modes
  <2>3. QED
    BY <2>1, <2>2 DEF PromiseStep, Promise!Next
<1>3. ASSUME NEW b \in Backends, Poll(b) PROVE PromiseStep
  BY <1>0, <1>3, GatesObserved DEF Poll, PromiseStep
<1>4. CASE Tick
  <2> DEFINE S == {b \in Backends : /\ GateOf(bh[b]).circuit = "open"
                                    /\ GateOf(Aged(bh[b])) # GateOf(bh[b])}
  <2>1. \A b \in Backends : GateOf(bh[b])' = IF b \in S THEN [GateOf(bh[b]) EXCEPT !.circuit = "trial"]
                                             ELSE GateOf(bh[b])
    <3>1. \A b \in Backends : GateOf(bh[b])' = GateOf(Aged(bh[b]))
      BY <1>4 DEF Tick, GateOf, Cfg
    <3>2. \A b \in Backends : bh[b] \in BackendHealth
      BY EntryOK
    <3>3. QED
      BY <3>1, <3>2, GateAged
  <2>2. /\ \A b \in S : Gates[b].circuit = "open"
        /\ Gates' = [b \in Backends |-> IF b \in S THEN [Gates[b] EXCEPT !.circuit = "trial"]
                                       ELSE Gates[b]]
        /\ S \in SUBSET Backends
    BY <2>1 DEF Gates
  <2> HIDE DEF S
  <2>3. Promise!Rested(S)
    BY <1>0, <2>2 DEF Promise!Rested, Gates, Waits, Modes
  <2>4. QED
    BY <2>2, <2>3 DEF PromiseStep, Promise!Next
<1>5. QED
  BY <1>1, <1>2, <1>3, <1>4 DEF EnvironmentStep

\* The data path implements the abstract breaker: whatever the candidate
\* lists, a backend is asked outside fallback only with its circuit's consent
\* at that moment, answers and passed checks alone close a circuit, and only
\* the failures of a streak, or one on trial, open it.
THEOREM ImplementsPromise == Spec => KeepsPromise
<1>1. Init => Promise!Init
  <2> SUFFICES ASSUME Init PROVE Promise!Init
    OBVIOUS
  <2>1. \A b \in Backends : GateOf(bh[b]) = Promise!Closed
    BY GateSucceeded DEF Init, Succeeded
  <2>2. \A r \in Requests : WaitsFor(r) = {} /\ ModeOf(req[r]) = "none"
    BY DEF Init, Idle, WaitsFor, ModeOf
  <2>3. QED
    BY <2>1, <2>2 DEF Promise!Init
<1>2. IInv /\ FallbackHoldsNothing /\ [Next]_vars => [Promise!Next]_(Promise!vars)
  <2> SUFFICES ASSUME IInv, FallbackHoldsNothing, [Next]_vars
               PROVE  Promise!Next \/ UNCHANGED Promise!vars
    OBVIOUS
  <2>1. ASSUME PromiseStep PROVE Promise!Next \/ UNCHANGED Promise!vars
    BY <2>1 DEF PromiseStep, Promise!vars, Gates, Waits, Modes
  <2>2. CASE UNCHANGED vars
    <3>1. UNCHANGED <<Gates, Waits, Modes>>
      BY <2>2 DEF vars, Gates, Waits, Modes, GateOf, WaitsFor, Current, ModeOf, Cfg
    <3>2. QED
      BY <2>1, <3>1 DEF PromiseStep
  <2>3. CASE Next
    BY <2>1, <2>3, HandlerKeepsPromise, EnvironmentKeepsPromise DEF Next, EnvironmentStep
  <2>4. QED
    BY <2>2, <2>3
<1>3. QED
  BY <1>1, <1>2, Invariance, NothingHeldInFallback, PTL DEF Spec, KeepsPromise, Promise!Spec
=============================================================================
