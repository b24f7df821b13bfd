---------------------------- MODULE HttpForward ----------------------------
(***************************************************************************)
(* The HTTP data path over one HealthManager: concurrent requests run      *)
(* forwardWithRetry (internal/server/server.go) over their candidate       *)
(* lists, active health checks report what they see, and time passes.      *)
(*                                                                         *)
(* One step of a request is the code between two operations on shared      *)
(* state: one IsHealthy of SelectOrdered, one TryAcquireProbe, the report  *)
(* that follows an upstream answer, the end of a back-off.  A request that *)
(* ended can be started again: it stands for the next one.                 *)
(***************************************************************************)
EXTENDS CircuitBreaker, Sequences, FiniteSets

CONSTANTS Requests,             \* concurrent client requests
          Backends,             \* names of the configured backends
          CandidateLists,       \* what ResolveCandidates may return, by priority
          Checked,              \* backends with an active health check
          FailThreshold, RecoveryTimeout, HalfOpenMaxRequests,
          DefaultRecovery       \* the 30 s of NewHealthManager, in ticks

ASSUME ForwardAssumption ==
    /\ IsFiniteSet(Requests)
    /\ CandidateLists \subseteq Seq(Backends) \ {<<>>}
    /\ Checked \subseteq Backends
    /\ FailThreshold \in Int /\ RecoveryTimeout \in Int /\ HalfOpenMaxRequests \in Int
    /\ DefaultRecovery \in 1..MaxAge /\ RecoveryTimeout <= MaxAge

Cfg == Normalised([threshold |-> FailThreshold, recovery |-> RecoveryTimeout,
                   slots |-> HalfOpenMaxRequests], DefaultRecovery)

VARIABLES bh,      \* bh[b]: the manager's entry for backend b
          req,     \* req[r]: the locals of the handler that serves request r
          probes   \* history: probes[b], the requests whose reservation the
                   \* entry of b has counted since it last entered probing

vars == <<bh, req, probes>>

Outcome == {"none", "success", "http_4xx", "http_429", "http_5xx", "request_error",
            "request_canceled", "upstream_failed", "circuit_tripped"}

\* `acquired' is the code's probeAcquired, `k' the index of both its loops.
Request == [pc : {"idle", "select", "loop", "sent", "accept", "backoff"},
            cands : Seq(Backends), ordered : Seq(Backends), k : Nat,
            fallback : BOOLEAN, acquired : BOOLEAN, attempts : Nat, result : Outcome]

Idle(result) == [pc |-> "idle", cands |-> <<>>, ordered |-> <<>>, k |-> 0,
                 fallback |-> FALSE, acquired |-> FALSE, attempts |-> 0, result |-> result]

\* The candidate whose turn it is.
Current(r) == req[r].ordered[req[r].k]
HasCandidate(r) == req[r].k <= Len(req[r].ordered)

Init == /\ bh = [b \in Backends |-> FreshEntry]
        /\ req = [r \in Requests |-> Idle("none")]
        /\ probes = [b \in Backends |-> {}]

-----------------------------------------------------------------------------
(* Effects on the entry of a backend, with the history variable.  An entry *)
(* that leaves probing, or enters it anew, counts no reservation.          *)

Update(b, entry, kept) == /\ bh' = [bh EXCEPT ![b] = entry]
                          /\ probes' = [probes EXCEPT ![b] = kept]

Observe(b) == IF HalfOpened(Cfg, bh[b]) = bh[b]
              THEN UNCHANGED <<bh, probes>>
              ELSE Update(b, HalfOpened(Cfg, bh[b]), {})

ReportSuccess(b) == Update(b, Succeeded(bh[b]), {})

ReportFailure(b) ==
    Update(b, Failed(Cfg, bh[b]), IF bh[b].state = "probing" THEN {} ELSE probes[b])

ReleaseProbe(b, r) == Update(b, Released(bh[b]), probes[b] \ {r})

AcquireProbe(b, r) ==
    LET h == HalfOpened(Cfg, bh[b])
        counted == IF h = bh[b] THEN probes[b] ELSE {}
    IN  Update(b, Acquired(Cfg, bh[b]),
               IF h.state = "probing" THEN counted \cup {r} ELSE counted)

-----------------------------------------------------------------------------
(* The steps of a request.                                                 *)

Arrive(r) ==
    /\ req[r].pc = "idle"
    /\ \E c \in CandidateLists :
          req' = [req EXCEPT ![r] = [Idle("none") EXCEPT !.pc = "select", !.cands = c, !.k = 1]]
    /\ UNCHANGED <<bh, probes>>

\* SelectOrdered asks IsHealthy of one candidate after the other, each under
\* its own lock; when none is healthy SelectFallback takes them all.
Select(r) ==
    /\ req[r].pc = "select"
    /\ LET b    == req[r].cands[req[r].k]
           kept == IF IsHealthy(Cfg, bh[b]) THEN Append(req[r].ordered, b) ELSE req[r].ordered
           last == req[r].k = Len(req[r].cands)
       IN  /\ Observe(b)
           /\ req' = [req EXCEPT ![r] =
                  IF ~last THEN [req[r] EXCEPT !.ordered = kept, !.k = req[r].k + 1]
                  ELSE [req[r] EXCEPT !.pc = "loop", !.k = 1,
                                      !.ordered = IF kept = <<>> THEN req[r].cands ELSE kept,
                                      !.fallback = (kept = <<>>)]]

Send(r, acquired) ==
    req' = [req EXCEPT ![r] = [req[r] EXCEPT !.pc = "sent", !.acquired = acquired,
                                             !.attempts = req[r].attempts + 1]]
NextCandidate(r) ==
    req' = [req EXCEPT ![r] = [req[r] EXCEPT !.pc = "loop", !.k = req[r].k + 1]]
Finish(r, result) == req' = [req EXCEPT ![r] = Idle(result)]

\* Mutant: the answer of SelectOrdered is taken for granted.
TryProbeUnasked(r) ==
    /\ req[r].pc = "loop" /\ HasCandidate(r) /\ ~req[r].fallback
    /\ AcquireProbe(Current(r), r)
    /\ Send(r, TRUE)

\* A candidate that was selected is asked again, now for a slot.
TryProbe(r) ==
    /\ req[r].pc = "loop" /\ HasCandidate(r) /\ ~req[r].fallback
    /\ IsHealthy(Cfg, bh[Current(r)])
    /\ AcquireProbe(Current(r), r)
    /\ Send(r, TRUE)

Skip(r) ==
    /\ req[r].pc = "loop" /\ HasCandidate(r) /\ ~req[r].fallback
    /\ ~IsHealthy(Cfg, bh[Current(r)])
    /\ Observe(Current(r))
    /\ NextCandidate(r)

\* Fallback bypasses the breaker, but its log line asks CircuitState, which
\* may move the entry to probing.
TryFallback(r) ==
    /\ req[r].pc = "loop" /\ HasCandidate(r) /\ req[r].fallback
    /\ Observe(Current(r))
    /\ Send(r, FALSE)

Exhausted(r) ==
    /\ req[r].pc = "loop" /\ ~HasCandidate(r)
    /\ Finish(r, IF req[r].attempts = 0 THEN "circuit_tripped" ELSE "upstream_failed")
    /\ UNCHANGED <<bh, probes>>

\* isRetriableNetworkError: time-outs, resets, refused connections.
NetworkError(r) ==
    /\ req[r].pc = "sent"
    /\ ReportFailure(Current(r))
    /\ NextCandidate(r)

\* Mutant: the error path returns without ReleaseProbe.
RequestErrorKeepsSlot(r) ==
    /\ req[r].pc = "sent"
    /\ UNCHANGED <<bh, probes>>
    /\ Finish(r, "request_error")

\* Any other error of tryForward, a client that went away among them.
RequestError(r) ==
    /\ req[r].pc = "sent"
    /\ IF req[r].acquired THEN ReleaseProbe(Current(r), r) ELSE UNCHANGED <<bh, probes>>
    /\ Finish(r, "request_error")

\* Mutant: the test for a last candidate is off by one.
RetriableStatusOffByOne(r) ==
    /\ req[r].pc = "sent"
    /\ ReportFailure(Current(r))
    /\ \E reason \in {"http_429", "http_5xx"} :
          IF req[r].k < Len(req[r].ordered) - 1
          THEN IF reason = "http_429" THEN req' = [req EXCEPT ![r] = [req[r] EXCEPT !.pc = "backoff"]]
                                      ELSE NextCandidate(r)
          ELSE Finish(r, reason)

\* 429 and 5xx: the next candidate, after a back-off for 429; the answer is
\* passed on when there is none.
RetriableStatus(r) ==
    /\ req[r].pc = "sent"
    /\ ReportFailure(Current(r))
    /\ \E reason \in {"http_429", "http_5xx"} :
          IF req[r].k < Len(req[r].ordered)
          THEN IF reason = "http_429" THEN req' = [req EXCEPT ![r] = [req[r] EXCEPT !.pc = "backoff"]]
                                      ELSE NextCandidate(r)
          ELSE Finish(r, reason)

\* Mutant: the same candidate is tried again, and that is not counted.
BackoffRepeats(r) ==
    /\ req[r].pc = "backoff"
    /\ req' = [req EXCEPT ![r] = [req[r] EXCEPT !.pc = "loop", !.attempts = @ - 1]]
    /\ UNCHANGED <<bh, probes>>

BackoffElapsed(r) ==
    /\ req[r].pc = "backoff"
    /\ NextCandidate(r)
    /\ UNCHANGED <<bh, probes>>

\* sleepWithContext returned false: the failure was already reported.
BackoffCancelled(r) ==
    /\ req[r].pc = "backoff"
    /\ IF req[r].acquired THEN ReleaseProbe(Current(r), r) ELSE UNCHANGED <<bh, probes>>
    /\ Finish(r, "request_canceled")

Success(r) ==
    /\ req[r].pc = "sent"
    /\ ReportSuccess(Current(r))
    /\ Finish(r, "success")

\* Other 4xx: ReleaseProbe, if probeAcquired, and then ReportSuccess, under
\* two acquisitions of the entry's lock.
ClientError(r) ==
    /\ req[r].pc = "sent"
    /\ IF req[r].acquired
       THEN /\ ReleaseProbe(Current(r), r)
            /\ req' = [req EXCEPT ![r] = [req[r] EXCEPT !.pc = "accept"]]
       ELSE /\ ReportSuccess(Current(r))
            /\ Finish(r, "http_4xx")

AcceptClientError(r) ==
    /\ req[r].pc = "accept"
    /\ ReportSuccess(Current(r))
    /\ Finish(r, "http_4xx")

Respond(r) == \/ NetworkError(r) \/ RequestError(r) \/ RetriableStatus(r)
              \/ Success(r) \/ ClientError(r)
Handle(r) == \/ Select(r) \/ TryProbe(r) \/ Skip(r) \/ TryFallback(r) \/ Exhausted(r)
             \/ Respond(r) \/ AcceptClientError(r)
             \/ BackoffElapsed(r) \/ BackoffCancelled(r)

-----------------------------------------------------------------------------
(* The other users of the manager.                                         *)

\* doActiveCheck; its CircuitState only feeds a log line, and ReportSuccess
\* overwrites what it does to the entry.
CheckPasses(b) == b \in Checked /\ ReportSuccess(b) /\ UNCHANGED req
CheckFails(b)  == b \in Checked /\ ReportFailure(b) /\ UNCHANGED req

\* CircuitState, Snapshot and AllBackendsDown, called by the console and by
\* /healthz/detail, read an entry after moving it to probing if it is due.
Poll(b) == /\ HalfOpened(Cfg, bh[b]) # bh[b]
           /\ Observe(b)
           /\ UNCHANGED req

Tick == /\ bh' = [b \in Backends |-> Aged(bh[b])]
        /\ UNCHANGED <<req, probes>>

Next == \/ \E r \in Requests : Arrive(r) \/ Handle(r)
        \/ \E b \in Backends : CheckPasses(b) \/ CheckFails(b) \/ Poll(b)
        \/ Tick

Spec == Init /\ [][Next]_vars

\* A handler runs on, and the upstream answers or fails: the transport has a
\* ResponseHeaderTimeout.  The ticker of an active check keeps firing.
Fairness == /\ \A r \in Requests : WF_vars(Handle(r))
            /\ \A b \in Checked : WF_vars(CheckPasses(b) \/ CheckFails(b))

FairSpec == Spec /\ Fairness

-----------------------------------------------------------------------------
(* Properties.                                                             *)

\* Every variable has its type, and a request that is past the selection has
\* a current candidate unless its loop is over.
TypeOK ==
    /\ bh \in [Backends -> BackendHealth]
    /\ req \in [Requests -> Request]
    /\ probes \in [Backends -> SUBSET Requests]
    /\ \A r \in Requests :
          /\ req[r].pc = "select" => req[r].k \in 1..Len(req[r].cands)
          /\ req[r].pc # "idle" => req[r].k >= 1
          /\ req[r].pc \in {"sent", "accept", "backoff"} => HasCandidate(r)

\* The requests that wait for b's answer and believe they hold a slot.
Waiting(b) == {r \in Requests : /\ req[r].pc = "sent"
                                /\ req[r].acquired
                                /\ Current(r) = b}

\* No probe slot leaks: each one an entry counts belongs to a request that
\* still waits for that backend and will report or release it.  (A leaked
\* slot would keep the backend out of rotation for good.)
NoSlotLeak == \A b \in Backends : bh[b].inFlight <= Cardinality(Waiting(b))

\* Every entry satisfies EntryInv: at most half_open_max_requests slots are
\* counted, none of them outside probing, and the failure count is that of
\* the current streak.
EpisodeInv == \A b \in Backends : EntryInv(Cfg, bh[b])

\* The gate of an entry: a tripped circuit whose cool-down is over is already
\* on trial, whoever moves it to probing first.
GateOf(e) ==
    [circuit |-> IF e.state = "healthy" THEN "closed"
                 ELSE IF e.state = "tripped" /\ e.age < Cfg.recovery THEN "open" ELSE "trial",
     streak  |-> IF e.state = "healthy" THEN e.fails ELSE 0,
     taken   |-> e.inFlight]

WaitsFor(r) == IF req[r].pc \in {"sent", "accept"} THEN {Current(r)} ELSE {}

ModeOf(q) == IF q.pc \in {"idle", "select"} THEN "none"
             ELSE IF q.fallback THEN "last_resort" ELSE "guarded"

Promise == INSTANCE BreakerPromise
           WITH Threshold <- Cfg.threshold, Slots <- Cfg.slots,
                gate <- [b \in Backends |-> GateOf(bh[b])],
                waiting <- [r \in Requests |-> WaitsFor(r)],
                mode <- [r \in Requests |-> ModeOf(req[r])]

\* Candidate lists, locks and lazily moved entries implement the abstract
\* breaker: outside fallback a backend is asked only with its circuit's consent
\* at that moment, not merely when SelectOrdered looked; only answers and
\* passed checks close a circuit, and just the failures of a streak open it.
KeepsPromise == Promise!Spec

\* The client sees an answer or error that calls for another candidate only
\* after the last candidate: fail-over never stops early.
FailoverIsExhaustive ==
    [][\A r \in Requests :
          (/\ req[r].pc # "idle" /\ req'[r].pc = "idle"
           /\ req'[r].result \in {"http_429", "http_5xx", "upstream_failed", "circuit_tripped"})
              => req[r].k >= Len(req[r].ordered)]_vars

\* Every request is answered.
EveryRequestEnds == \A r \in Requests : req[r].pc # "idle" ~> req[r].pc = "idle"

\* A backend all of whose probe slots are taken gets its verdict or its
\* slots back: it never stays excluded by requests that are gone.
ProbingResolves ==
    \A b \in Backends :
        (bh[b].state = "probing" /\ bh[b].inFlight = Cfg.slots)
            ~> (bh[b].state # "probing" \/ bh[b].inFlight < Cfg.slots)

FailureStep(b) == \/ CheckFails(b)
                  \/ \E r \in Requests : /\ req[r].pc = "sent" /\ Current(r) = b
                                         /\ NetworkError(r) \/ RetriableStatus(r)

\* A backend with an active check that stops failing ends up healthy for
\* good, with no traffic needed and whatever state its circuit was in.
ActiveCheckHeals ==
    \A b \in Checked :
        <>[][~FailureStep(b)]_vars => <>[](bh[b].state = "healthy")
-----------------------------------------------------------------------------
(* What the documentation and the comments say, and the code does not do.  *)

\* "probing 状态允许的探测请求数" (config.example.yaml), "otherwise ...
\* letting more than HalfOpenMaxRequests through" (server.go): the requests
\* that hold a reservation of the current probing episode are at most
\* half_open_max_requests.  A request admitted while the circuit was healthy
\* holds none, yet releases one.
ProbeLimit ==
    \A b \in Backends : Cardinality({r \in probes[b] : req[r].pc = "sent"}) <= Cfg.slots

=============================================================================
