------------------------------- MODULE Reload -------------------------------
(***************************************************************************)
(* Hot reload and shutdown (Server.ReloadConfig in internal/server/        *)
(* console.go, Server.Close in runtime.go) against running requests,       *)
(* active checks and console reads.                                        *)
(*                                                                         *)
(* Every reload makes a new HealthManager, a generation, and may make a    *)
(* new TokenLogger.  A handler keeps the generation it took with           *)
(* snapshot(); it takes another snapshot to write its usage entry.  Of     *)
(* forwardWithRetry (see HttpForward) a request here has one attempt.      *)
(***************************************************************************)
EXTENDS CircuitBreaker, FiniteSets

CONSTANTS Backends, Requests,
          Reloaders,    \* concurrent callers of ReloadConfig
          Closers,      \* callers of Server.Close
          Configs,      \* [listed, enabled, checked : SUBSET Backends, tokenLog]
          StartConfig,
          Cfg,          \* breaker settings, the same in every configuration
          MaxGen,       \* bound: managers ever created
          Casts         \* bound: the callers and requests of one behaviour, and the
                        \* managers it may create

ASSUME ReloadAssumption ==
    /\ Cfg \in BreakerConfig
    /\ StartConfig \in Configs
    /\ \A c \in Configs : /\ c.checked \subseteq c.enabled
                          /\ c.enabled \subseteq c.listed
                          /\ c.listed \subseteq Backends
    /\ Reloaders \cap Closers = {} /\ "free" \notin Reloaders \cup Closers
    /\ IsFiniteSet(Requests)
    /\ MaxGen \in Nat \ {0}
    /\ Casts \subseteq [callers : SUBSET (Reloaders \cup Closers), requests : SUBSET Requests,
                        gens : 1..MaxGen]

Generations == 1..MaxGen
Callers == Reloaders \cup Closers

VARIABLES bh,          \* bh[g][b]: entry of backend b in manager g
          known,       \* known[g]: the backends manager g has an entry for
          running,     \* running[g]: backends whose activeCheckLoop of g runs
          stopCh,      \* stopCh[g]: Stop was called on g
          gens, logs,  \* managers and token loggers created so far
          closedLogs,  \* token loggers that were closed
          srv,         \* the fields of Server that a snapshot copies
          lock,        \* holder of the write lock s.mu, or "free"
          call,        \* call[p]: locals of the ReloadConfig or Close of p
          rq,          \* rq[r]: locals of request r
          lent,        \* history: lent[g][b], the slots of other managers' requests
                       \* that manager g took over in its entry of b
          cast,        \* the cast of this behaviour
          panics       \* history: the run-time panics of the token logger

vars == <<bh, known, running, stopCh, gens, logs, closedLogs, srv, lock, call, rq, lent, cast, panics>>
health == <<bh, known>>
goroutines == <<running, stopCh>>
logger == <<logs, closedLogs, panics>>

NoCall == [pc |-> "idle", conf |-> StartConfig, new |-> 0, todo |-> {}, mustTrip |-> {},
           old |-> 0, oldLog |-> 0]
NoRequest == [pc |-> "idle", gen |-> 0, backend |-> CHOOSE b \in Backends : TRUE,
              acquired |-> FALSE, slot |-> FALSE, log |-> 0]

Init == /\ bh = [g \in Generations |-> [b \in Backends |-> FreshEntry]]
        /\ known = [g \in Generations |-> IF g = 1 THEN StartConfig.enabled ELSE {}]
        /\ running = [g \in Generations |-> IF g = 1 THEN StartConfig.checked ELSE {}]
        /\ stopCh = [g \in Generations |-> FALSE]
        /\ gens = 1 /\ logs = 1 /\ closedLogs = {}
        /\ srv = [conf |-> StartConfig, health |-> 1, tokenLog |-> 1]
        /\ lock = "free"
        /\ call = [p \in Callers |-> NoCall]
        /\ rq = [r \in Requests |-> NoRequest]
        /\ lent = [g \in Generations |-> [b \in Backends |-> 0]]
        /\ cast \in Casts
        /\ panics = {}

-----------------------------------------------------------------------------
(* ReloadConfig.                                                           *)

\* NewHealthManager and s.mu.Lock; adoptState lists the entries of the old
\* manager.  mustTrip is history: the circuits the new manager must not heal.
BeginReload(p) ==
    /\ call[p].pc = "idle" /\ lock = "free" /\ p \in cast.callers /\ gens < cast.gens
    /\ \E c \in Configs :
          call' = [call EXCEPT ![p] = [NoCall EXCEPT !.pc = "adopt", !.conf = c, !.new = gens + 1,
              !.todo = known[srv.health],
              !.mustTrip = {b \in known[srv.health] : bh[srv.health][b].state = "tripped"}]]
    /\ gens' = gens + 1
    /\ lock' = p
    /\ UNCHANGED <<health, goroutines, logger, srv, rq, lent, cast>>

\* Mutant: adoptState is not called.
AdoptNothing(p) ==
    /\ call[p].pc = "adopt"
    /\ call' = [call EXCEPT ![p].todo = {}]
    /\ UNCHANGED <<health, goroutines, logger, gens, srv, lock, rq, lent, cast>>

\* One round of adoptState's loop: an entry is copied under its own lock while
\* requests and checks go on reporting to the old manager.
Adopt(p) ==
    /\ call[p].pc = "adopt"
    /\ \E b \in call[p].todo :
          /\ bh' = [bh EXCEPT ![call[p].new][b] = bh[srv.health][b]]
          /\ known' = [known EXCEPT ![call[p].new] = @ \cup {b}]
          /\ lent' = [lent EXCEPT ![call[p].new][b] = bh[srv.health][b].inFlight]
          /\ call' = [call EXCEPT ![p].todo = @ \ {b}]
    /\ UNCHANGED <<goroutines, logger, gens, srv, lock, rq, cast>>

\* Mutant: only backends with a health check get an entry.
StartChecksUnseeded(p) ==
    /\ call[p].pc = "adopt" /\ call[p].todo = {}
    /\ known' = [known EXCEPT ![call[p].new] = @ \cup call[p].conf.checked]
    /\ running' = [running EXCEPT ![call[p].new] = call[p].conf.checked]
    /\ call' = [call EXCEPT ![p].pc = "swap"]
    /\ UNCHANGED <<bh, stopCh, logger, gens, srv, lock, rq, lent, cast>>

\* StartActiveChecks seeds the entries of the enabled backends and starts the
\* loops of those with a health check.
StartChecks(p) ==
    /\ call[p].pc = "adopt" /\ call[p].todo = {}
    /\ known' = [known EXCEPT ![call[p].new] = @ \cup call[p].conf.enabled]
    /\ running' = [running EXCEPT ![call[p].new] = call[p].conf.checked]
    /\ call' = [call EXCEPT ![p].pc = "swap"]
    /\ UNCHANGED <<bh, stopCh, logger, gens, srv, lock, rq, lent, cast>>

RebuildsLog(p) == call[p].conf.tokenLog # srv.conf.tokenLog

\* Mutant: the error path forgets newHealth.Stop.
FailRebuildRunning(p) ==
    /\ call[p].pc = "swap" /\ RebuildsLog(p)
    /\ lock' = "free"
    /\ call' = [call EXCEPT ![p] = NoCall]
    /\ UNCHANGED <<health, goroutines, logger, gens, srv, rq, lent, cast>>

\* NewTokenLogger failed: the new manager is stopped, nothing is swapped.
FailRebuild(p) ==
    /\ call[p].pc = "swap" /\ RebuildsLog(p)
    /\ lock' = "free"
    /\ call' = [call EXCEPT ![p].pc = "stop", ![p].old = call[p].new, ![p].oldLog = 0]
    /\ UNCHANGED <<health, goroutines, logger, gens, srv, rq, lent, cast>>

\* Mutant: the old logger is closed whether it was replaced or not.
SwapClosesCurrentLog(p) ==
    /\ call[p].pc = "swap"
    /\ lock' = "free"
    /\ srv' = [conf |-> call[p].conf, health |-> call[p].new,
               tokenLog |-> IF RebuildsLog(p) THEN logs + 1 ELSE srv.tokenLog]
    /\ logs' = IF RebuildsLog(p) THEN logs + 1 ELSE logs
    /\ call' = [call EXCEPT ![p].pc = "stop", ![p].old = srv.health,
                            ![p].oldLog = srv.tokenLog]
    /\ UNCHANGED <<health, goroutines, closedLogs, panics, gens, rq, lent, cast>>

Swap(p) ==
    /\ call[p].pc = "swap"
    /\ lock' = "free"
    /\ srv' = [conf |-> call[p].conf, health |-> call[p].new,
               tokenLog |-> IF RebuildsLog(p) THEN logs + 1 ELSE srv.tokenLog]
    /\ logs' = IF RebuildsLog(p) THEN logs + 1 ELSE logs
    /\ call' = [call EXCEPT ![p].pc = "stop", ![p].old = srv.health,
                            ![p].oldLog = IF RebuildsLog(p) THEN srv.tokenLog ELSE 0]
    /\ UNCHANGED <<health, goroutines, closedLogs, panics, gens, rq, lent, cast>>

(* Server.Close.                                                           *)
BeginClose(p) ==
    /\ call[p].pc = "idle" /\ lock = "free" /\ p \in cast.callers
    /\ call' = [call EXCEPT ![p] = [NoCall EXCEPT !.pc = "stop", !.old = srv.health,
                                                  !.oldLog = srv.tokenLog]]
    /\ UNCHANGED <<health, goroutines, logger, gens, srv, lock, rq, lent, cast>>

\* Mutant: stopCh is not closed.
StopChecksSilently(p) ==
    /\ call[p].pc = "stop"
    /\ call' = [call EXCEPT ![p].pc = "wait"]
    /\ UNCHANGED <<health, goroutines, logger, gens, srv, lock, rq, lent, cast>>

\* HealthManager.Stop: close(stopCh) once ...
StopChecks(p) ==
    /\ call[p].pc = "stop"
    /\ stopCh' = [stopCh EXCEPT ![call[p].old] = TRUE]
    /\ call' = [call EXCEPT ![p].pc = "wait"]
    /\ UNCHANGED <<health, running, logger, gens, srv, lock, rq, lent, cast>>

\* ... and wg.Wait; the old token logger is closed next, if it was replaced.
\* Its channel can be closed only once.
ChecksStopped(p) ==
    /\ call[p].pc = "wait" /\ running[call[p].old] = {}
    /\ closedLogs' = IF call[p].oldLog = 0 THEN closedLogs ELSE closedLogs \cup {call[p].oldLog}
    /\ panics' = IF call[p].oldLog \in closedLogs THEN panics \cup {"close_of_closed"} ELSE panics
    /\ call' = [call EXCEPT ![p] = IF p \in Closers THEN [NoCall EXCEPT !.pc = "closed", !.old = call[p].old]
                                                ELSE NoCall]
    /\ UNCHANGED <<health, goroutines, logs, gens, srv, lock, rq, lent, cast>>

ReloadStep(p) == Adopt(p) \/ StartChecks(p) \/ FailRebuild(p) \/ Swap(p)
StopStep(p) == StopChecks(p) \/ ChecksStopped(p)

-----------------------------------------------------------------------------
(* Those who use a snapshot.                                               *)

\* Each report about b to manager g, by a request or an active check.  A
\* success clears b's history of what a reload in progress must not heal.
Healed(b) == [p \in Callers |-> [call[p] EXCEPT !.mustTrip = @ \ {b}]]
Report(g, b, ok) ==
    /\ bh' = [bh EXCEPT ![g][b] = IF ok THEN Succeeded(@) ELSE Failed(Cfg, @)]
    /\ known' = [known EXCEPT ![g] = @ \cup {b}]
    /\ call' = IF ok THEN Healed(b) ELSE call

\* Handle chooses the backend from one snapshot ...
Arrive(r) ==
    /\ rq[r].pc = "idle" /\ lock = "free" /\ r \in cast.requests
    /\ \E b \in srv.conf.enabled :
          rq' = [rq EXCEPT ![r] = [NoRequest EXCEPT !.pc = "routed", !.backend = b]]
    /\ UNCHANGED <<health, goroutines, logger, gens, srv, lock, call, lent, cast>>

\* ... and forwardWithRetry takes the manager from another: a request can be
\* about a backend that the manager's configuration does not have.
Enter(r) ==
    /\ rq[r].pc = "routed" /\ lock = "free"
    /\ rq' = [rq EXCEPT ![r].pc = "try", ![r].gen = srv.health]
    /\ UNCHANGED <<health, goroutines, logger, gens, srv, lock, call, lent, cast>>

\* The loop on the manager of the snapshot: in fallback the circuit is not
\* asked, else a candidate without a slot is skipped and none is left.
\* `slot' is history: the reservation was counted.
Attempt(r) ==
    /\ rq[r].pc = "try"
    /\ LET g == rq[r].gen
           b == rq[r].backend
           h == HalfOpened(Cfg, bh[g][b])
       IN  /\ known' = [known EXCEPT ![g] = @ \cup {b}]
           /\ \E fallback \in BOOLEAN :
                 LET admitted == ~fallback /\ Admits(Cfg, h)
                 IN  /\ bh' = [bh EXCEPT ![g][b] = IF admitted THEN Acquired(Cfg, @) ELSE h]
                     /\ rq' = [rq EXCEPT ![r].pc = IF admitted \/ fallback THEN "sent" ELSE "log",
                                         ![r].acquired = admitted,
                                         ![r].slot = (admitted /\ h.state = "probing")]
    /\ UNCHANGED <<goroutines, logger, gens, srv, lock, call, lent, cast>>

Answered(r) ==
    /\ rq[r].pc = "sent"
    /\ \E ok \in BOOLEAN : Report(rq[r].gen, rq[r].backend, ok)
    /\ rq' = [rq EXCEPT ![r].pc = "log", ![r].slot = FALSE]
    /\ UNCHANGED <<goroutines, logger, gens, srv, lock, lent, cast>>

\* Mutant: the slot of a request that is cancelled stays taken.
CancelledKeepsSlot(r) ==
    /\ rq[r].pc = "sent"
    /\ rq' = [rq EXCEPT ![r].pc = "log", ![r].slot = FALSE]
    /\ UNCHANGED <<health, goroutines, logger, gens, srv, lock, call, lent, cast>>

Cancelled(r) ==
    /\ rq[r].pc = "sent"
    /\ bh' = IF rq[r].acquired THEN [bh EXCEPT ![rq[r].gen][rq[r].backend] = Released(@)] ELSE bh
    /\ rq' = [rq EXCEPT ![r].pc = "log", ![r].slot = FALSE]
    /\ UNCHANGED <<known, goroutines, logger, gens, srv, lock, call, lent, cast>>

\* logUsage takes a snapshot of its own ...
LogSnapshot(r) ==
    /\ rq[r].pc = "log" /\ lock = "free"
    /\ rq' = [rq EXCEPT ![r].pc = "write", ![r].log = srv.tokenLog]
    /\ UNCHANGED <<health, goroutines, logger, gens, srv, lock, call, lent, cast>>

\* ... and calls TokenLogger.Log: a send on logCh.
Log(r) ==
    /\ rq[r].pc = "write"
    /\ panics' = IF rq[r].log \in closedLogs THEN panics \cup {"send_on_closed"} ELSE panics
    /\ rq' = [rq EXCEPT ![r] = NoRequest]
    /\ UNCHANGED <<health, goroutines, logs, closedLogs, gens, srv, lock, call, lent, cast>>

RequestStep(r) == Enter(r) \/ Attempt(r) \/ Answered(r) \/ Cancelled(r) \/ LogSnapshot(r) \/ Log(r)

\* doActiveCheck of manager g; a loop that is in a check when Stop is called
\* still reports it.
Check(g, b) ==
    /\ b \in running[g]
    /\ \E ok \in BOOLEAN : Report(g, b, ok)
    /\ UNCHANGED <<goroutines, logger, gens, srv, lock, rq, lent, cast>>

LoopExits(g, b) ==
    /\ b \in running[g] /\ stopCh[g]
    /\ running' = [running EXCEPT ![g] = @ \ {b}]
    /\ UNCHANGED <<health, stopCh, logger, gens, srv, lock, call, rq, lent, cast>>

\* HealthManager.Snapshot, for the console's status page: it reads, and so
\* creates, an entry for every backend of the configuration, also a disabled
\* one.
ConsoleRead(b) ==
    /\ lock = "free" /\ b \in srv.conf.listed
    /\ known' = [known EXCEPT ![srv.health] = @ \cup {b}]
    /\ bh' = [bh EXCEPT ![srv.health][b] = HalfOpened(Cfg, @)]
    /\ UNCHANGED <<goroutines, logger, gens, srv, lock, call, rq, lent, cast>>

Tick ==
    /\ bh' = [g \in Generations |-> [b \in Backends |-> Aged(bh[g][b])]]
    /\ UNCHANGED <<known, goroutines, logger, gens, srv, lock, call, rq, lent, cast>>

Next == \/ \E p \in Reloaders : BeginReload(p) \/ ReloadStep(p)
        \/ \E p \in Closers : BeginClose(p)
        \/ \E p \in Callers : StopStep(p)
        \/ \E r \in Requests : Arrive(r) \/ RequestStep(r)
        \/ \E g \in Generations, b \in Backends : Check(g, b) \/ LoopExits(g, b)
        \/ \E b \in Backends : ConsoleRead(b)
        \/ Tick

Spec == Init /\ [][Next]_vars

\* The code of a call runs on, and a check ends: it has a time-out of 5 s.
FairSpec == /\ Spec
            /\ \A p \in Callers : WF_vars(ReloadStep(p) \/ StopStep(p))
            /\ \A g \in Generations, b \in Backends : WF_vars(LoopExits(g, b))

-----------------------------------------------------------------------------
(* Properties.                                                             *)

\* The answer of AllBackendsDown for the current manager, at one instant.
Down(e) == HalfOpened(Cfg, e).state = "tripped"
AllBackendsDown == /\ known[srv.health] # {}
                   /\ \A b \in known[srv.health] : Down(bh[srv.health][b])

\* /healthz/detail never cries wolf: it answers 503 only when every enabled
\* backend is tripped, after any sequence of reloads, also for a backend that
\* has served no request (StartActiveChecks seeds its entry).
DownIsTruthful ==
    AllBackendsDown => \A b \in srv.conf.enabled : Down(bh[srv.health][b])

\* A reload does not heal a backend that was tripped when it began, unless an
\* answer of that backend was reported in between (adoptState).
AdoptedStep ==
    \A p \in Reloaders :
        (call[p].pc = "swap" /\ srv'.health # srv.health)
            => \A b \in call[p].mustTrip : bh[call[p].new][b].state # "healthy"
ReloadKeepsTrips == [][AdoptedStep]_vars

\* No check loop outlives its manager: when no reload or shutdown is under
\* way, only the current manager runs active checks, also after reloads that
\* failed half-way or overlapped, and not even that one once the server was
\* closed.  (A reload that swaps after Close took its snapshot escapes it.)
NoOrphanChecks ==
    (\A p \in Callers : call[p].pc \in {"idle", "closed"})
        => /\ \A g \in Generations \ {srv.health} : running[g] = {}
           /\ \A p \in Closers : call[p].pc = "closed" => running[call[p].old] = {}

\* A slot that an entry counts is held by a request which took it from that
\* manager and will report to it, or was taken over from the manager before:
\* only those, whose requests report elsewhere, are lost to a reload.
Holders(g, b) == {r \in Requests : /\ rq[r].pc = "sent" /\ rq[r].slot
                                   /\ rq[r].gen = g /\ rq[r].backend = b}
SlotsAreAccounted ==
    \A g \in Generations, b \in Backends :
        bh[g][b].inFlight <= lent[g][b] + Cardinality(Holders(g, b))

\* However many reloads overlap, until the server is closed its logger is open
\* and no logger is closed twice.
CurrentLogIsOpen ==
    (\A p \in Closers : call[p].pc = "idle")
        => srv.tokenLog \notin closedLogs /\ "close_of_closed" \notin panics

\* A reload or shutdown that began returns, although it waits for the checks
\* of the manager it replaced.
CallsReturn == \A p \in Callers : call[p].pc # "idle" ~> call[p].pc \in {"idle", "closed"}

-----------------------------------------------------------------------------
(* What the documentation and the comments say, and the code does not do.  *)

\* "支持热加载，无需重启" (README): a reload does not make a request that is in
\* flight panic.
RequestsSurviveReload == "send_on_closed" \notin panics
=============================================================================
