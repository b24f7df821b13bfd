------------------------------- MODULE Gateway -------------------------------
(***************************************************************************)
(* Admission and life cycle: the semaphore of Gateway.ServeHTTP, which     *)
(* Gateway.Reload replaces while requests hold or wait for it              *)
(* (pkg/gatelm/gateway.go), the console's reload, which reaches the Server *)
(* only, and the shutdown of main (cmd/gatelm/main.go).                    *)
(*                                                                         *)
(* A semaphore is a buffered channel: a slot that a request frees goes to  *)
(* the sender that has waited longest, if there is one.                    *)
(***************************************************************************)
EXTENDS Integers, FiniteSets, SequencesExt

CONSTANTS Requests,
          Embedders,   \* callers of Gateway.Reload
          Savers,      \* clients of the console's PUT of the configuration
          Limits,      \* values of max_concurrent_requests; <= 0 is no limit
          StartLimit,
          MaxSems      \* bound: semaphores ever made

ASSUME GatewayAssumption ==
    /\ Limits \subseteq Int /\ StartLimit \in Limits
    /\ IsFiniteSet(Requests)
    /\ Embedders \cap Savers = {}
    /\ MaxSems \in Nat

VARIABLES sems,     \* the semaphores made so far: [cap, held, waiting]
          current,  \* g.concurrencySem: an index of sems, 0 is nil
          limit,    \* MaxConcurrentRequests of the Server's configuration
          saved,    \* history: the console was the last to set it
          req,      \* req[r]: [pc, sem], a handler in ServeHTTP: "idle", "arrived",
                    \* "waiting" for a slot of sem or "handled", with one of it;
                    \* a request whose sem is 0 passed a nil semaphore
          reload,   \* reload[p]: the limit that a Gateway.Reload is to install
          main,     \* the process: "serving", "draining", "closed" or "exited"
          overdue   \* the 15 s of the shutdown context are over

vars == <<sems, current, limit, saved, req, reload, main, overdue>>
setting == <<limit, saved>>
process == <<main, overdue>>

None == <<>>

Idle == [pc |-> "idle", sem |-> 0]
NewSem(l) == [cap |-> l, held |-> 0, waiting |-> <<>>]

\* makeConcurrencySem: the limit is normalised, and 0 means no semaphore.
Sems(made, l) == IF l <= 0 THEN made ELSE Append(made, NewSem(l))
Current(made, l) == IF l <= 0 THEN 0 ELSE Len(Sems(made, l))

Init == /\ sems = Sems(<<>>, StartLimit)
        /\ current = Current(<<>>, StartLimit)
        /\ limit = StartLimit /\ saved = FALSE
        /\ req = [r \in Requests |-> Idle]
        /\ reload = [p \in Embedders |-> None]
        /\ main = "serving"
        /\ overdue = FALSE

-----------------------------------------------------------------------------
(* ServeHTTP.                                                              *)

\* currentConcurrencySem: the semaphore is read under the lock, and used
\* after it.
Arrive(r) ==
    /\ main = "serving" /\ req[r].pc = "idle"
    /\ req' = [req EXCEPT ![r] = [pc |-> "arrived", sem |-> current]]
    /\ UNCHANGED <<sems, current, setting, reload, process>>

\* sem <- struct{}{}, or no semaphore.
Enter(r) ==
    /\ main # "exited"
    /\ req[r].pc = "arrived"
    /\ \/ req[r].sem = 0 /\ UNCHANGED sems
       \/ /\ req[r].sem # 0 /\ sems[req[r].sem].held < sems[req[r].sem].cap
          /\ sems' = [sems EXCEPT ![req[r].sem].held = @ + 1]
    /\ req' = [req EXCEPT ![r].pc = "handled"]
    /\ UNCHANGED <<current, setting, reload, process>>

\* Mutant: the request goes on without a slot.
WaitNot(r) ==
    /\ main # "exited"
    /\ req[r].pc = "arrived" /\ req[r].sem # 0
    /\ sems[req[r].sem].held = sems[req[r].sem].cap
    /\ sems' = [sems EXCEPT ![req[r].sem].held = @ + 1]
    /\ req' = [req EXCEPT ![r].pc = "handled"]
    /\ UNCHANGED <<current, setting, reload, process>>

Wait(r) ==
    /\ main # "exited"
    /\ req[r].pc = "arrived" /\ req[r].sem # 0
    /\ sems[req[r].sem].held = sems[req[r].sem].cap
    /\ sems' = [sems EXCEPT ![req[r].sem].waiting = Append(@, r)]
    /\ req' = [req EXCEPT ![r].pc = "waiting"]
    /\ UNCHANGED <<current, setting, reload, process>>

\* The client went away: 503, without a slot.
GiveUp(r) ==
    /\ main # "exited"
    /\ req[r].sem # 0
    /\ \/ req[r].pc = "arrived" /\ UNCHANGED sems
       \/ /\ req[r].pc = "waiting"
          /\ \E k \in DOMAIN sems[req[r].sem].waiting :
                /\ sems[req[r].sem].waiting[k] = r
                /\ sems' = [sems EXCEPT ![req[r].sem].waiting = RemoveAt(@, k)]
    /\ req' = [req EXCEPT ![r] = Idle]
    /\ UNCHANGED <<current, setting, reload, process>>

\* Mutant: a freed slot goes to whoever came last.
LeaveLifo(r) ==
    /\ main # "exited"
    /\ req[r].pc = "handled"
    /\ IF req[r].sem = 0 THEN UNCHANGED sems /\ req' = [req EXCEPT ![r] = Idle]
       ELSE LET s == sems[req[r].sem]
            IN  IF s.waiting = <<>>
                THEN /\ sems' = [sems EXCEPT ![req[r].sem].held = @ - 1]
                     /\ req' = [req EXCEPT ![r] = Idle]
                ELSE /\ sems' = [sems EXCEPT ![req[r].sem].waiting = Front(@)]
                     /\ req' = [req EXCEPT ![r] = Idle, ![Last(s.waiting)].pc = "handled"]
    /\ UNCHANGED <<current, setting, reload, process>>

\* Mutant: a freed slot wakes nobody.
LeaveSilently(r) ==
    /\ main # "exited"
    /\ req[r].pc = "handled"
    /\ IF req[r].sem = 0 THEN UNCHANGED sems
       ELSE sems' = [sems EXCEPT ![req[r].sem].held = @ - 1]
    /\ req' = [req EXCEPT ![r] = Idle]
    /\ UNCHANGED <<current, setting, reload, process>>

\* Handle returned, or panicked: the deferred <-sem of the semaphore that was
\* entered hands the slot on.
Leave(r) ==
    /\ main # "exited"
    /\ req[r].pc = "handled"
    /\ IF req[r].sem = 0 THEN UNCHANGED sems /\ req' = [req EXCEPT ![r] = Idle]
       ELSE LET s == sems[req[r].sem]
            IN  IF s.waiting = <<>>
                THEN /\ sems' = [sems EXCEPT ![req[r].sem].held = @ - 1]
                     /\ req' = [req EXCEPT ![r] = Idle]
                ELSE /\ sems' = [sems EXCEPT ![req[r].sem].waiting = Tail(@)]
                     /\ req' = [req EXCEPT ![r] = Idle, ![Head(s.waiting)].pc = "handled"]
    /\ UNCHANGED <<current, setting, reload, process>>

Serve(r) == Enter(r) \/ Wait(r) \/ GiveUp(r) \/ Leave(r)

-----------------------------------------------------------------------------
(* Reload.                                                                 *)

\* Server.ReloadConfig succeeded, within Gateway.Reload; when it fails, and
\* when ValidateConfig does, nothing of the gateway changes.
ReloadServer(p) ==
    /\ main = "serving" /\ reload[p] = None
    /\ Len(sems) + Cardinality({q \in Embedders : reload[q] # None}) < MaxSems
    /\ \E l \in Limits : limit' = l /\ reload' = [reload EXCEPT ![p] = <<l>>]
    /\ saved' = FALSE
    /\ UNCHANGED <<sems, current, req, process>>

\* Mutant: the semaphore is made from the old limit.
SwapSemStale(p) ==
    /\ main # "exited"
    /\ reload[p] # None
    /\ current' = Current(sems, StartLimit)
    /\ sems' = Sems(sems, StartLimit)
    /\ reload' = [reload EXCEPT ![p] = None]
    /\ UNCHANGED <<setting, req, process>>

SwapSem(p) ==
    /\ main # "exited"
    /\ reload[p] # None
    /\ current' = Current(sems, reload[p][1])
    /\ sems' = Sems(sems, reload[p][1])
    /\ reload' = [reload EXCEPT ![p] = None]
    /\ UNCHANGED <<setting, req, process>>

\* SaveAndReloadConfig, for a PUT of the console.
ConsoleSave ==
    /\ main = "serving" /\ Savers # {}
    /\ \E l \in Limits : limit' = l
    /\ saved' = TRUE
    /\ UNCHANGED <<sems, current, req, reload, process>>

-----------------------------------------------------------------------------
(* main.                                                                   *)

\* httpSrv.Shutdown closes the listeners, upon which ListenAndServe returns.
Signal ==
    /\ main = "serving"
    /\ main' = "draining"
    /\ UNCHANGED <<sems, current, setting, req, reload, overdue>>

\* main returns: its deferred gateway.Close ...
CloseGateway ==
    /\ main = "draining"
    /\ main' = "closed"
    /\ UNCHANGED <<sems, current, setting, req, reload, overdue>>

\* ... is the last thing the process does.
Exit ==
    /\ main = "closed"
    /\ main' = "exited"
    /\ UNCHANGED <<sems, current, setting, req, reload, overdue>>

\* The 15 s that the shutdown grants to requests are over.
Overdue ==
    /\ main \in {"draining", "closed"} /\ ~overdue
    /\ overdue' = TRUE
    /\ UNCHANGED <<sems, current, setting, req, reload, main>>

Next == \/ \E r \in Requests : Arrive(r) \/ Serve(r)
        \/ \E p \in Embedders : ReloadServer(p) \/ SwapSem(p)
        \/ ConsoleSave
        \/ Signal \/ CloseGateway \/ Exit \/ Overdue

Spec == Init /\ [][Next]_vars

\* Handle returns (see HttpForward), and the scheduler runs a request that
\* is not blocked.  Clients need not give up.
FairSpec == /\ Spec
            /\ \A r \in Requests : WF_vars(Enter(r) \/ Wait(r)) /\ WF_vars(Leave(r))

-----------------------------------------------------------------------------
(* Properties.                                                             *)

Holding(i) == {r \in Requests : req[r].pc = "handled" /\ req[r].sem = i}
Queued(i)  == {r \in Requests : req[r].pc = "waiting" /\ req[r].sem = i}

\* No slot is lost or granted twice: each semaphore, also one that a reload
\* replaced, counts as held exactly the requests that Handle serves through
\* it, never more than its capacity; its queue is exactly the requests that
\* wait for it, once each, and nobody waits while a slot is free.
SlotsAreExact ==
    \A i \in DOMAIN sems :
        /\ sems[i].held = Cardinality(Holding(i))
        /\ sems[i].held <= sems[i].cap
        /\ ToSet(sems[i].waiting) = Queued(i) /\ IsInjective(sems[i].waiting)
        /\ sems[i].waiting # <<>> => sems[i].held = sems[i].cap

\* Nobody overtakes: of two requests that wait for the same semaphore the one
\* that came first is served first, unless it gives up.
NoOvertaking ==
    [][\A i \in DOMAIN sems : \A m, n \in DOMAIN sems[i].waiting :
          (m < n /\ req'[sems[i].waiting[n]].pc = "handled")
              => req'[sems[i].waiting[m]].pc # "waiting"]_vars

\* With one caller of Gateway.Reload at a time, the capacity enforced is the
\* configured one whenever no reload runs, unless it is the console that set
\* it: its reload stops at the Server, and the gateway keeps its semaphore.
LimitIsEnforced ==
    (~saved /\ \A p \in Embedders : reload[p] = None)
        => IF limit <= 0 THEN current = 0 ELSE current # 0 /\ sems[current].cap = limit

\* Every request is served or answered 503 unless the process ends, also one
\* that waits for a semaphore which a reload replaced.
EveryRequestEnds ==
    \A r \in Requests : req[r].pc # "idle" ~> (req[r].pc = "idle" \/ main = "exited")

-----------------------------------------------------------------------------
(* What the documentation and the log messages say, and the code does not  *)
(* do.                                                                     *)

\* "shutting down gracefully..." (main.go): within the 15 s of the shutdown
\* context the process does not exit while a request is handled.
ShutdownIsGraceful ==
    [][main' = "exited" /\ ~overdue => \A r \in Requests : req[r].pc # "handled"]_vars
=============================================================================
