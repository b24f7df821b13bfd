------------------------------ MODULE WebSocket ------------------------------
(***************************************************************************)
(* WebSocket sessions (internal/server/websocket.go): handleWebSocket goes *)
(* over the candidates, wsDialAndRelay dials one and relays with a         *)
(* goroutine for each direction, wsPerBackendSSEFallback asks it over HTTP *)
(* instead.                                                                *)
(*                                                                         *)
(* A client is `gone' when it left or does not take what is written to it. *)
(* Its messages after the first, and pings, matter by the errors they meet *)
(* only; an answer's messages are numbered.                                *)
(***************************************************************************)
EXTENDS CircuitBreaker, Sequences, FiniteSets

CONSTANTS Sessions,
          Backends,        \* names of the configured backends
          CandidateLists,  \* what resolveWSCandidates may return
          SSEOnly,         \* backends with sse_only
          Cfg,             \* breaker settings
          MaxMessages      \* bound: messages of one answer

ASSUME WebSocketAssumption ==
    /\ CandidateLists \subseteq Seq(Backends)
    /\ SSEOnly \subseteq Backends
    /\ Cfg \in BreakerConfig
    /\ MaxMessages \in Nat
    /\ IsFiniteSet(Sessions)

VARIABLES bh,     \* bh[b]: the manager's entry for backend b
          lost,   \* lost[b]: history, the slots of b's probing that are never
                  \* given back
          ses,    \* ses[s]: the locals of the handler that serves session s
          relay,  \* relay[s]: the locals of its latest wsDialAndRelay
          client  \* client[s]: the client's connection, and what came over it

health == <<bh, lost>>
vars == <<bh, lost, ses, relay, client>>

\* `err' is backendReadErr: "local" when it is the gateway that closed.
Relay == [up : {"run", "done"}, down : {"read", "write", "done"}, closed : BOOLEAN,
          n : 0..MaxMessages, relayed : BOOLEAN, err : {"none", "local", "backend"}]
NewRelay == [up |-> "run", down |-> "read", closed |-> FALSE,
             n |-> 0, relayed |-> FALSE, err |-> "none"]

\* A read that failed once fails for ever: `failed'.
Client == [gone : BOOLEAN, failed : BOOLEAN, closed : BOOLEAN,
           got : Seq(Backends \X {"ws", "sse"} \X (1..MaxMessages))]
NewClient == [gone |-> FALSE, failed |-> FALSE, closed |-> FALSE, got |-> <<>>]

Session == [pc : {"none", "select", "loop", "prepare", "first", "relay", "penalise",
                  "sse", "stream", "over"},
            cands : Seq(Backends), ordered : Seq(Backends), k : Nat, fallback : BOOLEAN]
Idle == [pc |-> "none", cands |-> <<>>, ordered |-> <<>>, k |-> 0, fallback |-> FALSE]

Current(s) == ses[s].ordered[ses[s].k]
HasCandidate(s) == ses[s].k <= Len(ses[s].ordered)

Init == /\ bh = [b \in Backends |-> FreshEntry]
        /\ lost = [b \in Backends |-> 0]
        /\ ses = [s \in Sessions |-> Idle]
        /\ relay = [s \in Sessions |-> NewRelay]
        /\ client = [s \in Sessions |-> NewClient]

Goto(s, pc) == ses' = [ses EXCEPT ![s].pc = pc]
NextCandidate(s) == ses' = [ses EXCEPT ![s].pc = "loop", ![s].k = @ + 1]

\* The manager's entry becomes e; a reset of its counter forgets what was lost.
Entry(b, e) == /\ bh' = [bh EXCEPT ![b] = e]
               /\ lost' = [lost EXCEPT ![b] = IF e.inFlight = 0 THEN 0 ELSE @]
Observe(b) == Entry(b, HalfOpened(Cfg, bh[b]))
ReportSuccess(b) == Entry(b, Succeeded(bh[b]))
ReportFailure(b) == Entry(b, Failed(Cfg, bh[b]))

\* writeWSClose, to a client that is there.
WithClose(c) == [c EXCEPT !.closed = ~c.gone]
WithMessage(c, m) == IF c.gone THEN c ELSE [c EXCEPT !.got = Append(@, m)]

-----------------------------------------------------------------------------
(* handleWebSocket.                                                        *)

\* The upgrade, the first message and the candidates of its model.
Start(s) ==
    /\ ses[s].pc \in {"none", "over"}
    /\ \E c \in CandidateLists :
          /\ ses' = [ses EXCEPT ![s] = [Idle EXCEPT !.pc = IF c = <<>> THEN "over" ELSE "select",
                                                    !.cands = c, !.k = 1]]
          /\ client' = [client EXCEPT ![s] = IF c = <<>> THEN WithClose(NewClient) ELSE NewClient]
    /\ relay' = [relay EXCEPT ![s] = NewRelay]
    /\ UNCHANGED health

\* SelectOrdered, candidate by candidate, and SelectFallback.
Select(s) ==
    /\ ses[s].pc = "select"
    /\ LET b    == ses[s].cands[ses[s].k]
           kept == IF IsHealthy(Cfg, bh[b]) THEN Append(ses[s].ordered, b) ELSE ses[s].ordered
       IN  /\ Observe(b)
           /\ ses' = [ses EXCEPT ![s] =
                  IF ses[s].k < Len(ses[s].cands)
                  THEN [ses[s] EXCEPT !.ordered = kept, !.k = @ + 1]
                  ELSE [ses[s] EXCEPT !.pc = "loop", !.k = 1, !.fallback = (kept = <<>>),
                                      !.ordered = IF kept = <<>> THEN ses[s].cands ELSE kept]]
    /\ UNCHANGED <<relay, client>>

TryProbe(s) ==
    /\ ses[s].pc = "loop" /\ HasCandidate(s) /\ ~ses[s].fallback
    /\ IsHealthy(Cfg, bh[Current(s)])
    /\ Entry(Current(s), Acquired(Cfg, bh[Current(s)]))
    /\ Goto(s, "prepare")
    /\ UNCHANGED <<relay, client>>

Skip(s) ==
    /\ ses[s].pc = "loop" /\ HasCandidate(s) /\ ~ses[s].fallback
    /\ ~IsHealthy(Cfg, bh[Current(s)])
    /\ Observe(Current(s))
    /\ NextCandidate(s)
    /\ UNCHANGED <<relay, client>>

TryFallback(s) ==
    /\ ses[s].pc = "loop" /\ HasCandidate(s) /\ ses[s].fallback
    /\ Goto(s, "prepare")
    /\ UNCHANGED <<health, relay, client>>

\* The message cannot be converted to the backend's protocol, or its URL not
\* be composed.  A slot that was reserved is kept.
Unusable(s) ==
    /\ ses[s].pc = "prepare"
    /\ NextCandidate(s)
    /\ lost' = [lost EXCEPT ![Current(s)] =
                   IF ~ses[s].fallback /\ bh[Current(s)].state = "probing" THEN @ + 1 ELSE @]
    /\ UNCHANGED <<bh, relay, client>>

\* Mutant: the handler returns without a close frame.
ExhaustedSilently(s) ==
    /\ ses[s].pc = "loop" /\ ~HasCandidate(s)
    /\ Goto(s, "over")
    /\ UNCHANGED <<health, relay, client>>

Exhausted(s) ==
    /\ ses[s].pc = "loop" /\ ~HasCandidate(s)
    /\ Goto(s, "over")
    /\ client' = [client EXCEPT ![s] = WithClose(@)]
    /\ UNCHANGED <<health, relay>>

\* A real error of the WebSocket counts, and the same backend is asked over
\* HTTP.
Penalise(s) ==
    /\ ses[s].pc = "penalise"
    /\ ReportFailure(Current(s))
    /\ Goto(s, "sse")
    /\ UNCHANGED <<relay, client>>

-----------------------------------------------------------------------------
(* wsDialAndRelay: the dial and the first message.                         *)

DialSucceeds(s) ==
    /\ ses[s].pc = "prepare" /\ Current(s) \notin SSEOnly
    /\ ReportSuccess(Current(s))
    /\ Goto(s, "first")
    /\ UNCHANGED <<relay, client>>

\* Mutant: a backend that knows no WebSocket is passed over.
DialFailsMovesOn(s) ==
    /\ ses[s].pc = "prepare" /\ Current(s) \notin SSEOnly
    /\ Goto(s, "penalise") \/ NextCandidate(s)
    /\ UNCHANGED <<health, relay, client>>

\* "bad handshake" means that the backend knows no WebSocket, and is no
\* failure.
DialFails(s) ==
    /\ ses[s].pc = "prepare" /\ Current(s) \notin SSEOnly
    /\ Goto(s, "penalise") \/ Goto(s, "sse")
    /\ UNCHANGED <<health, relay, client>>

SendFirst(s) ==
    /\ ses[s].pc = "first"
    /\ Goto(s, "relay") \/ Goto(s, "penalise")
    /\ relay' = [relay EXCEPT ![s] = NewRelay]
    /\ UNCHANGED <<health, client>>

(* The relay: `down' is the goroutine from the backend to the client, `up' *)
(* the other one; the context is cancelled by the first that ends.         *)

Relaying(s) == ses[s].pc = "relay"
Cancelled(s) == relay[s].up = "done" \/ relay[s].down = "done"

\* Also a message that was buffered when the connection was closed.
BackendSends(s) ==
    /\ Relaying(s) /\ relay[s].down = "read" /\ relay[s].n < MaxMessages
    /\ relay' = [relay EXCEPT ![s].down = "write", ![s].n = @ + 1, ![s].relayed = TRUE]
    /\ UNCHANGED <<health, ses, client>>

WriteClient(s) ==
    /\ Relaying(s) /\ relay[s].down = "write"
    /\ relay' = [relay EXCEPT ![s].down = "read"]
    /\ client' = [client EXCEPT ![s] = WithMessage(@, <<Current(s), "ws", relay[s].n>>)]
    /\ UNCHANGED <<health, ses>>

WriteClientFails(s) ==
    /\ Relaying(s) /\ relay[s].down = "write" /\ client[s].gone
    /\ relay' = [relay EXCEPT ![s].down = "done"]
    /\ UNCHANGED <<health, ses, client>>

\* A normal closure, or any other end of the backend's.
BackendEnds(s) ==
    /\ Relaying(s) /\ relay[s].down = "read" /\ ~relay[s].closed
    /\ \E err \in {"none", "backend"} :
          relay' = [relay EXCEPT ![s].down = "done", ![s].err = err]
    /\ UNCHANGED <<health, ses, client>>

\* "use of closed network connection".
ReadClosed(s) ==
    /\ Relaying(s) /\ relay[s].down = "read" /\ relay[s].closed
    /\ relay' = [relay EXCEPT ![s].down = "done", ![s].err = "local"]
    /\ UNCHANGED <<health, ses, client>>

\* The client left, missed its pongs, or the read deadline was set to now: by
\* this relay's closer, or late by that of an earlier one.
ClientReadFails(s) ==
    /\ Relaying(s) /\ relay[s].up = "run"
    /\ relay' = [relay EXCEPT ![s].up = "done"]
    /\ client' = [client EXCEPT ![s].failed = TRUE]
    /\ UNCHANGED <<health, ses>>

\* A message of the client was read, and cannot be passed on.
WriteBackendFails(s) ==
    /\ Relaying(s) /\ relay[s].up = "run" /\ ~client[s].failed
    /\ relay' = [relay EXCEPT ![s].up = "done"]
    /\ UNCHANGED <<health, ses, client>>

\* Mutant: the end of the client's direction does not cancel.
CloserOneSided(s) ==
    /\ Relaying(s) /\ relay[s].down = "done" /\ ~relay[s].closed
    /\ relay' = [relay EXCEPT ![s].closed = TRUE]
    /\ UNCHANGED <<health, ses, client>>

\* The goroutine that closes the backend's connection and ends the client's
\* read.
Closer(s) ==
    /\ Relaying(s) /\ Cancelled(s) /\ ~relay[s].closed
    /\ relay' = [relay EXCEPT ![s].closed = TRUE]
    /\ UNCHANGED <<health, ses, client>>

\* Mutant: an error is retried although data was relayed.
RelayOverRetries(s) ==
    /\ Relaying(s) /\ relay[s].up = "done" /\ relay[s].down = "done"
    /\ IF relay[s].relayed /\ relay[s].err = "none"
       THEN /\ client' = [client EXCEPT ![s] = WithClose(@)]
            /\ UNCHANGED health
            /\ Goto(s, "over")
       ELSE /\ UNCHANGED client
            /\ IF relay[s].err = "backend" THEN ReportFailure(Current(s)) ELSE UNCHANGED health
            /\ Goto(s, CASE relay[s].err = "none"    -> "over"
                         [] relay[s].err = "local"   -> "sse"
                         [] relay[s].err = "backend" -> "penalise")
    /\ UNCHANGED relay

\* wg.Wait returned.  With data relayed the session is over, and every error
\* of the read is the backend's; without, "local" is taken for a backend that
\* knows no WebSocket.
RelayOver(s) ==
    /\ Relaying(s) /\ relay[s].up = "done" /\ relay[s].down = "done"
    /\ IF relay[s].relayed
       THEN /\ client' = [client EXCEPT ![s] = WithClose(@)]
            /\ IF relay[s].err = "none" THEN UNCHANGED health ELSE ReportFailure(Current(s))
            /\ Goto(s, "over")
       ELSE /\ UNCHANGED client
            /\ IF relay[s].err = "backend" THEN ReportFailure(Current(s)) ELSE UNCHANGED health
            /\ Goto(s, CASE relay[s].err = "none"    -> "over"
                         [] relay[s].err = "local"   -> "sse"
                         [] relay[s].err = "backend" -> "penalise")
    /\ UNCHANGED relay

RelayStep(s) == \/ BackendSends(s) \/ WriteClient(s) \/ WriteClientFails(s)
                \/ BackendEnds(s) \/ ReadClosed(s) \/ ClientReadFails(s)
                \/ WriteBackendFails(s) \/ Closer(s) \/ RelayOver(s)

-----------------------------------------------------------------------------
(* wsPerBackendSSEFallback and relaySSEToWS.                               *)

GoSSE(s) ==
    /\ ses[s].pc = "prepare" /\ Current(s) \in SSEOnly
    /\ Goto(s, "sse")
    /\ UNCHANGED <<health, relay, client>>

\* Any status from 400 on is a failure here.
SSEFails(s) ==
    /\ ses[s].pc = "sse"
    /\ ReportFailure(Current(s))
    /\ NextCandidate(s)
    /\ UNCHANGED <<relay, client>>

SSEConnects(s) ==
    /\ ses[s].pc = "sse"
    /\ ReportSuccess(Current(s))
    /\ Goto(s, "stream")
    /\ relay' = [relay EXCEPT ![s].n = 0]
    /\ UNCHANGED client

StreamSends(s) ==
    /\ ses[s].pc = "stream" /\ relay[s].n < MaxMessages
    /\ relay' = [relay EXCEPT ![s].n = @ + 1]
    /\ client' = [client EXCEPT ![s] = WithMessage(@, <<Current(s), "sse", relay[s].n + 1>>)]
    /\ UNCHANGED <<health, ses>>

\* The end, a write that failed, or a line that is cut, which the client is
\* told by an error event before the close frame.
StreamEnds(s) ==
    /\ ses[s].pc = "stream"
    /\ client' = [client EXCEPT ![s] = WithClose(@)]
    /\ Goto(s, "over")
    /\ UNCHANGED <<health, relay>>

SSEStep(s) == GoSSE(s) \/ SSEFails(s) \/ SSEConnects(s) \/ StreamSends(s) \/ StreamEnds(s)

-----------------------------------------------------------------------------

ClientLeaves(s) ==
    /\ ses[s].pc \notin {"none", "over"} /\ ~client[s].gone
    /\ client' = [client EXCEPT ![s].gone = TRUE]
    /\ UNCHANGED <<health, ses, relay>>

Tick == /\ bh' = [b \in Backends |-> Aged(bh[b])]
        /\ UNCHANGED <<lost, ses, relay, client>>

Handle(s) == \/ Start(s) \/ Select(s) \/ TryProbe(s) \/ Skip(s) \/ TryFallback(s)
             \/ Unusable(s) \/ Exhausted(s) \/ Penalise(s)
             \/ DialSucceeds(s) \/ DialFails(s) \/ SendFirst(s)

Next == \/ \E s \in Sessions : Handle(s) \/ RelayStep(s) \/ SSEStep(s) \/ ClientLeaves(s)
        \/ Tick

Spec == Init /\ [][Next]_vars

\* Goroutines run on; a write ends by its deadline of 10 s, and a read when
\* the client is gone, failed before, or the closer has set the deadline.
FairSpec ==
    /\ Spec
    /\ \A s \in Sessions :
          /\ WF_vars(Closer(s)) /\ WF_vars(ReadClosed(s)) /\ WF_vars(RelayOver(s))
          /\ WF_vars(WriteClient(s) \/ WriteClientFails(s))
          /\ WF_vars((client[s].gone \/ client[s].failed \/ relay[s].closed) /\ ClientReadFails(s))

-----------------------------------------------------------------------------
(* Properties.                                                             *)

\* The sessions that may yet report on the backend they were let to.
Unreported(b) ==
    {s \in Sessions : /\ ses[s].pc \in {"prepare", "penalise", "sse"}
                      /\ ~ses[s].fallback /\ Current(s) = b}

\* Every slot that a probing backend counts is held by a session that will
\* still report, over WebSocket or over HTTP after it, and the report frees
\* it, however often the session fails first.  Lost are those only whose
\* message or URL could not be prepared: the path knows no ReleaseProbe.
SlotsAreAccounted ==
    \A b \in Backends : bh[b].inFlight <= lost[b] + Cardinality(Unreported(b))

\* A client sees one answer: all it receives is from one backend over one
\* transport, in the order sent and without a gap, whatever was tried before
\* and whichever end or error comes when (dataRelayed).
OneAnswer ==
    \A s \in Sessions :
        LET got == client[s].got
        IN  \A i \in DOMAIN got : got[i] = <<got[1][1], got[1][2], i>>

\* A client that is still there when its session ends gets a close frame and
\* never something after it, except from a backend that closed normally
\* without having sent anything: then wsDialAndRelay returns nil, and the
\* connection is dropped.
ToldOfEnd ==
    \A s \in Sessions :
        /\ ses[s].pc = "over" /\ ~client[s].gone
              => client[s].closed \/ (~relay[s].relayed /\ relay[s].err = "none" /\ Cancelled(s))
        /\ client[s].closed => ses[s].pc = "over"

\* When one direction of a relay has ended, or the client is gone, the other
\* direction is ended too, also when its peer is silent.
RelayEnds ==
    \A s \in Sessions :
        (Relaying(s) /\ (client[s].gone \/ client[s].failed \/ Cancelled(s))) ~> ~Relaying(s)

-----------------------------------------------------------------------------
(* What a comment says, and the code does not do.                          *)

\* Results that "should not affect circuit state (for example client-side 4xx
\* or canceled requests)" (health.go): a relay that ended on the client's side
\* is no failure of its backend.  The closed connection is read as an error.
LeavingIsNoFailure ==
    [][\A s \in Sessions :
          (Relaying(s) /\ ses'[s].pc = "over" /\ relay[s].err = "local")
              => bh' = bh]_vars
=============================================================================
