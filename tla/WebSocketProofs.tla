---------------------------- MODULE WebSocketProofs ----------------------------
(* Safety of the WebSocket sessions for any number of sessions, backends and  *)
(* messages: the slots of the breaker, the one answer and its end.            *)
EXTENDS WebSocket, SequenceTheorems, FiniteSetTheorems, TLAPS

-----------------------------------------------------------------------------
(* The operations on one entry that sessions use, for every configuration    *)
(* and every entry.                                                          *)

\* A new entry, the passage of time and ReportSuccess.
LEMMA FreshEntryOK ==
    ASSUME NEW c \in BreakerConfig
    PROVE  FreshEntry \in BackendHealth /\ EntryInv(c, FreshEntry)
BY MaxAgeAssumption DEF FreshEntry, BackendHealth, CircuitState, EntryInv, BreakerConfig

LEMMA AgedOK ==
    ASSUME NEW c \in BreakerConfig, NEW e \in BackendHealth, EntryInv(c, e)
    PROVE  /\ Aged(e) \in BackendHealth
           /\ EntryInv(c, Aged(e))
           /\ Aged(e).state = e.state /\ Aged(e).inFlight = e.inFlight
BY MaxAgeAssumption DEF Aged, BackendHealth, CircuitState, EntryInv, BreakerConfig

LEMMA SucceededOK ==
    ASSUME NEW c \in BreakerConfig, NEW e \in BackendHealth
    PROVE  /\ Succeeded(e) \in BackendHealth
           /\ EntryInv(c, Succeeded(e))
           /\ Succeeded(e).inFlight = 0
BY FreshEntryOK DEF Succeeded, FreshEntry

\* The move to probing counts nothing; otherwise the entry is as it was.
LEMMA HalfOpenedOK ==
    ASSUME NEW c \in BreakerConfig, NEW e \in BackendHealth, EntryInv(c, e)
    PROVE  /\ HalfOpened(c, e) \in BackendHealth
           /\ EntryInv(c, HalfOpened(c, e))
           /\ HalfOpened(c, e).inFlight = e.inFlight
BY DEF HalfOpened, BackendHealth, CircuitState, EntryInv, BreakerConfig

\* A granted TryAcquireProbe stays within the limit and counts at most one
\* more slot.
LEMMA AcquiredOK ==
    ASSUME NEW c \in BreakerConfig, NEW e \in BackendHealth, EntryInv(c, e), IsHealthy(c, e)
    PROVE  /\ Acquired(c, e) \in BackendHealth
           /\ EntryInv(c, Acquired(c, e))
           /\ Acquired(c, e).inFlight <= e.inFlight + 1
<1> DEFINE h == HalfOpened(c, e)
<1>1. h \in BackendHealth /\ EntryInv(c, h) /\ h.inFlight = e.inFlight
  BY HalfOpenedOK
<1>2. Admits(c, h)
  BY DEF IsHealthy
<1>3. Acquired(c, e) = IF h.state = "probing" THEN [h EXCEPT !.inFlight = @ + 1] ELSE h
  BY DEF Acquired
<1> HIDE DEF h
<1>4. QED
  BY <1>1, <1>2, <1>3 DEF Admits, BackendHealth, CircuitState, EntryInv, BreakerConfig

\* ReportFailure leaves no slot counted.
LEMMA FailedOK ==
    ASSUME NEW c \in BreakerConfig, NEW e \in BackendHealth, EntryInv(c, e)
    PROVE  /\ Failed(c, e) \in BackendHealth
           /\ EntryInv(c, Failed(c, e))
           /\ Failed(c, e).inFlight = 0
<1>1. CASE e.state = "healthy"
  BY <1>1, MaxAgeAssumption DEF Failed, BackendHealth, CircuitState, EntryInv, BreakerConfig
<1>2. CASE e.state = "probing"
  BY <1>2, MaxAgeAssumption DEF Failed, BackendHealth, CircuitState, EntryInv, BreakerConfig
<1>3. CASE e.state = "tripped"
  BY <1>3, MaxAgeAssumption DEF Failed, BackendHealth, CircuitState, EntryInv, BreakerConfig
<1>4. QED
  BY <1>1, <1>2, <1>3 DEF BackendHealth, CircuitState

-----------------------------------------------------------------------------
(* Slots and those who hold them.                                            *)

\* A counter n of slots is covered by k lost ones and the users in W.  It
\* stays so when only r may stop being a user, if r gives its slot back, still
\* holds it, never held it, or its slot is lost, or if the counter is reset.
LEMMA SlotsStayCovered ==
    ASSUME NEW W, NEW V, NEW r, IsFiniteSet(W), IsFiniteSet(V), W \ {r} \subseteq V,
           NEW n \in Nat, NEW m \in Nat, NEW k \in Nat, NEW l \in Nat,
           n <= k + Cardinality(W),
           \/ m = 0
           \/ m <= n /\ k <= l /\ (r \in W => r \in V)
           \/ m = (IF n > 0 THEN n - 1 ELSE 0) /\ k <= l
           \/ m <= n + 1 /\ k <= l /\ r \notin W /\ r \in V
           \/ m <= n /\ k + 1 <= l
    PROVE  m <= l + Cardinality(V)
<1>1. Cardinality(W) \in Nat /\ Cardinality(V) \in Nat
  BY FS_CardinalityType
<1>2. IsFiniteSet(W \ {r}) /\ Cardinality(W \ {r}) <= Cardinality(V)
  BY FS_Subset
<1>3. Cardinality(W \ {r}) = IF r \in W THEN Cardinality(W) - 1 ELSE Cardinality(W)
  BY FS_RemoveElement
<1>4. ASSUME r \notin W, r \in V PROVE Cardinality(W) + 1 <= Cardinality(V)
  <2>1. W \cup {r} \subseteq V
    BY <1>4
  <2>2. Cardinality(W \cup {r}) = Cardinality(W) + 1
    BY <1>4, FS_AddElement
  <2>3. QED
    BY <2>1, <2>2, FS_Subset
<1>5. ASSUME r \in W => r \in V PROVE Cardinality(W) <= Cardinality(V)
  BY <1>5, FS_Subset
<1>6. QED
  BY <1>1, <1>2, <1>3, <1>4, <1>5

-----------------------------------------------------------------------------
(* The inductive invariant.                                                  *)

\* The three records of one session: the handler's q, the relay's w and the
\* client's c.
Busy(q) == q.pc \in {"prepare", "first", "relay", "penalise", "sse", "stream"}

\* Where a session may be in its lists.
PlaceOK(q) == /\ q.pc = "select" => q.k \in 1..Len(q.cands)
              /\ q.pc # "none" => q.k >= 1
              /\ Busy(q) => q.k <= Len(q.ordered)

\* What came over the connection is the first messages from b over t.
Numbered(got, b, t) == \A i \in DOMAIN got : got[i] = <<b, t, i>>

\* Nothing is sent before a relay or a stream sends it, in either there is
\* nothing from an earlier one, and a client that is there has got all but the
\* message that is being written.
AnswerOK(q, w, c) ==
    /\ q.pc = "relay" =>
          /\ Numbered(c.got, q.ordered[q.k], "ws")
          /\ w.down = "write" => w.relayed /\ w.n # 0
          /\ ~w.relayed => c.got = <<>>
          /\ ~c.gone => Len(c.got) = IF w.down = "write" THEN w.n - 1 ELSE w.n
    /\ q.pc = "stream" =>
          /\ Numbered(c.got, q.ordered[q.k], "sse")
          /\ ~c.gone => Len(c.got) = w.n
    /\ q.pc = "over" => c.got = <<>> \/ \E b \in Backends, t \in {"ws", "sse"} : Numbered(c.got, b, t)
    /\ q.pc \notin {"relay", "stream", "over"} => c.got = <<>>

ToldOK(q, w, c) ==
    /\ q.pc = "over" /\ ~c.gone
          => c.closed \/ (~w.relayed /\ w.err = "none" /\ (w.up = "done" \/ w.down = "done"))
    /\ c.closed => q.pc = "over"

SessionOK(q, w, c) == PlaceOK(q) /\ AnswerOK(q, w, c) /\ ToldOK(q, w, c)

HealthOK == /\ bh \in [Backends -> BackendHealth]
            /\ lost \in [Backends -> Nat]
            /\ \A b \in Backends : EntryInv(Cfg, bh[b])

SessionsOK == /\ ses \in [Sessions -> Session]
              /\ relay \in [Sessions -> Relay]
              /\ client \in [Sessions -> Client]
              /\ \A s \in Sessions : SessionOK(ses[s], relay[s], client[s])

IInv == HealthOK /\ SessionsOK /\ SlotsAreAccounted

-----------------------------------------------------------------------------
(* One session moves.                                                        *)

Message == Backends \X {"ws", "sse"} \X (1..MaxMessages)

\* Whether q may yet report on b.
Owes(q, b) == /\ q.pc \in {"prepare", "penalise", "sse"}
              /\ ~q.fallback /\ q.ordered[q.k] = b

Moves(s, q, w, c) == /\ ses' = [ses EXCEPT ![s] = q]
                     /\ relay' = [relay EXCEPT ![s] = w]
                     /\ client' = [client EXCEPT ![s] = c]

\* The entry of b pays for what the session that was p and is q does with its
\* slot.
Pays(b, p, q) ==
    \/ bh'[b].inFlight = 0
    \/ /\ bh'[b].inFlight <= bh[b].inFlight /\ lost[b] <= lost'[b]
       /\ Owes(p, b) => Owes(q, b)
    \/ /\ bh'[b].inFlight <= bh[b].inFlight + 1 /\ lost[b] <= lost'[b]
       /\ ~Owes(p, b) /\ Owes(q, b)
    \/ bh'[b].inFlight <= bh[b].inFlight /\ lost[b] + 1 <= lost'[b]

LEMMA SlotsKept ==
    ASSUME HealthOK, HealthOK', SlotsAreAccounted, NEW s \in Sessions, NEW p, NEW q,
           ses \in [Sessions -> Session], p = ses[s], ses' = [ses EXCEPT ![s] = q],
           \A b \in Backends : Pays(b, p, q)
    PROVE  SlotsAreAccounted'
<1> SUFFICES ASSUME NEW b \in Backends
             PROVE  bh'[b].inFlight <= lost'[b] + Cardinality(Unreported(b)')
  BY DEF SlotsAreAccounted
<1>1. PICK W : W = Unreported(b)
  OBVIOUS
<1>2. PICK V : V = Unreported(b)'
  OBVIOUS
<1>3. IsFiniteSet(W) /\ IsFiniteSet(V)
  <2>1. W \subseteq Sessions /\ V \subseteq Sessions
    BY <1>1, <1>2 DEF Unreported
  <2>2. QED
    BY <2>1, WebSocketAssumption, FS_Subset
<1>4. W \ {s} \subseteq V
  BY <1>1, <1>2 DEF Unreported, Current
<1>5. (s \in W <=> Owes(p, b)) /\ (s \in V <=> Owes(q, b))
  BY <1>1, <1>2 DEF Unreported, Current, Owes
<1>6. PICK n \in Nat, k \in Nat : n = bh[b].inFlight /\ k = lost[b]
  BY DEF HealthOK, BackendHealth
<1>7. PICK m \in Nat, l \in Nat : m = bh'[b].inFlight /\ l = lost'[b]
  BY DEF HealthOK, BackendHealth
<1>8. n <= k + Cardinality(W)
  BY <1>1, <1>6 DEF SlotsAreAccounted
<1>9. \/ m = 0
      \/ m <= n /\ k <= l /\ (s \in W => s \in V)
      \/ m = (IF n > 0 THEN n - 1 ELSE 0) /\ k <= l
      \/ m <= n + 1 /\ k <= l /\ s \notin W /\ s \in V
      \/ m <= n /\ k + 1 <= l
  BY <1>5, <1>6, <1>7 DEF Pays
<1>10. m <= l + Cardinality(V)
  BY <1>3, <1>4, <1>8, <1>9, SlotsStayCovered
<1>11. QED
  BY <1>2, <1>7, <1>10

LEMMA MoveKeeps ==
    ASSUME IInv, NEW s \in Sessions, NEW p, p = ses[s],
           NEW q \in Session, NEW w \in Relay, NEW c \in Client, SessionOK(q, w, c),
           Moves(s, q, w, c), HealthOK', \A b \in Backends : Pays(b, p, q)
    PROVE  IInv'
<1>1. SlotsAreAccounted'
  BY SlotsKept DEF IInv, SessionsOK, Moves
<1>2. SessionsOK'
  <2>1. /\ ses' \in [Sessions -> Session] /\ relay' \in [Sessions -> Relay]
        /\ client' \in [Sessions -> Client]
    BY DEF IInv, SessionsOK, Moves
  <2>2. ASSUME NEW t \in Sessions
        PROVE  SessionOK(ses'[t], relay'[t], client'[t])
    <3>1. CASE t = s
      BY <3>1 DEF IInv, SessionsOK, Moves
    <3>2. CASE t # s
      BY <3>2 DEF IInv, SessionsOK, Moves
    <3>3. QED
      BY <3>1, <3>2
  <2>3. QED
    BY <2>1, <2>2 DEF SessionsOK
<1>3. QED
  BY <1>1, <1>2 DEF IInv

\* Before a step of s.
LEMMA Here ==
    ASSUME IInv, NEW s \in Sessions
    PROVE  \E q \in Session, w \in Relay, c \in Client :
              /\ q = ses[s] /\ w = relay[s] /\ c = client[s] /\ SessionOK(q, w, c)
              /\ Busy(q) => Current(s) = q.ordered[q.k] /\ q.ordered[q.k] \in Backends
<1>1. PICK q \in Session, w \in Relay, c \in Client :
          q = ses[s] /\ w = relay[s] /\ c = client[s] /\ SessionOK(q, w, c)
  BY DEF IInv, SessionsOK
<1>2. Busy(q) => q.ordered[q.k] \in Backends
  BY <1>1 DEF SessionOK, PlaceOK, Session, Busy
<1>3. QED
  BY <1>1, <1>2 DEF Current

\* A step that leaves the entries alone, and all that the session owes.
LEMMA QuietKeeps ==
    ASSUME IInv, NEW s \in Sessions, NEW p, p = ses[s],
           NEW q \in Session, NEW w \in Relay, NEW c \in Client, SessionOK(q, w, c),
           Moves(s, q, w, c), UNCHANGED health, \A b : Owes(p, b) => Owes(q, b)
    PROVE  IInv'
<1>1. HealthOK'
  BY DEF IInv, HealthOK, health
<1>2. \A b \in Backends : Pays(b, p, q)
  BY DEF Pays, IInv, HealthOK, BackendHealth, health
<1>3. QED
  BY <1>1, <1>2, MoveKeeps

-----------------------------------------------------------------------------
(* The entries.                                                              *)

\* Only the entry of b moves; what was lost of its slots is forgotten only
\* with the slots.
LEMMA EntryOK ==
    ASSUME HealthOK, NEW b \in Backends, NEW e \in BackendHealth, EntryInv(Cfg, e), Entry(b, e)
    PROVE  /\ HealthOK' /\ bh'[b].inFlight = e.inFlight
           /\ e.inFlight = 0 \/ lost'[b] = lost[b]
           /\ \A x \in Backends \ {b} : bh'[x] = bh[x] /\ lost'[x] = lost[x]
BY DEF HealthOK, Entry

LEMMA ObserveOK ==
    ASSUME HealthOK, NEW b \in Backends, Observe(b)
    PROVE  /\ HealthOK'
           /\ \A x \in Backends : /\ bh'[x].inFlight <= bh[x].inFlight
                                  /\ bh'[x].inFlight = 0 \/ lost'[x] = lost[x]
<1>1. bh[b] \in BackendHealth /\ EntryInv(Cfg, bh[b]) /\ Cfg \in BreakerConfig
  BY WebSocketAssumption DEF HealthOK
<1>2. PICK e \in BackendHealth : e = HalfOpened(Cfg, bh[b]) /\ EntryInv(Cfg, e) /\ e.inFlight = bh[b].inFlight
  BY <1>1, HalfOpenedOK
<1>3. Entry(b, e)
  BY <1>2 DEF Observe
<1>4. \A x \in Backends : bh[x].inFlight \in Nat
  BY DEF HealthOK, BackendHealth
<1>5. QED
  BY <1>2, <1>3, <1>4, EntryOK

LEMMA ReportOK ==
    ASSUME HealthOK, NEW b \in Backends, ReportSuccess(b) \/ ReportFailure(b)
    PROVE  /\ HealthOK' /\ bh'[b].inFlight = 0
           /\ \A x \in Backends \ {b} : bh'[x] = bh[x] /\ lost'[x] = lost[x]
<1>1. bh[b] \in BackendHealth /\ EntryInv(Cfg, bh[b]) /\ Cfg \in BreakerConfig
  BY WebSocketAssumption DEF HealthOK
<1>2. PICK e \in BackendHealth : Entry(b, e) /\ EntryInv(Cfg, e) /\ e.inFlight = 0
  BY <1>1, SucceededOK, FailedOK DEF ReportSuccess, ReportFailure
<1>3. QED
  BY <1>2, EntryOK

LEMMA ObserveKeeps ==
    ASSUME IInv, NEW s \in Sessions, NEW p, p = ses[s],
           NEW q \in Session, NEW w \in Relay, NEW c \in Client, SessionOK(q, w, c),
           Moves(s, q, w, c), NEW b \in Backends, Observe(b), \A x : ~Owes(p, x)
    PROVE  IInv'
<1>1. HealthOK' /\ \A x \in Backends : Pays(x, p, q)
  BY ObserveOK DEF Pays, IInv, HealthOK
<1>2. QED
  BY <1>1, MoveKeeps

LEMMA ReportKeeps ==
    ASSUME IInv, NEW s \in Sessions, NEW p, p = ses[s],
           NEW q \in Session, NEW w \in Relay, NEW c \in Client, SessionOK(q, w, c),
           Moves(s, q, w, c), NEW b \in Backends, ReportSuccess(b) \/ ReportFailure(b),
           \A x : Owes(p, x) => x = b
    PROVE  IInv'
<1>1. HealthOK' /\ bh'[b].inFlight = 0 /\ \A x \in Backends \ {b} : bh'[x] = bh[x] /\ lost'[x] = lost[x]
  BY ReportOK DEF IInv
<1>2. \A x \in Backends : bh[x].inFlight \in Nat /\ lost[x] \in Nat
  BY DEF IInv, HealthOK, BackendHealth
<1>3. \A x \in Backends : Pays(x, p, q)
  BY <1>1, <1>2 DEF Pays
<1>4. QED
  BY <1>1, <1>3, MoveKeeps

-----------------------------------------------------------------------------
(* handleWebSocket.                                                          *)

LEMMA Unmoved ==
    ASSUME NEW s \in Sessions, NEW pc, NEW q, NEW w, NEW c,
           q = ses[s], w = relay[s], c = client[s], SessionsOK,
           UNCHANGED <<relay, client>>, Goto(s, pc)
    PROVE  Moves(s, [q EXCEPT !.pc = pc], w, c)
BY DEF Moves, Goto, SessionsOK

\* Until something is relayed or streamed, or the session is over, there is
\* nothing to tell of the client.
LEMMA SilentOK ==
    ASSUME NEW p, NEW w, NEW c, p.pc \notin {"relay", "stream", "over"}, PlaceOK(p)
    PROVE  SessionOK(p, w, c) <=> c.got = <<>> /\ ~c.closed
BY DEF SessionOK, AnswerOK, ToldOK

\* The handler moves on at the same candidate, before anything was sent.
LEMMA JumpOK ==
    ASSUME NEW p \in Session, NEW w, NEW c, NEW pc, SessionOK(p, w, c),
           pc \in {"loop", "prepare", "first", "penalise", "sse"},
           p.pc \notin {"none", "relay", "stream", "over"},
           pc # "loop" => p.k <= Len(p.ordered)
    PROVE  /\ [p EXCEPT !.pc = pc] \in Session
           /\ SessionOK([p EXCEPT !.pc = pc], w, c)
<1>1. PICK q : q = [p EXCEPT !.pc = pc]
  OBVIOUS
<1>2. q \in Session /\ q.pc = pc /\ q.k = p.k /\ q.ordered = p.ordered
  BY <1>1 DEF Session
<1>3. PlaceOK(p) /\ PlaceOK(q)
  BY <1>2 DEF SessionOK, PlaceOK, Busy
<1>4. QED
  BY <1>1, <1>2, <1>3, SilentOK

\* ... or at the next one.
LEMMA NextOK ==
    ASSUME NEW p \in Session, NEW w, NEW c, SessionOK(p, w, c),
           p.pc \notin {"none", "relay", "stream", "over"}
    PROVE  /\ [p EXCEPT !.pc = "loop", !.k = p.k + 1] \in Session
           /\ SessionOK([p EXCEPT !.pc = "loop", !.k = p.k + 1], w, c)
<1>1. PICK k \in Nat : k = p.k + 1 /\ k >= 1
  BY DEF Session
<1>2. PICK q : q = [p EXCEPT !.pc = "loop", !.k = k]
  OBVIOUS
<1>3. q \in Session /\ q.pc = "loop" /\ q.k = k
  BY <1>2 DEF Session
<1>4. PlaceOK(p) /\ PlaceOK(q)
  BY <1>1, <1>3 DEF SessionOK, PlaceOK, Busy
<1>5. QED
  BY <1>1, <1>2, <1>3, <1>4, SilentOK

LEMMA NewRelayOK == NewRelay \in Relay /\ NewRelay.down = "read" /\ NewRelay.n = 0
<1>1. 0 \in 0..MaxMessages
  BY WebSocketAssumption
<1>2. QED
  BY <1>1 DEF Relay, NewRelay

LEMMA EmptyNumbered ==
    ASSUME NEW b, NEW t
    PROVE  Len(<<>>) = 0 /\ Numbered(<<>>, b, t)
BY DEF Numbered

LEMMA StartKeeps ==
    ASSUME IInv, NEW s \in Sessions, Start(s)
    PROVE  IInv'
<1>1. PICK p \in Session : p = ses[s] /\ p.pc \in {"none", "over"}
  BY DEF Start, IInv, SessionsOK
<1>2. PICK l \in CandidateLists :
         /\ ses' = [ses EXCEPT ![s] = [Idle EXCEPT !.pc = IF l = <<>> THEN "over" ELSE "select",
                                                   !.cands = l, !.k = 1]]
         /\ client' = [client EXCEPT ![s] = IF l = <<>> THEN WithClose(NewClient) ELSE NewClient]
  BY DEF Start
<1>3. relay' = [relay EXCEPT ![s] = NewRelay] /\ UNCHANGED health
  BY DEF Start
<1>4. l \in Seq(Backends) /\ (l # <<>> => 1 \in 1..Len(l))
  BY WebSocketAssumption, EmptySeq, LenProperties
<1>5. PICK pc \in {"over", "select"} : pc = IF l = <<>> THEN "over" ELSE "select"
  OBVIOUS
<1>6. PICK q \in Session : /\ q = [Idle EXCEPT !.pc = pc, !.cands = l, !.k = 1]
                           /\ q.pc = pc /\ q.cands = l /\ q.k = 1
  <2> DEFINE q == [Idle EXCEPT !.pc = pc, !.cands = l, !.k = 1]
  <2>1. Idle \in Session
    BY DEF Idle, Session
  <2>2. q \in Session /\ q.pc = pc /\ q.cands = l /\ q.k = 1
    BY <1>4, <2>1 DEF Session
  <2>3. QED
    BY <2>2
<1>7. PICK w \in Relay : w = NewRelay
  BY NewRelayOK
<1>8. PICK c \in Client : /\ c = IF l = <<>> THEN WithClose(NewClient) ELSE NewClient
                          /\ c.got = <<>> /\ (c.closed <=> l = <<>>)
  <2>1. NewClient \in Client /\ NewClient.got = <<>> /\ ~NewClient.gone /\ ~NewClient.closed
    BY DEF NewClient, Client
  <2>2. WithClose(NewClient) \in Client /\ WithClose(NewClient).got = <<>> /\ WithClose(NewClient).closed
    BY <2>1 DEF WithClose, Client
  <2>3. CASE l = <<>>
    BY <2>2, <2>3
  <2>4. CASE l # <<>>
    BY <2>1, <2>4
  <2>5. QED
    BY <2>3, <2>4
<1>9. Moves(s, q, w, c)
  BY <1>2, <1>3, <1>5, <1>6, <1>7, <1>8 DEF Moves
<1>10. SessionOK(q, w, c)
  <2>1. PlaceOK(q)
    BY <1>4, <1>5, <1>6 DEF PlaceOK, Busy
  <2>2. CASE l = <<>>
    BY <1>5, <1>6, <1>8, <2>1, <2>2 DEF SessionOK, AnswerOK, ToldOK
  <2>3. CASE l # <<>>
    BY <1>5, <1>6, <1>8, <2>1, <2>3, SilentOK
  <2>4. QED
    BY <2>2, <2>3
<1>11. \A b : Owes(p, b) => Owes(q, b)
  BY <1>1 DEF Owes
<1>12. QED
  BY <1>1, <1>3, <1>9, <1>10, <1>11, QuietKeeps

LEMMA SelectKeeps ==
    ASSUME IInv, NEW s \in Sessions, Select(s)
    PROVE  IInv'
<1>1. PICK p \in Session, w \in Relay, c \in Client :
          /\ p = ses[s] /\ w = relay[s] /\ c = client[s] /\ SessionOK(p, w, c)
          /\ p.pc = "select"
  BY Here DEF Select
<1>2. PICK b \in Backends : b = p.cands[p.k]
  BY <1>1 DEF SessionOK, PlaceOK, Session
<1>3. PICK kept \in Seq(Backends) :
         kept = IF IsHealthy(Cfg, bh[b]) THEN Append(p.ordered, b) ELSE p.ordered
  BY <1>1, <1>2, AppendProperties DEF Session
<1>4. PICK k \in Nat : k = p.k + 1
  BY <1>1 DEF Session
<1>5. PICK q : q = IF p.k < Len(p.cands)
                   THEN [p EXCEPT !.ordered = kept, !.k = k]
                   ELSE [p EXCEPT !.pc = "loop", !.k = 1, !.fallback = (kept = <<>>),
                                  !.ordered = IF kept = <<>> THEN p.cands ELSE kept]
  OBVIOUS
<1>6. Observe(b) /\ Moves(s, q, w, c)
  BY <1>1, <1>2, <1>3, <1>4, <1>5 DEF Select, Moves, IInv, SessionsOK
<1>7. q \in Session
  BY <1>1, <1>5 DEF Session
<1>8. SessionOK(q, w, c)
  <2>1. Len(p.cands) \in Nat /\ p.k \in Nat
    BY <1>1, LenProperties DEF Session
  <2>2. q.pc \in {"select", "loop"} /\ PlaceOK(q)
    BY <1>1, <1>4, <1>5, <2>1 DEF PlaceOK, Busy, Session
  <2>3. QED
    BY <1>1, <2>2 DEF SessionOK, AnswerOK, ToldOK
<1>9. \A x : ~Owes(p, x)
  BY <1>1 DEF Owes
<1>10. QED
  BY <1>1, <1>2, <1>6, <1>7, <1>8, <1>9, ObserveKeeps

LEMMA TryProbeKeeps ==
    ASSUME IInv, NEW s \in Sessions, TryProbe(s)
    PROVE  IInv'
<1>1. PICK p \in Session, w \in Relay, c \in Client :
          /\ p = ses[s] /\ w = relay[s] /\ c = client[s] /\ SessionOK(p, w, c)
          /\ p.pc = "loop" /\ p.k <= Len(p.ordered) /\ ~p.fallback
  BY Here DEF TryProbe, HasCandidate
<1>2. PICK b \in Backends : b = p.ordered[p.k] /\ b = Current(s)
  BY <1>1 DEF SessionOK, PlaceOK, Session, Current
<1>3. PICK q : q = [p EXCEPT !.pc = "prepare"]
  OBVIOUS
<1>4. q \in Session /\ SessionOK(q, w, c) /\ Moves(s, q, w, c)
  <2>1. q \in Session /\ SessionOK(q, w, c)
    BY <1>1, <1>3, JumpOK
  <2>2. QED
    BY <1>1, <1>3, <2>1, Unmoved DEF TryProbe, IInv
<1>5. PICK e \in BackendHealth : Entry(b, e) /\ EntryInv(Cfg, e) /\ e.inFlight <= bh[b].inFlight + 1
  <2>1. bh[b] \in BackendHealth /\ EntryInv(Cfg, bh[b]) /\ Cfg \in BreakerConfig
    BY WebSocketAssumption DEF IInv, HealthOK
  <2>2. IsHealthy(Cfg, bh[b]) /\ Entry(b, Acquired(Cfg, bh[b]))
    BY <1>2 DEF TryProbe
  <2>3. QED
    BY <2>1, <2>2, AcquiredOK
<1>6. /\ HealthOK' /\ bh'[b].inFlight = e.inFlight
      /\ e.inFlight = 0 \/ lost'[b] = lost[b]
      /\ \A x \in Backends \ {b} : bh'[x] = bh[x] /\ lost'[x] = lost[x]
  BY <1>5, EntryOK DEF IInv
<1>7. \A x \in Backends : bh[x].inFlight \in Nat /\ lost[x] \in Nat
  BY DEF IInv, HealthOK, BackendHealth
<1>8. ~Owes(p, b) /\ Owes(q, b) /\ \A x : ~Owes(p, x)
  BY <1>1, <1>2, <1>3 DEF Owes, Session
<1>9. \A x \in Backends : Pays(x, p, q)
  BY <1>5, <1>6, <1>7, <1>8 DEF Pays
<1>10. QED
  BY <1>1, <1>4, <1>6, <1>9, MoveKeeps

LEMMA SkipKeeps ==
    ASSUME IInv, NEW s \in Sessions, Skip(s)
    PROVE  IInv'
<1>1. PICK p \in Session, w \in Relay, c \in Client :
          /\ p = ses[s] /\ w = relay[s] /\ c = client[s] /\ SessionOK(p, w, c)
          /\ p.pc = "loop" /\ p.k <= Len(p.ordered)
  BY Here DEF Skip, HasCandidate
<1>2. PICK b \in Backends : b = Current(s)
  BY <1>1 DEF SessionOK, PlaceOK, Session, Current
<1>3. PICK q : q = [p EXCEPT !.pc = "loop", !.k = p.k + 1]
  OBVIOUS
<1>4. q \in Session /\ SessionOK(q, w, c)
  BY <1>1, <1>3, NextOK
<1>5. Moves(s, q, w, c) /\ Observe(b)
  BY <1>1, <1>2, <1>3 DEF Skip, NextCandidate, Moves, IInv, SessionsOK
<1>6. \A x : ~Owes(p, x)
  BY <1>1 DEF Owes
<1>7. QED
  BY <1>1, <1>2, <1>4, <1>5, <1>6, ObserveKeeps

LEMMA TryFallbackKeeps ==
    ASSUME IInv, NEW s \in Sessions, TryFallback(s)
    PROVE  IInv'
<1>1. PICK p \in Session, w \in Relay, c \in Client :
          /\ p = ses[s] /\ w = relay[s] /\ c = client[s] /\ SessionOK(p, w, c)
          /\ p.pc = "loop" /\ p.k <= Len(p.ordered)
  BY Here DEF TryFallback, HasCandidate
<1>2. PICK q \in Session : q = [p EXCEPT !.pc = "prepare"] /\ SessionOK(q, w, c)
  BY <1>1, JumpOK
<1>3. Moves(s, q, w, c) /\ UNCHANGED health
  BY <1>1, <1>2, Unmoved DEF TryFallback, IInv
<1>4. \A b : Owes(p, b) => Owes(q, b)
  BY <1>1 DEF Owes
<1>5. QED
  BY <1>1, <1>2, <1>3, <1>4, QuietKeeps

\* The slot that is kept for nothing is lost; that of an entry that probes no
\* more was forgotten.
LEMMA UnusableKeeps ==
    ASSUME IInv, NEW s \in Sessions, Unusable(s)
    PROVE  IInv'
<1>1. PICK p \in Session, w \in Relay, c \in Client :
          /\ p = ses[s] /\ w = relay[s] /\ c = client[s] /\ SessionOK(p, w, c)
          /\ p.pc = "prepare" /\ Current(s) = p.ordered[p.k] /\ p.ordered[p.k] \in Backends
  BY Here DEF Unusable, Busy
<1>2. PICK b \in Backends : b = Current(s) /\ b = p.ordered[p.k]
  BY <1>1
<1>3. PICK q \in Session : q = [p EXCEPT !.pc = "loop", !.k = p.k + 1] /\ SessionOK(q, w, c)
  BY <1>1, NextOK
<1>4. Moves(s, q, w, c)
  BY <1>1, <1>3 DEF Unusable, NextCandidate, Moves, IInv, SessionsOK
<1>5. /\ bh' = bh
      /\ lost' = [lost EXCEPT ![b] =
                     IF ~p.fallback /\ bh[b].state = "probing" THEN @ + 1 ELSE @]
  BY <1>1, <1>2 DEF Unusable
<1>6. lost \in [Backends -> Nat] /\ \A x \in Backends : bh[x].inFlight \in Nat
  BY DEF IInv, HealthOK, BackendHealth
<1>7. HealthOK'
  BY <1>5, <1>6 DEF IInv, HealthOK
<1>8. ASSUME NEW x \in Backends, x # b
      PROVE  Pays(x, p, q)
  BY <1>2, <1>5, <1>6, <1>8 DEF Pays, Owes
<1>9. Pays(b, p, q)
  <2>1. CASE p.fallback
    BY <1>5, <1>6, <2>1 DEF Pays, Owes
  <2>2. CASE ~p.fallback /\ bh[b].state = "probing"
    BY <1>5, <1>6, <2>2 DEF Pays
  <2>3. CASE bh[b].state # "probing"
    BY <1>5, <2>3 DEF Pays, IInv, HealthOK, EntryInv
  <2>4. QED
    BY <2>1, <2>2, <2>3
<1>10. QED
  BY <1>1, <1>3, <1>4, <1>7, <1>8, <1>9, MoveKeeps

\* The session ends with a close frame, and without an answer or after one.
LEMMA CloseOK ==
    ASSUME NEW p \in Session, NEW w, NEW c \in Client, SessionOK(p, w, c), p.pc # "none",
           \/ c.got = <<>>
           \/ \E b \in Backends, t \in {"ws", "sse"} : Numbered(c.got, b, t)
    PROVE  /\ [p EXCEPT !.pc = "over"] \in Session /\ WithClose(c) \in Client
           /\ SessionOK([p EXCEPT !.pc = "over"], w, WithClose(c))
<1>1. PICK q : q = [p EXCEPT !.pc = "over"]
  OBVIOUS
<1>2. q \in Session /\ q.pc = "over" /\ q.k = p.k /\ PlaceOK(p)
  BY <1>1 DEF Session, SessionOK
<1>3. PICK d : d = WithClose(c)
  OBVIOUS
<1>4. d \in Client /\ d.got = c.got /\ d.gone = c.gone /\ (d.closed <=> ~c.gone)
  BY <1>3 DEF WithClose, Client
<1>5. PlaceOK(q) /\ AnswerOK(q, w, d) /\ ToldOK(q, w, d)
  BY <1>2, <1>4 DEF PlaceOK, AnswerOK, ToldOK, Busy
<1>6. QED
  BY <1>1, <1>2, <1>3, <1>4, <1>5 DEF SessionOK

LEMMA ExhaustedKeeps ==
    ASSUME IInv, NEW s \in Sessions, Exhausted(s)
    PROVE  IInv'
<1>1. PICK p \in Session, w \in Relay, c \in Client :
          /\ p = ses[s] /\ w = relay[s] /\ c = client[s] /\ SessionOK(p, w, c)
          /\ p.pc = "loop"
  BY Here DEF Exhausted
<1>2. c.got = <<>>
  BY <1>1 DEF SessionOK, AnswerOK
<1>3. PICK q \in Session, d \in Client :
         q = [p EXCEPT !.pc = "over"] /\ d = WithClose(c) /\ SessionOK(q, w, d)
  BY <1>1, <1>2, CloseOK
<1>4. Moves(s, q, w, d) /\ UNCHANGED health
  BY <1>1, <1>3 DEF Exhausted, Goto, Moves, IInv, SessionsOK, health
<1>5. \A b : Owes(p, b) => Owes(q, b)
  BY <1>1 DEF Owes
<1>6. QED
  BY <1>1, <1>3, <1>4, <1>5, QuietKeeps

LEMMA PenaliseKeeps ==
    ASSUME IInv, NEW s \in Sessions, Penalise(s)
    PROVE  IInv'
<1>1. PICK p \in Session, w \in Relay, c \in Client :
          /\ p = ses[s] /\ w = relay[s] /\ c = client[s] /\ SessionOK(p, w, c)
          /\ p.pc = "penalise" /\ Current(s) = p.ordered[p.k] /\ p.ordered[p.k] \in Backends
  BY Here DEF Penalise, Busy
<1>2. PICK b \in Backends : b = Current(s) /\ b = p.ordered[p.k]
  BY <1>1
<1>3. PICK q \in Session : q = [p EXCEPT !.pc = "sse"] /\ SessionOK(q, w, c)
  <2>1. p.k <= Len(p.ordered)
    BY <1>1 DEF SessionOK, PlaceOK, Busy
  <2>2. QED
    BY <1>1, <2>1, JumpOK
<1>4. Moves(s, q, w, c) /\ ReportFailure(b)
  BY <1>1, <1>2, <1>3, Unmoved DEF Penalise, IInv
<1>5. \A x : Owes(p, x) => x = b
  BY <1>2 DEF Owes
<1>6. QED
  BY <1>1, <1>3, <1>4, <1>5, ReportKeeps

-----------------------------------------------------------------------------
(* wsDialAndRelay.                                                           *)

LEMMA DialSucceedsKeeps ==
    ASSUME IInv, NEW s \in Sessions, DialSucceeds(s)
    PROVE  IInv'
<1>1. PICK p \in Session, w \in Relay, c \in Client :
          /\ p = ses[s] /\ w = relay[s] /\ c = client[s] /\ SessionOK(p, w, c)
          /\ p.pc = "prepare" /\ Current(s) = p.ordered[p.k] /\ p.ordered[p.k] \in Backends
  BY Here DEF DialSucceeds, Busy
<1>2. PICK b \in Backends : b = Current(s) /\ b = p.ordered[p.k]
  BY <1>1
<1>3. PICK q \in Session : q = [p EXCEPT !.pc = "first"] /\ SessionOK(q, w, c)
  <2>1. p.k <= Len(p.ordered)
    BY <1>1 DEF SessionOK, PlaceOK, Busy
  <2>2. QED
    BY <1>1, <2>1, JumpOK
<1>4. Moves(s, q, w, c) /\ ReportSuccess(b)
  BY <1>1, <1>2, <1>3, Unmoved DEF DialSucceeds, IInv
<1>5. \A x : Owes(p, x) => x = b
  BY <1>2 DEF Owes
<1>6. QED
  BY <1>1, <1>3, <1>4, <1>5, ReportKeeps

LEMMA DialFailsKeeps ==
    ASSUME IInv, NEW s \in Sessions, DialFails(s)
    PROVE  IInv'
<1>1. PICK p \in Session, w \in Relay, c \in Client :
          /\ p = ses[s] /\ w = relay[s] /\ c = client[s] /\ SessionOK(p, w, c)
          /\ p.pc = "prepare"
  BY Here DEF DialFails
<1>2. PICK pc \in {"penalise", "sse"} : Goto(s, pc)
  BY DEF DialFails
<1>3. PICK q \in Session : q = [p EXCEPT !.pc = pc] /\ SessionOK(q, w, c)
  <2>1. p.k <= Len(p.ordered)
    BY <1>1 DEF SessionOK, PlaceOK, Busy
  <2>2. QED
    BY <1>1, <2>1, JumpOK
<1>4. Moves(s, q, w, c) /\ UNCHANGED health
  BY <1>1, <1>2, <1>3, Unmoved DEF DialFails, IInv
<1>5. \A b : Owes(p, b) => Owes(q, b)
  BY <1>1, <1>2, <1>3 DEF Owes, Session
<1>6. QED
  BY <1>1, <1>3, <1>4, <1>5, QuietKeeps

LEMMA SendFirstKeeps ==
    ASSUME IInv, NEW s \in Sessions, SendFirst(s)
    PROVE  IInv'
<1>1. PICK p \in Session, v \in Relay, c \in Client :
          /\ p = ses[s] /\ v = relay[s] /\ c = client[s] /\ SessionOK(p, v, c)
          /\ p.pc = "first"
  BY Here DEF SendFirst
<1>2. PICK pc \in {"relay", "penalise"} : Goto(s, pc)
  BY DEF SendFirst
<1>3. PICK q \in Session : q = [p EXCEPT !.pc = pc] /\ q.pc = pc /\ q.k = p.k /\ q.ordered = p.ordered
  <2> DEFINE q == [p EXCEPT !.pc = pc]
  <2>1. q \in Session /\ q.pc = pc /\ q.k = p.k /\ q.ordered = p.ordered
    BY <1>2 DEF Session
  <2>2. QED
    BY <2>1
<1>4. PICK w \in Relay : w = NewRelay /\ w.down = "read" /\ w.n = 0
  BY NewRelayOK
<1>5. SessionOK(q, w, c)
  <2>1. PlaceOK(p) /\ c.got = <<>> /\ ~c.closed
    BY <1>1, SilentOK DEF SessionOK
  <2>2. PlaceOK(q)
    BY <1>1, <1>3, <2>1 DEF PlaceOK, Busy
  <2>3. AnswerOK(q, w, c) /\ ToldOK(q, w, c)
    BY <1>3, <1>4, <2>1, EmptyNumbered DEF AnswerOK, ToldOK
  <2>4. QED
    BY <2>2, <2>3 DEF SessionOK
<1>6. Moves(s, q, w, c) /\ UNCHANGED health
  BY <1>1, <1>2, <1>3, <1>4 DEF SendFirst, Goto, Moves, IInv, SessionsOK
<1>7. \A b : Owes(p, b) => Owes(q, b)
  BY <1>1 DEF Owes
<1>8. QED
  BY <1>1, <1>3, <1>4, <1>5, <1>6, <1>7, QuietKeeps

-----------------------------------------------------------------------------
(* The relay.                                                                *)

\* A step of the relay, or of its client, that leaves the handler where it is.
LEMMA RelayKeeps ==
    ASSUME IInv, NEW s \in Sessions, NEW p, p = ses[s],
           NEW w \in Relay, NEW c \in Client, SessionOK(p, w, c),
           relay' = [relay EXCEPT ![s] = w], client' = [client EXCEPT ![s] = c],
           UNCHANGED <<health, ses>>
    PROVE  IInv'
<1>1. p \in Session /\ Moves(s, p, w, c)
  BY DEF IInv, SessionsOK, Moves
<1>2. \A b : Owes(p, b) => Owes(p, b)
  OBVIOUS
<1>3. UNCHANGED health
  OBVIOUS
<1>4. QED
  BY <1>1, <1>2, <1>3, QuietKeeps

LEMMA BackendSendsKeeps ==
    ASSUME IInv, NEW s \in Sessions, BackendSends(s)
    PROVE  IInv'
<1>1. PICK p \in Session, v \in Relay, c \in Client :
          /\ p = ses[s] /\ v = relay[s] /\ c = client[s] /\ SessionOK(p, v, c)
          /\ p.pc = "relay" /\ v.down = "read" /\ v.n < MaxMessages
  BY Here DEF BackendSends, Relaying
<1>2. PICK n \in 0..MaxMessages : n = v.n + 1 /\ n # 0 /\ n - 1 = v.n
  BY <1>1, WebSocketAssumption DEF Relay
<1>3. PICK w : w = [v EXCEPT !.down = "write", !.n = n, !.relayed = TRUE]
  OBVIOUS
<1>4. w \in Relay /\ w.down = "write" /\ w.n = n /\ w.relayed
  BY <1>3 DEF Relay
<1>5. SessionOK(p, w, c)
  BY <1>1, <1>2, <1>4 DEF SessionOK, AnswerOK, ToldOK
<1>6. /\ relay' = [relay EXCEPT ![s] = w] /\ client' = [client EXCEPT ![s] = c]
      /\ UNCHANGED <<health, ses>>
  BY <1>1, <1>2, <1>3 DEF BackendSends, IInv, SessionsOK
<1>7. QED
  BY <1>1, <1>4, <1>5, <1>6, RelayKeeps

LEMMA NumberedAppend ==
    ASSUME NEW g \in Seq(Message), NEW b \in Backends, NEW t \in {"ws", "sse"},
           NEW n \in 1..MaxMessages, Numbered(g, b, t), Len(g) = n - 1
    PROVE  /\ Append(g, <<b, t, n>>) \in Seq(Message)
           /\ Len(Append(g, <<b, t, n>>)) = n
           /\ Numbered(Append(g, <<b, t, n>>), b, t)
<1>1. PICK m \in Message : m = <<b, t, n>>
  BY DEF Message
<1>2. PICK h : h = Append(g, m)
  OBVIOUS
<1>3. /\ h \in Seq(Message) /\ Len(h) = Len(g) + 1 /\ h[Len(g) + 1] = m
      /\ \A i \in 1..Len(g) : h[i] = g[i]
  BY <1>2, AppendProperties
<1>4. n \in Int /\ Len(g) \in Nat
  BY WebSocketAssumption, LenProperties
<1>5. Len(h) = n /\ h[n] = m /\ \A i \in 1..n - 1 : h[i] = g[i]
  BY <1>3, <1>4
<1>6. DOMAIN h = 1..n /\ DOMAIN g = 1..n - 1
  BY <1>3, <1>5, LenProperties
<1>7. ASSUME NEW i \in DOMAIN h
      PROVE  h[i] = <<b, t, i>>
  <2>1. CASE i = n
    BY <1>1, <1>5, <2>1
  <2>2. CASE i # n
    <3>1. i \in 1..n - 1
      BY <1>4, <1>6, <2>2
    <3>2. QED
      BY <1>5, <1>6, <3>1 DEF Numbered
  <2>3. QED
    BY <2>1, <2>2
<1>8. QED
  BY <1>1, <1>2, <1>3, <1>5, <1>7 DEF Numbered

\* A message reaches a client that has got those before it; one that is gone
\* gets nothing.
LEMMA MessageOK ==
    ASSUME NEW c \in Client, NEW b \in Backends, NEW t \in {"ws", "sse"},
           NEW n \in 1..MaxMessages, Numbered(c.got, b, t), ~c.gone => Len(c.got) = n - 1
    PROVE  LET d == WithMessage(c, <<b, t, n>>)
           IN  /\ d \in Client /\ d.gone = c.gone /\ d.closed = c.closed
               /\ Numbered(d.got, b, t) /\ (~d.gone => Len(d.got) = n)
<1>1. CASE c.gone
  BY <1>1 DEF WithMessage
<1>2. CASE ~c.gone
  <2>1. PICK g \in Seq(Message) : g = c.got
    BY DEF Client, Message
  <2>2. PICK h \in Seq(Message) : h = Append(g, <<b, t, n>>) /\ Len(h) = n /\ Numbered(h, b, t)
    <3>1. Numbered(g, b, t) /\ Len(g) = n - 1
      BY <1>2, <2>1
    <3>2. /\ Append(g, <<b, t, n>>) \in Seq(Message)
          /\ Len(Append(g, <<b, t, n>>)) = n
          /\ Numbered(Append(g, <<b, t, n>>), b, t)
      BY <3>1, NumberedAppend
    <3>3. QED
      BY <3>2
  <2>3. PICK d : d = [c EXCEPT !.got = h]
    OBVIOUS
  <2>4. d \in Client /\ d.got = h /\ d.gone = c.gone /\ d.closed = c.closed
    BY <2>3 DEF Client, Message
  <2>5. d = WithMessage(c, <<b, t, n>>)
    BY <1>2, <2>1, <2>2, <2>3 DEF WithMessage
  <2>6. QED
    BY <2>2, <2>4, <2>5
<1>3. QED
  BY <1>1, <1>2

LEMMA WriteClientKeeps ==
    ASSUME IInv, NEW s \in Sessions, WriteClient(s)
    PROVE  IInv'
<1>1. PICK p \in Session, v \in Relay, c \in Client :
          /\ p = ses[s] /\ v = relay[s] /\ c = client[s] /\ SessionOK(p, v, c)
          /\ p.pc = "relay" /\ v.down = "write"
          /\ Current(s) = p.ordered[p.k] /\ p.ordered[p.k] \in Backends
  BY Here DEF WriteClient, Relaying, Busy
<1>2. PICK b \in Backends : b = Current(s) /\ b = p.ordered[p.k]
  BY <1>1
<1>3. PICK n \in 1..MaxMessages : n = v.n
  BY <1>1, WebSocketAssumption DEF Relay, SessionOK, AnswerOK
<1>4. Numbered(c.got, b, "ws") /\ (~c.gone => Len(c.got) = n - 1) /\ v.relayed
  BY <1>1, <1>2, <1>3 DEF SessionOK, AnswerOK
<1>5. PICK w : w = [v EXCEPT !.down = "read"]
  OBVIOUS
<1>6. w \in Relay /\ w.down = "read" /\ w.n = n /\ w.relayed
  BY <1>3, <1>4, <1>5 DEF Relay
<1>7. PICK d \in Client : /\ d = WithMessage(c, <<b, "ws", n>>)
                          /\ d.gone = c.gone /\ d.closed = c.closed
                         /\ Numbered(d.got, b, "ws") /\ (~d.gone => Len(d.got) = n)
  BY <1>4, MessageOK
<1>8. SessionOK(p, w, d)
  BY <1>1, <1>2, <1>6, <1>7 DEF SessionOK, AnswerOK, ToldOK
<1>9. /\ relay' = [relay EXCEPT ![s] = w] /\ client' = [client EXCEPT ![s] = d]
      /\ UNCHANGED <<health, ses>>
  BY <1>1, <1>2, <1>3, <1>5, <1>7 DEF WriteClient, IInv, SessionsOK
<1>10. QED
  BY <1>1, <1>6, <1>7, <1>8, <1>9, RelayKeeps

\* A goroutine ends, or the closer is done: nothing is sent.
LEMMA EndOK ==
    ASSUME NEW p, NEW v, NEW w, NEW c, NEW d, SessionOK(p, v, c), p.pc = "relay",
           w.n = v.n, w.relayed = v.relayed,
           \/ w.down = v.down
           \/ w.down = "done" /\ (v.down = "read" \/ c.gone),
           d.got = c.got, d.gone = c.gone, d.closed = c.closed
    PROVE  SessionOK(p, w, d)
BY DEF SessionOK, AnswerOK, ToldOK

LEMMA EndKeeps ==
    ASSUME IInv, NEW s \in Sessions,
           \/ WriteClientFails(s) \/ BackendEnds(s) \/ ReadClosed(s)
           \/ ClientReadFails(s) \/ WriteBackendFails(s) \/ Closer(s)
    PROVE  IInv'
<1>1. PICK p \in Session, v \in Relay, c \in Client :
          /\ p = ses[s] /\ v = relay[s] /\ c = client[s] /\ SessionOK(p, v, c)
          /\ p.pc = "relay"
  BY Here DEF WriteClientFails, BackendEnds, ReadClosed, ClientReadFails, WriteBackendFails,
              Closer, Relaying
<1>2. UNCHANGED <<health, ses>>
  BY DEF WriteClientFails, BackendEnds, ReadClosed, ClientReadFails, WriteBackendFails, Closer
<1>3. relay[s] \in Relay /\ relay \in [Sessions -> Relay] /\ client \in [Sessions -> Client]
  BY DEF IInv, SessionsOK
<1>4. client' = [client EXCEPT ![s] = c] \/ client' = [client EXCEPT ![s] = [c EXCEPT !.failed = TRUE]]
  BY <1>1, <1>3 DEF WriteClientFails, BackendEnds, ReadClosed, ClientReadFails,
                    WriteBackendFails, Closer
<1>5. PICK d \in Client : /\ client' = [client EXCEPT ![s] = d]
                          /\ d.got = c.got /\ d.gone = c.gone /\ d.closed = c.closed
  <2>1. CASE client' = [client EXCEPT ![s] = c]
    BY <2>1
  <2>2. CASE client' = [client EXCEPT ![s] = [c EXCEPT !.failed = TRUE]]
    <3> DEFINE d == [c EXCEPT !.failed = TRUE]
    <3>1. d \in Client /\ d.got = c.got /\ d.gone = c.gone /\ d.closed = c.closed
      BY DEF Client
    <3>2. QED
      BY <2>2, <3>1
  <2>3. QED
    BY <1>4, <2>1, <2>2
<1>6. ASSUME NEW w, w \in Relay, relay' = [relay EXCEPT ![s] = w],
             w.n = v.n, w.relayed = v.relayed,
             \/ w.down = v.down
             \/ w.down = "done" /\ (v.down = "read" \/ c.gone)
      PROVE  IInv'
  <2>1. SessionOK(p, w, d)
    BY <1>1, <1>5, <1>6, EndOK
  <2>2. QED
    BY <1>1, <1>2, <1>5, <1>6, <2>1, RelayKeeps
<1>7. CASE WriteClientFails(s)
  <2> DEFINE w == [v EXCEPT !.down = "done"]
  <2>1. w \in Relay /\ w.n = v.n /\ w.relayed = v.relayed /\ w.down = "done"
    BY DEF Relay
  <2>2. relay' = [relay EXCEPT ![s] = w] /\ c.gone
    BY <1>1, <1>3, <1>7 DEF WriteClientFails
  <2> HIDE DEF w
  <2>3. QED
    BY <1>6, <2>1, <2>2
<1>8. CASE BackendEnds(s)
  <2>1. PICK err \in {"none", "backend"} :
           relay' = [relay EXCEPT ![s].down = "done", ![s].err = err]
    BY <1>8 DEF BackendEnds
  <2> DEFINE w == [v EXCEPT !.down = "done", !.err = err]
  <2>2. w \in Relay /\ w.n = v.n /\ w.relayed = v.relayed /\ w.down = "done"
    BY <2>1 DEF Relay
  <2>3. relay' = [relay EXCEPT ![s] = w] /\ v.down = "read"
    BY <1>1, <1>3, <1>8, <2>1 DEF BackendEnds
  <2> HIDE DEF w
  <2>4. QED
    BY <1>6, <2>2, <2>3
<1>9. CASE ReadClosed(s)
  <2> DEFINE w == [v EXCEPT !.down = "done", !.err = "local"]
  <2>1. w \in Relay /\ w.n = v.n /\ w.relayed = v.relayed /\ w.down = "done"
    BY DEF Relay
  <2>2. relay' = [relay EXCEPT ![s] = w] /\ v.down = "read"
    BY <1>1, <1>3, <1>9 DEF ReadClosed
  <2> HIDE DEF w
  <2>3. QED
    BY <1>6, <2>1, <2>2
<1>10. CASE ClientReadFails(s) \/ WriteBackendFails(s)
  <2> DEFINE w == [v EXCEPT !.up = "done"]
  <2>1. w \in Relay /\ w.n = v.n /\ w.relayed = v.relayed /\ w.down = v.down
    BY DEF Relay
  <2>2. relay' = [relay EXCEPT ![s] = w]
    BY <1>1, <1>3, <1>10 DEF ClientReadFails, WriteBackendFails
  <2> HIDE DEF w
  <2>3. QED
    BY <1>6, <2>1, <2>2
<1>11. CASE Closer(s)
  <2> DEFINE w == [v EXCEPT !.closed = TRUE]
  <2>1. w \in Relay /\ w.n = v.n /\ w.relayed = v.relayed /\ w.down = v.down
    BY DEF Relay
  <2>2. relay' = [relay EXCEPT ![s] = w]
    BY <1>1, <1>3, <1>11 DEF Closer
  <2> HIDE DEF w
  <2>3. QED
    BY <1>6, <2>1, <2>2
<1>12. QED
  BY <1>7, <1>8, <1>9, <1>10, <1>11

\* The session is dropped without a word: the relay ended, and nothing came.
LEMMA DropOK ==
    ASSUME NEW p \in Session, NEW w, NEW c, SessionOK(p, w, c), p.pc = "relay",
           ~w.relayed, w.err = "none", w.up = "done"
    PROVE  [p EXCEPT !.pc = "over"] \in Session /\ SessionOK([p EXCEPT !.pc = "over"], w, c)
<1>1. PICK q : q = [p EXCEPT !.pc = "over"]
  OBVIOUS
<1>2. q \in Session /\ q.pc = "over" /\ q.k = p.k
  BY <1>1 DEF Session
<1>3. PlaceOK(q) /\ AnswerOK(q, w, c) /\ ToldOK(q, w, c)
  BY <1>2 DEF SessionOK, PlaceOK, AnswerOK, ToldOK, Busy
<1>4. QED
  BY <1>1, <1>2, <1>3 DEF SessionOK

\* ... or goes on with the same backend.
LEMMA RetryOK ==
    ASSUME NEW p \in Session, NEW w, NEW c, SessionOK(p, w, c), p.pc = "relay",
           ~w.relayed, NEW pc \in {"sse", "penalise"}
    PROVE  [p EXCEPT !.pc = pc] \in Session /\ SessionOK([p EXCEPT !.pc = pc], w, c)
<1>1. PICK q : q = [p EXCEPT !.pc = pc]
  OBVIOUS
<1>2. q \in Session /\ q.pc = pc /\ q.k = p.k /\ q.ordered = p.ordered
  BY <1>1 DEF Session
<1>3. PlaceOK(q) /\ c.got = <<>> /\ ~c.closed
  BY <1>2 DEF SessionOK, PlaceOK, AnswerOK, ToldOK, Busy
<1>4. QED
  BY <1>1, <1>2, <1>3, SilentOK

LEMMA RelayOverKeeps ==
    ASSUME IInv, NEW s \in Sessions, RelayOver(s)
    PROVE  IInv'
<1>1. PICK p \in Session, w \in Relay, c \in Client :
          /\ p = ses[s] /\ w = relay[s] /\ c = client[s] /\ SessionOK(p, w, c)
          /\ p.pc = "relay" /\ w.up = "done" /\ w.down = "done"
          /\ Current(s) = p.ordered[p.k] /\ p.ordered[p.k] \in Backends
  BY Here DEF RelayOver, Relaying, Busy
<1>2. PICK b \in Backends : b = Current(s) /\ b = p.ordered[p.k]
  BY <1>1
<1>3. UNCHANGED relay /\ \A x : ~Owes(p, x)
  BY <1>1 DEF RelayOver, Owes
<1>4. ASSUME NEW q \in Session, NEW d \in Client, SessionOK(q, w, d), Moves(s, q, w, d),
             UNCHANGED health \/ ReportFailure(b)
      PROVE  IInv'
  <2>1. CASE UNCHANGED health
    <3>1. \A x : Owes(p, x) => Owes(q, x)
      BY <1>3
    <3>2. QED
      BY <1>1, <1>4, <2>1, <3>1, QuietKeeps
  <2>2. CASE ReportFailure(b)
    <3>1. \A x : Owes(p, x) => x = b
      BY <1>3
    <3>2. ReportSuccess(b) \/ ReportFailure(b)
      BY <2>2
    <3>3. QED
      BY <1>1, <1>4, <3>1, <3>2, ReportKeeps
  <2>3. QED
    BY <1>4, <2>1, <2>2
<1>5. CASE w.relayed
  <2>1. \/ c.got = <<>>
        \/ \E x \in Backends, t \in {"ws", "sse"} : Numbered(c.got, x, t)
    BY <1>1, <1>2 DEF SessionOK, AnswerOK
  <2>2. PICK q \in Session, d \in Client :
           q = [p EXCEPT !.pc = "over"] /\ d = WithClose(c) /\ SessionOK(q, w, d)
    <3>1. SessionOK(p, w, c) /\ p.pc # "none"
      BY <1>1
    <3>2. /\ [p EXCEPT !.pc = "over"] \in Session /\ WithClose(c) \in Client
          /\ SessionOK([p EXCEPT !.pc = "over"], w, WithClose(c))
      BY <2>1, <3>1, CloseOK
    <3>3. QED
      BY <3>2
  <2>3. Moves(s, q, w, d) /\ (UNCHANGED health \/ ReportFailure(b))
    BY <1>1, <1>2, <1>5, <2>2 DEF RelayOver, Goto, Moves, IInv, SessionsOK
  <2>4. QED
    BY <1>4, <2>2, <2>3
<1>6. CASE ~w.relayed
  <2>1. UNCHANGED client /\ (UNCHANGED health \/ ReportFailure(b))
    BY <1>1, <1>2, <1>6 DEF RelayOver
  <2>2. CASE w.err = "none"
    <3>1. PICK q \in Session : q = [p EXCEPT !.pc = "over"] /\ SessionOK(q, w, c)
      BY <1>1, <1>6, <2>2, DropOK
    <3>2. Goto(s, "over")
      BY <1>1, <1>6, <2>2 DEF RelayOver
    <3>3. Moves(s, q, w, c)
      BY <1>1, <1>3, <2>1, <3>1, <3>2 DEF Goto, Moves, IInv, SessionsOK
    <3>4. QED
      BY <1>4, <2>1, <3>1, <3>3
  <2>3. CASE w.err # "none"
    <3>1. PICK pc \in {"sse", "penalise"} : Goto(s, pc)
      BY <1>1, <1>6, <2>3 DEF RelayOver, Relay
    <3>2. PICK q \in Session : q = [p EXCEPT !.pc = pc] /\ SessionOK(q, w, c)
      BY <1>1, <1>6, RetryOK
    <3>3. Moves(s, q, w, c)
      BY <1>1, <1>3, <2>1, <3>1, <3>2 DEF Goto, Moves, IInv, SessionsOK
    <3>4. QED
      BY <1>4, <2>1, <3>2, <3>3
  <2>4. QED
    BY <2>2, <2>3
<1>7. QED
  BY <1>5, <1>6

-----------------------------------------------------------------------------
(* The answer over HTTP.                                                     *)

LEMMA GoSSEKeeps ==
    ASSUME IInv, NEW s \in Sessions, GoSSE(s)
    PROVE  IInv'
<1>1. PICK p \in Session, w \in Relay, c \in Client :
          /\ p = ses[s] /\ w = relay[s] /\ c = client[s] /\ SessionOK(p, w, c)
          /\ p.pc = "prepare"
  BY Here DEF GoSSE
<1>2. PICK q \in Session : q = [p EXCEPT !.pc = "sse"] /\ SessionOK(q, w, c)
  <2>1. p.k <= Len(p.ordered)
    BY <1>1 DEF SessionOK, PlaceOK, Busy
  <2>2. QED
    BY <1>1, <2>1, JumpOK
<1>3. Moves(s, q, w, c) /\ UNCHANGED health
  BY <1>1, <1>2, Unmoved DEF GoSSE, IInv
<1>4. \A b : Owes(p, b) => Owes(q, b)
  BY <1>1, <1>2 DEF Owes, Session
<1>5. QED
  BY <1>1, <1>2, <1>3, <1>4, QuietKeeps

LEMMA SSEFailsKeeps ==
    ASSUME IInv, NEW s \in Sessions, SSEFails(s)
    PROVE  IInv'
<1>1. PICK p \in Session, w \in Relay, c \in Client :
          /\ p = ses[s] /\ w = relay[s] /\ c = client[s] /\ SessionOK(p, w, c)
          /\ p.pc = "sse" /\ Current(s) = p.ordered[p.k] /\ p.ordered[p.k] \in Backends
  BY Here DEF SSEFails, Busy
<1>2. PICK b \in Backends : b = Current(s) /\ b = p.ordered[p.k]
  BY <1>1
<1>3. PICK q \in Session : q = [p EXCEPT !.pc = "loop", !.k = p.k + 1] /\ SessionOK(q, w, c)
  BY <1>1, NextOK
<1>4. Moves(s, q, w, c) /\ ReportFailure(b)
  BY <1>1, <1>2, <1>3 DEF SSEFails, NextCandidate, Moves, IInv, SessionsOK
<1>5. \A x : Owes(p, x) => x = b
  BY <1>2 DEF Owes
<1>6. QED
  BY <1>1, <1>3, <1>4, <1>5, ReportKeeps

LEMMA SSEConnectsKeeps ==
    ASSUME IInv, NEW s \in Sessions, SSEConnects(s)
    PROVE  IInv'
<1>1. PICK p \in Session, v \in Relay, c \in Client :
          /\ p = ses[s] /\ v = relay[s] /\ c = client[s] /\ SessionOK(p, v, c)
          /\ p.pc = "sse" /\ Current(s) = p.ordered[p.k] /\ p.ordered[p.k] \in Backends
  BY Here DEF SSEConnects, Busy
<1>2. PICK b \in Backends : b = Current(s) /\ b = p.ordered[p.k]
  BY <1>1
<1>3. PICK q \in Session : q = [p EXCEPT !.pc = "stream"] /\ q.pc = "stream"
                          /\ q.k = p.k /\ q.ordered = p.ordered
  <2> DEFINE q == [p EXCEPT !.pc = "stream"]
  <2>1. q \in Session /\ q.pc = "stream" /\ q.k = p.k /\ q.ordered = p.ordered
    BY DEF Session
  <2>2. QED
    BY <2>1
<1>4. PICK w : w = [v EXCEPT !.n = 0]
  OBVIOUS
<1>5. w \in Relay /\ w.n = 0
  <2>1. 0 \in 0..MaxMessages
    BY WebSocketAssumption
  <2>2. QED
    BY <1>4, <2>1 DEF Relay
<1>6. SessionOK(q, w, c)
  <2>1. PlaceOK(p) /\ c.got = <<>> /\ ~c.closed
    BY <1>1, SilentOK DEF SessionOK
  <2>2. PlaceOK(q)
    BY <1>1, <1>3, <2>1 DEF PlaceOK, Busy
  <2>3. AnswerOK(q, w, c) /\ ToldOK(q, w, c)
    BY <1>3, <1>5, <2>1, EmptyNumbered DEF AnswerOK, ToldOK
  <2>4. QED
    BY <2>2, <2>3 DEF SessionOK
<1>7. Moves(s, q, w, c) /\ ReportSuccess(b)
  BY <1>1, <1>2, <1>3, <1>4 DEF SSEConnects, Goto, Moves, IInv, SessionsOK
<1>8. \A x : Owes(p, x) => x = b
  BY <1>2 DEF Owes
<1>9. QED
  BY <1>1, <1>3, <1>5, <1>6, <1>7, <1>8, ReportKeeps

LEMMA StreamSendsKeeps ==
    ASSUME IInv, NEW s \in Sessions, StreamSends(s)
    PROVE  IInv'
<1>1. PICK p \in Session, v \in Relay, c \in Client :
          /\ p = ses[s] /\ v = relay[s] /\ c = client[s] /\ SessionOK(p, v, c)
          /\ p.pc = "stream" /\ v.n < MaxMessages
          /\ Current(s) = p.ordered[p.k] /\ p.ordered[p.k] \in Backends
  BY Here DEF StreamSends, Busy
<1>2. PICK b \in Backends : b = Current(s) /\ b = p.ordered[p.k]
  BY <1>1
<1>3. PICK n \in 1..MaxMessages : n = v.n + 1 /\ n \in 0..MaxMessages /\ v.n = n - 1
  BY <1>1, WebSocketAssumption DEF Relay
<1>4. Numbered(c.got, b, "sse") /\ (~c.gone => Len(c.got) = n - 1)
  BY <1>1, <1>2, <1>3 DEF SessionOK, AnswerOK
<1>5. PICK w : w = [v EXCEPT !.n = n]
  OBVIOUS
<1>6. w \in Relay /\ w.n = n
  BY <1>3, <1>5 DEF Relay
<1>7. PICK d \in Client : /\ d = WithMessage(c, <<b, "sse", n>>)
                          /\ d.gone = c.gone /\ d.closed = c.closed
                         /\ Numbered(d.got, b, "sse") /\ (~d.gone => Len(d.got) = n)
  BY <1>4, MessageOK
<1>8. SessionOK(p, w, d)
  BY <1>1, <1>2, <1>6, <1>7 DEF SessionOK, AnswerOK, ToldOK
<1>9. /\ relay' = [relay EXCEPT ![s] = w] /\ client' = [client EXCEPT ![s] = d]
      /\ UNCHANGED <<health, ses>>
  BY <1>1, <1>2, <1>3, <1>5, <1>7 DEF StreamSends, IInv, SessionsOK
<1>10. QED
  BY <1>1, <1>6, <1>7, <1>8, <1>9, RelayKeeps

LEMMA StreamEndsKeeps ==
    ASSUME IInv, NEW s \in Sessions, StreamEnds(s)
    PROVE  IInv'
<1>1. PICK p \in Session, w \in Relay, c \in Client :
          /\ p = ses[s] /\ w = relay[s] /\ c = client[s] /\ SessionOK(p, w, c)
          /\ p.pc = "stream" /\ p.ordered[p.k] \in Backends
  BY Here DEF StreamEnds, Busy
<1>2. PICK q \in Session, d \in Client :
         q = [p EXCEPT !.pc = "over"] /\ d = WithClose(c) /\ SessionOK(q, w, d)
  <2>1. SessionOK(p, w, c) /\ p.pc # "none"
    BY <1>1
  <2>2. \/ c.got = <<>>
        \/ \E x \in Backends, t \in {"ws", "sse"} : Numbered(c.got, x, t)
    BY <1>1 DEF SessionOK, AnswerOK
  <2>3. /\ [p EXCEPT !.pc = "over"] \in Session /\ WithClose(c) \in Client
        /\ SessionOK([p EXCEPT !.pc = "over"], w, WithClose(c))
    BY <2>1, <2>2, CloseOK
  <2>4. QED
    BY <2>3
<1>3. Moves(s, q, w, d) /\ UNCHANGED health
  BY <1>1, <1>2 DEF StreamEnds, Goto, Moves, IInv, SessionsOK, health
<1>4. \A b : Owes(p, b) => Owes(q, b)
  BY <1>1 DEF Owes
<1>5. QED
  BY <1>1, <1>2, <1>3, <1>4, QuietKeeps

-----------------------------------------------------------------------------
(* The environment, and the theorems.                                        *)

LEMMA ClientLeavesKeeps ==
    ASSUME IInv, NEW s \in Sessions, ClientLeaves(s)
    PROVE  IInv'
<1>1. PICK p \in Session, w \in Relay, c \in Client :
          /\ p = ses[s] /\ w = relay[s] /\ c = client[s] /\ SessionOK(p, w, c)
          /\ p.pc # "over"
  BY Here DEF ClientLeaves
<1>2. PICK d : d = [c EXCEPT !.gone = TRUE]
  OBVIOUS
<1>3. d \in Client /\ d.gone /\ d.got = c.got /\ d.closed = c.closed
  BY <1>2 DEF Client
<1>4. SessionOK(p, w, d)
  BY <1>1, <1>3 DEF SessionOK, AnswerOK, ToldOK
<1>5. /\ relay' = [relay EXCEPT ![s] = w] /\ client' = [client EXCEPT ![s] = d]
      /\ UNCHANGED <<health, ses>>
  BY <1>1, <1>2 DEF ClientLeaves, IInv, SessionsOK
<1>6. QED
  BY <1>1, <1>3, <1>4, <1>5, RelayKeeps

LEMMA TickKeeps ==
    ASSUME IInv, Tick
    PROVE  IInv'
<1>1. ASSUME NEW b \in Backends
      PROVE  /\ Aged(bh[b]) \in BackendHealth /\ EntryInv(Cfg, Aged(bh[b]))
             /\ Aged(bh[b]).inFlight = bh[b].inFlight
  <2>1. bh[b] \in BackendHealth /\ EntryInv(Cfg, bh[b]) /\ Cfg \in BreakerConfig
    BY WebSocketAssumption DEF IInv, HealthOK
  <2>2. QED
    BY <2>1, AgedOK
<1>2. bh' = [b \in Backends |-> Aged(bh[b])] /\ UNCHANGED <<lost, ses, relay, client>>
  BY DEF Tick
<1>3. HealthOK' /\ \A b \in Backends : bh'[b].inFlight = bh[b].inFlight
  BY <1>1, <1>2 DEF IInv, HealthOK
<1>4. \A b : Unreported(b)' = Unreported(b)
  BY <1>2 DEF Unreported, Current
<1>5. SlotsAreAccounted'
  BY <1>2, <1>3, <1>4 DEF IInv, SlotsAreAccounted
<1>6. QED
  BY <1>2, <1>3, <1>5 DEF IInv, SessionsOK

LEMMA InitOK == Init => IInv
<1> SUFFICES ASSUME Init PROVE IInv
  OBVIOUS
<1>1. HealthOK
  BY WebSocketAssumption, FreshEntryOK DEF Init, HealthOK
<1>2. Idle \in Session /\ NewRelay \in Relay /\ NewClient \in Client
  BY NewRelayOK DEF Idle, Session, NewClient, Client
<1>3. SessionOK(Idle, NewRelay, NewClient)
  <2>1. Idle.pc = "none" /\ NewClient.got = <<>> /\ ~NewClient.closed
    BY DEF Idle, NewClient
  <2>2. PlaceOK(Idle)
    BY <2>1 DEF PlaceOK, Busy
  <2>3. QED
    BY <2>1, <2>2, SilentOK
<1>4. SessionsOK
  BY <1>2, <1>3 DEF Init, SessionsOK
<1>5. SlotsAreAccounted
  <2> SUFFICES ASSUME NEW b \in Backends
               PROVE  bh[b].inFlight <= lost[b] + Cardinality(Unreported(b))
    BY DEF SlotsAreAccounted
  <2>1. Unreported(b) = {}
    BY DEF Init, Idle, Unreported
  <2>2. QED
    BY <2>1, FS_EmptySet DEF Init, FreshEntry
<1>6. QED
  BY <1>1, <1>4, <1>5 DEF IInv

LEMMA StepOK ==
    ASSUME IInv, [Next]_vars
    PROVE  IInv'
<1>1. ASSUME NEW s \in Sessions, Handle(s)
      PROVE  IInv'
  BY <1>1, StartKeeps, SelectKeeps, TryProbeKeeps, SkipKeeps, TryFallbackKeeps, UnusableKeeps,
     ExhaustedKeeps, PenaliseKeeps, DialSucceedsKeeps, DialFailsKeeps, SendFirstKeeps DEF Handle
<1>2. ASSUME NEW s \in Sessions, RelayStep(s)
      PROVE  IInv'
  BY <1>2, BackendSendsKeeps, WriteClientKeeps, EndKeeps, RelayOverKeeps DEF RelayStep
<1>3. ASSUME NEW s \in Sessions, SSEStep(s)
      PROVE  IInv'
  BY <1>3, GoSSEKeeps, SSEFailsKeeps, SSEConnectsKeeps, StreamSendsKeeps, StreamEndsKeeps
     DEF SSEStep
<1>4. CASE UNCHANGED vars
  <2>1. HealthOK' /\ SessionsOK'
    BY <1>4 DEF vars, IInv, HealthOK, SessionsOK
  <2>2. SlotsAreAccounted'
    BY <1>4 DEF vars, IInv, SlotsAreAccounted, Unreported, Current
  <2>3. QED
    BY <2>1, <2>2 DEF IInv
<1>5. QED
  BY <1>1, <1>2, <1>3, <1>4, ClientLeavesKeeps, TickKeeps DEF Next

\* Types, the handlers' places in their lists, and what of the answer is out
\* and what is still to come.
THEOREM Invariance == Spec => []IInv
BY InitOK, StepOK, PTL DEF Spec

\* Every slot that a probing backend counts is held by a session that will
\* still report, over WebSocket or over HTTP after it, or is one of those that
\* a message or URL which could not be prepared has lost.
THEOREM SlotsHaveSessions == Spec => []SlotsAreAccounted
<1>1. IInv => SlotsAreAccounted
  BY DEF IInv
<1>2. QED
  BY <1>1, Invariance, PTL

\* A client sees one answer, of one backend over one transport, in the order
\* sent and without a gap, whatever was tried before.
THEOREM AnswersAreNotMixed == Spec => []OneAnswer
<1>1. IInv => OneAnswer
  <2> SUFFICES ASSUME IInv, NEW s \in Sessions, NEW i \in DOMAIN client[s].got
               PROVE  client[s].got[i] = <<client[s].got[1][1], client[s].got[1][2], i>>
    BY DEF OneAnswer
  <2>1. PICK p \in Session, w \in Relay, c \in Client :
            p = ses[s] /\ w = relay[s] /\ c = client[s] /\ AnswerOK(p, w, c)
    BY Here DEF SessionOK
  <2>2. PICK g \in Seq(Message) : g = c.got
    BY DEF Client, Message
  <2>3. i \in 1..Len(g) /\ Len(g) \in Nat
    BY <2>1, <2>2, LenProperties
  <2>4. 1 \in DOMAIN g /\ g # <<>>
    BY <2>2, <2>3, LenProperties, EmptySeq
  <2>5. PICK b, t : Numbered(g, b, t)
    BY <2>1, <2>2, <2>4 DEF AnswerOK
  <2>6. g[1] = <<b, t, 1>> /\ g[i] = <<b, t, i>>
    BY <2>1, <2>2, <2>4, <2>5 DEF Numbered
  <2>7. QED
    BY <2>1, <2>2, <2>6
<1>2. QED
  BY <1>1, Invariance, PTL

\* A client that stays is told of the end, unless its backend closed normally
\* without having sent anything, and nothing follows the close frame.
THEOREM EndIsTold == Spec => []ToldOfEnd
<1>1. IInv => ToldOfEnd
  BY DEF IInv, SessionsOK, SessionOK, ToldOK, ToldOfEnd, Cancelled
<1>2. QED
  BY <1>1, Invariance, PTL
=============================================================================
