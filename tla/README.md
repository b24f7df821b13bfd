# gatelm in TLA+

Specifications, model-checking runs and proofs for gatelm, the LLM gateway in this
repository: what it does with requests, backends that fail, reloads and shutdowns,
beyond what its unit tests can reach. Every module is written from the code, and
`PROJECT.json` names for every definition the lines it stands for.

    tlc -config HttpForward_path.cfg MCHttpForward     # any run of the table below
    tlapm GatewayProofs.tla                            # any module with theorems

## 1. The system

gatelm accepts OpenAI, Anthropic and Responses requests, chooses backends by path
prefix or model, forwards with fail-over, converts protocols, logs usage, and is
configured through a file or a console without a restart.

| Component | State it keeps | Operations | Correct means |
|---|---|---|---|
| Health manager (`health.go`) | per backend: state, failures, last failure, probe slots taken; goroutines of the active checks | `IsHealthy`, `TryAcquireProbe`, `ReleaseProbe`, `ReportSuccess/Failure`, `StartActiveChecks`, `Stop`, `adoptState`, `AllBackendsDown` | slots neither leak nor exceed the limit, counters belong to the present episode, a backend that recovered comes back |
| Forwarding (`server.go` `forwardWithRetry`) | locals of a handler: candidates, index, `probeAcquired` | select, probe, send, report, back off, answer | every candidate is tried before an error is passed on; nobody is asked whose circuit is open; every request ends |
| Routing (`resolve.go`, `selector.go`, `route.go`) | the index of a configuration | `MatchByPrefix`, `ResolveCandidates`, `ResolveWithinBackend`, `SelectOrdered`, `SelectFallback` | longest prefix, exactly the backends that offer a model, by priority, with the right model name |
| Server, reload (`console.go`, `runtime.go`) | the fields a `snapshot()` copies, under `s.mu` | `ReloadConfig`, `Close` | circuits survive, no goroutine is orphaned, loggers in use are open, calls return |
| Gateway, process (`gateway.go`, `main.go`) | the concurrency semaphore; the listener | `ServeHTTP`, `Reload`, `Close`, shutdown | slots are counted exactly across reloads, no overtaking, the limit in force is the configured one |
| Usage log (`token.go`) | SQLite: channel, batch, table; JSONL: file and descriptor | `Log`, `batchWriter`, clean-up, `Close` | no silent loss, no duplicate, order kept, `Close` drains |
| WebSocket proxy (`websocket.go`) | a handler with two relay goroutines | dial and fail over, relay, fall back to SSE | messages in order, one end closes the other, circuits told once |
| Codecs and streaming (`codec_*.go`, `convert.go`, `writeResponse`) | state of a stream's decoder and encoder; of bodies, none | decode a line, encode its events, flush, close; `ToCanonical`, `FromCanonical` of requests and answers | nothing lost or out of order, blocks in turn, one truthful end; signed thinking goes where it may; a conversation survives a change of backend |
| Configuration (`config.go`) | none | `LoadConfig`, `NormalizeAndValidate` | what is ambiguous is refused |
| Console (`console.go`) | the session table; the file; a handler's snapshot, form and temporary file | sign in, GET and PUT of the configuration, patch, replace, reload | `LoadConfig` accepts every file a save leaves, the file is what is in force, nothing unseen is lost or mixed up, a new password signs out |
| Metrics, debug log, queries, set-up | counters, a text, read-only views, a dialogue | | |

How they interact. A handler takes a `snapshot()` of configuration, index, selector,
health manager and logger (several times: to route, to forward, to log) and then works
on these without a lock. The health manager is shared by the handlers of all requests,
the active checks and the console's reads, each operation under the mutex of one entry.
`ReloadConfig` builds new values of everything, copies the circuits and swaps under the
lock; handlers that started before go on with the old values. The logger's channel
connects handlers with one writer goroutine. The console reads a snapshot, writes the file
without a lock and then calls `ReloadConfig`. The gateway's semaphore is outside the
server's lock and replaced by `Gateway.Reload` only.

What is hard here: check-then-act across two acquisitions of an entry's lock; requests
that outlive the probing episode or the manager they belong to; reloads that overlap or
fail half-way; a channel closed while others send; a queue that is replaced while
somebody waits in it; writes that fail, are retried and give up; time-outs that close a
database under its writer; a file, a configuration in memory and forms in browsers that
are each changed without the others; a history that is converted anew with each request,
for whichever backend is asked. `PROJECT.json` lists them, each at its line.

## 2. The modules

| Module | Models | Correspondence |
|---|---|---|
| `CircuitBreaker` | one entry of the health manager | one operator from entry to entry per method; `age` stands for the time since `lastFailTime` |
| `HttpForward` | handlers, active checks, console reads over one manager | one action per stretch of code between two lock acquisitions; `req[r]` holds the handler's locals, `bh` the entries |
| `BreakerPromise` | what the two promise together | a gate per backend (closed, open or on trial), who waits for whom and whether it heeds the gates; no locks, lists or indices |
| `Reload` | `ReloadConfig`, `Close` | managers are generations; a call's `pc` follows the code through `adoptState`, start, swap, stop, wait; `rq[r]` is a request over the manager of its snapshot; extends `CircuitBreaker` |
| `Gateway` | semaphore, `Gateway.Reload`, `main` | a semaphore is a capacity, a count and the FIFO of blocked senders, which is how a Go channel serves them |
| `UsageLogSqlite`, `UsageLogJsonl` | the two modes of a `TokenLogger` | `UsageLog` composes them: `NewTokenLogger` chooses one; `Retention` is what a clean-up takes out in either |
| `Lists` | the loop that appends what it keeps, wherever the code filters a slice | a recursive function, of which something can be proved |
| `Config` | what `NormalizeAndValidate` accepts of backends, models and aliases | operators on a list of backends |
| `Routing` | index, selector, the decisions of `Handle` | the pure functions are operators; `Route`, `PrefixResolve`, `Select` use them on snapshots, `Reload` installs a configuration that `Config` accepts |
| `Codec` | the three protocols, the protocol of a path, when to convert | operators |
| `StreamDecoders`, `StreamEncoders` | the three decoders and three encoders of streams | one operator per case of a `Decode` or `Encode` and per helper, from a state to a state and events; a loop over calls or events is a recursive function |
| `StreamConversion` | `convertStream` and how `writeResponse` logs it | one action per turn of the loop, by backend, and one per way out; `up` is the backend, `dec`, `enc` and `out` the two codecs and the client's stream |
| `BodyConversion` | bodies of requests and answers to and from the canonical form | one operator per conversion, from a body of pieces to another |
| `Conversation` | a client that repeats all that was said with each request, `tryForward` and `writeResponse` of a body | the client's steps are external, the gateway's convert; `said` is the history the properties speak of |
| `Exchange` | a request from its route to the conversion of its answer | composes `Routing`, `StreamConversion`, `Conversation`: `stage` says which of them goes on |
| `WebSocket` | `handleWebSocket`, `wsDialAndRelay`, `wsPerBackendSSEFallback` over one manager | `ses[s]` holds the handler's locals, `relay[s]` those of the latest relay with the state of its goroutines, `client[s]` the client's connection and all it received; extends `CircuitBreaker` |
| `ConfigFile` | the file, and what GET and PUT do to secrets and to the YAML tree | operators from documents to documents |
| `Console` | sessions, GET and PUT, `SaveAndReloadConfig`, the console's view of `ReloadConfig`, hand edits, restarts | `browser[w]` holds w's form and the locals of its handler; one action per stretch between two accesses to what is shared |
| `MC*` | instances for TLC | |
| `HttpForwardProofs`, `ReloadProofs`, `GatewayProofs`, `UsageLogProofs`, `WebSocketProofs`, `ConsoleProofs`, `ExchangeProofs`, `ConversationProofs` | theorems | one lemma per action, and lemmas on what the actions have in common; `ConversationProofs` extends `ExchangeProofs` |

Definitions named `...Unguarded`, `...KeepsSlot` and the like, commented as "Mutant", are
the bugs the properties are measured against: each replaces one definition, and the run
of the property must then fail. They are in no `Next`.

Abstractions. Names, messages, bodies and models are model values or members of small
sets. Time is ticks, and ages saturate at `MaxAge`: the code only ever compares
`now - lastFailTime` with the recovery time-out. What is healthy is any subset in `Routing`
and is worked out in `HttpForward`. A request that ended may start again, so a finite set
of requests stands for any number one after the other.

In `StreamConversion` an event is a type, an index and a number; ids, models and token counts
are left out, and so is a write that fails where the code ignores it (the Anthropic and Chat
encoders). What a backend may send is not in the code: Chat chunks come in any order,
Anthropic blocks and Responses items one after the other, and each stream may end or break off
after any line, or its backend give up: with an error event (Anthropic), a chunk that has no
choices but an error (Chat, `ErrorLine`), or "failed" (Responses). When a stream or a
conversation is over, `Exchange` routes the next request.

In `BodyConversion` a body is a sequence of pieces, each a kind (text, thinking, signed or
not, redacted thinking, call, result, system text) and a number, in the containers of its
protocol: blocks in messages, messages with calls, items. That tells apart whether something
is lost, doubled, put elsewhere or attributed to another kind. Tools, sampling settings,
images and ids are left out. A text is a string or a list of parts only where it makes a
difference (`plain` in `InjectSystemPrompt`). A backend answers whole, cut, with an error, or,
of a Responses backend, with 200 and the status "failed" (`Ends200`). A conversation goes on
with any backend that the configuration has, since fail-over and reloads may change it with
each request.

In `Console` a backend is a name, a secret and the identity of the service its operator
means; the identity is history and no code reads it. A session remembers the password it
was opened with, also as history. A start takes more than a file that loads: something must be
left of the password after it is expanded again, and the usage log must open (`Starts`). A log
that cannot be opened may be written to the file by a save. Saves are bounded, not
the sign-ins between them.

In `WebSocket` the client's messages after the first, and pings, are left out except for
the errors they may meet. The closer is not among the goroutines that `wg.Wait` waits for:
its read deadline may come late and hit the next attempt of the session, which is a read
of the client that fails (`ClientReadFails`) and so always possible.

## 3. The runs

| Run | Shows | Bounds |
|---|---|---|
| `HttpForward_path` | the abstract breaker is implemented; slots, counters, fail-over, and the liveness of requests, probing and healing | 2 requests, 2 backends, threshold 2, limit 0 (which the code makes 1), recovery 1 tick |
| `Reload_calls` | `/healthz/detail` never says 503 while an enabled backend is usable; checks run for the current manager only, and not for one that a shutdown stopped; the logger in use is open; slots are lost only by being copied; trips survive; calls return | `Casts`: 2 reloads and a shutdown over 3 managers, or 1 reload and 1 request over 2; 2 backends |
| `Gateway_admission` | exact slots, order, limit, every request ends | 3 requests, limits 0..2, 2 semaphores |
| `UsageLog_both` | in SQLite mode counted losses and a drain; in JSONL mode retention; in both order and settling | channel 2, batch 2, 4 entries; 2 loggers, 3 lines, 3 files |
| `Exchange_conversions` | prefixes, candidates, default and 404, names; streams and bodies arrive whole and in order, a break or an error is told as one, over several requests to changing backends | 25 configurations of up to 3 backends, 1 reload, 5 paths and 5 models; the 6 conversions; 5 lines of a Chat backend (9 kinds of chunks), 8 of an Anthropic one, 9 of a Responses one; 3 requests per conversation, up to 4 pieces per answer |
| `WebSocket_sessions` | slots are lost only where nothing is reported; one answer, a close frame at the end (but after the normal closure of a backend that sent nothing) and nothing after it, a relay ends as a whole | 1 session after another, 3 backends (one `sse_only` and a candidate twice), 2 messages, threshold 2, limit 1 |
| `Console_saves` | the file loads, and is in force but for hand edits, failed rebuilds and crossing saves; secrets and unknown keys stay with their backends; a new password signs out | 2 browsers, 2 saves, 1 hand edit, 1 restart; 2 backends at first, 6 passwords of which one expands to a variable and one to nothing, 2 logs and one that cannot be opened |
| `HttpForward_probelimit` | more requests than the limit hold a reservation of one episode | 2 requests, 1 backend |
| `Reload_logpanic` | a request in flight sends to a logger that a reload closed | 1 request |
| `Gateway_shutdown` | the process exits with requests in flight | 2 requests |
| `WebSocket_leaving` | a client that leaves is counted as a failure of its backend | 1 session |
| `Console_password` | the first save writes the expanded password to the file | 1 browser, 1 save |

The runs with a violation each contradict a comment or a sentence of the documentation,
quoted under `findings`.

Why the bounds are enough. Two requests are what a race needs; the second backend makes
fail-over and skipping possible; threshold 2 separates a first failure from a trip, and
one slot is the limit at which requests collide. The recovery time-out is one tick, so
that every order of time-out and report occurs. Three managers let a reload replace what
an unfinished one installed. Three requests over a limit of one make a queue of two, the
least with an order. Channel, batch and entries are just large enough to be full, to
overflow, and to leave a rest at the end. Three requests of a conversation are the least in
which what one backend answered comes, after another one answered in between, to a third.
`FollowedConfig` has one backend of each protocol and `FollowedRequests` leads every client
to each of them, so that all conversions occur; which other configuration led there makes
no difference to them. Two saves are what two browsers need to cross; the edits of a form
are one of each sort, and one that does two at once. `Tick`, `Poll`, sign-ins and restarts
of requests are not bounded; `MaxGen` and the `gens` of `Casts`, `MaxSems`, `MaxEntries`,
`MaxLines`, `MaxFiles`, `MaxTurns`, `MaxSaves`, `MaxHandEdits` and `MaxStarts` bound what
would grow for ever, in the guards of the actions that make a new one. The two browsers of
`Console_saves` are interchangeable, and its symmetry is sound: it checks invariants only.

Where something may really stop (`main` exits, a logger is closed), the cfg switches deadlock
checking off; so does the run of one save, of which only the password is asked.

Fairness. A handler's next step is weakly fair: the scheduler runs it, and upstream
answers or fails because the transport has a `ResponseHeaderTimeout` of 120 s
(`gateway.go:237`). Arrivals, failures, reloads and clients that give up are not fair. An
active check keeps ticking and ends within 5 s (`health.go:323`), whatever its outcome. A
write to the database succeeds or fails, the busy time-out being 5 s (`token.go:212`). A
reload runs on once it began. In a relay nothing is assumed of the backend or the client:
a write ends by its deadline of 10 s (`websocket.go:587`), a read when the client is gone
(its pongs are missed), has failed before (gorilla's read errors stay), or when the closer
closed the connection or set the read deadline (`websocket.go:683`, `685`).

## 4. The proofs

`HttpForwardProofs` proves for any finite set of requests, any backends, candidate lists,
thresholds, limits and recovery times:

- `TypeCorrect`: `Spec => []TypeOK`
- `EpisodeCorrect`: `Spec => []EpisodeInv`
- `SlotsNeverLeak`: `Spec => []NoSlotLeak`
- `FailoverExhausts`: `Spec => FailoverIsExhaustive`
- `ImplementsPromise`: `Spec => KeepsPromise`, that is, `HttpForward` implements `BreakerPromise`

The argument. `IInv` is the conjunction of `HealthOK` (every entry has its type and
satisfies `EntryInv`) and `HandlersOK` (every handler has its type, and past its selection
a current candidate); it is equivalent to `TypeOK /\ EpisodeInv` (`IInvIsTyping`). The two
halves need one another: an entry changes only in steps of handlers that have a candidate,
so that `bh[Current(r)]` is an entry, and `EntryInv` makes every operation keep the type
of `inFlight`. There is one lemma per operation of an entry (`AcquiredOK`, `FailedOK` and so on)
and one about slots and their holders (`SlotsStayCovered`); `ReloadProofs` and `WebSocketProofs`
begin with the same lemmas, as far as their own users of an entry need them. For
`NoSlotLeak` the inductive step goes through cardinalities: the requests that wait for a
backend gain at most the one that acquires, and lose at most the one whose report, release
or error lowers the counter too; a request that never held a slot may only lower a
counter further, which is why the invariant is `<=` and not `=`. `FailoverExhausts` is an
action property: under `IInv` a handler has a candidate, and no way to an error of the list
leaves one behind it.

`ImplementsPromise` maps an entry to a gate (`GateOf`: a tripped entry whose time-out is over
and a probing one are both on trial, so that the lazy move between them is not seen), a
handler to the backend it waits for (`WaitsFor`) and to whether it heeds the gates (`ModeOf`).
One lemma per operation says what it does to the gate, one per kind of move what it does
to the other two; each action then is a step of `BreakerPromise` or is not seen. It needs
`IInv`, and that a handler in fallback holds no slot (`FallbackHoldsNothing`, an invariant of
its own): else its request error would give back a slot that the promise does not know.

`ReloadProofs` proves for any number of callers of `ReloadConfig` and `Close`, any
configurations, any finite set of requests and any casts:

- `HealthIsTruthful`: `Spec => []DownIsTruthful`
- `ChecksEnd`: `Spec => []NoOrphanChecks`, of the manager that `Close` stopped; the one that a
  reload swaps in after `Close` took its snapshot is not in the formula
- `LogStaysOpen`: `Spec => []CurrentLogIsOpen`
- `TripsSurviveReload`: `Spec => ReloadKeepsTrips`
- `SlotsHaveHolders`: `Spec => []SlotsAreAccounted`

None of the five is inductive. `IInv` adds what the code never writes down: the holder of the
lock is the one call that makes a manager, which is the newest and which nobody is to stop
yet (`LockOK`, `MakersOK`); a manager with check loops is in force, about to be, or owed a
stop by some call, and one that `Close` stopped runs none again (`ChecksOK`); the loggers that
reloads are to close are open, differ from one another and from the one in force (`LogsOK`);
every enabled backend has an entry (`SeededOK`); a circuit that must not heal is open in the
old manager until `adoptState` copies it and in the new one after (`TripsOK`). Requests, checks
and console reads leave the calls alone (`CallsStand`) and move entries only so that nothing
heals that must not and each counter follows its holders (`UserStep`).

`GatewayProofs` proves for any finite set of requests, any limits and shutdowns:

- `LimitHolds`: `Spec => []LimitIsEnforced`, when `Gateway.Reload` has one caller. Two callers
  can configure in one order and exchange semaphores in the other, so the theorem has that
  hypothesis, and the run has one caller. The inductive invariant adds that the call under way
  brings the limit that was configured last (`BringsLimit`), that `sems` is a sequence of
  semaphores (`SemsOK`), and that no use of a semaphore changes its capacity (`CapsKept`).
- `SlotsCounted`: `Spec => []SlotsAreExact`, for any number of callers. `Fits` relates one
  semaphore to the set of its holders and the set of those who wait; one lemma per use of a
  channel (take a slot, queue, give up, give a slot back to nobody or to the first in line)
  is about that alone, and `SlotInv` says it of all semaphores made so far.
- `FirstComeFirstServed`: `Spec => NoOvertaking`. Only the head of a queue is ever served, and
  it appears there once.

`UsageLogProofs` proves for any capacities and any set of loggers on one file:

- `LossIsCounted`: `Spec => []DropsAreCounted`, in SQLite mode, the other having no counter
- `CloseLeavesNothing`: `Spec => []CloseDrains`
- `OrderIsKept`: `Spec => []EntriesInOrder`
- `CleanupLosesNothing`: `Spec => []EntriesSurviveCleanup`

In SQLite mode `InOrder` says that rows, batch and channel, each rising, lie one after the
other, and `Numbered` that expired entries are nowhere else: so the batch that is given up is
disjoint from all that is kept, and has as many entries as its length says. `Draining` is the
protocol of `Close`: the channel is closed before the last write, and empty. In JSONL mode
the invariant speaks of every file and not of the one in force only (`LinesOK`), and of a
clean-up half-way (`SurvivalOK`): what it has kept, and that a lone logger appends to the file
that the name leads to.

`WebSocketProofs` proves for any finite set of sessions, any candidate lists, backends and
breaker settings:

- `SlotsHaveSessions`: `Spec => []SlotsAreAccounted`
- `AnswersAreNotMixed`: `Spec => []OneAnswer`
- `EndIsTold`: `Spec => []ToldOfEnd`, but for a backend's normal closure before it sent anything

`IInv` has one record per session, over the locals of its handler, its latest relay and its
client. `AnswerOK` is the reason why a retry is safe: a relay for which `dataRelayed` is not set
has sent nothing, so that the next attempt starts with a client that received nothing; in a
relay the client has all messages but the one being written. Of the slots, each move either
keeps what the session owes a backend, pays it, or is one of the lost ones (`Pays`).

`ConsoleProofs` proves for any browsers, forms, edits by hand, saves and restarts:

- `FileAlwaysLoads`: `Spec => []FileLoads`. A handler renames what it validated a step before,
  whatever others did to the file in between; `ValidatedOK` carries that to the renaming. That
  the usage log of a file in force opens is a consequence of `MemoryIsFile` and of a swap's
  having opened it. It is not that every start succeeds: after a rebuild that failed the file
  names a log that perhaps cannot be opened, and a second expansion may leave no password.
- `PasswordSignsOut`: `Spec => []SessionsMatchPassword`. A reload revokes before it exchanges the
  configuration, so that in between a session must match two passwords, the one in force and
  the one that comes: `SessionsOK` says so, and `LockOK` that only one reload is under way.
- `MemoryIsFile`: `Spec => []FileIsInForce`. `FileOK` says that the file is what the handler wrote
  that replaced it last, until it has reloaded, and `MemOK` and `CallOK` that passwords in
  memory and in documents have an expansion. A save makes `Config` of the file and a start
  `Started`, which expands the password once more; what is in force is one of the two. Nothing
  is assumed of what an expansion gives, but that it can be expanded again.
- `SavesKeepTheUnseen`: `Spec => []UnseenIsKept`. `CallOK` ties each document to the form, the
  snapshot and the file it was made of; the rest is about `Restored`, `Merged` and `Named`, with
  names that are unique.

`ExchangeProofs` and, beginning with the stream as a whole, `ConversationProofs` belong together.
The first proves of routing, for any configurations that validation accepts, any
paths, models and requests, and a reload between any two steps:

- `LongestPrefix`: `Spec => []PrefixIsLongest`
- `ExactCandidates`: `Spec => []CandidatesAreExact`
- `MappedModels`: `Spec => []ModelIsMapped`

All three follow from `RoutingInv`, which says of each request that what it was routed by is
what the snapshot it took says, whatever is in force by now, and that a snapshot of the
present generation is the one in force. Below it are lemmas on the pure functions: the loop
of `MatchByPrefix` keeps the first of the longest so far (`BestLoop`, `MatchIsLongest`);
insertion keeps a list ranked by priority and then by the order it had (`SortedRanks`), so
that `ByModel` has exactly the offers, in order (`ByModelOnes`), the names of an accepted
configuration being unique (`OneGoesBy`), and else the default backend if there is one
(`DefaultOnes`, `NotFoundOnes`). The loops are recursive functions, and what is
proved of them is proved by a smallest counterexample among their indices or lengths
(`NatLessThanWellFounded`, a fact without an operator parameter), not by the library's
induction theorems.

Both together prove of converted streams, for any chunks, blocks or items, any number of
lines, and an end, a failure or a client that leaves after any of them:

- `EveryDeltaArrives`: `Spec => []ContentArrives`
- `BlocksStayWellFormed`: `Spec => []BlocksWellFormed`
- `StreamsEndTruthfully`: `Spec => []EndIsTruthful`

The six conversions are three decoders and three encoders, and are proved as these. Between
them stands what the canonical events have told so far (`Told`): which text, thinking and
calls are open, which deltas were sent, whether the stream failed or ended. `Tells` says
what one event may add to that. A decoder is right if the events of each line carry on from
what was told to what the backend has sent by now (`Carries`; `ChatGoes`, `AnthropicGoes`,
and a lemma for each kind of line of a Responses backend); an encoder is right if each event
that may be told keeps its invariant (`AnthropicKeeps`, `ChatKeeps`, `ResponsesKeeps`) and
its `Close` then gives a stream that has everything and ends as it should (`Ended`). A line that a
decoder skips, as it does an error event, carries nothing (`ErrorLineStep`). No
encoder is proved with regard to a particular decoder. `StreamInv` ties the two together
while a stream is read (`Streaming`) and keeps the result after it (`EndedAs`). The
Anthropic encoder has the strongest invariant: exactly one of thinking, text and calls holds
each open block (`AnthropicOK`), the block of a call belongs to one call (`Owned`), and
blocks are numbered without a gap (`Lifecycle`). Where a stream begins, `RoutingInv` gives
it two protocols, and the guard of `Forward` two different ones.

`ConversationProofs` proves of converted bodies, for conversations of any number of requests,
any backends that are asked one after the other, any history and any answers:

- `HistoriesArrive`: `Spec => []HistoryArrives`
- `SignedThinkingIsReplayed`: `Spec => []ThinkingIsReplayed`, which is about requests that are
  converted; what is passed through keeps its thinking
- `AnswersArrive`: `Spec => []AnswerArrives`

Here too the conversions are proved one by one and meet in the canonical form. What a body
says is a sum over its elements (`Gather`), and every conversion goes through a list and
appends what each element becomes; so that a conversion keeps what a body says if it does so
element by element (`GatherNest`), and what is left of it by a filter (`Keep`) is the sum of
what is left of the elements (`KeptBy`). `Has` says what a client's body has of what was said:
an Anthropic client's messages the texts, calls and results in one order, a Chat client's the
texts and the rest each in theirs, a Responses client's items everything. `Canonical` is the
same of the form between, and `CarriedBy` what a client's protocol brings to it; `SpokenFor`
is what a backend's form lets through. Answers take the same way back: `Answer` says what the
canonical answer of a backend has, `TellsConverted` and `TellsResponses` what a client is told
of it. `ConversationInv` adds to the three properties that the body of the client `Has` what
was said (`Speaking`), and that outside a conversation there is none (`Quiet`); it needs
`RoutingInv` for the protocols of client and backend. The only loop whose state is more than a
list is the one that joins the texts of an Anthropic message until a call (`NextBlock`), where
`Progress` says that the items made so far and the text in hand together are what was read.

What the proofs changed. The attempt to prove `UnseenIsKept` failed at first, for reasons the
instances were too small to show: a backend without a name, a file edited by hand that has a
name twice, and a rename to a name that was just given away all mix up what was not shown. The
property says so now; what the first does to secrets is told below. A clean-up of the usage
log is described by the positions that stay (`Retention`), and a request that gives up by its
position in the queue, because the library proves nothing of `SelectSeq`. For the same reason
the loops of routing and of the codecs, which were `SelectSeq` and `FoldLeft`, are recursive
functions now, and the properties of streams speak of what a sequence of events amounts to
(`Received`, `InLifecycle`). Where the code filters and then flattens, the bodies' conversions
do both in one step, and `ConversationAssumption` states what the instance had all along: the
kinds of pieces that the answers of each protocol have, and that those of a Chat answer come
in the order of its fields. Without the latter `AnswerArrives` would ask a Chat answer for an
order that its form cannot hold. The proof of `ModelIsMapped` did not go through for
configurations with several backends without a name: `Within` took the entries of a backend by
name, where the code compares pointers (`resolve.go:129`). It was the model that was wrong; it
compares the backends now.

The assumptions are the named `ASSUME`s of the modules, which TLC evaluates in every run. The
finite sets of requests and sessions serve the counting; that "free", which stands for a lock
nobody holds, is no caller, and that the passwords that occur have an expansion, are about the
encoding only; that the first start succeeds is where the console's story begins. Each
inductive invariant was checked by TLC on the instance of its run; for `StreamInv`, whose sets
TLC cannot enumerate, with the same sets bounded. `ConversationInv` holds there in all of its
states.

Only model-checked. Liveness (`EveryRequestEnds`, `ProbingResolves`, `ActiveCheckHeals`,
`CallsReturn`, `EveryEntrySettles`, `RelayEnds`) is beyond the prover, fairness being stated
with ENABLED. Every invariant and every action property that a passing run checks is proved.

## 5. Where code and text disagree

Besides the runs that expect a violation, writing the models brought up these, which have
no run of their own. Properties are stated so that they are true of the code: where it does
not do what one would want of it, the property exempts exactly that case, its comment names
it, and so does the `note` of its hazard.

- `server.go:526` says the fallback avoids a complete blackout; a candidate that loses its
  slot between `SelectOrdered` and `TryAcquireProbe` is skipped, and if it was the last the
  request ends with 502 and no attempt (`server.go:698`).
- `health.go:209` says a client-side 4xx does not affect the circuit; `server.go:689` reports
  it as a success, which closes the circuit.
- `README.md:191` says 503 when all backends are tripped; `AllBackendsDown` also asks the
  entries of disabled or removed backends (`health.go:401`), so that the answer may be 200.
- `console.go:586` says a reload does not heal a failing backend; a failure reported between
  `adoptState` and the swap is lost.
- `health.go:390` says closing the server twice is safe; the token logger closes its channel
  again (`token.go:636`), which panics.
- `config.example.yaml:14` says `max_concurrent_requests` is the limit; `Gateway.Reload`
  installs a fresh semaphore and those who hold the old one are not counted
  (`gateway.go:156`), and a request over the limit waits instead of getting 503
  (`gateway.go:131`).
- A limit saved in the console reaches the server's configuration only (`console.go:312`).
- `token.go:423` says `DroppedEntries` counts overflow; it counts failed writes as well.
- `selector.go:81` and `README.md:12` say candidates are ordered by priority and weight;
  `SelectOrdered` does not read weights.
- `README.md:11` and `:17` promise alias routing and a hot reload; a request takes a second
  snapshot and `ResolveWithinBackend` compares backends by pointer (`server.go:491`,
  `resolve.go:129`), so that after a reload between the two its alias is forwarded unmapped.
- `token.go:122` says that no `Log` call is lost to a clean-up; after a reload that changes
  `retention_days` two loggers have one path and a mutex each, and the clean-up of one renames
  a new file over the one the other writes to (`token.go:199`).
- `README.md:119` says a probing circuit ends in a success; `adoptState` copies the number of
  slots taken (`health.go:120`), their requests report to the old manager, and with a limit of
  one the backend gets no more probes outside the fallback.
- `codec_openai.go:979` and a test say that a truncated response is reported as "length" also
  when there were calls; `extractCompletedInfo` puts "tool_calls" over it when the output
  lists a call (`codec_openai.go:1045`), and the Anthropic encoder gives "tool_use"
  (`codec_anthropic.go:505`).
- `codec.go:140` says that a truncation is never shown as completed ("hiding the truncation from
  the client"). A backend that gives up in the middle sends an error event (Anthropic) or a
  chunk without choices that holds an error (Chat). `anthropicStreamDecoder.Decode`
  (`codec_anthropic.go:178`) and `openaiChatStreamDecoder.Decode` (`codec_openai.go:610`) make
  nothing of it, the stream ends, `Flush` completes it, and a client of another protocol gets
  a regular end, as `EndIsTruthful` says. A missing `message_stop` or `[DONE]` ends the same way.
- An Anthropic client of an empty Chat stream gets `message_delta` and `message_stop` without a
  `message_start` (`codec_anthropic.go:510`), and blocks of parallel calls, or text after a call,
  overlap: a call's block is closed by `Flush` only (`codec_openai.go:734`).
- `anthropicStreamDecoder.Flush` closes no calls (`codec_anthropic.go:365`).
- A timeout of a backend is cancelled when `tryForward` returns, before the body is read
  (`server.go:846`): `BreaksOff` is what such streams meet.
- The WebSocket path never calls `ReleaseProbe`: a message that cannot be converted, or a URL
  that cannot be composed (`websocket.go:179`, `185`, `209`), keeps its probe slot.
- One failed attempt over WebSocket may be reported up to three times (`websocket.go:709`,
  `245`, `300`), and a dial that succeeds resets the count of failures (`websocket.go:554`).
- `websocket.go:496` takes "use of closed network connection" for a backend that knows no
  WebSocket; it is also what the gateway's own closer causes when the client leaves before
  data, and then the whole request is sent again over HTTP.
- A backend that closes normally before it sent anything ends the session with neither a
  fallback nor a close frame (`websocket.go:761`), against the comment at `websocket.go:691`.
- `websocket.go:680` keeps the client's connection for a retry on the next backend; its read
  has failed by then and fails again at once, so that a second relay cannot last.
- The branch for `dataRelayed` errors in `handleWebSocket` (`websocket.go:222`) is never taken.
- `Server.Close` takes its snapshot before it stops the checks: a reload that swaps just
  after leaves the new manager's loops running (`runtime.go:19`). `NoOrphanChecks` exempts
  exactly this.

The console and its file:

- A password is expanded as often as it is validated (`config.go:112`), which is twice at start
  (`main.go:47`, `gateway.go:46`): a "$" in what the first expansion gives is expanded again,
  and the form it had in the file is forgotten (`Console_password`).
- `restoreBackendSecrets` goes by name, else by place (`console.go:193`): an edit that renames a
  backend and removes or moves another, that gives it a name another one had, or a form that
  another save overtook, can give a backend the secret of another. `UnseenIsKept` exempts these
  (`Simple`, `Current`). A renamed backend beyond the old length keeps the placeholder as its
  secret.
- Backends without a name are accepted (`config.go:154`), and `byName` has the last of them
  under "" (`console.go:188`): a save of an unchanged form gives its secret to all of them,
  against the comment above (`console.go:182`). `mergeBackendsNode` leaves "" out
  (`console.go:418`) and drops the keys it does not know of such backends instead.
- A start can fail although the file loads: the rebuild of the usage log may have failed after
  the file was replaced (`console.go:309`, `601`; `gateway.go:65`), and of a password like
  "${REF}" the second expansion may leave nothing (`gateway.go:47`). `Restart` then does nothing,
  and `FileLoads` does not promise a start.
- Two PUTs at once, each with the whole form: the later one undoes the earlier, and when their
  renames and reloads cross, file and memory differ until the next save; so they do after a
  rebuild of the usage log that failed, the file being replaced before (`console.go:309`), and
  a hand edit is patched over in the keys the console knows. The history variable `apart` of
  `FileIsInForce` stands for these.
- Sessions are revoked before the rebuild of the usage log, which may fail (`console.go:594`):
  everybody is signed out although the old password stays in force. A sign-in that overlaps a
  reload keeps a session of the old password (`late` in `SessionsMatchPassword`).

The conversion of bodies:

- The gateway's `system_prompt` is lost for a Responses client whose request is converted:
  `responsesCodec.ToCanonical` ignores its options (`codec_responses.go:30`), and
  `applyCanonicalDefaults` (`codec.go:189`) is called by nobody. `HistoryArrives` says so.
- A Responses `input` that is a plain string is dropped for a Chat or Anthropic backend
  (`codec_openai.go:364`); parts of messages ("input_text", "output_text") go unconverted.
- A reasoning item becomes a Chat message with neither role nor content
  (`codec_openai.go:404`), and parallel calls become one assistant message each.
- Messages among the output items of a converted answer have no role.
- An answer of a Responses backend with 200 and the status "failed" becomes a regular end
  ("end_turn", "stop") for an Anthropic or a Chat client (`convert.go:818`, `1407`).
  `AnswerArrives` says so.
- A Responses client's request to a Responses backend is passed through with the thinking it
  has, also what an Anthropic backend signed: the payload of `convert.go:13` reaches a backend
  that does not know it. An Anthropic client replays the thinking blocks without a signature
  that the conversion of an earlier answer gave it (`convert.go:724`, `869`) to an Anthropic
  backend (`server.go:824`), which `convert.go:1063` says would likely reject them.
  `ThinkingIsReplayed` is about converted requests.
- With a `system_prompt`, a Responses `input` that is a plain string is replaced by the prompt
  alone when the request is passed through (`convert.go:158`, `174`); so is a system or
  developer text in array form (`convert.go:127`, `162`), which `convert.go:114` and `149` say
  is prepended to.
- `is_error` of a tool's result is dropped, and so are some forms of a forced `tool_choice`.
- An answer that is cut and has calls is "tool_calls" in a body (`AnswerArrives`), and in a
  stream what the comment quoted above wants to be "length".
- "/v1/completions" begins with "/v1/complete" and is taken for Anthropic's (`route.go:100`),
  although `isOpenAIPath` lists it (`route.go:73`).

## 6. Not modelled, and the plan

In this order:

1. The limit of sign-in attempts per address, whose clean-up may delete an entry that a
   handler holds (`console.go:1138`).
2. `BackendSelector.Select` and `weightedRoundRobin`, which only tests call.

Not modelled. Of the codecs: tools, sampling settings, efforts, images and token counts, which
are mapped field by field; `convertAnthropicRequestToOpenAI`,
`convertAnthropicMessageToOpenAI`, `convertOpenAIResponseToAnthropic`,
`applyCanonicalDefaults`, `handleStreamingConversion` and
`handleStreamingResponsesConversion`, which nothing calls but tests and one another. Of the
configuration: values that are checked one by one (URLs, durations, efforts, temperatures). A
limit saved in the console (`console.go:312`) stays without a property: the code does not keep
the two limits together.

Left out for good: headers and URLs, metrics, the debug log, static assets, the set-up
dialogue and the queries of the console, which keep no state that others depend on.
