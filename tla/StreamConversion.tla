-------------------------- MODULE StreamConversion --------------------------
(***************************************************************************)
(* A streamed response between two protocols (convertStream in             *)
(* internal/server/codec.go): each line of the backend is decoded, and its *)
(* events are encoded for the client, until the stream ends, breaks off or *)
(* cannot be written.                                                      *)
(*                                                                         *)
(* What a backend may send is not in the code: ChatLine, AnthropicLine and *)
(* ResponsesLine follow what the decoders are written for.                 *)
(***************************************************************************)
EXTENDS StreamEncoders, FiniteSets

CONSTANTS Chunks,   \* the chunks of a Chat backend
          MaxLines  \* bound: lines of a backend, by protocol

ASSUME StreamAssumption == Chunks \subseteq Chunk /\ MaxLines \in [Protocols -> Nat]

VARIABLES conv,  \* the protocols of the backend and of the client
          up,    \* the backend: lines sent, open block or item, its index, calls, deltas
                 \* sent, and whether its last line is an error
          dec,   \* the decoder
          enc,   \* the encoder
          out,   \* what the client received
          pc     \* where convertStream is, or how it returned

streamVars == <<conv, up, dec, enc, out, pc>>

From == conv[1]
To == conv[2]

NewDecoder == [protocol \in Protocols |->
                  CASE protocol = "openai"           -> NewChat
                    [] protocol = "anthropic"        -> NewAnthropic
                    [] protocol = "openai-responses" -> <<>>]

NewBackend == [lines |-> 0, open |-> "start", i |-> 0, calls |-> {}, sent |-> <<>>,
               error |-> FALSE]

\* No stream is converted, and nothing is left of the last one.
NoStream == /\ conv = <<"", "">> /\ up = NewBackend /\ dec = <<>> /\ enc = <<>>
            /\ out = <<>> /\ pc = "idle"
StreamForgotten == /\ conv' = <<"", "">> /\ up' = NewBackend /\ dec' = <<>> /\ enc' = <<>>
                   /\ out' = <<>> /\ pc' = "idle"

\* writeResponse, of a stream.
StreamBegins(backend, client) ==
    /\ conv' = <<backend, client>>
    /\ up' = NewBackend
    /\ dec' = NewDecoder[backend]
    /\ enc' = NewEncoder[client]
    /\ out' = <<>>
    /\ pc' = "reading"

-----------------------------------------------------------------------------
(* The loop: a line is read, decoded and encoded.                          *)

CanSend == pc = "reading" /\ up.lines < MaxLines[From] /\ ~up.error
Line == up.lines + 1

Convert(decoded) ==
    LET p == Encode(To, [e |-> enc, out |-> out], decoded.evs)
    IN  /\ dec' = decoded.d
        /\ enc' = p.e
        /\ out' = p.out
        /\ UNCHANGED <<conv, pc>>

\* The backend goes on with block or item `open', after deltas of kinds `sent'.
Sends(open, i, calls, sent) ==
    up' = [lines |-> Line, open |-> open, i |-> i, calls |-> up.calls \cup calls,
           sent |-> up.sent \o sent, error |-> FALSE]

\* A Chat backend may send its deltas in any order.
ChatLine ==
    /\ From = "openai" /\ CanSend
    /\ \E c \in Chunks :
          LET deltas == [k \in DOMAIN c.calls |->
                            <<IF c.calls[k].args THEN "args" ELSE "none", c.calls[k].i, Line>>]
          IN  /\ Convert(DecodeChat(dec, c, Line))
              /\ Sends("start", 0, {c.calls[k].i : k \in DOMAIN c.calls},
                       If(c.reasoning, <<<<"thinking", 0, Line>>>>)
                       \o If(c.content, <<<<"text", 0, Line>>>>)
                       \o Keep(deltas, {"args"} \X Nat \X Nat))

\* An Anthropic backend sends one block after the other.
AnthropicLine ==
    /\ From = "anthropic" /\ CanSend
    /\ \E t \in {"message_start", "block_start", "block_delta", "block_stop", "message_delta"},
          k \in {"none", "thinking", "signature", "redacted", "text", "call", "max_tokens", "tool_use"} :
          /\ \/ t = "message_start" /\ up.open = "start" /\ k = "none"
                /\ Sends("none", 0, {}, <<>>)
             \/ t = "block_start" /\ up.open = "none" /\ k \in {"thinking", "redacted", "text", "call"}
                /\ Sends(k, up.i, IF k = "call" THEN {up.i} ELSE {}, <<>>)
             \/ t = "block_delta" /\ up.open = k /\ k \in {"thinking", "text", "call"}
                /\ Sends(k, up.i, {}, <<<<IF k = "call" THEN "args" ELSE k,
                                          IF k = "call" THEN up.i ELSE 0, Line>>>>)
             \/ t = "block_delta" /\ up.open = "thinking" /\ k = "signature"
                /\ Sends("thinking", up.i, {}, <<>>)
             \/ t = "block_stop" /\ up.open \in {"thinking", "redacted", "text", "call"} /\ k = "none"
                /\ Sends("none", up.i + 1, {}, <<>>)
             \/ t = "message_delta" /\ up.open = "none" /\ k \in {"none", "max_tokens", "tool_use"}
                /\ Sends("over", up.i, {}, <<>>)
          /\ Convert(DecodeAnthropic(dec, [t |-> t, k |-> k, i |-> up.i], Line))

\* Instead of going on, an Anthropic backend sends an error event, which its
\* decoder has no case for, or a Chat backend a chunk that has no choices.
ErrorLine ==
    /\ From \in {"anthropic", "openai"} /\ CanSend
    /\ up' = [up EXCEPT !.lines = Line, !.error = TRUE]
    /\ Convert(IF From = "openai" THEN DecodeChat(dec, NoChoices, Line)
               ELSE DecodeAnthropic(dec, [t |-> "error", k |-> "none", i |-> 0], Line))

\* A Responses backend sends one item after the other.
ResponsesLine ==
    /\ From = "openai-responses" /\ CanSend
    /\ \E t \in CanonicalType, n \in 0..MaxLines[From] :
          /\ \/ t = "created" /\ up.open = "start" /\ n = 0 /\ Sends("none", 0, {}, <<>>)
             \/ t = "item_added" /\ up.open = "none" /\ n = 0 /\ Sends("message", up.i, {}, <<>>)
             \/ t = "thinking_added" /\ up.open = "none" /\ n = 0 /\ Sends("thinking", up.i, {}, <<>>)
             \/ t = "call_added" /\ up.open = "none" /\ n = up.i /\ Sends("call", up.i, {up.i}, <<>>)
             \/ t = "part_added" /\ up.open = "message" /\ n = 0 /\ Sends("text", up.i, {}, <<>>)
             \/ t = "args" /\ up.open = "call" /\ n = Line
                /\ Sends("call", up.i, {}, <<<<t, up.i, Line>>>>)
             \/ t \in {"text", "thinking"} /\ up.open = t /\ n = Line
                /\ Sends(t, up.i, {}, <<<<t, 0, Line>>>>)
             \/ t = "text_done" /\ up.open = "text" /\ n = 0 /\ Sends("done", up.i, {}, <<>>)
             \/ t = "args_done" /\ up.open = "call" /\ n = 0 /\ Sends("done", up.i, {}, <<>>)
             \/ t = "thinking_part_done" /\ up.open = "thinking" /\ n = 0
                /\ Sends("done", up.i, {}, <<>>)
             \/ t = "item_done" /\ up.open = "done" /\ n = 0 /\ Sends("none", up.i + 1, {}, <<>>)
             \/ t \in {"completed", "incomplete"} /\ up.open = "none"
                /\ n = (IF up.calls = {} THEN 0 ELSE 1)
                /\ Sends("over", up.i, {}, <<>>)
             \/ t = "failed" /\ up.open # "over" /\ n = 0 /\ Sends("failed", up.i, {}, <<>>)
          /\ Convert(DecodeResponses(dec, Ev(t, up.i, n)))

-----------------------------------------------------------------------------
(* The three ways out of it.                                               *)

Flushes == CASE From = "openai"           -> {FlushChat(dec, order) : order \in SetToSeqs(dec.calls)}
             [] From = "anthropic"        -> {FlushAnthropic(dec)}
             [] From = "openai-responses" -> {<<>>}

Return(p, how) == /\ enc' = p.e
                  /\ out' = p.out
                  /\ pc' = how
                  /\ UNCHANGED <<conv, up, dec>>

\* The body ends, which it may anywhere.
Ends ==
    /\ pc = "reading"
    /\ \E evs \in Flushes : Return(Close(To, Encode(To, [e |-> enc, out |-> out], evs)), "success")

\* Mutant: a scan error is taken for the end of the body.
BreaksOffSilently ==
    /\ pc = "reading"
    /\ \E evs \in Flushes : Return(Close(To, Encode(To, [e |-> enc, out |-> out], evs)), "stream_error")

\* A line is too long, or the body cannot be read on.
BreaksOff ==
    /\ pc = "reading"
    /\ Return(Close(To, Encode(To, [e |-> enc, out |-> out], <<Plain("failed")>>)), "stream_error")

\* The client is gone, which only the Responses encoder tells.
WriteFails ==
    /\ pc = "reading" /\ To = "openai-responses"
    /\ pc' = "write_error"
    /\ UNCHANGED <<conv, up, dec, enc, out>>

StreamNext == ChatLine \/ AnthropicLine \/ ErrorLine \/ ResponsesLine \/ Ends \/ BreaksOff \/ WriteFails

-----------------------------------------------------------------------------
(* Properties.                                                             *)

\* The call to which a client adds arguments that come as event k, with index
\* i: the last one that began with that index, or none.
CallAt(s, k, i) ==
    LET begun == {j \in 1..(k - 1) : s[j].t \in {"call_start", "call_added"} /\ s[j].i = i}
    IN  IF begun = {} THEN -1 ELSE s[Max(begun)].n

\* The deltas of a client's stream.
DeltaAt(s, k) == <<s[k].t, IF s[k].t = "args" THEN CallAt(s, k, s[k].i) ELSE 0, s[k].n>>
Received(s) ==
    Keep([k \in DOMAIN s |-> DeltaAt(s, k)], {"thinking", "text", "args"} \X Int \X Nat)

\* What there is a place for in the client's protocol.
Shown == (IF To = "openai" THEN {"text", "args"} ELSE {"thinking", "text", "args"}) \X Nat \X Nat

\* Each delta of the backend reaches the client at once, in order and once,
\* arguments with the call they belong to; only thinking is left out for a
\* Chat client.  No order of text, thinking and calls loses one.
ContentArrives == Received(out) = Keep(up.sent, Shown)

\* The blocks that are open before event k of an Anthropic stream.
Begins(s, k) == s[k].t \in {"thinking_start", "text_start", "call_start"}
OpenAt(s, k) == {s[j].i : j \in {j \in 1..(k - 1) : Begins(s, j)}}
                    \ {s[j].i : j \in {j \in 1..(k - 1) : s[j].t = "stop"}}

\* The lifecycle of an Anthropic client's blocks: they are numbered from 0
\* without a gap, within the message; deltas and stops are for open blocks;
\* and message_stop leaves none open.
InLifecycle(s, k) ==
    /\ Begins(s, k) => /\ s[1].t = "message_start"
                       /\ s[k].i = Cardinality({j \in 1..(k - 1) : Begins(s, j)})
    /\ s[k].t \in {"thinking", "text", "args", "stop"} => s[k].i \in OpenAt(s, k)
    /\ s[k].t = "message_stop" => OpenAt(s, k) = {}
BlocksWellFormed == To = "anthropic" => \A k \in DOMAIN out : InLifecycle(out, k)

LastOf(protocol) == CASE protocol = "anthropic"        -> {"message_stop", "error"}
                      [] protocol = "openai"           -> {"DONE"}
                      [] protocol = "openai-responses" -> {"completed", "incomplete", "failed"}

\* A stream ends once, with its last event, after which nothing comes.  It
\* carries an error if it broke off or a Responses backend reported a failure,
\* and not otherwise: after an error event of another backend the end is a
\* regular one.  At a regular end calls are given as the reason to stop, to an
\* Anthropic client also when they were truncated; a Chat client may be told
\* that they were instead.
EndIsTruthful ==
    /\ pc = "reading" => \A k \in DOMAIN out : out[k].t \notin LastOf(To)
    /\ pc \in {"success", "stream_error"} =>
          /\ {k \in DOMAIN out : out[k].t \in LastOf(To)} = {Len(out)}
          /\ (\E k \in DOMAIN out : out[k].t \in {"error", "failed"})
                <=> (pc = "stream_error" \/ up.open = "failed")
    /\ pc = "success" /\ up.calls # {} /\ up.open # "failed" =>
          CASE To = "anthropic" -> out[Len(out) - 1].t = "tool_use"
            [] To = "openai"    -> out[Len(out) - 1].t \in {"tool_calls", "length"}
            [] OTHER            -> TRUE
=============================================================================
