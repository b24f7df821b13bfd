--------------------------- MODULE StreamDecoders ---------------------------
(***************************************************************************)
(* The stream decoders (internal/server/codec_openai.go, codec_anthropic.go*)
(* and codec_responses.go): from a line of a backend to canonical events.  *)
(* A result is a record of the decoder's new state d and the events evs.   *)
(*                                                                         *)
(* Of an event there is its type t, its output index i and what it carries *)
(* as a number n: the delta's place in the stream, or which call of the    *)
(* backend an added item is.  Id, model and usage are left out.            *)
(***************************************************************************)
EXTENDS Codec

Ev(t, i, n) == [t |-> t, i |-> i, n |-> n]
Plain(t) == Ev(t, 0, 0)

\* "item_added" is any item but a call; "completed" and "incomplete" are the
\* status that response.completed reports, with n = 1 if its output lists a
\* call; "failed" is response.failed or error.
CanonicalType ==
    {"created", "item_added", "call_added", "part_added", "text", "text_done",
     "args", "args_done", "thinking_added", "thinking", "thinking_text_done",
     "thinking_part_done", "item_done", "completed", "incomplete", "failed"}

Thought == <<Plain("thinking_text_done"), Plain("thinking_part_done")>>
Emit(p, evs) == [p EXCEPT !.evs = @ \o evs]
If(cond, evs) == IF cond THEN evs ELSE <<>>

-----------------------------------------------------------------------------
(* openaiChatStreamDecoder.  A chunk has any of reasoning, content, deltas *)
(* of calls (with or without arguments) and a finish reason.               *)

Chunk == [reasoning : BOOLEAN, content : BOOLEAN, calls : Seq([i : Nat, args : BOOLEAN]),
          finish : {"none", "stop", "length", "tool_calls"}]

\* A chunk with an empty list of choices, or an error instead of them.
NoChoices == [reasoning |-> FALSE, content |-> FALSE, calls |-> <<>>, finish |-> "none"]

NewChat == [reasoning |-> FALSE, text |-> FALSE, calls |-> {}, finish |-> "none"]

CloseReasoning(d) == If(d.reasoning, Thought)
CloseText(d) == If(d.text, <<Plain("text_done")>>)

ChatCreated(p, c) ==
    Emit(p, If(/\ ~p.d.reasoning /\ ~p.d.text /\ p.d.calls = {}
               /\ c.reasoning \/ c.content \/ c.calls # <<>>, <<Plain("created")>>))

ChatReasoning(p, c, n) ==
    IF ~c.reasoning THEN p
    ELSE [d   |-> [p.d EXCEPT !.reasoning = TRUE],
          evs |-> p.evs \o If(~p.d.reasoning, <<Plain("thinking_added")>>)
                        \o <<Ev("thinking", 0, n)>>]

ChatContent(p, c, n) ==
    IF ~c.content THEN p
    ELSE [d   |-> [p.d EXCEPT !.text = TRUE, !.reasoning = @ /\ p.d.text],
          evs |-> p.evs \o If(~p.d.text, CloseReasoning(p.d)
                                         \o <<Plain("item_added"), Plain("part_added")>>)
                        \o <<Ev("text", 0, n)>>]

\* Mutant: a new call leaves the text open.
ChatNewCallKeepsText(p, i) ==
    IF i \in p.d.calls THEN p
    ELSE [d   |-> [p.d EXCEPT !.reasoning = FALSE, !.calls = @ \cup {i}],
          evs |-> p.evs \o CloseReasoning(p.d) \o CloseText(p.d)
                        \o <<Ev("call_added", i + 1, i)>>]

\* A call is announced once; 0 is the index of the message.
ChatNewCall(p, i) ==
    IF i \in p.d.calls THEN p
    ELSE [d   |-> [p.d EXCEPT !.reasoning = FALSE, !.text = FALSE, !.calls = @ \cup {i}],
          evs |-> p.evs \o CloseReasoning(p.d) \o CloseText(p.d)
                        \o <<Ev("call_added", i + 1, i)>>]

ChatCall(p, call, n) ==
    Emit(ChatNewCall(p, call.i), If(call.args, <<Ev("args", call.i + 1, n)>>))

ChatCalls(p, calls, n) ==
    LET f[k \in 0..Len(calls)] == IF k = 0 THEN p ELSE ChatCall(f[k - 1], calls[k], n)
    IN  f[Len(calls)]

DecodeChat(d, c, n) ==
    LET start == ChatContent(ChatReasoning(ChatCreated([d |-> d, evs |-> <<>>], c), c, n), c, n)
        p     == ChatCalls(start, c.calls, n)
    IN  IF c.finish = "none" THEN p ELSE [p EXCEPT !.d.finish = c.finish]

\* Flush; the calls come in the order in which the map is walked.
FlushChat(d, order) ==
    CloseReasoning(d) \o CloseText(d)
    \o [k \in DOMAIN order |-> Ev("args_done", order[k] + 1, 0)]
    \o <<Plain(IF d.finish = "length" THEN "incomplete" ELSE "completed")>>

-----------------------------------------------------------------------------
(* anthropicStreamDecoder.  thinking and text hold the index of the block  *)
(* that is open, if one is.                                                *)

NewAnthropic == [thinking |-> {}, text |-> {}, calls |-> {}, signed |-> FALSE, stop |-> "none"]

TextDone(d) == If(d.text # {}, <<Plain("text_done")>>)
ThinkingDone(d) ==
    If(d.thinking # {}, Thought \o If(d.signed, <<Plain("item_done")>>))

StartBlock(d, l) ==
    CASE l.k = "thinking" -> [d   |-> [d EXCEPT !.thinking = {l.i}, !.signed = FALSE],
                              evs |-> <<Plain("thinking_added")>>]
      [] l.k = "redacted" -> [d   |-> d, evs |-> <<Ev("item_done", l.i, 0)>>]
      [] l.k = "text"     -> [d   |-> [d EXCEPT !.text = {l.i}],
                              evs |-> <<Ev("item_added", l.i, 0), Ev("part_added", l.i, 0)>>]
      [] l.k = "call"     -> [d   |-> [d EXCEPT !.text = {}, !.calls = @ \cup {l.i}],
                              evs |-> TextDone(d) \o <<Ev("call_added", l.i, l.i)>>]

BlockDelta(d, l, n) ==
    CASE l.k = "thinking"  -> [d |-> d, evs |-> If(d.thinking # {}, <<Ev("thinking", 0, n)>>)]
      [] l.k = "signature" -> [d |-> [d EXCEPT !.signed = @ \/ d.thinking # {}], evs |-> <<>>]
      [] l.k = "text"      -> [d |-> d, evs |-> If(d.text # {}, <<Ev("text", l.i, n)>>)]
      [] l.k = "call"      -> [d |-> d, evs |-> If(l.i \in d.calls, <<Ev("args", l.i, n)>>)]

StopBlock(d, l) ==
    CASE l.i \in d.thinking -> [d |-> [d EXCEPT !.thinking = {}], evs |-> ThinkingDone(d)]
      [] l.i \in d.text     -> [d |-> [d EXCEPT !.text = {}], evs |-> TextDone(d)]
      [] l.i \in d.calls    -> [d |-> [d EXCEPT !.calls = @ \ {l.i}],
                                evs |-> <<Ev("args_done", l.i, 0)>>]
      [] OTHER              -> [d |-> d, evs |-> <<>>]

\* message_stop, ping and an error of the backend have no effect.
DecodeAnthropic(d, l, n) ==
    CASE l.t = "message_start" -> [d |-> d, evs |-> <<Plain("created")>>]
      [] l.t = "block_start"   -> StartBlock(d, l)
      [] l.t = "block_delta"   -> BlockDelta(d, l, n)
      [] l.t = "block_stop"    -> StopBlock(d, l)
      [] l.t = "message_delta" -> [d |-> [d EXCEPT !.stop = l.k], evs |-> <<>>]
      [] OTHER                 -> [d |-> d, evs |-> <<>>]

FlushAnthropic(d) ==
    ThinkingDone(d) \o TextDone(d)
    \o <<Plain(IF d.stop = "max_tokens" THEN "incomplete" ELSE "completed")>>

-----------------------------------------------------------------------------
(* responsesStreamDecoder: what it reads is canonical.                     *)

DecodeResponses(d, ev) == [d |-> d, evs |-> <<ev>>]
=============================================================================
