--------------------------- MODULE StreamEncoders ---------------------------
(***************************************************************************)
(* The stream encoders (internal/server/codec_anthropic.go, codec_openai.go*)
(* and codec_responses.go): from canonical events to what a client gets.   *)
(* They work on a record p of the encoder's state e and the client's       *)
(* stream out, of events as in StreamDecoders.                             *)
(***************************************************************************)
EXTENDS StreamDecoders, Functions

Put(p, ev) == [p EXCEPT !.out = Append(@, ev)]
PutAll(p, evs) == [p EXCEPT !.out = @ \o evs]

-----------------------------------------------------------------------------
(* anthropicStreamEncoder.  thinking and text hold the index of the block  *)
(* that is open, if one is; calls maps an output index to its block.       *)

NewAnthropicEncoder == [started |-> FALSE, next |-> 0, thinking |-> {}, text |-> {},
                        calls |-> <<>>, saw |-> FALSE, stop |-> "end_turn", failed |-> FALSE]

Stops(blocks) == LET order == SetToSeq(blocks)
                 IN  [k \in DOMAIN order |-> Ev("stop", order[k], 0)]

Start(p) == IF p.e.started THEN p
            ELSE Put([p EXCEPT !.e.started = TRUE], Plain("message_start"))
StopThinking(p) == PutAll([p EXCEPT !.e.thinking = {}], Stops(p.e.thinking))
StopText(p) == PutAll([p EXCEPT !.e.text = {}], Stops(p.e.text))

StartThinking(p) ==
    IF p.e.thinking # {} THEN p
    ELSE Put([p EXCEPT !.e.thinking = {p.e.next}, !.e.next = @ + 1],
             Ev("thinking_start", p.e.next, 0))

StartText(p) ==
    IF p.e.text # {} THEN p
    ELSE Put([p EXCEPT !.e.text = {p.e.next}, !.e.next = @ + 1], Ev("text_start", p.e.next, 0))

StartCall(p, ev) ==
    Put([p EXCEPT !.e.calls = [i \in DOMAIN @ \cup {ev.i} |-> IF i = ev.i THEN p.e.next ELSE @[i]],
                  !.e.next = @ + 1, !.e.saw = TRUE],
        Ev("call_start", p.e.next, ev.n))

StopCall(p, i) ==
    Put([p EXCEPT !.e.calls = Restrict(@, DOMAIN @ \ {i})], Ev("stop", p.e.calls[i], 0))

AnthropicDelta(p, ev, open) ==
    IF open = {} THEN p ELSE Put(p, Ev(ev.t, CHOOSE block \in open : TRUE, ev.n))

\* processResponsesEvent.
EncodeAnthropic(p, ev) ==
    LET call == IF ev.i \in DOMAIN p.e.calls THEN {p.e.calls[ev.i]} ELSE {}
    IN CASE ev.t = "item_added"     -> Start(p)
         [] ev.t = "call_added"     -> StartCall(StopText(StopThinking(Start(p))), ev)
         [] ev.t = "part_added"     -> StartText(StopThinking(Start(p)))
         [] ev.t = "thinking_added" -> StartThinking(Start(p))
         [] ev.t = "text"           -> AnthropicDelta(p, ev, p.e.text)
         [] ev.t = "thinking"       -> AnthropicDelta(p, ev, p.e.thinking)
         [] ev.t = "args"           -> AnthropicDelta(p, ev, call)
         [] ev.t = "text_done"      -> StopText(p)
         [] ev.t = "args_done"      -> IF call = {} THEN p ELSE StopCall(p, ev.i)
         [] ev.t = "completed"      -> [p EXCEPT !.e.stop = "end_turn", !.e.saw = @ \/ ev.n = 1]
         [] ev.t = "incomplete"     -> [p EXCEPT !.e.stop = "max_tokens", !.e.saw = @ \/ ev.n = 1]
         [] ev.t = "failed"         -> [p EXCEPT !.e.failed = TRUE]
         [] OTHER                   -> p

\* Mutant: the blocks of calls stay open.
CloseAnthropicWithoutCalls(p) ==
    IF p.e.failed THEN Put(p, Plain("error"))
    ELSE PutAll(StopText(StopThinking(p)),
                <<Plain(IF p.e.saw THEN "tool_use" ELSE p.e.stop), Plain("message_stop")>>)

CloseAnthropic(p) ==
    IF p.e.failed THEN Put(p, Plain("error"))
    ELSE LET calls == {p.e.calls[i] : i \in DOMAIN p.e.calls}
             q     == PutAll([StopText(StopThinking(p)) EXCEPT !.e.calls = <<>>], Stops(calls))
         IN  PutAll(q, <<Plain(IF p.e.saw THEN "tool_use" ELSE p.e.stop), Plain("message_stop")>>)

-----------------------------------------------------------------------------
(* openaiChatStreamEncoder.  Thinking has no place in its protocol.        *)

NewChatEncoder == [text |-> FALSE, calls |-> {}, finish |-> "none"]

EncodeChat(p, ev) ==
    CASE ev.t = "call_added" -> Put([p EXCEPT !.e.calls = @ \cup {ev.i}], Ev("call_start", ev.i, ev.n))
      [] ev.t = "text"       -> PutAll([p EXCEPT !.e.text = TRUE],
                                       If(~p.e.text, <<Plain("role")>>) \o <<ev>>)
      [] ev.t = "args"       -> IF ev.i \in p.e.calls THEN Put(p, ev) ELSE p
      [] ev.t = "completed"  -> [p EXCEPT !.e.finish = IF ev.n = 1 THEN "tool_calls" ELSE "stop"]
      [] ev.t = "incomplete" -> [p EXCEPT !.e.finish = IF ev.n = 1 THEN "tool_calls" ELSE "length"]
      [] ev.t = "failed"     -> Put(p, Plain("error"))
      [] OTHER               -> p

CloseChat(p) ==
    PutAll(p, <<Plain(CASE p.e.calls # {} /\ p.e.finish # "length" -> "tool_calls"
                        [] p.e.calls = {} /\ p.e.finish = "none"   -> "stop"
                        [] OTHER                                   -> p.e.finish),
                Plain("DONE")>>)

-----------------------------------------------------------------------------
(* responsesStreamEncoder: a client of this protocol gets what is          *)
(* canonical, and Close adds nothing.                                      *)

NewEncoder == [protocol \in Protocols |->
                  CASE protocol = "anthropic"        -> NewAnthropicEncoder
                    [] protocol = "openai"           -> NewChatEncoder
                    [] protocol = "openai-responses" -> <<>>]

EncodeOne(to, p, ev) == CASE to = "anthropic"        -> EncodeAnthropic(p, ev)
                          [] to = "openai"           -> EncodeChat(p, ev)
                          [] to = "openai-responses" -> Put(p, ev)

Encode(to, p, evs) ==
    LET f[k \in 0..Len(evs)] == IF k = 0 THEN p ELSE EncodeOne(to, f[k - 1], evs[k])
    IN  f[Len(evs)]

Close(to, p) == CASE to = "anthropic"        -> CloseAnthropic(p)
                  [] to = "openai"           -> CloseChat(p)
                  [] to = "openai-responses" -> p
=============================================================================
