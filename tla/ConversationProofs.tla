-------------------------- MODULE ConversationProofs --------------------------
(* A stream as a whole, from what ExchangeProofs says of decoders and          *)
(* encoders; and the conversion of a conversation's bodies, for any            *)
(* conversations and any backends: a client's body has what was said (Has), its canonical form      *)
(* carries it, and so does each backend's form of that; an answer keeps its   *)
(* text, its thinking, its calls and its end on the way back.                 *)
EXTENDS ExchangeProofs

-----------------------------------------------------------------------------
(* The stream: what the client has is what the backend has sent.              *)

StreamInv ==
    /\ pc \in {"idle", "reading", "success", "stream_error", "write_error"}
    /\ pc = "idle" => To = "" /\ out = <<>> /\ up = NewBackend
    /\ pc \in {"reading", "write_error"} => Streaming(From, To, dec, up, [e |-> enc, out |-> out])
    /\ pc = "success" => To \in Protocols /\ EndedAs(out, To, up, up.open = "failed")
    /\ pc = "stream_error" => To \in Protocols /\ EndedAs(out, To, up, TRUE)

LEMMA StreamStarts ==
    ASSUME NEW from \in Protocols, NEW to \in Protocols, from # to
    PROVE  Streaming(from, to, NewDecoder[from], NewBackend, [e |-> NewEncoder[to], out |-> <<>>])
<1>1. PICK d, u, p : d = NewDecoder[from] /\ u = NewBackend /\ p = [e |-> NewEncoder[to], out |-> <<>>]
  OBVIOUS
<1>2. PICK s \in Seq(Deltas) : s = <<>>
  BY EmptySeq
<1>3. u = [lines |-> 0, open |-> "start", i |-> 0, calls |-> {}, sent |-> s, error |-> FALSE]
  BY <1>1, <1>2 DEF NewBackend
<1>4. u \in Backends
  <2>1. "start" \in OpenStates /\ {} \in {S \in SUBSET Nat : IsFiniteSet(S)}
    BY FS_EmptySet DEF OpenStates
  <2>2. QED
    BY <1>3, <2>1 DEF Backends
<1>5. u.open = "start" /\ u.i = 0 /\ u.calls = {} /\ u.sent = s
  BY <1>3
<1>6. CASE from = "openai"
  <2>1. d = [reasoning |-> FALSE, text |-> FALSE, calls |-> {}, finish |-> "none"]
    BY <1>1, <1>6 DEF NewDecoder, NewChat
  <2>2. d \in ChatDecoder /\ d.text = FALSE /\ d.reasoning = FALSE /\ d.calls = {}
    BY <2>1 DEF ChatDecoder
  <2>3. SourceOK(from, d, u)
    BY <1>4, <1>5, <1>6, <2>2 DEF SourceOK
  <2>4. SourceTold(from, d, u) = ToldNothing(from)
    <3>1. SourceTold(from, d, u) = ChatSays(FALSE, FALSE, {}, <<>>)
      BY <1>2, <1>5, <1>6, <2>2, Zenon DEF SourceTold, ChatTold
    <3>2. {i + 1 : i \in {}} = {} /\ ({} # {}) = FALSE
      OBVIOUS
    <3>3. ChatSays(FALSE, FALSE, {}, <<>>) = ToldNothing("openai")
      BY <3>2, Zenon DEF ChatSays, ToldNothing
    <3>4. QED
      BY <1>6, <3>1, <3>3
  <2>5. QED
    BY <1>1, <2>3, <2>4, SinkBegins, Zenon DEF Streaming
<1>7. CASE from # "openai"
  <2>1. SourceOK(from, d, u)
    <3>1. CASE from = "anthropic"
      <4>1. d = [thinking |-> {}, text |-> {}, calls |-> {}, signed |-> FALSE, stop |-> "none"]
        BY <1>1, <3>1 DEF NewDecoder, NewAnthropic
      <4>2. d \in AnthropicDecoder /\ d.thinking = {} /\ d.text = {} /\ d.calls = {}
        BY <4>1 DEF AnthropicDecoder
      <4>3. AnthropicAt(d, "start", 0)
        BY <4>2 DEF AnthropicAt
      <4>4. QED
        BY <1>4, <1>5, <1>7, <4>3 DEF SourceOK
    <3>2. CASE from # "anthropic"
      BY <1>4, <1>5, <1>7, <3>2 DEF SourceOK
    <3>3. QED
      BY <3>1, <3>2
  <2>2. SourceTold(from, d, u) = ToldNothing(from)
    <3>1. SourceTold(from, d, u) = BlockSays(from, "start", 0, u.calls # {}, <<>>)
      BY <1>2, <1>5, <1>7, Zenon DEF SourceTold
    <3>2. /\ (u.calls # {}) = FALSE /\ ("start" = "text") = FALSE /\ ("start" = "thinking") = FALSE
          /\ ("start" = "failed") = FALSE
          /\ (from = "openai-responses" /\ "start" \in {"over", "failed"}) = FALSE
          /\ (IF "start" = "call" THEN {0} ELSE {}) = {}
      BY <1>5
    <3>3. BlockSays(from, "start", 0, u.calls # {}, <<>>) = ToldNothing(from)
      BY <3>2, Zenon DEF BlockSays, ToldNothing
    <3>4. QED
      BY <3>1, <3>3
  <2>3. QED
    BY <1>1, <2>1, <2>2, SinkBegins, Zenon DEF Streaming
<1>8. QED
  BY <1>6, <1>7

\* A converted line.
LEMMA ConvertStep ==
    ASSUME StreamInv, pc = "reading", NEW q, Convert(q), NEW v, v = up',
           SourceGoes(From, dec, up, q, v)
    PROVE  StreamInv'
<1>1. PICK from, to, d, u, p : /\ from = From /\ to = To /\ d = dec /\ u = up
                               /\ p = [e |-> enc, out |-> out]
  OBVIOUS
<1>2. Streaming(from, to, d, u, p) /\ SourceGoes(from, d, u, q, v)
  BY <1>1 DEF StreamInv
<1>3. PICK r : r = Encode(to, p, q.evs)
  OBVIOUS
<1>4. Streaming(from, to, q.d, v, [e |-> r.e, out |-> r.out])
  BY <1>2, <1>3, LineStep
<1>5. /\ dec' = q.d /\ enc' = r.e /\ out' = r.out /\ pc' = pc /\ conv' = conv
  BY <1>1, <1>3 DEF Convert
<1>6. From' = from /\ To' = to
  BY <1>1, <1>5 DEF From, To
<1>7. Streaming(From', To', dec', up', [e |-> enc', out |-> out'])
  BY <1>4, <1>5, <1>6, Zenon
<1>8. QED
  BY <1>5, <1>7 DEF StreamInv

\* The line that is read, and the backend that has sent it.
LEMMA LineRead ==
    ASSUME StreamInv, CanSend
    PROVE  /\ pc = "reading" /\ From \in Protocols /\ SourceOK(From, dec, up) /\ Line \in Nat
           /\ \A at, i, calls, sent : Sends(at, i, calls, sent) => up' = Sending(up, Line, at, i, calls, sent)
<1>1. pc = "reading" /\ Streaming(From, To, dec, up, [e |-> enc, out |-> out])
  BY DEF CanSend, StreamInv
<1>2. From \in Protocols /\ SourceOK(From, dec, up)
  BY <1>1 DEF Streaming
<1>3. up.lines \in Nat
  BY <1>2 DEF SourceOK, Backends
<1>4. Line \in Nat
  BY <1>3 DEF Line
<1>5. \A at, i, calls, sent : Sends(at, i, calls, sent) => up' = Sending(up, Line, at, i, calls, sent)
  BY Zenon DEF Sends, Sending
<1>6. QED
  BY <1>1, <1>2, <1>4, <1>5

LEMMA ChatLineStep ==
    ASSUME StreamInv, ChatLine
    PROVE  StreamInv'
<1>1. From = "openai" /\ CanSend
  BY DEF ChatLine
<1>2. PICK n, d, u, v : n = Line /\ d = dec /\ u = up /\ v = up'
  OBVIOUS
<1>3. /\ pc = "reading" /\ SourceOK("openai", d, u) /\ n \in Nat
      /\ \A at, i, calls, sent : Sends(at, i, calls, sent) => v = Sending(u, n, at, i, calls, sent)
  BY <1>1, <1>2, LineRead
<1>4. PICK c \in Chunks :
         /\ Convert(DecodeChat(dec, c, Line))
         /\ Sends("start", 0, {c.calls[k].i : k \in DOMAIN c.calls},
                  If(c.reasoning, <<<<"thinking", 0, Line>>>>)
                  \o If(c.content, <<<<"text", 0, Line>>>>)
                  \o CallDeltas(c.calls, Line))
  BY Zenon DEF ChatLine, CallDeltas
<1>5. c \in Chunk
  BY StreamAssumption
<1>6. Sends("start", 0, {c.calls[k].i : k \in DOMAIN c.calls}, ChatSent(c, n))
  BY <1>2, <1>4, Zenon DEF ChatSent
<1>7. v = Sending(u, n, "start", 0, {c.calls[k].i : k \in DOMAIN c.calls}, ChatSent(c, n))
  BY <1>3, <1>6, Zenon
<1>8. PICK q : q = DecodeChat(d, c, n)
  OBVIOUS
<1>9. SourceGoes("openai", d, u, q, v)
  BY <1>3, <1>5, <1>7, <1>8, ChatGoes
<1>10. Convert(q) /\ SourceGoes(From, dec, up, q, v)
  BY <1>1, <1>2, <1>4, <1>8, <1>9
<1>11. QED
  BY <1>2, <1>3, <1>10, ConvertStep

LEMMA AnthropicLineStep ==
    ASSUME StreamInv, AnthropicLine
    PROVE  StreamInv'
<1>1. From = "anthropic" /\ CanSend
  BY DEF AnthropicLine
<1>2. PICK n, d, u, v : n = Line /\ d = dec /\ u = up /\ v = up'
  OBVIOUS
<1>3. /\ pc = "reading" /\ SourceOK("anthropic", d, u) /\ n \in Nat
      /\ \A at, i, calls, sent : Sends(at, i, calls, sent) => v = Sending(u, n, at, i, calls, sent)
  BY <1>1, <1>2, LineRead
<1>4. PICK t, k :
         /\ \/ t = "message_start" /\ up.open = "start" /\ k = "none"
               /\ Sends("none", 0, {}, <<>>)
            \/ t = "block_start" /\ up.open = "none" /\ k \in {"thinking", "redacted", "text", "call"}
               /\ Sends(k, up.i, IF k = "call" THEN {up.i} ELSE {}, <<>>)
            \/ t = "block_delta" /\ up.open = k /\ k \in {"thinking", "text", "call"}
               /\ Sends(k, up.i, {}, <<<<IF k = "call" THEN "args" ELSE k,
                                         IF k = "call" THEN up.i ELSE 0, Line>>>>)
            \/ t = "block_delta" /\ up.open = "thinking" /\ k = "signature"
               /\ Sends("thinking", up.i, {}, <<>>)
            \/ t = "block_stop" /\ up.open \in {"thinking", "redacted", "text", "call"} /\ k = "none"
               /\ Sends("none", up.i + 1, {}, <<>>)
            \/ t = "message_delta" /\ up.open = "none" /\ k \in {"none", "max_tokens", "tool_use"}
               /\ Sends("over", up.i, {}, <<>>)
         /\ Convert(DecodeAnthropic(dec, [t |-> t, k |-> k, i |-> up.i], Line))
  BY Zenon DEF AnthropicLine
<1>5. PICK l, q : l = [t |-> t, k |-> k, i |-> u.i] /\ q = DecodeAnthropic(d, l, n)
  OBVIOUS
<1>6. \/ t = "message_start" /\ u.open = "start" /\ v = Sending(u, n, "none", 0, {}, <<>>)
      \/ /\ t = "block_start" /\ u.open = "none" /\ k \in {"thinking", "redacted", "text"}
         /\ v = Sending(u, n, k, u.i, {}, <<>>)
      \/ /\ t = "block_start" /\ u.open = "none" /\ k = "call"
         /\ v = Sending(u, n, k, u.i, {u.i}, <<>>)
      \/ /\ t = "block_delta" /\ u.open = k /\ k \in {"thinking", "text", "call"}
         /\ v = Sending(u, n, k, u.i, {}, <<<<IF k = "call" THEN "args" ELSE k,
                                              IF k = "call" THEN u.i ELSE 0, n>>>>)
      \/ /\ t = "block_delta" /\ u.open = "thinking" /\ k = "signature"
         /\ v = Sending(u, n, "thinking", u.i, {}, <<>>)
      \/ /\ t = "block_stop" /\ u.open \in {"thinking", "redacted", "text", "call"}
         /\ v = Sending(u, n, "none", u.i + 1, {}, <<>>)
      \/ /\ t = "message_delta" /\ u.open = "none" /\ k \in {"none", "max_tokens", "tool_use"}
         /\ v = Sending(u, n, "over", u.i, {}, <<>>)
  <2>1. CASE t = "message_start" /\ up.open = "start" /\ Sends("none", 0, {}, <<>>)
    <3>1. v = Sending(u, n, "none", 0, {}, <<>>)
      BY <1>2, <1>3, <2>1, Zenon
    <3>2. QED
      BY <1>2, <2>1, <3>1
  <2>2. CASE t = "block_start" /\ up.open = "none" /\ k \in {"thinking", "redacted", "text", "call"}
             /\ Sends(k, up.i, IF k = "call" THEN {up.i} ELSE {}, <<>>)
    <3>1. v = Sending(u, n, k, u.i, IF k = "call" THEN {u.i} ELSE {}, <<>>)
      BY <1>2, <1>3, <2>2, Zenon
    <3>2. CASE k = "call"
      BY <1>2, <2>2, <3>1, <3>2
    <3>3. CASE k # "call"
      BY <1>2, <2>2, <3>1, <3>3
    <3>4. QED
      BY <3>2, <3>3
  <2>3. CASE t = "block_delta" /\ up.open = k /\ k \in {"thinking", "text", "call"}
             /\ Sends(k, up.i, {}, <<<<IF k = "call" THEN "args" ELSE k,
                                       IF k = "call" THEN up.i ELSE 0, Line>>>>)
    <3>1. v = Sending(u, n, k, u.i, {}, <<<<IF k = "call" THEN "args" ELSE k,
                                            IF k = "call" THEN u.i ELSE 0, n>>>>)
      BY <1>2, <1>3, <2>3, ZenonT(60)
    <3>2. QED
      BY <1>2, <2>3, <3>1
  <2>4. CASE t = "block_delta" /\ up.open = "thinking" /\ k = "signature" /\ Sends("thinking", up.i, {}, <<>>)
    <3>1. v = Sending(u, n, "thinking", u.i, {}, <<>>)
      BY <1>2, <1>3, <2>4, Zenon
    <3>2. QED
      BY <1>2, <2>4, <3>1
  <2>5. CASE t = "block_stop" /\ up.open \in {"thinking", "redacted", "text", "call"} /\ k = "none"
             /\ Sends("none", up.i + 1, {}, <<>>)
    <3>1. v = Sending(u, n, "none", u.i + 1, {}, <<>>)
      BY <1>2, <1>3, <2>5, Zenon
    <3>2. QED
      BY <1>2, <2>5, <3>1
  <2>6. CASE t = "message_delta" /\ up.open = "none" /\ k \in {"none", "max_tokens", "tool_use"}
             /\ Sends("over", up.i, {}, <<>>)
    <3>1. v = Sending(u, n, "over", u.i, {}, <<>>)
      BY <1>2, <1>3, <2>6, Zenon
    <3>2. QED
      BY <1>2, <2>6, <3>1
  <2>7. QED
    BY <1>4, <2>1, <2>2, <2>3, <2>4, <2>5, <2>6
<1>7. SourceGoes("anthropic", d, u, q, v)
  BY <1>3, <1>5, <1>6, AnthropicGoes
<1>8. Convert(q) /\ SourceGoes(From, dec, up, q, v)
  BY <1>1, <1>2, <1>4, <1>5, <1>7
<1>9. QED
  BY <1>2, <1>3, <1>8, ConvertStep

LEMMA ErrorLineStep ==
    ASSUME StreamInv, ErrorLine
    PROVE  StreamInv'
<1>1. From \in {"anthropic", "openai"} /\ CanSend
  BY DEF ErrorLine
<1>2. PICK from, n, d, u, v : from = From /\ n = Line /\ d = dec /\ u = up /\ v = up'
  OBVIOUS
<1>3. pc = "reading" /\ SourceOK(from, d, u) /\ n \in Nat
  BY <1>1, <1>2, LineRead
<1>4. PICK q : q = IF from = "openai" THEN DecodeChat(d, NoChoices, n)
                   ELSE DecodeAnthropic(d, [t |-> "error", k |-> "none", i |-> 0], n)
  OBVIOUS
<1>5. Convert(q)
  BY <1>2, <1>4, Zenon DEF ErrorLine
<1>6. v = [u EXCEPT !.lines = n, !.error = TRUE]
  BY <1>2 DEF ErrorLine
<1>7. u \in Backends
  BY <1>3 DEF SourceOK
<1>8. v \in Backends /\ v.open = u.open /\ v.i = u.i /\ v.calls = u.calls /\ v.sent = u.sent
  <2>1. PICK lines, opened, i, calls, sent, error :
           u = [lines |-> lines, open |-> opened, i |-> i, calls |-> calls, sent |-> sent, error |-> error]
    BY <1>7 DEF Backends
  <2>2. v = [lines |-> n, open |-> opened, i |-> i, calls |-> calls, sent |-> sent, error |-> TRUE]
    BY <1>6, <2>1
  <2>3. /\ opened \in OpenStates /\ i \in Nat /\ sent \in Seq(Deltas)
        /\ calls \in {S \in SUBSET Nat : IsFiniteSet(S)}
    BY <1>7, <2>1 DEF Backends
  <2>4. v \in Backends
    BY <1>3, <2>2, <2>3 DEF Backends
  <2>5. QED
    BY <2>1, <2>2, <2>4
<1>9. PICK s : s = u.sent
  OBVIOUS
<1>10. s \in Seq(Deltas)
  BY <1>7, <1>9 DEF Backends
<1>11. CASE from = "openai"
  <2>1. PICK ch : ch = NoChoices
    OBVIOUS
  <2>2. ch \in Chunk /\ ch.reasoning = FALSE /\ ch.content = FALSE /\ ch.calls = <<>>
    <3>1. <<>> \in Seq([i : Nat, args : BOOLEAN])
      BY EmptySeq
    <3>2. QED
      BY <2>1, <3>1 DEF NoChoices, Chunk
  <2>3. CallDeltas(ch.calls, n) = <<>>
    <3>1. ASSUME NEW f, f = [k \in DOMAIN ch.calls |-> <<IF ch.calls[k].args THEN "args" ELSE "none",
                                                         ch.calls[k].i, n>>]
          PROVE  f = <<>>
      <4>1. DOMAIN ch.calls = 1..0
        BY <2>2
      <4>2. f \in [1..0 -> Deltas]
        BY <3>1, <4>1
      <4>3. f \in Seq(Deltas) /\ Len(f) = 0
        BY <4>2, FunctionIsSeq
      <4>4. QED
        BY <4>3, EmptySeq
    <3>2. PICK f : f = [k \in DOMAIN ch.calls |-> <<IF ch.calls[k].args THEN "args" ELSE "none",
                                                   ch.calls[k].i, n>>]
      OBVIOUS
    <3>3. f = <<>>
      BY <3>1, <3>2
    <3>4. QED
      BY <3>2, <3>3, KeptNone, Zenon DEF CallDeltas
  <2>4. ChatSent(ch, n) = <<>> \o <<>> \o <<>>
    BY <2>2, <2>3, Zenon DEF ChatSent, If
  <2>5. PICK w : w = ChatSent(ch, n)
    OBVIOUS
  <2>6. w = <<>>
    BY <2>4, <2>5
  <2>7. s = s \o w
    BY <1>10, <2>6
  <2>8. d \in ChatDecoder /\ d.calls = u.calls
    BY <1>3, <1>11 DEF SourceOK
  <2>9. ChatLineTold(d, s, q, s, ch)
    <3>1. q = DecodeChat(d, ch, n) /\ s = s \o ChatSent(ch, n)
      BY <1>4, <1>11, <2>1, <2>5, <2>7
    <3>2. QED
      BY <1>3, <1>10, <2>2, <2>8, <3>1, ChatDecodes
  <2>10. /\ q.d \in ChatDecoder /\ Carries(ChatTold(d, s), q.evs, ChatTold(q.d, s))
         /\ q.d.calls = d.calls
    <3>1. {ch.calls[k].i : k \in DOMAIN ch.calls} = {}
      BY <2>2
    <3>2. QED
      BY <2>9, <3>1 DEF ChatLineTold
  <2>11. SourceOK(from, q.d, v)
    BY <1>3, <1>8, <1>11, <2>8, <2>10 DEF SourceOK
  <2>12. SourceTold(from, d, u) = ChatTold(d, s) /\ SourceTold(from, q.d, v) = ChatTold(q.d, s)
    BY <1>8, <1>9, <1>11 DEF SourceTold
  <2>13. SourceGoes(From, dec, up, q, v)
    BY <1>2, <2>10, <2>11, <2>12 DEF SourceGoes
  <2>14. QED
    BY <1>2, <1>3, <1>5, <2>13, ConvertStep
<1>12. CASE from = "anthropic"
  <2>1. q = [d |-> d, evs |-> <<>>]
    <3>1. PICK l : l = [t |-> "error", k |-> "none", i |-> 0]
      OBVIOUS
    <3>2. l.t = "error"
      BY <3>1
    <3>3. DecodeAnthropic(d, l, n) = [d |-> d, evs |-> <<>>]
      BY <3>2 DEF DecodeAnthropic
    <3>4. QED
      BY <1>4, <1>12, <3>1, <3>3
  <2>2. q.d = d /\ q.evs = <<>>
    BY <2>1
  <2>3. SourceOK(from, q.d, v)
    BY <1>3, <1>8, <1>12, <2>2 DEF SourceOK
  <2>4. PICK c : c = SourceTold(from, d, u)
    OBVIOUS
  <2>5. SourceTold(from, q.d, v) = c
    BY <1>8, <1>12, <2>2, <2>4 DEF SourceTold
  <2>6. c \in Told
    <3>1. PICK b \in BOOLEAN : b = (u.calls # {})
      OBVIOUS
    <3>2. c = BlockSays(from, u.open, u.i, b, s)
      BY <1>9, <1>12, <2>4, <3>1 DEF SourceTold
    <3>3. from \in BlockProtocols /\ u.open \in OpenStates /\ u.i \in Nat
      BY <1>7, <1>12 DEF Backends, BlockProtocols
    <3>4. QED
      BY <1>10, <3>2, <3>3, BlockTypes
  <2>7. Carries(c, <<>>, c)
    BY <2>6, CarriesNone
  <2>8. SourceGoes(From, dec, up, q, v)
    BY <1>2, <2>2, <2>3, <2>4, <2>5, <2>7 DEF SourceGoes
  <2>9. QED
    BY <1>2, <1>3, <1>5, <2>8, ConvertStep
<1>13. QED
  BY <1>1, <1>2, <1>11, <1>12

LEMMA ResponsesLineStep ==
    ASSUME StreamInv, ResponsesLine
    PROVE  StreamInv'
<1>1. From = "openai-responses" /\ CanSend
  BY DEF ResponsesLine
<1>2. PICK m, d, u, v : m = Line /\ d = dec /\ u = up /\ v = up'
  OBVIOUS
<1>3. /\ pc = "reading" /\ SourceOK("openai-responses", d, u) /\ m \in Nat /\ From \in Protocols
      /\ \A at, i, calls, sent : Sends(at, i, calls, sent) => v = Sending(u, m, at, i, calls, sent)
  BY <1>1, <1>2, LineRead
<1>4. u.i \in Nat /\ u.open \in OpenStates
  BY <1>3 DEF SourceOK, Backends
<1>5. PICK t, n :
         /\ t \in CanonicalType /\ n \in 0..MaxLines[From]
         /\ \/ t = "created" /\ up.open = "start" /\ n = 0 /\ Sends("none", 0, {}, <<>>)
            \/ t = "item_added" /\ up.open = "none" /\ n = 0 /\ Sends("message", up.i, {}, <<>>)
            \/ t = "thinking_added" /\ up.open = "none" /\ n = 0 /\ Sends("thinking", up.i, {}, <<>>)
            \/ t = "call_added" /\ up.open = "none" /\ n = up.i /\ Sends("call", up.i, {up.i}, <<>>)
            \/ t = "part_added" /\ up.open = "message" /\ n = 0 /\ Sends("text", up.i, {}, <<>>)
            \/ t = "args" /\ up.open = "call" /\ n = Line
               /\ Sends("call", up.i, {}, <<<<t, up.i, Line>>>>)
            \/ t \in {"text", "thinking"} /\ up.open = t /\ n = Line
               /\ Sends(t, up.i, {}, <<<<t, 0, Line>>>>)
            \/ t = "text_done" /\ up.open = "text" /\ n = 0 /\ Sends("done", up.i, {}, <<>>)
            \/ t = "args_done" /\ up.open = "call" /\ n = 0 /\ Sends("done", up.i, {}, <<>>)
            \/ t = "thinking_part_done" /\ up.open = "thinking" /\ n = 0
               /\ Sends("done", up.i, {}, <<>>)
            \/ t = "item_done" /\ up.open = "done" /\ n = 0 /\ Sends("none", up.i + 1, {}, <<>>)
            \/ t \in {"completed", "incomplete"} /\ up.open = "none"
               /\ n = (IF up.calls = {} THEN 0 ELSE 1)
               /\ Sends("over", up.i, {}, <<>>)
            \/ t = "failed" /\ up.open # "over" /\ n = 0 /\ Sends("failed", up.i, {}, <<>>)
         /\ Convert(DecodeResponses(dec, Ev(t, up.i, n)))
  BY Zenon DEF ResponsesLine
<1>6. n \in Nat
  <2>1. MaxLines[From] \in Nat
    BY <1>3, StreamAssumption
  <2>2. QED
    BY <1>5, <2>1
<1>7. PICK ev : ev = Ev(t, u.i, n)
  OBVIOUS
<1>8. ev \in Event /\ ev.t = t /\ ev.i = u.i /\ ev.n = n
  BY <1>4, <1>5, <1>6, <1>7, EventOf
<1>9. PICK q : q = DecodeResponses(d, ev)
  OBVIOUS
<1>10. /\ \A x \in {"created", "item_added", "part_added", "text_done", "thinking_added",
                    "thinking_part_done", "item_done"} : x \in QuietTypes \ {"args_done"}
       /\ \A x \in {"none", "message", "thinking", "text", "done"} : x \in OpenStates
  BY DEF QuietTypes, OpenStates
<1>11. ASSUME t \in {"created", "item_added", "part_added", "text_done", "thinking_added",
                   "thinking_part_done", "item_done"}
      PROVE  SourceGoes("openai-responses", d, u, q, v)
  <2>1. PICK then \in OpenStates, j \in Nat :
           /\ Sends(then, j, {}, <<>>) /\ {up.open, then} \cap {"call", "over", "failed"} = {}
           /\ then = "text" => t = "part_added"
           /\ then = "thinking" => t = "thinking_added"
    <3>1. CASE t = "created"
      <4>1. up.open = "start" /\ Sends("none", 0, {}, <<>>)
        BY <1>5, <3>1
      <4>2. "none" \in OpenStates /\ 0 \in Nat /\ {"start", "none"} \cap {"call", "over", "failed"} = {}
        BY <1>2, <1>4, <1>10
      <4>3. QED
        BY <3>1, <4>1, <4>2
    <3>2. CASE t = "item_added"
      <4>1. up.open = "none" /\ Sends("message", up.i, {}, <<>>)
        BY <1>5, <3>2
      <4>2. "message" \in OpenStates /\ up.i \in Nat /\ {"none", "message"} \cap {"call", "over", "failed"} = {}
        BY <1>2, <1>4, <1>10
      <4>3. QED
        BY <3>2, <4>1, <4>2
    <3>3. CASE t = "thinking_added"
      <4>1. up.open = "none" /\ Sends("thinking", up.i, {}, <<>>)
        BY <1>5, <3>3
      <4>2. "thinking" \in OpenStates /\ up.i \in Nat /\ {"none", "thinking"} \cap {"call", "over", "failed"} = {}
        BY <1>2, <1>4, <1>10
      <4>3. QED
        BY <3>3, <4>1, <4>2
    <3>4. CASE t = "part_added"
      <4>1. up.open = "message" /\ Sends("text", up.i, {}, <<>>)
        BY <1>5, <3>4
      <4>2. "text" \in OpenStates /\ up.i \in Nat /\ {"message", "text"} \cap {"call", "over", "failed"} = {}
        BY <1>2, <1>4, <1>10
      <4>3. QED
        BY <3>4, <4>1, <4>2
    <3>5. CASE t = "text_done"
      <4>1. up.open = "text" /\ Sends("done", up.i, {}, <<>>)
        BY <1>5, <3>5
      <4>2. "done" \in OpenStates /\ up.i \in Nat /\ {"text", "done"} \cap {"call", "over", "failed"} = {}
        BY <1>2, <1>4, <1>10
      <4>3. QED
        BY <3>5, <4>1, <4>2
    <3>6. CASE t = "thinking_part_done"
      <4>1. up.open = "thinking" /\ Sends("done", up.i, {}, <<>>)
        BY <1>5, <3>6
      <4>2. "done" \in OpenStates /\ up.i \in Nat /\ {"thinking", "done"} \cap {"call", "over", "failed"} = {}
        BY <1>2, <1>4, <1>10
      <4>3. QED
        BY <3>6, <4>1, <4>2
    <3>7. CASE t = "item_done"
      <4>1. up.open = "done" /\ Sends("none", up.i + 1, {}, <<>>)
        BY <1>5, <3>7
      <4>2. "none" \in OpenStates /\ up.i + 1 \in Nat /\ {"done", "none"} \cap {"call", "over", "failed"} = {}
        BY <1>2, <1>4, <1>10
      <4>3. QED
        BY <3>7, <4>1, <4>2
    <3>8. QED
      BY <1>11, <3>1, <3>2, <3>3, <3>4, <3>5, <3>6, <3>7
  <2>2. v = Sending(u, m, then, j, {}, <<>>)
    BY <1>3, <2>1
  <2>3. /\ ev.t \in QuietTypes \ {"args_done"} /\ {u.open, then} \cap {"call", "over", "failed"} = {}
        /\ then = "text" => ev.t = "part_added"
        /\ then = "thinking" => ev.t = "thinking_added"
    BY <1>2, <1>8, <1>10, <1>11, <2>1
  <2>4. QED
    BY <1>3, <1>8, <1>9, <2>2, <2>3, ResponsesQuiet
<1>12. ASSUME t = "call_added"
      PROVE  SourceGoes("openai-responses", d, u, q, v)
  <2>1. u.open = "none" /\ n = u.i /\ Sends("call", u.i, {u.i}, <<>>)
    BY <1>2, <1>5, <1>12
  <2>2. v = Sending(u, m, "call", u.i, {u.i}, <<>>)
    BY <1>3, <2>1, Zenon
  <2>3. q = DecodeResponses(d, Ev("call_added", u.i, u.i))
    BY <1>7, <1>9, <1>12, <2>1
  <2>4. QED
    BY <1>3, <2>1, <2>2, <2>3, ResponsesCall
<1>13. ASSUME t \in DeltaTypes
      PROVE  SourceGoes("openai-responses", d, u, q, v)
  <2>1. \/ ev.t \in {"text", "thinking"} /\ u.open = ev.t
        \/ ev.t = "args" /\ u.open = "call" /\ ev.i = u.i
    BY <1>2, <1>5, <1>8, <1>13 DEF DeltaTypes
  <2>2. n = m /\ Sends(u.open, u.i, {}, <<<<t, IF t = "args" THEN u.i ELSE 0, m>>>>)
    <3>1. CASE t = "args"
      BY <1>2, <1>5, <3>1
    <3>2. CASE t \in {"text", "thinking"}
      <4>1. u.open = t /\ n = m /\ Sends(t, u.i, {}, <<<<t, 0, m>>>>)
        BY <1>2, <1>5, <3>2
      <4>2. QED
        BY <3>2, <4>1
    <3>3. QED
      BY <1>13, <3>1, <3>2 DEF DeltaTypes
  <2>3. v = Sending(u, m, u.open, u.i, {}, <<<<t, IF t = "args" THEN u.i ELSE 0, m>>>>)
    BY <1>3, <2>2, Zenon
  <2>4. v = Sending(u, m, u.open, u.i, {}, <<<<ev.t, IF ev.t = "args" THEN u.i ELSE 0, ev.n>>>>)
    BY <1>8, <2>2, <2>3
  <2>5. QED
    BY <1>3, <1>8, <1>9, <2>1, <2>4, ResponsesDelta
<1>14. ASSUME t = "args_done"
      PROVE  SourceGoes("openai-responses", d, u, q, v)
  <2>1. u.open = "call" /\ Sends("done", u.i, {}, <<>>)
    BY <1>2, <1>5, <1>14
  <2>2. v = Sending(u, m, "done", u.i, {}, <<>>)
    BY <1>3, <2>1, Zenon
  <2>3. ev.t = "args_done"
    BY <1>8, <1>14
  <2>4. QED
    BY <1>3, <1>8, <1>9, <2>1, <2>2, <2>3, ResponsesCallDone
<1>15. ASSUME t \in {"completed", "incomplete", "failed"}
      PROVE  SourceGoes("openai-responses", d, u, q, v)
  <2>1. PICK then \in {"over", "failed"} :
           /\ Sends(then, u.i, {}, <<>>)
           /\ \/ ev.t \in {"completed", "incomplete"} /\ u.open = "none" /\ then = "over"
              \/ ev.t = "failed" /\ u.open # "over" /\ then = "failed"
    BY <1>2, <1>5, <1>8, <1>15
  <2>2. v = Sending(u, m, then, u.i, {}, <<>>)
    BY <1>3, <2>1
  <2>3. QED
    BY <1>3, <1>8, <1>9, <2>1, <2>2, ResponsesLast
<1>16. SourceGoes("openai-responses", d, u, q, v)
  <2>1. \/ t \in {"created", "item_added", "part_added", "text_done", "thinking_added",
                   "thinking_part_done", "item_done"}
        \/ t = "call_added" \/ t \in DeltaTypes \/ t = "args_done"
        \/ t \in {"completed", "incomplete", "failed"}
    BY <1>5 DEF DeltaTypes
  <2>2. QED
    BY <1>11, <1>12, <1>13, <1>14, <1>15, <2>1
<1>17. Convert(q) /\ SourceGoes(From, dec, up, q, v)
  BY <1>1, <1>2, <1>5, <1>7, <1>9, <1>16
<1>18. QED
  BY <1>2, <1>3, <1>17, ConvertStep

LEMMA EndsStep ==
    ASSUME StreamInv, Ends
    PROVE  StreamInv'
<1>1. PICK from, to, d, u, p : /\ from = From /\ to = To /\ d = dec /\ u = up
                               /\ p = [e |-> enc, out |-> out]
  OBVIOUS
<1>2. pc = "reading" /\ Streaming(from, to, d, u, p)
  BY <1>1 DEF Ends, StreamInv
<1>3. from \in Protocols /\ to \in Protocols
  BY <1>2 DEF Streaming
<1>4. PICK evs \in Flushes : Return(Close(To, Encode(To, [e |-> enc, out |-> out], evs)), "success")
  BY DEF Ends
<1>5. FlushedBy(from, d, evs)
  <2>1. CASE from = "openai"
    <3>1. Flushes = {FlushChat(dec, order) : order \in SetToSeqs(dec.calls)}
      BY <1>1, <2>1, Zenon DEF Flushes
    <3>2. PICK order \in SetToSeqs(dec.calls) : evs = FlushChat(dec, order)
      BY <1>4, <3>1
    <3>3. QED
      BY <1>1, <2>1, <3>2 DEF FlushedBy
  <2>2. CASE from = "anthropic"
    <3>1. Flushes = {FlushAnthropic(dec)}
      BY <1>1, <2>2 DEF Flushes
    <3>2. QED
      BY <1>1, <1>4, <2>2, <3>1 DEF FlushedBy
  <2>3. CASE from = "openai-responses"
    <3>1. Flushes = {<<>>}
      BY <1>1, <2>3 DEF Flushes
    <3>2. QED
      BY <1>4, <2>3, <3>1 DEF FlushedBy
  <2>4. QED
    BY <1>3, <2>1, <2>2, <2>3 DEF Protocols
<1>6. PICK r, q : r = Encode(to, p, evs) /\ q = Close(to, r)
  OBVIOUS
<1>7. EndedAs(q.out, to, u, u.open = "failed")
  BY <1>2, <1>5, <1>6, FlushStep
<1>8. Return(q, "success")
  BY <1>1, <1>4, <1>6
<1>9. out' = q.out /\ pc' = "success" /\ conv' = conv /\ up' = up
  BY <1>8 DEF Return
<1>10. To' = to /\ up' = u
  BY <1>1, <1>9 DEF To
<1>11. EndedAs(out', To', up', up'.open = "failed")
  BY <1>7, <1>9, <1>10, Zenon
<1>12. QED
  BY <1>3, <1>9, <1>10, <1>11 DEF StreamInv

LEMMA BreaksOffStep ==
    ASSUME StreamInv, BreaksOff
    PROVE  StreamInv'
<1>1. PICK from, to, d, u, p : /\ from = From /\ to = To /\ d = dec /\ u = up
                               /\ p = [e |-> enc, out |-> out]
  OBVIOUS
<1>2. pc = "reading" /\ Streaming(from, to, d, u, p)
  BY <1>1 DEF BreaksOff, StreamInv
<1>3. to \in Protocols
  BY <1>2 DEF Streaming
<1>4. PICK evs, r, q : evs = <<Plain("failed")>> /\ r = Encode(to, p, evs) /\ q = Close(to, r)
  OBVIOUS
<1>5. EndedAs(q.out, to, u, TRUE)
  BY <1>2, <1>4, BreakStep
<1>6. Return(q, "stream_error")
  BY <1>1, <1>4, Zenon DEF BreaksOff
<1>7. out' = q.out /\ pc' = "stream_error" /\ conv' = conv /\ up' = up
  BY <1>6 DEF Return
<1>8. To' = to /\ up' = u
  BY <1>1, <1>7 DEF To
<1>9. EndedAs(out', To', up', TRUE)
  BY <1>5, <1>7, <1>8, Zenon
<1>10. QED
  BY <1>3, <1>7, <1>8, <1>9 DEF StreamInv

LEMMA WriteFailsStep ==
    ASSUME StreamInv, WriteFails
    PROVE  StreamInv'
<1>1. /\ pc = "reading" /\ pc' = "write_error" /\ conv' = conv /\ up' = up /\ dec' = dec
      /\ enc' = enc /\ out' = out
  BY DEF WriteFails
<1>2. Streaming(From, To, dec, up, [e |-> enc, out |-> out])
  BY <1>1 DEF StreamInv
<1>3. From' = From /\ To' = To
  BY <1>1 DEF From, To
<1>4. Streaming(From', To', dec', up', [e |-> enc', out |-> out'])
  BY <1>1, <1>2, <1>3, Zenon
<1>5. QED
  BY <1>1, <1>4 DEF StreamInv

\* A response that is to be converted: the two protocols differ, and are known.
LEMMA BeginsStep ==
    ASSUME RoutingInv, StreamInv, NEW r \in Requests, Forward(r)
    PROVE  StreamInv'
<1>1. PICK e \in ToSet(req[r].ordered), versioned \in BOOLEAN :
         /\ NeedsConversion(ClientProtocol(req[r].path, versioned), e.backend.protocol)
         /\ \/ StreamBegins(e.backend.protocol, ClientProtocol(req[r].path, versioned))
            \/ UNCHANGED streamVars
  BY Zenon DEF Forward
<1>2. PICK from, to : from = e.backend.protocol /\ to = ClientProtocol(req[r].path, versioned)
  OBVIOUS
<1>3. from \in Protocols
  <2>1. req[r] \in Active \cup {Idle} /\ req[r].pc = "forward"
    BY DEF RoutingInv, Forward
  <2>2. req[r] \in Active
    BY <2>1, ActiveTypes
  <2>3. PICK s \in Seq(Entry) : s = req[r].ordered
    BY <2>2, ActiveTypes
  <2>4. e \in Entry
    BY <1>1, <2>3 DEF ToSet
  <2>5. e.backend \in Backend
    BY <2>4 DEF Entry
  <2>6. QED
    BY <1>2, <2>5 DEF Backend
<1>4. to # "" /\ to # from
  BY <1>1, <1>2 DEF NeedsConversion
<1>5. to \in Protocols
  BY <1>2, <1>4, Zenon DEF ClientProtocol, Protocols
<1>6. CASE StreamBegins(from, to)
  <2>1. /\ conv' = <<from, to>> /\ up' = NewBackend /\ dec' = NewDecoder[from] /\ enc' = NewEncoder[to]
        /\ out' = <<>> /\ pc' = "reading"
    BY <1>6 DEF StreamBegins
  <2>2. From' = from /\ To' = to
    BY <2>1 DEF From, To
  <2>3. Streaming(from, to, NewDecoder[from], NewBackend, [e |-> NewEncoder[to], out |-> <<>>])
    BY <1>3, <1>4, <1>5, StreamStarts
  <2>4. Streaming(From', To', dec', up', [e |-> enc', out |-> out'])
    BY <2>1, <2>2, <2>3, Zenon
  <2>5. QED
    BY <2>1, <2>4 DEF StreamInv
<1>7. CASE UNCHANGED streamVars
  BY <1>7 DEF streamVars, StreamInv, From, To
<1>8. QED
  BY <1>1, <1>2, <1>6, <1>7

\* What a client has got is what the backend has sent, as far as the client's
\* protocol has a place for it, from the first line to the end.
THEOREM StreamInvariant == Spec => []StreamInv
<1>1. Init => StreamInv
  <2>1. SUFFICES ASSUME Init PROVE StreamInv
    OBVIOUS
  <2>2. conv = <<"", "">> /\ up = NewBackend /\ out = <<>> /\ pc = "idle"
    BY <2>1 DEF Init, NoStream
  <2>3. To = ""
    BY <2>2 DEF To
  <2>4. QED
    BY <2>2, <2>3 DEF StreamInv
<1>2. RoutingInv /\ StreamInv /\ [Next]_vars => StreamInv'
  <2>1. SUFFICES ASSUME RoutingInv, StreamInv, [Next]_vars PROVE StreamInv'
    OBVIOUS
  <2>2. ASSUME UNCHANGED streamVars PROVE StreamInv'
    BY <2>1, <2>2 DEF streamVars, StreamInv, From, To
  <2>3. ASSUME NEW r \in Requests, Forward(r) PROVE StreamInv'
    BY <2>1, <2>3, BeginsStep
  <2>4. ASSUME StreamNext PROVE StreamInv'
    BY <2>1, <2>4, ChatLineStep, AnthropicLineStep, ErrorLineStep, ResponsesLineStep, EndsStep,
       BreaksOffStep, WriteFailsStep DEF StreamNext
  <2>5. ASSUME StreamOver PROVE StreamInv'
    <3>1. conv' = <<"", "">> /\ up' = NewBackend /\ out' = <<>> /\ pc' = "idle"
      BY <2>5 DEF StreamOver, StreamForgotten
    <3>2. To' = ""
      BY <3>1 DEF To
    <3>3. up' = NewBackend'
      BY <3>1 DEF NewBackend
    <3>4. QED
      BY <3>1, <3>2, <3>3 DEF StreamInv
  <2>6. ASSUME ConversationOver PROVE UNCHANGED streamVars
    BY <2>6 DEF ConversationOver
  <2>7. ASSUME UNCHANGED vars PROVE UNCHANGED streamVars
    BY <2>7 DEF vars
  <2>8. QED
    BY <2>1, <2>2, <2>3, <2>4, <2>5, <2>6, <2>7 DEF Next
<1>3. QED
  BY <1>1, <1>2, RoutingInvariant, PTL DEF Spec

LEMMA NothingReceived == Received(<<>>) = <<>>
<1>1. DOMAIN <<>> = {}
  OBVIOUS
<1>2. [k \in DOMAIN <<>> |-> DeltaAt(<<>>, k)] = <<>>
  BY <1>1
<1>3. QED
  BY <1>2, KeptNone, Zenon DEF Received

LEMMA ShownIs == Shown = ShownTo(To)
BY DEF Shown, ShownTo, ChatShown, AnyShown

\* What a client has at each point of a stream.
LEMMA ClientHas ==
    ASSUME StreamInv, pc # "idle"
    PROVE  /\ out \in Seq(Event) /\ To \in Protocols /\ Received(out) = Keep(up.sent, ShownTo(To))
           /\ To = "anthropic" => \A k \in 1..Len(out) : InLifecycle(out, k)
<1>1. PICK s, to, u : s = out /\ to = To /\ u = up
  OBVIOUS
<1>2. CASE pc \in {"reading", "write_error"}
  <2>1. PICK from, d, p, c : from = From /\ d = dec /\ p = [e |-> enc, out |-> s] /\ c = SourceTold(from, d, u)
    OBVIOUS
  <2>2. Streaming(from, to, d, u, p)
    BY <1>1, <1>2, <2>1 DEF StreamInv
  <2>3. Sinks(to, p, c) /\ from \in Protocols /\ to \in Protocols /\ SourceOK(from, d, u)
    BY <2>1, <2>2 DEF Streaming
  <2>4. c.deltas = u.sent
    BY <2>1, <2>3, ToldOf
  <2>5. p.out = s
    BY <2>1
  <2>6. /\ p.out \in Seq(Event)
        /\ Received(p.out) = Keep(c.deltas, ShownTo(to))
        /\ to = "anthropic" => \A k \in 1..Len(p.out) : InLifecycle(p.out, k)
    BY <2>3, SinkDelivers
  <2>7. QED
    BY <1>1, <2>3, <2>4, <2>5, <2>6, Zenon
<1>3. CASE pc \in {"success", "stream_error"}
  <2>1. to \in Protocols /\ \E f : EndedAs(s, to, u, f)
    BY <1>1, <1>3 DEF StreamInv
  <2>2. PICK e : Ended(s, to, e) /\ e.deltas = u.sent
    BY <2>1 DEF EndedAs
  <2>3. /\ s \in Seq(Event) /\ Received(s) = Keep(e.deltas, ShownTo(to))
        /\ to = "anthropic" => \A k \in 1..Len(s) : InLifecycle(s, k)
    BY <2>2 DEF Ended
  <2>4. QED
    BY <1>1, <2>1, <2>2, <2>3, Zenon
<1>4. QED
  BY <1>2, <1>3 DEF StreamInv

\* Each delta of the backend reaches the client at once, in order and once,
\* arguments with the call they belong to; only thinking is left out for a
\* Chat client.
THEOREM EveryDeltaArrives == Spec => []ContentArrives
<1>1. StreamInv => ContentArrives
  <2>1. SUFFICES ASSUME StreamInv PROVE Received(out) = Keep(up.sent, Shown)
    BY DEF ContentArrives
  <2>2. CASE pc = "idle"
    <3>1. out = <<>> /\ up.sent = <<>>
      <4>1. out = <<>> /\ up = NewBackend
        BY <2>1, <2>2 DEF StreamInv
      <4>2. NewBackend.sent = <<>>
        BY DEF NewBackend
      <4>3. QED
        BY <4>1, <4>2
    <3>2. QED
      BY <3>1, NothingReceived, KeptNone, Zenon
  <2>3. CASE pc # "idle"
    BY <2>1, <2>3, ClientHas, ShownIs
  <2>4. QED
    BY <2>2, <2>3
<1>2. QED
  BY <1>1, StreamInvariant, PTL

\* The blocks of an Anthropic client's stream are numbered without a gap,
\* deltas and stops are for open blocks, and message_stop leaves none open.
THEOREM BlocksStayWellFormed == Spec => []BlocksWellFormed
<1>1. StreamInv => BlocksWellFormed
  <2>1. SUFFICES ASSUME StreamInv, To = "anthropic" PROVE \A k \in DOMAIN out : InLifecycle(out, k)
    BY DEF BlocksWellFormed
  <2>2. pc # "idle"
    BY <2>1 DEF StreamInv
  <2>3. out \in Seq(Event) /\ \A k \in 1..Len(out) : InLifecycle(out, k)
    BY <2>1, <2>2, ClientHas
  <2>4. DOMAIN out = 1..Len(out)
    BY <2>3
  <2>5. QED
    BY <2>3, <2>4
<1>2. QED
  BY <1>1, StreamInvariant, PTL

\* A stream ends once, with its last event, and with an error if it broke off
\* or a Responses backend reported a failure, and not otherwise: the error
\* events of the other backends are skipped, and the end is a regular one.  At
\* a regular end calls are given as the reason to stop, or to a Chat client
\* that they were truncated.
THEOREM StreamsEndTruthfully == Spec => []EndIsTruthful
<1>1. StreamInv => EndIsTruthful
  <2>1. SUFFICES ASSUME StreamInv PROVE EndIsTruthful
    OBVIOUS
  <2>2. ASSUME pc # "idle" PROVE DOMAIN out = 1..Len(out)
    <3>1. out \in Seq(Event)
      BY <2>1, <2>2, ClientHas
    <3>2. QED
      BY <3>1
  <2>3. ASSUME pc = "reading" PROVE \A k \in DOMAIN out : out[k].t \notin LastOf(To)
    <3>1. PICK from, to, d, u, p, c : /\ from = From /\ to = To /\ d = dec /\ u = up
                                      /\ p = [e |-> enc, out |-> out] /\ c = SourceTold(from, d, u)
      OBVIOUS
    <3>2. Streaming(from, to, d, u, p)
      BY <2>1, <2>3, <3>1 DEF StreamInv
    <3>3. /\ Sinks(to, p, c) /\ from \in Protocols /\ to \in Protocols /\ SourceOK(from, d, u)
          /\ from # to
      BY <3>1, <3>2 DEF Streaming
    <3>4. c.ends => from = "openai-responses"
      BY <3>1, <3>3, ToldOf
    <3>5. p.out = out
      BY <3>1
    <3>6. (to = "openai-responses" => ~c.ends) => \A k \in 1..Len(p.out) : p.out[k].t \notin LastOf(to)
      BY <3>3, SinkDelivers
    <3>7. \A k \in 1..Len(out) : out[k].t \notin LastOf(To)
      BY <3>1, <3>3, <3>4, <3>5, <3>6
    <3>8. QED
      BY <2>2, <2>3, <3>7
  <2>4. ASSUME pc \in {"success", "stream_error"}
        PROVE  /\ {k \in DOMAIN out : out[k].t \in LastOf(To)} = {Len(out)}
               /\ (\E k \in DOMAIN out : out[k].t \in {"error", "failed"})
                     <=> (pc = "stream_error" \/ up.open = "failed")
    <3>1. PICK f : f = (pc = "stream_error" \/ up.open = "failed")
      OBVIOUS
    <3>2. EndedAs(out, To, up, f)
      BY <2>1, <2>4, <3>1 DEF StreamInv
    <3>3. PICK e : Ended(out, To, e) /\ e.failed = f
      BY <3>2 DEF EndedAs
    <3>4. /\ {k \in 1..Len(out) : out[k].t \in LastOf(To)} = {Len(out)}
          /\ (\E k \in 1..Len(out) : out[k].t \in {"error", "failed"}) <=> e.failed
      BY <3>3 DEF Ended
    <3>5. DOMAIN out = 1..Len(out)
      BY <2>2, <2>4
    <3>6. QED
      BY <3>1, <3>3, <3>4, <3>5
  <2>5. ASSUME pc = "success" /\ up.calls # {} /\ up.open # "failed"
        PROVE  CASE To = "anthropic" -> out[Len(out) - 1].t = "tool_use"
                 [] To = "openai"    -> out[Len(out) - 1].t \in {"tool_calls", "length"}
                 [] OTHER            -> TRUE
    <3>1. EndedAs(out, To, up, FALSE)
      <4>1. EndedAs(out, To, up, up.open = "failed") /\ (up.open = "failed") = FALSE
        BY <2>1, <2>5 DEF StreamInv
      <4>2. QED
        BY <4>1, Zenon
    <3>2. PICK e : Ended(out, To, e) /\ e.failed = FALSE /\ e.called = TRUE
      <4>1. (up.calls # {}) = TRUE
        BY <2>5
      <4>2. QED
        BY <3>1, <4>1 DEF EndedAs
    <3>3. /\ To = "anthropic" => out[Len(out) - 1].t = "tool_use"
          /\ To = "openai" => out[Len(out) - 1].t \in {"tool_calls", "length"}
      BY <3>2 DEF Ended
    <3>4. QED
      BY <3>3
  <2>6. QED
    BY <2>3, <2>4, <2>5 DEF EndIsTruthful
<1>2. QED
  BY <1>1, StreamInvariant, PTL

-----------------------------------------------------------------------------
(* Conversations.  Whatever goes through a list and appends what each of its  *)
(* elements becomes is a sum over the list.                                   *)

Gather(s, g) == FlattenSeq([i \in DOMAIN s |-> g[s[i]]])
Terms(X, A) == [X -> Seq(A)]

\* What holds of the empty sequence and stays so with one element more.
LEMMA SeqInduction ==
    ASSUME NEW A, NEW T, <<>> \in T, \A s \in Seq(A), x \in A : s \in T => Append(s, x) \in T
    PROVE  \A s \in Seq(A) : s \in T
<1> DEFINE S == {n \in Nat : \A s \in Seq(A) : Len(s) = n => s \in T}
<1>1. S \in SUBSET Nat /\ 0 \in S
  <2>1. ASSUME NEW s \in Seq(A), Len(s) = 0 PROVE s \in T
    <3>1. s = <<>>
      BY <2>1, EmptySeq
    <3>2. QED
      BY <3>1
  <2>2. QED
    BY <2>1
<1>2. ASSUME NEW n \in S PROVE n + 1 \in S
  <2>1. n \in Nat /\ \A s \in Seq(A) : Len(s) = n => s \in T
    OBVIOUS
  <2>2. ASSUME NEW s \in Seq(A), Len(s) = n + 1 PROVE s \in T
    <3>1. s # <<>>
      BY <2>1, <2>2
    <3>2. PICK u \in Seq(A), x \in A : s = Append(u, x)
      BY <3>1, SequenceEmptyOrAppend
    <3>3. Len(u) = n
      BY <2>1, <2>2, <3>2
    <3>4. QED
      BY <2>1, <3>2, <3>3
  <2>3. QED
    BY <2>1, <2>2
<1>3. S = Nat
  <2> HIDE DEF S
  <2> QED
    BY <1>1, <1>2, SetInduction
<1>4. \A s \in Seq(A) : Len(s) \in S
  BY <1>3
<1>5. QED
  BY <1>4

LEMMA ConcatAppend ==
    ASSUME NEW A, NEW s \in Seq(A), NEW u \in Seq(A), NEW x \in A
    PROVE  s \o Append(u, x) = Append(s \o u, x) /\ Append(u, x) \in Seq(A) /\ Append(u, x) = u \o <<x>>
<1>1. <<x>> \in Seq(A) /\ Append(u, x) = u \o <<x>>
  BY AppendIsConcat
<1>2. s \o u \in Seq(A) /\ Append(s \o u, x) = (s \o u) \o <<x>>
  BY ConcatProperties, AppendIsConcat
<1>3. (s \o u) \o <<x>> = s \o (u \o <<x>>)
  BY <1>1, ConcatAssociative
<1>4. QED
  BY <1>1, <1>2, <1>3, AppendProperties

LEMMA FlattenAppend ==
    ASSUME NEW A, NEW ss \in Seq(Seq(A)), NEW u \in Seq(A)
    PROVE  FlattenSeq(Append(ss, u)) = FlattenSeq(ss) \o u /\ FlattenSeq(ss) \in Seq(A)
<1>1. PICK n \in Nat : n = Len(ss)
  OBVIOUS
<1>2. PICK V : V = Seq(A)
  OBVIOUS
<1>3. PICK tt \in Seq(V) : tt = Append(ss, u)
  BY <1>2, AppendProperties
<1>4. Len(tt) = n + 1 /\ tt[n + 1] = u /\ \A i \in 1..n : tt[i] = ss[i]
  BY <1>1, <1>2, <1>3, AppendProperties
<1>5. PICK f : FlattenRun(f, A, ss)
  BY FlattenLoop
<1>6. PICK g : FlattenRun(g, A, tt)
  BY <1>2, FlattenLoop
<1>7. /\ f[0] = <<>> /\ FlattenSeq(ss) = f[n] /\ f[n] \in Seq(A)
      /\ \A i \in 1..n : f[i] = f[i - 1] \o ss[i]
  <2>1. f \in [0..n -> V]
    BY <1>1, <1>2, <1>5, Zenon DEF FlattenRun
  <2>2. f[n] \in V
    <3>1. n \in 0..n
      OBVIOUS
    <3>2. QED
      BY <2>1, <3>1
  <2>3. QED
    BY <1>1, <1>2, <1>5, <2>2, Zenon DEF FlattenRun
<1>8. /\ g[0] = <<>> /\ FlattenSeq(tt) = g[n + 1]
      /\ \A i \in 1..(n + 1) : g[i] = g[i - 1] \o tt[i]
  BY <1>4, <1>6, Zenon DEF FlattenRun
<1> DEFINE T == {i \in 0..n : f[i] = g[i]}
<1>9. 0 \in T
  BY <1>7, <1>8
<1>10. ASSUME NEW i \in 1..n, i - 1 \in T PROVE i \in T
  <2>1. f[i - 1] = g[i - 1] /\ i \in 1..(n + 1) /\ tt[i] = ss[i] /\ i \in 0..n
    BY <1>4, <1>10
  <2>2. f[i] = g[i]
    BY <1>7, <1>8, <2>1, Zenon
  <2>3. QED
    BY <2>1, <2>2
<1>11. f[n] = g[n]
  <2>1. \A i \in 0..n : i \in T
    <3> HIDE DEF T
    <3> QED
      BY <1>9, <1>10, LoopInduction
  <2>2. QED
    BY <2>1
<1>12. n + 1 \in 1..(n + 1) /\ (n + 1) - 1 = n
  OBVIOUS
<1>13. g[n + 1] = g[n] \o u
  BY <1>4, <1>8, <1>12
<1>14. QED
  BY <1>3, <1>7, <1>8, <1>11, <1>13

LEMMA GatherStep ==
    ASSUME NEW X, NEW A, NEW g \in Terms(X, A)
    PROVE  /\ Gather(<<>>, g) = <<>>
           /\ \A s \in Seq(X) : Gather(s, g) \in Seq(A)
           /\ \A s \in Seq(X), x \in X : Gather(Append(s, x), g) = Gather(s, g) \o g[x]
<1>1. PICK V : V = Seq(A)
  OBVIOUS
<1>2. Gather(<<>>, g) = <<>>
  <2>1. [i \in DOMAIN <<>> |-> g[<<>>[i]]] = <<>>
    OBVIOUS
  <2>2. FlattenSeq(<<>>) = <<>>
    BY Zenon, EmptySeq DEF FlattenSeq
  <2>3. QED
    BY <2>1, <2>2, Zenon DEF Gather
<1>3. ASSUME NEW s \in Seq(X), NEW x \in X
      PROVE  Gather(s, g) \in Seq(A) /\ Gather(Append(s, x), g) = Gather(s, g) \o g[x]
  <2>1. PICK n \in Nat : n = Len(s)
    OBVIOUS
  <2> DEFINE ss == [i \in DOMAIN s |-> g[s[i]]]
             tt == [i \in DOMAIN Append(s, x) |-> g[Append(s, x)[i]]]
  <2>2. g \in [X -> V] /\ g[x] \in V
    BY <1>1 DEF Terms
  <2>3. /\ DOMAIN s = 1..n /\ DOMAIN Append(s, x) = 1..(n + 1)
        /\ \A i \in 1..n : s[i] \in X /\ Append(s, x)[i] = s[i]
        /\ Append(s, x)[n + 1] = x
    BY <2>1
  <2>4. ss \in Seq(V) /\ Len(ss) = n /\ \A i \in 1..n : ss[i] = g[s[i]]
    <3>1. ss \in [1..n -> V]
      BY <2>2, <2>3
    <3>2. QED
      BY <2>3, <3>1, FunctionIsSeq
  <2>5. tt \in Seq(V) /\ Len(tt) = n + 1 /\ tt[n + 1] = g[x] /\ \A i \in 1..n : tt[i] = g[s[i]]
    <3>1. \A i \in 1..(n + 1) : Append(s, x)[i] \in X
      BY <2>3
    <3>2. tt \in [1..(n + 1) -> V]
      BY <2>2, <2>3, <3>1
    <3>3. QED
      BY <2>3, <3>2, FunctionIsSeq
  <2> HIDE DEF ss, tt
  <2>6. tt = Append(ss, g[x])
    <3>1. PICK y \in V : y = g[x]
      BY <2>2
    <3>2. /\ Append(ss, y) \in Seq(V) /\ Len(Append(ss, y)) = n + 1 /\ Append(ss, y)[n + 1] = y
          /\ \A i \in 1..n : Append(ss, y)[i] = ss[i]
      BY <2>4, AppendProperties
    <3>3. ASSUME NEW i \in 1..(n + 1) PROVE tt[i] = Append(ss, y)[i]
      <4>1. i = n + 1 \/ i \in 1..n
        OBVIOUS
      <4>2. QED
        BY <2>4, <2>5, <3>1, <3>2, <4>1
    <3>4. QED
      BY <2>5, <3>1, <3>2, <3>3, SeqEqual
  <2>7. FlattenSeq(Append(ss, g[x])) = FlattenSeq(ss) \o g[x] /\ FlattenSeq(ss) \in Seq(A)
    BY <1>1, <2>2, <2>4, FlattenAppend
  <2>8. QED
    BY <2>6, <2>7, Zenon DEF Gather, ss, tt
<1>4. ASSUME NEW s \in Seq(X) PROVE Gather(s, g) \in Seq(A)
  <2>1. CASE s = <<>>
    BY <1>2, <2>1, EmptySeq
  <2>2. CASE s # <<>>
    <3>1. s[1] \in X
      BY <2>2
    <3>2. QED
      BY <1>3, <3>1
  <2>3. QED
    BY <2>1, <2>2
<1>5. QED
  BY <1>2, <1>3, <1>4

LEMMA GatherTyped ==
    ASSUME NEW X, NEW A, NEW g \in Terms(X, A), NEW s \in Seq(X)
    PROVE  Gather(s, g) \in Seq(A)
BY GatherStep

LEMMA GatherNone ==
    ASSUME NEW X, NEW A, NEW g \in Terms(X, A)
    PROVE  Gather(<<>>, g) = <<>>
BY GatherStep

LEMMA GatherAppend ==
    ASSUME NEW X, NEW A, NEW g \in Terms(X, A), NEW s \in Seq(X), NEW x \in X
    PROVE  Gather(Append(s, x), g) = Gather(s, g) \o g[x]
BY GatherStep

LEMMA Associates ==
    ASSUME NEW A, NEW a \in Seq(A), NEW b \in Seq(A), NEW c \in Seq(A)
    PROVE  (a \o b) \o c = a \o (b \o c)
BY ConcatAssociative

LEMMA GatherOne ==
    ASSUME NEW X, NEW A, NEW g \in Terms(X, A), NEW x \in X
    PROVE  Gather(<<x>>, g) = g[x] /\ g[x] \in Seq(A)
<1>1. PICK s \in Seq(X) : s = <<>>
  BY EmptySeq
<1>2. Append(s, x) = <<x>>
  BY <1>1
<1>3. Gather(<<x>>, g) = Gather(s, g) \o g[x] /\ Gather(s, g) = <<>>
  <2>1. Gather(Append(s, x), g) = Gather(s, g) \o g[x]
    BY GatherAppend, Zenon
  <2>2. Gather(<<>>, g) = <<>>
    BY GatherNone, Zenon
  <2>3. QED
    BY <1>1, <1>2, <2>1, <2>2, Zenon
<1>4. g[x] \in Seq(A)
  <2>1. PICK V : V = Seq(A)
    OBVIOUS
  <2>2. g[x] \in V
    BY <2>1 DEF Terms
  <2>3. QED
    BY <2>1, <2>2
<1>5. QED
  BY <1>3, <1>4, ConcatEmptySeq

LEMMA GatherConcat ==
    ASSUME NEW X, NEW A, NEW g \in Terms(X, A), NEW s \in Seq(X), NEW u \in Seq(X)
    PROVE  Gather(s \o u, g) = Gather(s, g) \o Gather(u, g)
<1> DEFINE T == {v \in Seq(X) : Gather(s \o v, g) = Gather(s, g) \o Gather(v, g)}
<1>1. <<>> \in T
  <2>1. s \o <<>> = s /\ Gather(s, g) \o <<>> = Gather(s, g) /\ <<>> \in Seq(X)
    BY GatherStep, ConcatEmptySeq, EmptySeq
  <2>2. QED
    BY <2>1, GatherStep
<1>2. ASSUME NEW v \in Seq(X), NEW x \in X, v \in T PROVE Append(v, x) \in T
  <2>1. /\ s \o Append(v, x) = Append(s \o v, x) /\ Append(v, x) \in Seq(X)
        /\ s \o v \in Seq(X)
    BY ConcatAppend, ConcatProperties
  <2>2. PICK a \in Seq(A), b \in Seq(A), c \in Seq(A) :
           a = Gather(s, g) /\ b = Gather(v, g) /\ c = g[x]
    BY GatherStep, GatherOne
  <2>3. Gather(s \o v, g) = a \o b
    BY <1>2, <2>2
  <2>4. Gather(s \o Append(v, x), g) = (a \o b) \o c /\ Gather(Append(v, x), g) = b \o c
    <3>1. Gather(Append(s \o v, x), g) = Gather(s \o v, g) \o g[x]
      BY <2>1, GatherAppend, Zenon
    <3>2. Gather(Append(v, x), g) = Gather(v, g) \o g[x]
      BY GatherAppend, Zenon
    <3>3. QED
      BY <2>1, <2>2, <2>3, <3>1, <3>2, Zenon
  <2>5. (a \o b) \o c = a \o (b \o c)
    BY Associates, SMTT(60)
  <2>6. QED
    BY <2>1, <2>2, <2>4, <2>5
<1>3. u \in T
  <2> HIDE DEF T
  <2> QED
    BY <1>1, <1>2, SeqInduction
<1>4. QED
  BY <1>3

\* A sum over a sum.
LEMMA GatherNest ==
    ASSUME NEW X, NEW Y, NEW A, NEW f \in Terms(X, Y), NEW g \in Terms(Y, A), NEW h \in Terms(X, A),
           \A x \in X : Gather(f[x], g) = h[x], NEW s \in Seq(X)
    PROVE  Gather(Gather(s, f), g) = Gather(s, h)
<1> DEFINE T == {v \in Seq(X) : Gather(Gather(v, f), g) = Gather(v, h)}
<1>1. <<>> \in T
  BY GatherStep, EmptySeq, Zenon
<1>2. ASSUME NEW v \in Seq(X), NEW x \in X, v \in T PROVE Append(v, x) \in T
  <2>1. PICK a \in Seq(Y), b \in Seq(Y) : a = Gather(v, f) /\ b = f[x]
    BY GatherStep, GatherOne
  <2>2. Gather(Append(v, x), f) = a \o b /\ Gather(Append(v, x), h) = Gather(v, h) \o h[x]
    <3>1. Gather(Append(v, x), f) = Gather(v, f) \o f[x]
      BY GatherAppend, Zenon
    <3>2. Gather(Append(v, x), h) = Gather(v, h) \o h[x]
      BY GatherAppend, Zenon
    <3>3. QED
      BY <2>1, <3>1, <3>2, Zenon
  <2>3. Gather(a \o b, g) = Gather(a, g) \o Gather(b, g)
    BY GatherConcat
  <2>4. Append(v, x) \in Seq(X)
    BY AppendProperties
  <2>5. QED
    BY <1>2, <2>1, <2>2, <2>3, <2>4
<1>3. s \in T
  <2> HIDE DEF T
  <2> QED
    BY <1>1, <1>2, SeqInduction
<1>4. QED
  BY <1>3

LEMMA KeptConcat ==
    ASSUME NEW A, NEW s \in Seq(A), NEW u \in Seq(A), NEW kept
    PROVE  Keep(s \o u, kept) = Keep(s, kept) \o Keep(u, kept)
<1> DEFINE T == {v \in Seq(A) : Keep(s \o v, kept) = Keep(s, kept) \o Keep(v, kept)}
<1>1. <<>> \in T
  <2>1. s \o <<>> = s /\ Keep(s, kept) \o <<>> = Keep(s, kept) /\ <<>> \in Seq(A)
    BY Kept, ConcatEmptySeq, EmptySeq
  <2>2. QED
    BY <2>1, KeptNone
<1>2. ASSUME NEW v \in Seq(A), NEW x \in A, v \in T PROVE Append(v, x) \in T
  <2>1. /\ s \o Append(v, x) = Append(s \o v, x) /\ Append(v, x) \in Seq(A)
        /\ s \o v \in Seq(A)
    BY ConcatAppend, ConcatProperties
  <2>2. PICK a \in Seq(A), b \in Seq(A) : a = Keep(s, kept) /\ b = Keep(v, kept)
    BY Kept
  <2>3. a \o Append(b, x) = Append(a \o b, x)
    BY ConcatAppend
  <2>4. Keep(s \o v, kept) = a \o b
    BY <1>2, <2>2
  <2>5. Keep(Append(s \o v, x), kept) = IF x \in kept THEN Append(a \o b, x) ELSE a \o b
    BY <2>1, <2>4, KeptAppend, ZenonT(60)
  <2>6. Keep(Append(v, x), kept) = IF x \in kept THEN Append(b, x) ELSE b
    BY <2>2, KeptAppend, ZenonT(60)
  <2>7. QED
    BY <2>1, <2>2, <2>3, <2>5, <2>6
<1>3. u \in T
  <2> HIDE DEF T
  <2> QED
    BY <1>1, <1>2, SeqInduction
<1>4. QED
  BY <1>3

LEMMA KeptTwice ==
    ASSUME NEW A, NEW s \in Seq(A), NEW kept, NEW also
    PROVE  Keep(Keep(s, kept), also) = Keep(s, kept \cap also)
<1> DEFINE T == {v \in Seq(A) : Keep(Keep(v, kept), also) = Keep(v, kept \cap also)}
<1>1. <<>> \in T
  BY KeptNone, EmptySeq, Zenon
<1>2. ASSUME NEW v \in Seq(A), NEW x \in A, v \in T PROVE Append(v, x) \in T
  <2>1. PICK a \in Seq(A) : a = Keep(v, kept)
    BY Kept
  <2>2. Keep(Append(v, x), kept) = IF x \in kept THEN Append(a, x) ELSE a
    BY <2>1, KeptAppend
  <2>3. Keep(Append(a, x), also) = IF x \in also THEN Append(Keep(a, also), x) ELSE Keep(a, also)
    BY KeptAppend
  <2>4. Keep(Append(v, x), kept \cap also) = IF x \in kept \cap also THEN Append(Keep(v, kept \cap also), x)
                                             ELSE Keep(v, kept \cap also)
    BY KeptAppend
  <2>5. Keep(a, also) = Keep(v, kept \cap also) /\ Append(v, x) \in Seq(A)
    BY <1>2, <2>1, AppendProperties
  <2>6. Keep(Keep(Append(v, x), kept), also) = Keep(Append(v, x), kept \cap also)
    <3>1. CASE x \in kept
      <4>1. Keep(Append(v, x), kept) = Append(a, x)
        BY <2>2, <3>1
      <4>2. CASE x \in also
        BY <2>3, <2>4, <2>5, <3>1, <4>1, <4>2, Zenon
      <4>3. CASE x \notin also
        BY <2>3, <2>4, <2>5, <3>1, <4>1, <4>3, Zenon
      <4>4. QED
        BY <4>2, <4>3
    <3>2. CASE x \notin kept
      BY <2>2, <2>4, <2>5, <3>2, Zenon
    <3>3. QED
      BY <3>1, <3>2
  <2>7. QED
    BY <2>5, <2>6
<1>3. s \in T
  <2> HIDE DEF T
  <2> QED
    BY <1>1, <1>2, SeqInduction
<1>4. QED
  BY <1>3

\* What is kept depends on the elements that there are, and may be all or nothing.
LEMMA KeptBy ==
    ASSUME NEW A, NEW s \in Seq(A), NEW kept
    PROVE  /\ \A also : A \cap kept = A \cap also => Keep(s, kept) = Keep(s, also)
           /\ A \subseteq kept => Keep(s, kept) = s
           /\ A \cap kept = {} => Keep(s, kept) = <<>>
           /\ Keep(s, kept) \in Seq(A \cap kept)
<1> DEFINE T == {v \in Seq(A) :
                   /\ \A also : A \cap kept = A \cap also => Keep(v, kept) = Keep(v, also)
                   /\ A \subseteq kept => Keep(v, kept) = v
                   /\ A \cap kept = {} => Keep(v, kept) = <<>>
                   /\ Keep(v, kept) \in Seq(A \cap kept)}
<1>1. <<>> \in T
  BY KeptNone, EmptySeq
<1>2. ASSUME NEW v \in Seq(A), NEW x \in A, v \in T PROVE Append(v, x) \in T
  <2>1. \A k : Keep(Append(v, x), k) = IF x \in k THEN Append(Keep(v, k), x) ELSE Keep(v, k)
    BY KeptAppend
  <2>2. Append(v, x) \in Seq(A)
    BY AppendProperties
  <2>3. ASSUME NEW also, A \cap kept = A \cap also
        PROVE  Keep(Append(v, x), kept) = Keep(Append(v, x), also)
    <3>1. Keep(v, kept) = Keep(v, also) /\ (x \in kept <=> x \in also)
      BY <1>2, <2>3
    <3>2. QED
      BY <2>1, <3>1
  <2>4. A \subseteq kept => Keep(Append(v, x), kept) = Append(v, x)
    BY <1>2, <2>1
  <2>5. A \cap kept = {} => Keep(Append(v, x), kept) = <<>>
    BY <1>2, <2>1
  <2>6. Keep(Append(v, x), kept) \in Seq(A \cap kept)
    <3>1. Keep(v, kept) \in Seq(A \cap kept)
      BY <1>2
    <3>2. x \in kept => Append(Keep(v, kept), x) \in Seq(A \cap kept)
      BY <3>1, AppendProperties
    <3>3. QED
      BY <2>1, <3>1, <3>2
  <2>7. QED
    BY <2>2, <2>3, <2>4, <2>5, <2>6
<1>3. s \in T
  <2> HIDE DEF T
  <2> QED
    BY <1>1, <1>2, SeqInduction
<1>4. QED
  BY <1>3

\* What is kept of a sum.
LEMMA GatherKept ==
    ASSUME NEW X, NEW A, NEW g \in Terms(X, A), NEW h \in Terms(X, A), NEW kept,
           \A x \in X : Keep(g[x], kept) = h[x], NEW s \in Seq(X)
    PROVE  Keep(Gather(s, g), kept) = Gather(s, h)
<1> DEFINE T == {v \in Seq(X) : Keep(Gather(v, g), kept) = Gather(v, h)}
<1>1. <<>> \in T
  BY GatherStep, KeptNone, EmptySeq, Zenon
<1>2. ASSUME NEW v \in Seq(X), NEW x \in X, v \in T PROVE Append(v, x) \in T
  <2>1. PICK a \in Seq(A), b \in Seq(A) : a = Gather(v, g) /\ b = g[x]
    BY GatherStep, GatherOne
  <2>2. Gather(Append(v, x), g) = a \o b /\ Gather(Append(v, x), h) = Gather(v, h) \o h[x]
    <3>1. Gather(Append(v, x), g) = Gather(v, g) \o g[x]
      BY GatherAppend, Zenon
    <3>2. Gather(Append(v, x), h) = Gather(v, h) \o h[x]
      BY GatherAppend, Zenon
    <3>3. QED
      BY <2>1, <3>1, <3>2, Zenon
  <2>3. Keep(a \o b, kept) = Keep(a, kept) \o Keep(b, kept)
    BY KeptConcat
  <2>4. Append(v, x) \in Seq(X)
    BY AppendProperties
  <2>5. QED
    BY <1>2, <2>1, <2>2, <2>3, <2>4
<1>3. s \in T
  <2> HIDE DEF T
  <2> QED
    BY <1>1, <1>2, SeqInduction
<1>4. QED
  BY <1>3

\* An element that becomes itself, one that becomes nothing, and a list made
\* of another one.
LEMMA GatherSelf ==
    ASSUME NEW X, NEW g \in Terms(X, X), \A x \in X : g[x] = <<x>>, NEW s \in Seq(X)
    PROVE  Gather(s, g) = s
<1> DEFINE T == {v \in Seq(X) : Gather(v, g) = v}
<1>1. <<>> \in T
  BY GatherNone, EmptySeq, Zenon
<1>2. ASSUME NEW v \in Seq(X), NEW x \in X, v \in T PROVE Append(v, x) \in T
  <2>1. Gather(Append(v, x), g) = Gather(v, g) \o g[x]
    BY GatherAppend, Zenon
  <2>2. Append(v, x) = v \o <<x>> /\ Append(v, x) \in Seq(X)
    BY ConcatAppend
  <2>3. Gather(v, g) = v /\ g[x] = <<x>>
    BY <1>2
  <2>4. QED
    BY <2>1, <2>2, <2>3
<1>3. s \in T
  <2> HIDE DEF T
  <2> QED
    BY <1>1, <1>2, SeqInduction
<1>4. QED
  BY <1>3

LEMMA GatherNothing ==
    ASSUME NEW X, NEW A, NEW g \in Terms(X, A), \A x \in X : g[x] = <<>>, NEW s \in Seq(X)
    PROVE  Gather(s, g) = <<>>
<1> DEFINE T == {v \in Seq(X) : Gather(v, g) = <<>>}
<1>1. <<>> \in T
  BY GatherNone, EmptySeq, Zenon
<1>2. ASSUME NEW v \in Seq(X), NEW x \in X, v \in T PROVE Append(v, x) \in T
  <2>1. Gather(Append(v, x), g) = Gather(v, g) \o g[x]
    BY GatherAppend, Zenon
  <2>2. Append(v, x) \in Seq(X)
    BY ConcatAppend
  <2>3. Gather(v, g) = <<>> /\ g[x] = <<>>
    BY <1>2
  <2>4. <<>> \o <<>> = <<>>
    OBVIOUS
  <2>5. QED
    BY <2>1, <2>2, <2>3, <2>4
<1>3. s \in T
  <2> HIDE DEF T
  <2> QED
    BY <1>1, <1>2, SeqInduction
<1>4. QED
  BY <1>3

LEMMA GatherEach ==
    ASSUME NEW X, NEW Y, NEW A, NEW e \in [X -> Y], NEW g \in Terms(Y, A), NEW h \in Terms(X, A),
           \A x \in X : g[e[x]] = h[x], NEW s \in Seq(X), NEW u, u = [k \in DOMAIN s |-> e[s[k]]]
    PROVE  u \in Seq(Y) /\ Len(u) = Len(s) /\ Gather(u, g) = Gather(s, h)
<1>1. PICK n \in Nat : n = Len(s) /\ DOMAIN s = 1..n
  OBVIOUS
<1>2. u \in [1..n -> Y]
  BY <1>1
<1>3. u \in Seq(Y) /\ Len(u) = n
  BY <1>2, FunctionIsSeq
<1>4. [i \in DOMAIN u |-> g[u[i]]] = [i \in DOMAIN s |-> h[s[i]]]
  <2>1. DOMAIN u = 1..n
    BY <1>2
  <2>2. \A i \in 1..n : u[i] = e[s[i]] /\ s[i] \in X
    BY <1>1
  <2>3. \A i \in 1..n : g[u[i]] = h[s[i]]
    BY <2>2
  <2>4. QED
    BY <1>1, <2>1, <2>3
<1>5. QED
  BY <1>1, <1>3, <1>4, Zenon DEF Gather

\* A list that goes from one set of elements to a second one and then to a
\* third one is their parts, one after the other.
LEMMA ThreeParts ==
    ASSUME NEW A, NEW P, NEW Q, NEW R, A \subseteq (P \cup Q) \cup R,
           P \cap Q = {}, P \cap R = {}, Q \cap R = {},
           NEW s \in Seq(A),
           \A i, j \in 1..Len(s) : i < j => (s[j] \in P => s[i] \in P) /\ (s[j] \in Q => s[i] \notin R)
    PROVE  (Keep(s, P) \o Keep(s, Q)) \o Keep(s, R) = s
<1> DEFINE InParts(v) == \A i, j \in 1..Len(v) :
                            i < j => (v[j] \in P => v[i] \in P) /\ (v[j] \in Q => v[i] \notin R)
           T == {v \in Seq(A) : InParts(v) => (Keep(v, P) \o Keep(v, Q)) \o Keep(v, R) = v}
<1>1. <<>> \in T
  <2>1. (<<>> \o <<>>) \o <<>> = <<>>
    OBVIOUS
  <2>2. QED
    BY <2>1, KeptNone, EmptySeq, Zenon
<1>2. ASSUME NEW v \in Seq(A), NEW x \in A, v \in T PROVE Append(v, x) \in T
  <2>1. Append(v, x) \in Seq(A)
    BY ConcatAppend
  <2>2. SUFFICES ASSUME InParts(Append(v, x))
                 PROVE  (Keep(Append(v, x), P) \o Keep(Append(v, x), Q)) \o Keep(Append(v, x), R) = Append(v, x)
    BY <2>1
  <2>3. PICK n \in Nat : n = Len(v)
    OBVIOUS
  <2>4. /\ Len(Append(v, x)) = n + 1 /\ Append(v, x)[n + 1] = x
        /\ \A i \in 1..n : Append(v, x)[i] = v[i]
    BY <2>3
  <2>5. InParts(v)
    <3>1. \A i \in 1..n : i \in 1..(n + 1)
      OBVIOUS
    <3>2. QED
      BY <2>2, <2>3, <2>4, <3>1
  <2>6. \A y \in ToSet(v) : (x \in P => y \in P) /\ (x \in Q => y \notin R)
    <3>1. ASSUME NEW i \in 1..n PROVE (x \in P => v[i] \in P) /\ (x \in Q => v[i] \notin R)
      <4>1. i \in 1..(n + 1) /\ n + 1 \in 1..(n + 1) /\ i < n + 1
        OBVIOUS
      <4>2. QED
        BY <2>2, <2>4, <4>1
    <3>2. QED
      BY <2>3, <3>1, Elements
  <2>7. PICK a \in Seq(A), b \in Seq(A), c \in Seq(A) :
           a = Keep(v, P) /\ b = Keep(v, Q) /\ c = Keep(v, R)
    BY Kept
  <2>8. ToSet(a) = ToSet(v) \cap P /\ ToSet(b) = ToSet(v) \cap Q /\ ToSet(c) = ToSet(v) \cap R
    BY <2>7, Kept
  <2>9. (a \o b) \o c = v
    BY <1>2, <2>5, <2>7
  <2>10. /\ Keep(Append(v, x), P) = IF x \in P THEN Append(a, x) ELSE a
         /\ Keep(Append(v, x), Q) = IF x \in Q THEN Append(b, x) ELSE b
         /\ Keep(Append(v, x), R) = IF x \in R THEN Append(c, x) ELSE c
    <3>1. \A k : Keep(Append(v, x), k) = IF x \in k THEN Append(Keep(v, k), x) ELSE Keep(v, k)
      BY KeptAppend
    <3>2. QED
      BY <2>7, <3>1, Zenon
  <2>11. CASE x \in P
    <3>1. b = <<>> /\ c = <<>>
      <4>1. ToSet(b) = {} /\ ToSet(c) = {}
        BY <2>6, <2>8, <2>11
      <4>2. QED
        BY <4>1, Elements
    <3>2. /\ Keep(Append(v, x), P) = Append(a, x) /\ Keep(Append(v, x), Q) = b
          /\ Keep(Append(v, x), R) = c
      BY <2>10, <2>11
    <3>3. (a \o b) \o c = a /\ (Append(a, x) \o b) \o c = Append(a, x)
      BY <3>1, ConcatAppend, ConcatEmptySeq
    <3>4. QED
      BY <2>9, <3>2, <3>3
  <2>12. CASE x \in Q
    <3>1. c = <<>>
      <4>1. ToSet(c) = {}
        BY <2>6, <2>8, <2>12
      <4>2. QED
        BY <4>1, Elements
    <3>2. /\ Keep(Append(v, x), P) = a /\ Keep(Append(v, x), Q) = Append(b, x)
          /\ Keep(Append(v, x), R) = c
      BY <2>10, <2>12
    <3>3. PICK d \in Seq(A) : d = a \o b
      BY ConcatProperties
    <3>4. a \o Append(b, x) = Append(d, x) /\ Append(d, x) \in Seq(A)
      BY <3>3, ConcatAppend
    <3>5. d \o c = d /\ Append(d, x) \o c = Append(d, x)
      BY <3>1, <3>4, ConcatEmptySeq
    <3>6. QED
      BY <2>9, <3>2, <3>3, <3>4, <3>5
  <2>13. CASE x \in R /\ x \notin Q /\ x \notin P
    <3>1. /\ Keep(Append(v, x), P) = a /\ Keep(Append(v, x), Q) = b
          /\ Keep(Append(v, x), R) = Append(c, x)
      BY <2>10, <2>13
    <3>2. PICK d \in Seq(A) : d = a \o b
      BY ConcatProperties
    <3>3. d \o Append(c, x) = Append(d \o c, x)
      BY ConcatAppend
    <3>4. QED
      BY <2>9, <3>1, <3>2, <3>3, Zenon
  <2>14. QED
    BY <2>11, <2>12, <2>13
<1>3. s \in T
  <2> HIDE DEF T
  <2> QED
    BY <1>1, <1>2, SeqInduction
<1>4. InParts(s)
  OBVIOUS
<1>5. QED
  BY <1>3, <1>4

-----------------------------------------------------------------------------
(* Conversations: what the items and messages of well-formed bodies say.      *)

Of(kinds) == kinds \X Nat
Said == Of((Texts \cup Acts) \cup Thinking)
SystemTexts == Of({"system", "prompt"})
TextPieces == Of(Texts)
Calls == Of({"call"})
Results == Of({"result"})
Unsigned == Of({"reasoning"})
SignedPieces == Of(Signed)
ThinkingPieces == Of(Thinking)

\* The items of a canonical body: a message of the developer has system texts,
\* and what the model thought is either all signed or not at all.
Classes(i) ==
    CASE i.t = "message"   -> {TextPieces}
      [] i.t = "call"      -> {Calls}
      [] i.t = "output"    -> {Results}
      [] i.t = "reasoning" -> {Unsigned, SignedPieces}
ItemForm == [t : {"message", "call", "output", "reasoning"},
             role : {"developer", "user", "assistant", "none"}, ps : Seq(Said \cup SystemTexts)]
PlainItems == {i \in ItemForm : ~IsDeveloper(i) /\ \E K \in Classes(i) : i.ps \in Seq(K)}
DeveloperItems == {i \in ItemForm : IsDeveloper(i) /\ i.ps \in Seq(SystemTexts)}
Items == PlainItems \cup DeveloperItems

PlainPieces == [i \in PlainItems |-> i.ps]
ItemPieces == [i \in Items |-> IF IsDeveloper(i) THEN <<>> ELSE i.ps]
ItemSystem == [i \in Items |-> DeveloperText(i)]

\* The items that say ps, without one of the developer.
Speaks(items, ps) == items \in Seq(PlainItems) /\ Gather(items, PlainPieces) = ps

LEMMA ItemTypes ==
    /\ PlainPieces \in Terms(PlainItems, Said)
    /\ ItemPieces \in Terms(Items, Said)
    /\ ItemSystem \in Terms(Items, SystemTexts)
    /\ \A i \in PlainItems : /\ i \in Items /\ ~IsDeveloper(i)
                             /\ PlainPieces[i] = i.ps /\ ItemPieces[i] = i.ps /\ ItemSystem[i] = <<>>
    /\ \A i \in DeveloperItems : /\ i \in Items /\ IsDeveloper(i)
                                 /\ ItemPieces[i] = <<>> /\ ItemSystem[i] = i.ps
<1>1. ASSUME NEW i \in PlainItems PROVE i \in Items /\ ~IsDeveloper(i) /\ i.ps \in Seq(Said)
  <2>1. PICK K \in Classes(i) : i.ps \in Seq(K)
    BY DEF PlainItems
  <2>2. K \subseteq Said
    BY <2>1 DEF PlainItems, ItemForm, Classes, Said, Of, Texts, Acts, Thinking, Signed,
       TextPieces, Calls, Results, Unsigned, SignedPieces
  <2>3. i.ps \in Seq(Said)
    BY <2>1, <2>2
  <2>4. QED
    BY <2>3 DEF PlainItems, Items
<1>2. ASSUME NEW i \in DeveloperItems
      PROVE  i \in Items /\ IsDeveloper(i) /\ i.ps \in Seq(SystemTexts)
  BY DEF DeveloperItems, Items
<1>3. <<>> \in Seq(Said) /\ <<>> \in Seq(SystemTexts)
  BY EmptySeq
<1>4. \A i \in Items : i \in PlainItems \/ i \in DeveloperItems
  BY DEF Items
<1>5. PlainPieces \in Terms(PlainItems, Said) /\ \A i \in PlainItems : PlainPieces[i] = i.ps
  BY <1>1 DEF PlainPieces, Terms
<1>6. /\ ItemPieces \in Terms(Items, Said)
      /\ \A i \in Items : ItemPieces[i] = IF IsDeveloper(i) THEN <<>> ELSE i.ps
  <2>1. \A i \in Items : (IF IsDeveloper(i) THEN <<>> ELSE i.ps) \in Seq(Said)
    BY <1>1, <1>2, <1>3, <1>4
  <2>2. QED
    BY <2>1 DEF ItemPieces, Terms
<1>7. /\ ItemSystem \in Terms(Items, SystemTexts)
      /\ \A i \in Items : ItemSystem[i] = IF IsDeveloper(i) THEN i.ps ELSE <<>>
  <2>1. \A i \in Items : (IF IsDeveloper(i) THEN i.ps ELSE <<>>) \in Seq(SystemTexts)
    BY <1>1, <1>2, <1>3, <1>4
  <2>2. QED
    BY <2>1 DEF ItemSystem, Terms, DeveloperText
<1>8. QED
  BY <1>1, <1>2, <1>5, <1>6, <1>7

LEMMA ItemFields ==
    ASSUME NEW t, NEW role, NEW ps
    PROVE  /\ Item(t, role, ps) = [t |-> t, role |-> role, ps |-> ps]
           /\ Item(t, role, ps).t = t /\ Item(t, role, ps).role = role /\ Item(t, role, ps).ps = ps
BY DEF Item

\* An item whose pieces are of one of its classes.
LEMMA PlainItem ==
    /\ \A role \in {"user", "assistant", "none"}, ps \in Seq(TextPieces) :
          Item("message", role, ps) \in PlainItems
    /\ \A ps \in Seq(Calls) : Item("call", "none", ps) \in PlainItems
    /\ \A ps \in Seq(Results) : Item("output", "none", ps) \in PlainItems
    /\ \A ps \in Seq(Unsigned) : Item("reasoning", "none", ps) \in PlainItems
    /\ \A ps \in Seq(SignedPieces) : Item("reasoning", "none", ps) \in PlainItems
<1>1. ASSUME NEW t \in {"message", "call", "output", "reasoning"},
             NEW role \in {"user", "assistant", "none"}, NEW ps, NEW i, i = Item(t, role, ps),
             NEW K \in Classes(i), ps \in Seq(K)
      PROVE  i \in PlainItems
  <2>1. i.t = t /\ i.role = role /\ i.ps = ps /\ i = [t |-> t, role |-> role, ps |-> ps]
    BY <1>1, ItemFields
  <2>2. K \subseteq Said \cup SystemTexts
    BY <1>1, <2>1 DEF Classes, Said, Of, Texts, Acts, Thinking, Signed,
       TextPieces, Calls, Results, Unsigned, SignedPieces
  <2>3. ps \in Seq(Said \cup SystemTexts)
    BY <1>1, <2>2
  <2>4. i \in ItemForm
    BY <2>1, <2>3 DEF ItemForm
  <2>5. ~IsDeveloper(i)
    BY <1>1, <2>1 DEF IsDeveloper
  <2>6. QED
    BY <1>1, <2>1, <2>4, <2>5 DEF PlainItems
<1>2. ASSUME NEW role \in {"user", "assistant", "none"}, NEW ps \in Seq(TextPieces)
      PROVE  Item("message", role, ps) \in PlainItems
  <2>1. PICK t, i : t = "message" /\ i = Item(t, role, ps)
    OBVIOUS
  <2>2. TextPieces \in Classes(i)
    BY <2>1, ItemFields DEF Classes
  <2>3. QED
    BY <1>1, <2>1, <2>2
<1>3. ASSUME NEW ps \in Seq(Calls) PROVE Item("call", "none", ps) \in PlainItems
  <2>1. PICK t, role, i : t = "call" /\ role = "none" /\ i = Item(t, role, ps)
    OBVIOUS
  <2>2. Calls \in Classes(i)
    BY <2>1, ItemFields DEF Classes
  <2>3. QED
    BY <1>1, <2>1, <2>2
<1>4. ASSUME NEW ps \in Seq(Results) PROVE Item("output", "none", ps) \in PlainItems
  <2>1. PICK t, role, i : t = "output" /\ role = "none" /\ i = Item(t, role, ps)
    OBVIOUS
  <2>2. Results \in Classes(i)
    BY <2>1, ItemFields DEF Classes
  <2>3. QED
    BY <1>1, <2>1, <2>2
<1>5. ASSUME NEW K \in {Unsigned, SignedPieces}, NEW ps \in Seq(K)
      PROVE  Item("reasoning", "none", ps) \in PlainItems
  <2>1. PICK t, role, i : t = "reasoning" /\ role = "none" /\ i = Item(t, role, ps)
    OBVIOUS
  <2>2. K \in Classes(i)
    BY <2>1, ItemFields DEF Classes
  <2>3. QED
    BY <1>1, <2>1, <2>2
<1>6. QED
  BY <1>2, <1>3, <1>4, <1>5

LEMMA SpeaksTyped ==
    ASSUME NEW s, NEW ps, Speaks(s, ps)
    PROVE  ps \in Seq(Said) /\ s \in Seq(PlainItems)
BY ItemTypes, GatherTyped, Zenon DEF Speaks

LEMMA SpeaksNothing == Speaks(<<>>, <<>>)
BY ItemTypes, GatherNone, EmptySeq, Zenon DEF Speaks

LEMMA SpeaksOne ==
    ASSUME NEW i \in PlainItems
    PROVE  Speaks(<<i>>, i.ps)
<1>1. <<i>> \in Seq(PlainItems)
  OBVIOUS
<1>2. Gather(<<i>>, PlainPieces) = PlainPieces[i]
  BY ItemTypes, GatherOne
<1>3. PlainPieces[i] = i.ps
  BY ItemTypes, Zenon
<1>4. QED
  BY <1>1, <1>2, <1>3, Zenon DEF Speaks

LEMMA SpeaksConcat ==
    ASSUME NEW s, NEW ps, Speaks(s, ps), NEW u, NEW qs, Speaks(u, qs)
    PROVE  Speaks(s \o u, ps \o qs)
<1>1. s \in Seq(PlainItems) /\ u \in Seq(PlainItems)
  BY DEF Speaks
<1>2. s \o u \in Seq(PlainItems)
  BY <1>1, ConcatProperties
<1>3. Gather(s \o u, PlainPieces) = Gather(s, PlainPieces) \o Gather(u, PlainPieces)
  BY <1>1, ItemTypes, GatherConcat, Zenon
<1>4. QED
  BY <1>2, <1>3, Zenon DEF Speaks

LEMMA SpeaksOptional ==
    ASSUME NEW i \in PlainItems, NEW ps, ps = i.ps
    PROVE  Speaks(Optional(i, ps), ps)
<1>1. CASE ps = <<>>
  BY <1>1, SpeaksNothing DEF Optional
<1>2. CASE ps # <<>>
  BY <1>2, SpeaksOne DEF Optional
<1>3. QED
  BY <1>1, <1>2

\* One item for each piece.
LEMMA SpeaksEach ==
    ASSUME NEW X \in SUBSET Said, NEW e \in [X -> PlainItems], \A x \in X : e[x].ps = <<x>>,
           NEW s \in Seq(X)
    PROVE  Speaks([k \in DOMAIN s |-> e[s[k]]], s)
<1>1. PICK h : h = [x \in X |-> <<x>>]
  OBVIOUS
<1>2. h \in Terms(X, X) /\ h \in Terms(X, Said) /\ \A x \in X : h[x] = <<x>>
  <2>1. \A x \in X : <<x>> \in Seq(X) /\ <<x>> \in Seq(Said)
    OBVIOUS
  <2>2. QED
    BY <1>1, <2>1 DEF Terms
<1>3. \A x \in X : PlainPieces[e[x]] = h[x]
  <2>1. ASSUME NEW x \in X PROVE PlainPieces[e[x]] = h[x]
    <3>1. PICK i \in PlainItems : i = e[x] /\ i.ps = <<x>>
      OBVIOUS
    <3>2. PlainPieces[i] = i.ps
      BY ItemTypes, Zenon
    <3>3. QED
      BY <1>2, <3>1, <3>2
  <2>2. QED
    BY <2>1
<1>4. PICK u : u = [k \in DOMAIN s |-> e[s[k]]]
  OBVIOUS
<1>5. PlainPieces \in Terms(PlainItems, Said)
  BY ItemTypes
<1>6. u \in Seq(PlainItems) /\ Gather(u, PlainPieces) = Gather(s, h)
  <2>1. h \in Terms(X, Said)
    BY <1>2
  <2>2. u \in Seq(PlainItems) /\ Len(u) = Len(s) /\ Gather(u, PlainPieces) = Gather(s, h)
    BY <1>3, <1>4, <1>5, <2>1, GatherEach
  <2>3. QED
    BY <2>2
<1>7. Gather(s, h) = s
  BY <1>2, GatherSelf, Zenon
<1>8. QED
  BY <1>4, <1>6, <1>7, Zenon DEF Speaks

\* What the items say that the elements of a list become.
LEMMA SpeaksGather ==
    ASSUME NEW X, NEW f \in Terms(X, PlainItems), NEW h \in Terms(X, Said),
           \A x \in X : Speaks(f[x], h[x]), NEW s \in Seq(X)
    PROVE  Speaks(Gather(s, f), Gather(s, h))
<1>1. \A x \in X : Gather(f[x], PlainPieces) = h[x]
  BY DEF Speaks
<1>2. PlainPieces \in Terms(PlainItems, Said)
  BY ItemTypes
<1>3. Gather(Gather(s, f), PlainPieces) = Gather(s, h)
  BY <1>1, <1>2, GatherNest
<1>4. Gather(s, f) \in Seq(PlainItems)
  BY GatherTyped, Zenon
<1>5. QED
  BY <1>3, <1>4, Zenon DEF Speaks

\* The same terms give the same.
LEMMA GatherSame ==
    ASSUME NEW X, NEW g, NEW h, \A x \in X : g[x] = h[x], NEW s \in Seq(X)
    PROVE  Gather(s, g) = Gather(s, h)
<1>1. \A i \in DOMAIN s : s[i] \in X
  OBVIOUS
<1>2. [i \in DOMAIN s |-> g[s[i]]] = [i \in DOMAIN s |-> h[s[i]]]
  BY <1>1
<1>3. QED
  BY <1>2, Zenon DEF Gather

\* As items of a canonical body, they have no system text.
LEMMA SpeaksInBody ==
    ASSUME NEW s, NEW ps, Speaks(s, ps)
    PROVE  /\ s \in Seq(Items) /\ Gather(s, ItemPieces) = ps
           /\ Gather(s, ItemSystem) = <<>>
<1>1. s \in Seq(PlainItems) /\ Gather(s, PlainPieces) = ps
  BY DEF Speaks
<1>2. s \in Seq(Items)
  <2>1. PlainItems \subseteq Items
    BY ItemTypes
  <2>2. QED
    BY <1>1, <2>1
<1>3. Gather(s, ItemPieces) = Gather(s, PlainPieces)
  <2>1. \A i \in PlainItems : ItemPieces[i] = PlainPieces[i]
    BY ItemTypes, Zenon
  <2>2. QED
    BY <1>1, <2>1, GatherSame, Zenon
<1>4. Gather(s, ItemSystem) = <<>>
  <2>1. PICK h : h = [i \in PlainItems |-> <<>>]
    OBVIOUS
  <2>2. h \in Terms(PlainItems, SystemTexts) /\ \A i \in PlainItems : h[i] = <<>>
    <3>1. <<>> \in Seq(SystemTexts)
      BY EmptySeq
    <3>2. QED
      BY <2>1, <3>1 DEF Terms
  <2>3. \A i \in PlainItems : ItemSystem[i] = h[i]
    BY <2>2, ItemTypes, Zenon
  <2>4. Gather(s, ItemSystem) = Gather(s, h)
    BY <1>1, <2>3, GatherSame, Zenon
  <2>5. QED
    BY <1>1, <2>2, <2>4, GatherNothing, Zenon
<1>5. QED
  BY <1>1, <1>2, <1>3, <1>4

\* In a message no result comes after a text.
Orderly(ps) == \A i, j \in 1..Len(ps) : i < j /\ ps[j] \in Results => ps[i] \notin TextPieces
Messages == {m \in [role : {"user", "assistant", "none"}, ps : Seq(Said)] : Orderly(m.ps)}
MessagePieces == [m \in Messages |-> m.ps]
Heard == Of(Texts \cup Acts)

\* The state of the loop over a message's blocks.
BlockState == [items : Seq(PlainItems), text : Seq(TextPieces)]

LEMMA SaidKinds ==
    /\ \A p \in Said : \/ p \in TextPieces /\ p[1] \in {"text", "user"}
                       \/ p \in Calls /\ p[1] = "call"
                       \/ p \in Results /\ p[1] = "result"
                       \/ p \in ThinkingPieces /\ p[1] \in Thinking
    /\ \A p \in TextPieces : p \in Said /\ p \in Heard /\ p \notin Results
    /\ \A p \in Calls : p \in Said /\ p \in Heard /\ p \notin Results /\ p \notin TextPieces
    /\ \A p \in Results : p \in Said /\ p \in Heard /\ p \notin TextPieces
    /\ \A p \in ThinkingPieces : p \in Said /\ p \notin Heard /\ p \notin Results
BY DEF Said, Heard, Of, Texts, Acts, Thinking, TextPieces, Calls, Results, ThinkingPieces

LEMMA FlushedSpeaks ==
    ASSUME NEW a \in BlockState, NEW role \in {"user", "assistant", "none"}, NEW ps, Speaks(a.items, ps)
    PROVE  Speaks(Flushed(a, role), ps \o a.text)
<1>1. a.text \in Seq(TextPieces)
  BY DEF BlockState
<1>2. PICK i \in PlainItems : i = Item("message", role, a.text) /\ i.ps = a.text
  BY <1>1, PlainItem, ItemFields
<1>3. Speaks(Optional(i, a.text), a.text)
  BY <1>2, SpeaksOptional
<1>4. Flushed(a, role) = a.items \o Optional(i, a.text)
  BY <1>2 DEF Flushed
<1>5. QED
  BY <1>3, <1>4, SpeaksConcat

LEMMA FlushedTyped ==
    ASSUME NEW a \in BlockState, NEW role \in {"user", "assistant", "none"}
    PROVE  Flushed(a, role) \in Seq(PlainItems)
<1>1. PICK ps : ps = Gather(a.items, PlainPieces)
  OBVIOUS
<1>2. Speaks(a.items, ps)
  BY <1>1 DEF Speaks, BlockState
<1>3. Speaks(Flushed(a, role), ps \o a.text)
  BY <1>2, FlushedSpeaks
<1>4. QED
  BY <1>3 DEF Speaks

\* The item of one piece.
LEMMA PieceItem ==
    ASSUME NEW p, NEW t, NEW i, i = Item(t, "none", <<p>>),
           \/ t = "call" /\ p \in Calls
           \/ t = "output" /\ p \in Results
           \/ t = "message" /\ p \in TextPieces
           \/ t = "reasoning" /\ (p \in Unsigned \/ p \in SignedPieces)
    PROVE  i \in PlainItems /\ i.t = t /\ i.ps = <<p>>
<1>1. PICK ps : ps = <<p>> /\ \A K : p \in K => ps \in Seq(K)
  <2>1. \A K : p \in K => <<p>> \in Seq(K)
    OBVIOUS
  <2>2. QED
    BY <2>1, Zenon
<1>2. i = Item(t, "none", ps)
  BY <1>1
<1>3. i \in PlainItems
  BY <1>1, <1>2, PlainItem
<1>4. i.t = t /\ i.ps = ps
  BY <1>2, ItemFields
<1>5. QED
  BY <1>1, <1>3, <1>4

\* What one block adds.
Adds(a, p, b) ==
    /\ b \in BlockState
    /\ ToSet(b.text) \subseteq ToSet(a.text) \cup {p}
    /\ \A ps : Speaks(a.items, ps) /\ (p \in Results => a.text = <<>>) =>
          \E qs : /\ Speaks(b.items, qs)
                  /\ qs \o b.text = IF p \in Heard THEN Append(ps \o a.text, p) ELSE ps \o a.text

LEMMA BlockSpeaks ==
    ASSUME NEW a \in BlockState, NEW role \in {"user", "assistant", "none"}, NEW p \in Said,
           NEW b, b = NextBlock(a, role, p)
    PROVE  Adds(a, p, b)
<1> USE DEF Adds
<1>1. a.items \in Seq(PlainItems) /\ a.text \in Seq(TextPieces)
  BY DEF BlockState
<1>2. CASE p \in TextPieces /\ p[1] \in {"text", "user"}
  <2>1. b = [a EXCEPT !.text = Append(@, p)]
    BY <1>2 DEF NextBlock, Thinking
  <2>2. b.items = a.items /\ b.text = Append(a.text, p)
    <3>1. PICK t : t = Append(a.text, p)
      OBVIOUS
    <3>2. b = [a EXCEPT !.text = t]
      BY <2>1, <3>1
    <3>3. QED
      BY <3>1, <3>2 DEF BlockState
  <2>3. Append(a.text, p) \in Seq(TextPieces) /\ ToSet(b.text) = ToSet(a.text) \cup {p}
    BY <1>1, <1>2, <2>2, Appended
  <2>4. b \in BlockState
    BY <2>1, <2>3 DEF BlockState
  <2>5. ASSUME NEW ps, Speaks(a.items, ps)
        PROVE  Speaks(b.items, ps) /\ ps \o b.text = Append(ps \o a.text, p)
    <3>1. ps \in Seq(Said) /\ a.text \in Seq(Said)
      <4>1. TextPieces \subseteq Said
        BY SaidKinds
      <4>2. QED
        BY <1>1, <2>5, <4>1, SpeaksTyped
    <3>2. QED
      BY <2>2, <2>5, <3>1, ConcatAppend
  <2>6. p \in Heard
    BY <1>2, SaidKinds
  <2>7. QED
    BY <2>3, <2>4, <2>5, <2>6
<1>3. CASE p \in Calls /\ p[1] = "call"
  <2>1. PICK i \in PlainItems : i = Item("call", "none", <<p>>) /\ i.ps = <<p>>
    BY <1>3, PieceItem
  <2>2. PICK u \in Seq(PlainItems) : u = Flushed(a, role)
    BY FlushedTyped
  <2>3. b = [items |-> Append(u, i), text |-> <<>>]
    BY <1>3, <2>1, <2>2 DEF NextBlock, Thinking
  <2>4. b.items = Append(u, i) /\ b.text = <<>> /\ Append(u, i) \in Seq(PlainItems) /\ Append(u, i) = u \o <<i>>
    BY <2>3, ConcatAppend
  <2>5. b \in BlockState
    <3>1. <<>> \in Seq(TextPieces)
      BY EmptySeq
    <3>2. QED
      BY <2>3, <2>4, <3>1 DEF BlockState
  <2>6. ASSUME NEW ps, Speaks(a.items, ps)
        PROVE  \E qs : Speaks(b.items, qs) /\ qs \o b.text = Append(ps \o a.text, p)
    <3>1. PICK rs : rs = ps \o a.text /\ Speaks(u, rs)
      BY <2>2, <2>6, FlushedSpeaks
    <3>2. Speaks(<<i>>, <<p>>)
      BY <2>1, SpeaksOne
    <3>3. Speaks(b.items, rs \o <<p>>)
      BY <2>4, <3>1, <3>2, SpeaksConcat
    <3>4. rs \in Seq(Said)
      BY <3>1, SpeaksTyped
    <3>5. Append(rs, p) = rs \o <<p>> /\ rs \o <<p>> \in Seq(Said)
      BY <3>4, ConcatAppend
    <3>6. (rs \o <<p>>) \o <<>> = rs \o <<p>>
      BY <3>5, ConcatEmptySeq
    <3>7. QED
      BY <2>4, <3>1, <3>3, <3>5, <3>6
  <2>7. p \in Heard /\ p \notin Results
    BY <1>3, SaidKinds
  <2>8. ToSet(b.text) = {}
    BY <2>4, NoElements
  <2>9. QED
    BY <2>5, <2>6, <2>7, <2>8
<1>4. CASE p \in Results /\ p[1] = "result"
  <2>1. PICK i \in PlainItems : i = Item("output", "none", <<p>>) /\ i.ps = <<p>>
    BY <1>4, PieceItem
  <2>2. b = [a EXCEPT !.items = Append(@, i)]
    BY <1>4, <2>1 DEF NextBlock, Thinking
  <2>3. PICK u \in Seq(PlainItems) : u = a.items
    BY <1>1
  <2>4. /\ b.items = Append(u, i) /\ b.text = a.text
        /\ Append(u, i) \in Seq(PlainItems) /\ Append(u, i) = u \o <<i>>
    <3>1. b.items = Append(u, i) /\ b.text = a.text
      BY <2>2, <2>3 DEF BlockState
    <3>2. QED
      BY <3>1, ConcatAppend
  <2>5. b \in BlockState
    BY <1>1, <2>2, <2>3, <2>4 DEF BlockState
  <2>6. ASSUME NEW ps, Speaks(a.items, ps), a.text = <<>>
        PROVE  \E qs : Speaks(b.items, qs) /\ qs \o b.text = Append(ps \o a.text, p)
    <3>1. Speaks(<<i>>, <<p>>)
      BY <2>1, SpeaksOne
    <3>2. Speaks(b.items, ps \o <<p>>)
      BY <2>3, <2>4, <2>6, <3>1, SpeaksConcat
    <3>3. ps \in Seq(Said)
      BY <2>6, SpeaksTyped
    <3>4. Append(ps, p) = ps \o <<p>> /\ ps \o <<p>> \in Seq(Said) /\ ps \o <<>> = ps
      BY <3>3, ConcatAppend, ConcatEmptySeq
    <3>5. (ps \o <<p>>) \o <<>> = ps \o <<p>>
      BY <3>4, ConcatEmptySeq
    <3>6. QED
      BY <2>4, <2>6, <3>2, <3>4, <3>5
  <2>7. p \in Heard
    BY <1>4, SaidKinds
  <2>8. QED
    BY <1>4, <2>4, <2>5, <2>6, <2>7
<1>5. CASE p \in ThinkingPieces /\ p[1] \in Thinking
  <2>1. b = a
    BY <1>5 DEF NextBlock, Thinking
  <2>2. p \notin Heard
    BY <1>5, SaidKinds
  <2>3. QED
    BY <2>1, <2>2
<1>6. QED
  BY <1>2, <1>3, <1>4, <1>5, SaidKinds

\* What has become of a prefix: its blocks are in U, and ps is to be said of it.
Progress(b, U, ps) ==
    /\ b \in BlockState /\ ToSet(b.text) \subseteq U
    /\ \E qs : Speaks(b.items, qs) /\ qs \o b.text = ps

LEMMA BlockProgress ==
    ASSUME NEW a, NEW U, NEW ps, Progress(a, U, ps), NEW role \in {"user", "assistant", "none"},
           NEW p \in Said, p \in Results => a.text = <<>>, NEW b, b = NextBlock(a, role, p)
    PROVE  Progress(b, U \cup {p}, IF p \in Heard THEN Append(ps, p) ELSE ps)
<1>1. a \in BlockState /\ ToSet(a.text) \subseteq U
  BY DEF Progress
<1>2. PICK qs : Speaks(a.items, qs) /\ qs \o a.text = ps
  BY DEF Progress
<1>3. Adds(a, p, b)
  BY <1>1, BlockSpeaks, Zenon
<1>4. \E us : /\ Speaks(b.items, us)
              /\ us \o b.text = IF p \in Heard THEN Append(ps, p) ELSE ps
  BY <1>2, <1>3, Zenon DEF Adds
<1>5. b \in BlockState /\ ToSet(b.text) \subseteq U \cup {p}
  BY <1>1, <1>3 DEF Adds
<1>6. QED
  BY <1>4, <1>5, Zenon DEF Progress

LEMMA BlockTyped ==
    ASSUME NEW a \in BlockState, NEW role \in {"user", "assistant", "none"}, NEW p \in Said,
           NEW b, b = NextBlock(a, role, p)
    PROVE  b \in BlockState
BY BlockSpeaks, Zenon DEF Adds

\* The loop over a message's blocks.
BlocksRun(f, role, ps) ==
    /\ f[0] = [items |-> <<>>, text |-> <<>>]
    /\ \A i \in 1..Len(ps) : f[i] = NextBlock(f[i - 1], role, ps[i])
    /\ MessageBlocks(role, ps) = f[Len(ps)]

LEMMA BlocksLoop ==
    ASSUME NEW role \in {"user", "assistant", "none"}, NEW ps \in Seq(Said)
    PROVE  \E f : BlocksRun(f, role, ps)
<1>1. PICK n \in Nat : n = Len(ps) /\ \A i \in 1..n : ps[i] \in Said
  OBVIOUS
<1>0. PICK V : V = BlockState
  OBVIOUS
<1> DEFINE Empty == [items |-> <<>>, text |-> <<>>]
           Step(v, i) == NextBlock(v, role, ps[i])
           Runs(f) == f = [i \in 0..n |-> IF i = 0 THEN Empty ELSE Step(f[i - 1], i)]
           F == [i \in 1..n |-> [v \in V |-> Step(v, i)]]
           f == CHOOSE f : Runs(f)
<1>2. MessageBlocks(role, ps) = f[n]
  BY <1>1, Zenon DEF MessageBlocks
<1>3. Empty \in V
  <2>1. <<>> \in Seq(PlainItems) /\ <<>> \in Seq(TextPieces)
    BY EmptySeq
  <2>2. QED
    BY <1>0, <2>1 DEF BlockState
<1>4. ASSUME NEW i \in 1..n, NEW v \in V PROVE Step(v, i) \in V
  <2>1. PICK p \in Said : p = ps[i]
    BY <1>1
  <2>2. PICK b : b = NextBlock(v, role, p)
    OBVIOUS
  <2>3. b \in BlockState
    BY <1>0, <2>2, BlockTyped, Zenon
  <2>4. QED
    BY <1>0, <2>1, <2>2, <2>3
<1> HIDE DEF Step, Empty
<1>5. F \in [1..n -> [V -> V]] /\ \A i \in 1..n, v \in V : F[i][v] = Step(v, i)
  BY <1>4
<1>6. \E g \in [0..n -> V] : g[0] = Empty /\ \A i \in 1..n : g[i] = F[i][g[i - 1]]
  <2>1. PICK base \in V : base = Empty
    BY <1>3
  <2>2. F \in [1..n -> [V -> V]]
    BY <1>5
  <2>3. n \in Nat
    OBVIOUS
  <2> HIDE DEF F
  <2>4. \E g \in [0..n -> V] : g[0] = base /\ \A i \in 1..n : g[i] = F[i][g[i - 1]]
    BY <2>2, <2>3, LoopExists, SMTT(60)
  <2>5. QED
    BY <2>1, <2>4
<1> HIDE DEF F
<1>7. \E g : Runs(g)
  <2>1. PICK g \in [0..n -> V] : g[0] = Empty /\ \A i \in 1..n : g[i] = F[i][g[i - 1]]
    BY <1>6
  <2>2. \A i \in 1..n : i - 1 \in 0..n
    OBVIOUS
  <2>3. \A i \in 1..n : g[i] = Step(g[i - 1], i)
    BY <1>5, <2>1, <2>2
  <2>4. \A i \in 0..n : i # 0 => i \in 1..n
    OBVIOUS
  <2>5. Runs(g)
    BY <2>1, <2>3, <2>4
  <2>6. QED
    BY <2>5
<1>8. Runs(f)
  <2> HIDE DEF Runs
  <2> QED
    BY <1>7, Zenon
<1> HIDE DEF f
<1>9. f[0] = Empty /\ \A i \in 1..n : f[i] = Step(f[i - 1], i)
  BY <1>8
<1>10. QED
  BY <1>1, <1>2, <1>9, Zenon DEF Step, Empty, BlocksRun

\* A message of a client becomes items that say the same, without thinking.
LEMMA MessageSpeaks ==
    ASSUME NEW m \in Messages
    PROVE  Speaks(MessageToItems(m), Keep(m.ps, Heard))
<1>1. PICK role \in {"user", "assistant", "none"}, ps \in Seq(Said), n \in Nat :
         role = m.role /\ ps = m.ps /\ Orderly(ps) /\ n = Len(ps)
  BY DEF Messages
<1>2. PICK f : BlocksRun(f, role, ps)
  BY BlocksLoop
<1>3. PICK w : KeepRun(w, Said, ps, Heard)
  BY KeepLoop
<1>4. /\ f[0] = [items |-> <<>>, text |-> <<>>] /\ MessageBlocks(role, ps) = f[n]
      /\ \A i \in 1..n : f[i] = NextBlock(f[i - 1], role, ps[i])
  BY <1>1, <1>2, Zenon DEF BlocksRun
<1>5. /\ w[0] = <<>> /\ Keep(ps, Heard) = w[n]
      /\ \A i \in 1..n : w[i] = IF ps[i] \in Heard THEN Append(w[i - 1], ps[i]) ELSE w[i - 1]
  BY <1>1, <1>3, Zenon DEF KeepRun
<1>6. /\ \A i \in 1..n : ps[i] \in Said /\ i - 1 \in 0..n
      /\ \A i \in 1..n : Upto(ps, i) = Upto(ps, i - 1) \cup {ps[i]}
  BY <1>1, UptoStep
<1> DEFINE T == {i \in 0..n : Progress(f[i], Upto(ps, i), w[i])}
<1>7. 0 \in T
  <2>1. <<>> \in Seq(PlainItems) /\ <<>> \in Seq(TextPieces) /\ ToSet(<<>>) = {} /\ <<>> \o <<>> = <<>>
    BY EmptySeq, NoElements
  <2>2. PICK b : b = f[0] /\ b.items = <<>> /\ b.text = <<>> /\ b \in BlockState
    <3>1. PICK e : e = <<>> /\ e \in Seq(PlainItems) /\ e \in Seq(TextPieces)
      BY <2>1
    <3>2. f[0] = [items |-> e, text |-> e]
      BY <1>4, <3>1
    <3>3. f[0].items = e /\ f[0].text = e
      BY <3>2
    <3>4. f[0] \in BlockState
      BY <3>1, <3>2 DEF BlockState
    <3>5. QED
      BY <3>1, <3>3, <3>4
  <2>3. PICK e : e = <<>> /\ Speaks(b.items, e) /\ e \o b.text = w[0] /\ ToSet(b.text) = {}
    BY <1>5, <2>1, <2>2, SpeaksNothing
  <2>4. Progress(b, Upto(ps, 0), w[0])
    BY <2>2, <2>3 DEF Progress
  <2>5. QED
    BY <2>2, <2>4
<1>8. ASSUME NEW i \in 1..n, i - 1 \in T PROVE i \in T
  <2>1. PICK p \in Said : p = ps[i]
    BY <1>6
  <2>2. PICK a, b : a = f[i - 1] /\ b = f[i] /\ b = NextBlock(a, role, p)
    BY <1>4, <2>1
  <2>3. Progress(a, Upto(ps, i - 1), w[i - 1])
    BY <1>8, <2>2
  <2>4. p \in Results => a.text = <<>>
    <3>1. SUFFICES ASSUME p \in Results PROVE a.text = <<>>
      OBVIOUS
    <3>2. a.text \in Seq(TextPieces) /\ ToSet(a.text) \subseteq Upto(ps, i - 1)
      BY <2>3 DEF Progress, BlockState
    <3>3. ToSet(a.text) \subseteq TextPieces
      BY <3>2, Elements
    <3>4. \A j \in 1..(i - 1) : ps[j] \notin TextPieces
      BY <1>1, <2>1, <3>1 DEF Orderly
    <3>5. ToSet(a.text) = {}
      BY <3>2, <3>3, <3>4 DEF Upto
    <3>6. QED
      BY <3>2, <3>5, Elements
  <2>5. Progress(b, Upto(ps, i - 1) \cup {p}, IF p \in Heard THEN Append(w[i - 1], p) ELSE w[i - 1])
    BY <2>2, <2>3, <2>4, BlockProgress, Zenon
  <2>6. w[i] = (IF p \in Heard THEN Append(w[i - 1], p) ELSE w[i - 1]) /\ Upto(ps, i) = Upto(ps, i - 1) \cup {p}
    BY <1>5, <1>6, <2>1
  <2>7. Progress(b, Upto(ps, i), w[i])
    BY <2>5, <2>6, Zenon
  <2>8. i \in 0..n
    OBVIOUS
  <2>9. QED
    BY <2>2, <2>7, <2>8
<1>9. n \in T
  <2>1. \A i \in 0..n : i \in T
    <3> HIDE DEF T
    <3> QED
      BY <1>7, <1>8, LoopInduction
  <2>2. QED
    BY <2>1
<1>10. PICK a, qs : /\ a \in BlockState /\ a = MessageBlocks(role, ps) /\ Speaks(a.items, qs)
                    /\ qs \o a.text = Keep(ps, Heard)
  <2>1. Progress(f[n], Upto(ps, n), w[n])
    BY <1>9
  <2>2. QED
    BY <1>4, <1>5, <2>1, Zenon DEF Progress
<1>11. PICK u : u = Flushed(a, role) /\ Speaks(u, Keep(ps, Heard))
  BY <1>10, FlushedSpeaks
<1>12. MessageToItems(m) = IF u = <<>> THEN <<Item("message", role, <<>>)>> ELSE u
  BY <1>1, <1>10, <1>11, Zenon DEF MessageToItems
<1>13. CASE u = <<>>
  <2>1. PICK e \in Seq(TextPieces) : e = <<>>
    BY EmptySeq
  <2>2. PICK i \in PlainItems : i = Item("message", role, e) /\ i.ps = e
    BY PlainItem, ItemFields
  <2>3. Speaks(<<i>>, e)
    BY <2>2, SpeaksOne
  <2>4. Gather(<<>>, PlainPieces) = <<>>
    BY ItemTypes, GatherNone, Zenon
  <2>5. Keep(ps, Heard) = <<>>
    BY <1>11, <1>13, <2>4 DEF Speaks
  <2>6. QED
    BY <1>1, <1>12, <1>13, <2>1, <2>2, <2>3, <2>5
<1>14. CASE u # <<>>
  BY <1>1, <1>11, <1>12, <1>14
<1>15. QED
  BY <1>13, <1>14

\* The messages of a Chat body.
Chats == {c \in [role : {"system", "user", "assistant", "tool", "none"},
                 ps : Seq(Said \cup SystemTexts), calls : Seq(Calls)] :
             /\ c.role = "system" => c.ps \in Seq(SystemTexts)
             /\ c.role = "tool" => c.ps \in Seq(Results)
             /\ c.role \notin {"system", "tool"} => c.ps \in Seq(TextPieces)
             /\ c.role # "assistant" => c.calls = <<>>}
ChatPieces == [c \in Chats |-> IF c.role = "system" THEN <<>> ELSE c.ps \o c.calls]
ChatSystem == [c \in Chats |-> IF c.role = "system" THEN c.ps ELSE <<>>]

LEMMA ChatMessages ==
    /\ ChatPieces \in Terms(Chats, Heard)
    /\ ChatSystem \in Terms(Chats, SystemTexts)
    /\ \A c \in Chats : /\ IsSystem(c) <=> c.role = "system"
                        /\ ChatPieces[c] = IF c.role = "system" THEN <<>> ELSE c.ps \o c.calls
                        /\ ChatSystem[c] = IF c.role = "system" THEN c.ps ELSE <<>>
<1>1. <<>> \in Seq(Heard) /\ <<>> \in Seq(SystemTexts)
  BY EmptySeq
<1>2. ASSUME NEW c \in Chats, c.role # "system" PROVE c.ps \o c.calls \in Seq(Heard)
  <2>1. TextPieces \subseteq Heard /\ Results \subseteq Heard /\ Calls \subseteq Heard
    BY SaidKinds
  <2>2. c.ps \in Seq(TextPieces) \/ c.ps \in Seq(Results)
    BY <1>2 DEF Chats
  <2>3. c.ps \in Seq(Heard)
    BY <2>1, <2>2
  <2>4. c.calls \in Seq(Calls)
    BY DEF Chats
  <2>5. c.calls \in Seq(Heard)
    BY <2>1, <2>4
  <2>6. QED
    BY <2>3, <2>5, ConcatProperties
<1>3. PICK V : V = Seq(Heard)
  OBVIOUS
<1>4. PICK W : W = Seq(SystemTexts)
  OBVIOUS
<1>5. \A c \in Chats : (IF c.role = "system" THEN <<>> ELSE c.ps \o c.calls) \in V
  BY <1>1, <1>2, <1>3
<1>6. \A c \in Chats : (IF c.role = "system" THEN c.ps ELSE <<>>) \in W
  BY <1>1, <1>4 DEF Chats
<1>7. ChatPieces \in [Chats -> V] /\ ChatSystem \in [Chats -> W]
  BY <1>5, <1>6, Zenon DEF ChatPieces, ChatSystem
<1>8. \A c \in Chats : IsSystem(c) <=> c.role = "system"
  BY DEF Chats, IsSystem
<1>9. \A c \in Chats : /\ ChatPieces[c] = IF c.role = "system" THEN <<>> ELSE c.ps \o c.calls
                       /\ ChatSystem[c] = IF c.role = "system" THEN c.ps ELSE <<>>
  BY Zenon DEF ChatPieces, ChatSystem
<1>10. QED
  BY <1>3, <1>4, <1>7, <1>8, <1>9, Zenon DEF Terms

LEMMA CallItemsSpeak ==
    ASSUME NEW calls \in Seq(Calls)
    PROVE  Speaks(CallItems(calls), calls)
<1>1. PICK e : e = [p \in Calls |-> Item("call", "none", <<p>>)]
  OBVIOUS
<1>2. /\ e \in [Calls -> PlainItems]
      /\ \A p \in Calls : e[p] = Item("call", "none", <<p>>) /\ e[p].ps = <<p>>
  <2>1. \A p \in Calls : Item("call", "none", <<p>>) \in PlainItems
    BY PieceItem
  <2>2. \A p \in Calls : Item("call", "none", <<p>>).ps = <<p>>
    BY DEF Item
  <2>3. QED
    BY <1>1, <2>1, <2>2
<1>3. Calls \subseteq Said
  BY SaidKinds
<1>4. Speaks([k \in DOMAIN calls |-> e[calls[k]]], calls)
  BY <1>2, <1>3, SpeaksEach
<1>5. CallItems(calls) = [k \in DOMAIN calls |-> e[calls[k]]]
  <2>1. \A k \in DOMAIN calls : calls[k] \in Calls
    OBVIOUS
  <2>2. QED
    BY <1>2, <2>1 DEF CallItems
<1>6. QED
  BY <1>4, <1>5, Zenon

\* A Chat message that is not of the system says its texts and then its calls.
LEMMA ChatSpeaks ==
    ASSUME NEW c \in Chats, c.role # "system"
    PROVE  Speaks(ChatToItems(c), c.ps \o c.calls)
<1>0. PICK ps : ps = c.ps
  OBVIOUS
<1>1. PICK role \in {"user", "assistant", "tool", "none"}, calls \in Seq(Calls) :
         role = c.role /\ calls = c.calls
  BY DEF Chats
<1>2. /\ role = "tool" => ps \in Seq(Results)
      /\ role # "tool" => ps \in Seq(TextPieces)
      /\ role # "assistant" => calls = <<>>
  BY <1>0, <1>1 DEF Chats
<1>3. CASE role = "tool"
  <2>1. PICK i \in PlainItems : i = Item("output", "none", ps) /\ i.ps = ps
    BY <1>2, <1>3, PlainItem, ItemFields
  <2>2. Speaks(<<i>>, ps)
    BY <2>1, SpeaksOne
  <2>3. ps \o calls = ps
    BY <1>2, <1>3, ConcatEmptySeq
  <2>4. ChatToItems(c) = <<i>>
    BY <1>0, <1>1, <1>3, <2>1 DEF ChatToItems
  <2>5. QED
    BY <1>0, <1>1, <2>2, <2>3, <2>4
<1>4. CASE role = "assistant" /\ calls # <<>>
  <2>1. PICK i \in PlainItems : i = Item("message", "assistant", ps) /\ i.ps = ps
    BY <1>2, <1>4, PlainItem, ItemFields
  <2>2. Speaks(Optional(i, ps), ps)
    BY <2>1, SpeaksOptional
  <2>3. Speaks(CallItems(calls), calls)
    BY CallItemsSpeak
  <2>4. ChatToItems(c) = Optional(i, ps) \o CallItems(calls)
    BY <1>0, <1>1, <1>4, <2>1 DEF ChatToItems
  <2>5. QED
    BY <1>0, <1>1, <2>2, <2>3, <2>4, SpeaksConcat
<1>5. CASE role # "tool" /\ calls = <<>>
  <2>1. PICK i \in PlainItems : i = Item("message", role, ps) /\ i.ps = ps
    BY <1>2, <1>5, PlainItem, ItemFields
  <2>2. Speaks(<<i>>, ps)
    BY <2>1, SpeaksOne
  <2>3. ps \o calls = ps
    BY <1>2, <1>5, ConcatEmptySeq
  <2>4. ChatToItems(c) = <<i>>
    BY <1>0, <1>1, <1>5, <2>1 DEF ChatToItems
  <2>5. QED
    BY <1>0, <1>1, <2>2, <2>3, <2>4
<1>6. QED
  BY <1>2, <1>3, <1>4, <1>5

-----------------------------------------------------------------------------
(* A request in the canonical form: the system texts that it gives and what   *)
(* it says.                                                                   *)

Canonical(c, sys, ps) ==
    /\ c.input \in Seq(Items) /\ c.system \in Seq(SystemTexts)
    /\ c.system \o Gather(c.input, ItemSystem) = sys
    /\ Gather(c.input, ItemPieces) = ps

LEMMA SystemTyped == Prompt \in Seq(SystemTexts) /\ System \in Seq(SystemTexts)
<1>1. <<"prompt", 0>> \in SystemTexts /\ <<"system", 0>> \in SystemTexts
  BY DEF SystemTexts, Of
<1>2. PICK p \in SystemTexts, q \in SystemTexts : p = <<"prompt", 0>> /\ q = <<"system", 0>>
  BY <1>1
<1>3. Prompt = <<>> \/ Prompt = <<p>>
  BY <1>2, ConversationAssumption
<1>4. System = <<q>>
  BY <1>2 DEF System
<1>5. \A x \in SystemTexts : <<x>> \in Seq(SystemTexts)
  OBVIOUS
<1>6. QED
  BY <1>3, <1>4, <1>5, EmptySeq

\* A developer's message alone has its texts.
LEMMA DeveloperBody ==
    ASSUME NEW ps \in Seq(SystemTexts), NEW i, i = Item("message", "developer", ps), NEW u, u = Optional(i, ps)
    PROVE  i \in Items /\ u \in Seq(Items) /\ Gather(u, ItemSystem) = ps /\ Gather(u, ItemPieces) = <<>>
<1>1. i = [t |-> "message", role |-> "developer", ps |-> ps]
  BY DEF Item
<1>2. i \in DeveloperItems /\ i.ps = ps
  <2>1. ps \in Seq(Said \cup SystemTexts)
    OBVIOUS
  <2>2. QED
    BY <1>1, <2>1 DEF DeveloperItems, ItemForm, IsDeveloper
<1>3. i \in Items /\ ItemPieces[i] = <<>> /\ ItemSystem[i] = ps
  BY <1>2, ItemTypes
<1>4. ItemPieces \in Terms(Items, Said) /\ ItemSystem \in Terms(Items, SystemTexts)
  BY ItemTypes
<1>5. CASE ps = <<>>
  <2>1. u = <<>>
    BY <1>5 DEF Optional
  <2>2. Gather(<<>>, ItemSystem) = <<>> /\ Gather(<<>>, ItemPieces) = <<>>
    BY <1>4, GatherNone, Zenon
  <2>3. QED
    BY <1>3, <1>5, <2>1, <2>2, EmptySeq
<1>6. CASE ps # <<>>
  <2>1. u = <<i>>
    BY <1>6 DEF Optional
  <2>2. Gather(<<i>>, ItemSystem) = ItemSystem[i] /\ Gather(<<i>>, ItemPieces) = ItemPieces[i]
    BY <1>3, <1>4, GatherOne
  <2>3. <<i>> \in Seq(Items)
    BY <1>3
  <2>4. QED
    BY <1>3, <2>1, <2>2, <2>3, Zenon
<1>7. QED
  BY <1>5, <1>6

\* Of two parts.
LEMMA CanonicalAppend ==
    ASSUME NEW c, NEW sys, NEW ps, Canonical(c, sys, ps), NEW u, NEW qs, Speaks(u, qs),
           NEW d, d.system = c.system, d.input = c.input \o u
    PROVE  Canonical(d, sys, ps \o qs)
<1>1. c.input \in Seq(Items) /\ c.system \in Seq(SystemTexts)
  BY DEF Canonical
<1>2. u \in Seq(Items) /\ Gather(u, ItemPieces) = qs /\ Gather(u, ItemSystem) = <<>>
  BY SpeaksInBody
<1>3. PICK a \in Seq(Items) : a = c.input
  BY <1>1
<1>4. /\ Gather(a \o u, ItemPieces) = Gather(a, ItemPieces) \o Gather(u, ItemPieces)
      /\ Gather(a \o u, ItemSystem) = Gather(a, ItemSystem) \o Gather(u, ItemSystem)
  <2>1. ItemPieces \in Terms(Items, Said) /\ ItemSystem \in Terms(Items, SystemTexts)
    BY ItemTypes
  <2>2. QED
    BY <1>2, <2>1, GatherConcat
<1>5. Gather(a, ItemSystem) \in Seq(SystemTexts)
  BY ItemTypes, GatherTyped, Zenon
<1>6. Gather(a \o u, ItemSystem) = Gather(a, ItemSystem)
  BY <1>2, <1>4, <1>5, ConcatEmptySeq
<1>7. a \o u \in Seq(Items)
  BY <1>2, ConcatProperties
<1>8. Gather(a \o u, ItemPieces) = ps \o qs
  BY <1>2, <1>3, <1>4 DEF Canonical
<1>9. QED
  BY <1>1, <1>3, <1>6, <1>7, <1>8, Zenon DEF Canonical

LEMMA MessageTypes ==
    /\ MessagePieces \in Terms(Messages, Said)
    /\ \A m \in Messages : MessagePieces[m] = m.ps /\ m.ps \in Seq(Said)
<1>1. \A m \in Messages : m.ps \in Seq(Said)
  BY DEF Messages
<1>2. QED
  BY <1>1 DEF MessagePieces, Terms

LEMMA AnthropicCanonical ==
    ASSUME NEW b, b.system \in Seq(SystemTexts), b.messages \in Seq(Messages)
    PROVE  Canonical(FromAnthropicRequest(b, Prompt), Prompt \o b.system,
                     Keep(Gather(b.messages, MessagePieces), Heard))
<1>1. PICK ms \in Seq(Messages) : ms = b.messages
  OBVIOUS
<1>2. PICK sys \in Seq(SystemTexts) : sys = Prompt \o b.system
  BY SystemTyped, ConcatProperties
<1>3. PICK i, u : i = Item("message", "developer", sys) /\ u = Optional(i, sys)
  OBVIOUS
<1>4. PICK f : f = [m \in Messages |-> MessageToItems(m)]
  OBVIOUS
<1>5. PICK h : h = [m \in Messages |-> Keep(m.ps, Heard)]
  OBVIOUS
<1>6. \A m \in Messages : f[m] = MessageToItems(m) /\ h[m] = Keep(m.ps, Heard)
  BY <1>4, <1>5
<1>7. \A m \in Messages : Speaks(f[m], h[m])
  BY <1>6, MessageSpeaks
<1>8. f \in Terms(Messages, PlainItems) /\ h \in Terms(Messages, Said)
  <2>1. \A m \in Messages : f[m] \in Seq(PlainItems) /\ h[m] \in Seq(Said)
    BY <1>7, SpeaksTyped
  <2>2. QED
    BY <1>4, <1>5, <2>1 DEF Terms
<1>9. Speaks(Gather(ms, f), Gather(ms, h))
  BY <1>7, <1>8, SpeaksGather
<1>10. Keep(Gather(ms, MessagePieces), Heard) = Gather(ms, h)
  <2>1. \A m \in Messages : Keep(MessagePieces[m], Heard) = h[m]
    BY <1>6, MessageTypes
  <2>2. MessagePieces \in Terms(Messages, Said)
    BY MessageTypes
  <2>3. QED
    BY <1>8, <2>1, <2>2, GatherKept
<1>11. FlattenSeq([k \in DOMAIN ms |-> MessageToItems(ms[k])]) = Gather(ms, f)
  <2>1. \A k \in DOMAIN ms : ms[k] \in Messages
    OBVIOUS
  <2>2. [k \in DOMAIN ms |-> MessageToItems(ms[k])] = [k \in DOMAIN ms |-> f[ms[k]]]
    BY <1>6, <2>1
  <2>3. QED
    BY <2>2, Zenon DEF Gather
<1>12. FromAnthropicRequest(b, Prompt) = [system |-> <<>>, input |-> u \o Gather(ms, f)]
  BY <1>1, <1>2, <1>3, <1>11, Zenon DEF FromAnthropicRequest
<1>13. PICK e \in Seq(SystemTexts), none \in Seq(Said) : e = <<>> /\ none = <<>>
  BY EmptySeq
<1>14. PICK c : c = [system |-> e, input |-> u]
  OBVIOUS
<1>15. Canonical(c, sys, none)
  <2>1. u \in Seq(Items) /\ Gather(u, ItemSystem) = sys /\ Gather(u, ItemPieces) = none
    BY <1>3, <1>13, DeveloperBody
  <2>2. e \o sys = sys
    BY <1>13, ConcatEmptySeq
  <2>3. QED
    BY <1>14, <2>1, <2>2 DEF Canonical
<1>16. PICK d : d = [system |-> e, input |-> u \o Gather(ms, f)]
  OBVIOUS
<1>17. d.system = c.system /\ d.input = c.input \o Gather(ms, f)
  BY <1>14, <1>16
<1>18. Canonical(d, sys, none \o Gather(ms, h))
  BY <1>9, <1>15, <1>17, CanonicalAppend
<1>19. none \o Gather(ms, h) = Gather(ms, h)
  <2>1. Gather(ms, h) \in Seq(Said)
    BY <1>8, GatherTyped, Zenon
  <2>2. QED
    BY <1>13, <2>1, ConcatEmptySeq
<1>20. d = FromAnthropicRequest(b, Prompt)
  BY <1>12, <1>13, <1>16, Zenon
<1>21. QED
  BY <1>1, <1>2, <1>10, <1>18, <1>19, <1>20, Zenon

LEMMA ChatCanonical ==
    ASSUME NEW b, b.messages \in Seq(Chats)
    PROVE  Canonical(FromChatRequest(b, Prompt), Prompt \o Gather(b.messages, ChatSystem),
                     Gather(b.messages, ChatPieces))
<1>1. PICK ms \in Seq(Chats) : ms = b.messages
  OBVIOUS
<1>2. PICK f : f = [c \in Chats |-> IF c.role = "system" THEN <<>> ELSE ChatToItems(c)]
  OBVIOUS
<1>3. \A c \in Chats : f[c] = IF c.role = "system" THEN <<>> ELSE ChatToItems(c)
  BY <1>2, Zenon
<1>4. \A c \in Chats : Speaks(f[c], ChatPieces[c])
  BY <1>3, ChatMessages, ChatSpeaks, SpeaksNothing
<1>5. ChatPieces \in Terms(Chats, Said)
  <2>1. \A c \in Chats : ChatPieces[c] \in Seq(Said)
    BY <1>4, SpeaksTyped
  <2>2. QED
    BY <2>1 DEF ChatPieces, Terms
<1>6. f \in Terms(Chats, PlainItems)
  <2>1. \A c \in Chats : f[c] \in Seq(PlainItems)
    BY <1>4, SpeaksTyped
  <2>2. QED
    BY <1>2, <2>1 DEF Terms
<1>7. Speaks(Gather(ms, f), Gather(ms, ChatPieces))
  BY <1>4, <1>5, <1>6, SpeaksGather
<1>8. \A k \in DOMAIN ms : /\ ms[k] \in Chats
                           /\ IsSystem(ms[k]) <=> ms[k].role = "system"
  BY ChatMessages
<1>9. FlattenSeq([k \in DOMAIN ms |-> IF IsSystem(ms[k]) THEN <<>> ELSE ChatToItems(ms[k])]) = Gather(ms, f)
  <2>1. [k \in DOMAIN ms |-> IF IsSystem(ms[k]) THEN <<>> ELSE ChatToItems(ms[k])] = [k \in DOMAIN ms |-> f[ms[k]]]
    BY <1>3, <1>8
  <2>2. QED
    BY <2>1, Zenon DEF Gather
<1>10. FlattenSeq([k \in DOMAIN ms |-> IF IsSystem(ms[k]) THEN ms[k].ps ELSE <<>>]) = Gather(ms, ChatSystem)
  <2>1. [k \in DOMAIN ms |-> IF IsSystem(ms[k]) THEN ms[k].ps ELSE <<>>] = [k \in DOMAIN ms |-> ChatSystem[ms[k]]]
    BY <1>8, ChatMessages
  <2>2. QED
    BY <2>1, Zenon DEF Gather
<1>11. PICK sys \in Seq(SystemTexts) : sys = Prompt \o Gather(ms, ChatSystem)
  <2>1. Gather(ms, ChatSystem) \in Seq(SystemTexts)
    BY ChatMessages, GatherTyped, Zenon
  <2>2. QED
    BY <2>1, SystemTyped, ConcatProperties
<1>12. PICK c : c = [system |-> sys, input |-> Gather(ms, f)]
  OBVIOUS
<1>13. FromChatRequest(b, Prompt) = c
  BY <1>1, <1>9, <1>10, <1>11, <1>12, Zenon DEF FromChatRequest
<1>14. /\ c.input \in Seq(Items) /\ Gather(c.input, ItemPieces) = Gather(ms, ChatPieces)
       /\ Gather(c.input, ItemSystem) = <<>> /\ c.system = sys
  BY <1>7, <1>12, SpeaksInBody
<1>15. sys \o <<>> = sys
  BY ConcatEmptySeq
<1>16. Canonical(c, sys, Gather(ms, ChatPieces))
  BY <1>14, <1>15, Zenon DEF Canonical
<1>17. QED
  BY <1>1, <1>11, <1>13, <1>16, Zenon

-----------------------------------------------------------------------------
(* A request from the canonical form.                                         *)


LEMMA ItemClasses ==
    /\ \A i \in PlainItems : \/ i.t = "message" /\ i.ps \in Seq(TextPieces)
                             \/ i.t = "call" /\ i.ps \in Seq(Calls)
                             \/ i.t = "output" /\ i.ps \in Seq(Results)
                             \/ i.t = "reasoning" /\ i.ps \in Seq(Unsigned)
                             \/ i.t = "reasoning" /\ i.ps \in Seq(SignedPieces)
    /\ \A i \in PlainItems : i.role \in {"developer", "user", "assistant", "none"}
                             /\ (i.t = "message" => i.role # "developer")
    /\ \A i \in DeveloperItems : i.t = "message" /\ i.role = "developer" /\ i.ps \in Seq(SystemTexts)
    /\ \A i \in Items : i \in PlainItems \/ i \in DeveloperItems
<1>1. ASSUME NEW i \in PlainItems
      PROVE  \/ i.t = "message" /\ i.ps \in Seq(TextPieces)
             \/ i.t = "call" /\ i.ps \in Seq(Calls)
             \/ i.t = "output" /\ i.ps \in Seq(Results)
             \/ i.t = "reasoning" /\ i.ps \in Seq(Unsigned)
             \/ i.t = "reasoning" /\ i.ps \in Seq(SignedPieces)
  <2>1. PICK K \in Classes(i) : i.ps \in Seq(K)
    BY DEF PlainItems
  <2>2. PICK t \in {"message", "call", "output", "reasoning"} : t = i.t
    BY DEF PlainItems, ItemForm
  <2>3. QED
    BY <2>1, <2>2 DEF Classes
<1>2. \A i \in PlainItems : i.role \in {"developer", "user", "assistant", "none"}
                            /\ (i.t = "message" => i.role # "developer")
  BY DEF PlainItems, ItemForm, IsDeveloper
<1>3. \A i \in DeveloperItems : i.t = "message" /\ i.role = "developer" /\ i.ps \in Seq(SystemTexts)
  BY DEF DeveloperItems, IsDeveloper
<1>4. QED
  BY <1>1, <1>2, <1>3 DEF Items

\* What an Anthropic backend may be told.
Replayed == Heard \cup SignedPieces
Replays == [role : {"user", "assistant", "none"}, ps : Seq(Said)]
ReplayPieces == [m \in Replays |-> m.ps]

LEMMA ThinkingKinds ==
    /\ Unsigned \subseteq ThinkingPieces /\ SignedPieces \subseteq ThinkingPieces
    /\ Unsigned \cap SignedPieces = {} /\ ThinkingPieces \subseteq Unsigned \cup SignedPieces
    /\ ThinkingPieces \cap Heard = {} /\ ThinkingPieces \cap TextPieces = {}
    /\ ThinkingPieces \cap Calls = {} /\ ThinkingPieces \cap Results = {}
    /\ TextPieces \subseteq Heard /\ Calls \subseteq Heard /\ Results \subseteq Heard
    /\ \A ps, kinds : OfKinds(ps, kinds) = Keep(ps, Of(kinds))
BY DEF Unsigned, SignedPieces, ThinkingPieces, Of, Thinking, Signed, Heard, TextPieces, Calls, Results,
   Texts, Acts, OfKinds

LEMMA KeptWhole ==
    ASSUME NEW A, NEW s \in Seq(A), NEW kept
    PROVE  (A \subseteq kept => Keep(s, kept) = s) /\ (A \cap kept = {} => Keep(s, kept) = <<>>)
<1>1. ASSUME A \subseteq kept PROVE Keep(s, kept) = s
  BY <1>1, KeptBy
<1>2. ASSUME A \cap kept = {} PROVE Keep(s, kept) = <<>>
  <2>1. PICK B : B = A \cap kept
    OBVIOUS
  <2>2. Keep(s, kept) \in Seq(B)
    BY <2>1, KeptBy
  <2>3. QED
    BY <1>2, <2>1, <2>2
<1>3. QED
  BY <1>1, <1>2

\* What is heard of an item, and what is replayed.
LEMMA ItemKept ==
    ASSUME NEW i \in PlainItems
    PROVE  /\ i.t \in {"message", "call", "output"} => Keep(i.ps, Heard) = i.ps /\ Keep(i.ps, Replayed) = i.ps
           /\ i.t = "reasoning" => Keep(i.ps, Heard) = <<>>
           /\ i.t = "reasoning" => Keep(i.ps, Replayed) = Keep(i.ps, SignedPieces)
           /\ Keep(i.ps, SignedPieces) = <<>> \/ Keep(i.ps, SignedPieces) = i.ps
<1>1. ASSUME NEW K, K \subseteq Heard, i.ps \in Seq(K)
      PROVE  Keep(i.ps, Heard) = i.ps /\ Keep(i.ps, Replayed) = i.ps /\ Keep(i.ps, SignedPieces) = <<>>
  <2>1. K \subseteq Replayed /\ K \cap SignedPieces = {}
    BY <1>1, ThinkingKinds DEF Replayed
  <2>2. QED
    BY <1>1, <2>1, KeptWhole
<1>2. ASSUME i.ps \in Seq(Unsigned)
      PROVE  Keep(i.ps, Heard) = <<>> /\ Keep(i.ps, Replayed) = <<>> /\ Keep(i.ps, SignedPieces) = <<>>
  <2>1. Unsigned \cap Heard = {} /\ Unsigned \cap Replayed = {} /\ Unsigned \cap SignedPieces = {}
    BY ThinkingKinds DEF Replayed
  <2>2. QED
    BY <1>2, <2>1, KeptWhole
<1>3. ASSUME i.ps \in Seq(SignedPieces)
      PROVE  Keep(i.ps, Heard) = <<>> /\ Keep(i.ps, Replayed) = i.ps /\ Keep(i.ps, SignedPieces) = i.ps
  <2>1. SignedPieces \cap Heard = {} /\ SignedPieces \subseteq Replayed
    BY ThinkingKinds DEF Replayed
  <2>2. QED
    BY <1>3, <2>1, KeptWhole
<1>4. TextPieces \subseteq Heard /\ Calls \subseteq Heard /\ Results \subseteq Heard
  BY ThinkingKinds
<1>5. CASE i.t = "message" /\ i.ps \in Seq(TextPieces)
  BY <1>1, <1>4, <1>5
<1>6. CASE i.t = "call" /\ i.ps \in Seq(Calls)
  BY <1>1, <1>4, <1>6
<1>7. CASE i.t = "output" /\ i.ps \in Seq(Results)
  BY <1>1, <1>4, <1>7
<1>8. CASE i.t = "reasoning" /\ i.ps \in Seq(Unsigned)
  BY <1>2, <1>8
<1>9. CASE i.t = "reasoning" /\ i.ps \in Seq(SignedPieces)
  BY <1>3, <1>9
<1>10. QED
  BY <1>5, <1>6, <1>7, <1>8, <1>9, ItemClasses, Zenon

LEMMA ReplayTypes ==
    /\ ReplayPieces \in Terms(Replays, Said)
    /\ \A m \in Replays : ReplayPieces[m] = m.ps
    /\ \A role \in {"user", "assistant", "none"}, ps \in Seq(Said) :
          Message(role, ps) \in Replays /\ ReplayPieces[Message(role, ps)] = ps
BY DEF ReplayPieces, Terms, Replays, Message

\* An item for an Anthropic backend.
LEMMA ItemReplays ==
    ASSUME NEW i \in Items
    PROVE  /\ ItemToMessages(i) \in Seq(Replays)
           /\ Gather(ItemToMessages(i), ReplayPieces) = Keep(ItemPieces[i], Replayed)
<1>1. PICK ps : ps = i.ps
  OBVIOUS
<1>2. ASSUME NEW role \in {"user", "assistant", "none"}, i \in PlainItems, NEW u, u = <<Message(role, ps)>>
      PROVE  u \in Seq(Replays) /\ Gather(u, ReplayPieces) = ps
  <2>1. ps \in Seq(Said)
    BY <1>1, <1>2, ItemTypes DEF Terms
  <2>2. PICK m \in Replays : m = Message(role, ps) /\ ReplayPieces[m] = ps
    BY <2>1, ReplayTypes
  <2>3. u = <<m>> /\ <<m>> \in Seq(Replays)
    BY <1>2, <2>2
  <2>4. Gather(<<m>>, ReplayPieces) = ps
    BY <2>2, ReplayTypes, GatherOne
  <2>5. QED
    BY <2>3, <2>4
<1>3. <<>> \in Seq(Replays) /\ Gather(<<>>, ReplayPieces) = <<>>
  BY EmptySeq, ReplayTypes, GatherNone, Zenon
<1>4. CASE i \in DeveloperItems
  <2>1. ItemToMessages(i) = <<>>
    BY <1>4, ItemClasses DEF ItemToMessages, IsDeveloper
  <2>2. ItemPieces[i] = <<>>
    BY <1>4, ItemTypes
  <2>3. QED
    BY <1>3, <2>1, <2>2, KeptNone
<1>5. CASE i \in PlainItems
  <2>1. ItemPieces[i] = ps /\ ~IsDeveloper(i) /\ i.t \in {"message", "call", "output", "reasoning"}
    BY <1>1, <1>5, ItemTypes, ItemClasses
  <2>2. PICK t \in {"message", "call", "output", "reasoning"} : t = i.t
    BY <2>1
  <2>3. CASE t = "reasoning"
    <3>1. ItemToMessages(i) = Optional(Message("assistant", ps), Keep(ps, SignedPieces))
      BY <1>1, <2>2, <2>3, ThinkingKinds DEF ItemToMessages, SignedPieces
    <3>2. Keep(ps, Replayed) = Keep(ps, SignedPieces)
      BY <1>1, <1>5, <2>2, <2>3, ItemKept
    <3>3. CASE Keep(ps, SignedPieces) = <<>>
      BY <1>3, <2>1, <3>1, <3>2, <3>3 DEF Optional
    <3>4. CASE Keep(ps, SignedPieces) # <<>> /\ Keep(ps, SignedPieces) = ps
      <4>1. ItemToMessages(i) = <<Message("assistant", ps)>>
        BY <3>1, <3>4 DEF Optional
      <4>2. QED
        BY <1>2, <1>5, <2>1, <3>2, <3>4, <4>1
    <3>5. QED
      BY <1>1, <1>5, <3>3, <3>4, ItemKept
  <2>4. CASE t # "reasoning"
    <3>1. PICK role \in {"user", "assistant", "none"} : ItemToMessages(i) = <<Message(role, ps)>>
      <4>1. CASE t = "message"
        <5>1. ItemToMessages(i) = <<Message(i.role, ps)>>
          BY <1>1, <2>1, <2>2, <4>1 DEF ItemToMessages
        <5>2. i.role \in {"user", "assistant", "none"}
          BY <1>5, <2>2, <4>1, ItemClasses
        <5>3. QED
          BY <5>1, <5>2
      <4>2. CASE t = "call"
        BY <1>1, <2>2, <4>2 DEF ItemToMessages
      <4>3. CASE t = "output"
        BY <1>1, <2>2, <4>3 DEF ItemToMessages
      <4>4. QED
        BY <2>4, <4>1, <4>2, <4>3
    <3>2. Keep(ps, Replayed) = ps
      BY <1>1, <1>5, <2>2, <2>4, ItemKept
    <3>3. QED
      BY <1>2, <1>5, <2>1, <3>1, <3>2
  <2>5. QED
    BY <2>3, <2>4
<1>6. QED
  BY <1>4, <1>5, ItemClasses

\* An item for a Chat backend.
LEMMA ItemChats ==
    ASSUME NEW i \in Items
    PROVE  /\ ItemToChat(i) \in Chats
           /\ ChatPieces[ItemToChat(i)] = Keep(ItemPieces[i], Heard)
           /\ ChatSystem[ItemToChat(i)] = ItemSystem[i]
<1>1. PICK ps, c : ps = i.ps /\ c = ItemToChat(i)
  OBVIOUS
<1>2. ASSUME NEW role \in {"system", "user", "assistant", "tool", "none"}, NEW qs, NEW calls \in Seq(Calls),
             c = Chat(role, qs, calls), role = "system" => qs \in Seq(SystemTexts),
             role = "tool" => qs \in Seq(Results), role \notin {"system", "tool"} => qs \in Seq(TextPieces),
             role # "assistant" => calls = <<>>
      PROVE  /\ c \in Chats
             /\ ChatPieces[c] = IF role = "system" THEN <<>> ELSE qs \o calls
             /\ ChatSystem[c] = IF role = "system" THEN qs ELSE <<>>
  <2>1. c = [role |-> role, ps |-> qs, calls |-> calls] /\ c.role = role /\ c.ps = qs /\ c.calls = calls
    BY <1>2 DEF Chat
  <2>2. qs \in Seq(Said \cup SystemTexts)
    <3>1. TextPieces \subseteq Said /\ Results \subseteq Said
      BY SaidKinds
    <3>2. QED
      BY <1>2, <3>1
  <2>3. c \in Chats
    BY <1>2, <2>1, <2>2 DEF Chats
  <2>4. QED
    BY <2>1, <2>3, ChatMessages, Zenon
<1>3. PICK none \in Seq(Calls) : none = <<>> /\ none \in Seq(TextPieces)
  BY EmptySeq
<1>4. CASE i \in DeveloperItems
  <2>1. c = Chat("system", ps, none) /\ ps \in Seq(SystemTexts)
    BY <1>1, <1>3, <1>4, ItemClasses DEF ItemToChat
  <2>2. PICK role : role = "system"
    OBVIOUS
  <2>3. c \in Chats /\ ChatPieces[c] = <<>> /\ ChatSystem[c] = ps
    BY <1>2, <1>3, <2>1, <2>2
  <2>4. ItemPieces[i] = <<>> /\ ItemSystem[i] = ps /\ Keep(<<>>, Heard) = <<>>
    BY <1>1, <1>4, ItemTypes, KeptNone
  <2>5. QED
    BY <1>1, <2>3, <2>4
<1>5. CASE i \in PlainItems
  <2>1. ItemPieces[i] = ps /\ ItemSystem[i] = <<>>
    BY <1>1, <1>5, ItemTypes
  <2>2. PICK t \in {"message", "call", "output", "reasoning"} : t = i.t
    BY <1>5, ItemClasses
  <2>3. SUFFICES c \in Chats /\ ChatPieces[c] = Keep(ps, Heard) /\ ChatSystem[c] = <<>>
    BY <1>1, <2>1
  <2>4. CASE t = "message"
    <3>1. PICK role \in {"user", "assistant", "none"} : role = i.role
      BY <1>5, <2>2, <2>4, ItemClasses
    <3>2. c = Chat(role, ps, none) /\ ps \in Seq(TextPieces)
      BY <1>1, <1>3, <1>5, <2>2, <2>4, <3>1, ItemClasses DEF ItemToChat
    <3>3. c \in Chats /\ ChatPieces[c] = ps \o none /\ ChatSystem[c] = <<>>
      BY <1>2, <1>3, <3>2
    <3>4. ps \o none = ps /\ Keep(ps, Heard) = ps
      BY <1>1, <1>3, <1>5, <2>2, <2>4, <3>2, ItemKept, ConcatEmptySeq
    <3>5. QED
      BY <3>3, <3>4
  <2>5. CASE t = "call"
    <3>1. PICK role : role = "assistant"
      OBVIOUS
    <3>2. c = Chat(role, none, ps) /\ ps \in Seq(Calls)
      BY <1>1, <1>3, <1>5, <2>2, <2>5, <3>1, ItemClasses DEF ItemToChat
    <3>3. c \in Chats /\ ChatPieces[c] = none \o ps /\ ChatSystem[c] = <<>>
      BY <1>2, <1>3, <3>1, <3>2
    <3>4. none \o ps = ps /\ Keep(ps, Heard) = ps
      BY <1>1, <1>3, <1>5, <2>2, <2>5, <3>2, ItemKept, ConcatEmptySeq
    <3>5. QED
      BY <3>3, <3>4
  <2>6. CASE t = "output"
    <3>1. PICK role : role = "tool"
      OBVIOUS
    <3>2. c = Chat(role, ps, none) /\ ps \in Seq(Results)
      BY <1>1, <1>3, <1>5, <2>2, <2>6, <3>1, ItemClasses DEF ItemToChat
    <3>3. c \in Chats /\ ChatPieces[c] = ps \o none /\ ChatSystem[c] = <<>>
      BY <1>2, <1>3, <3>1, <3>2
    <3>4. ps \o none = ps /\ Keep(ps, Heard) = ps
      BY <1>1, <1>3, <1>5, <2>2, <2>6, <3>2, ItemKept, ConcatEmptySeq
    <3>5. QED
      BY <3>3, <3>4
  <2>7. CASE t = "reasoning"
    <3>1. PICK role : role = "none"
      OBVIOUS
    <3>2. c = Chat(role, none, none)
      BY <1>1, <1>3, <2>2, <2>7, <3>1 DEF ItemToChat
    <3>3. c \in Chats /\ ChatPieces[c] = none \o none /\ ChatSystem[c] = <<>>
      BY <1>2, <1>3, <3>1, <3>2
    <3>4. none \o none = none /\ Keep(ps, Heard) = none
      BY <1>1, <1>3, <1>5, <2>2, <2>7, ItemKept, ConcatEmptySeq
    <3>5. QED
      BY <3>3, <3>4
  <2>8. QED
    BY <2>4, <2>5, <2>6, <2>7
<1>6. QED
  BY <1>4, <1>5, ItemClasses

\* What a backend is given: the system texts and what was said.
Delivers(backend, b, sys, ps) == SystemOf(backend, b) = sys /\ SpokenOf(backend, b) = ps

LEMMA ToAnthropic ==
    ASSUME NEW c, NEW sys, NEW ps, Canonical(c, sys, ps)
    PROVE  Delivers("anthropic", ToAnthropicRequest(c), sys, Keep(ps, Replayed))
<1>1. PICK in \in Seq(Items) : in = c.input /\ c.system \o Gather(in, ItemSystem) = sys /\ Gather(in, ItemPieces) = ps
  BY DEF Canonical
<1>2. PICK f : f = [i \in Items |-> ItemToMessages(i)]
  OBVIOUS
<1>3. PICK h : h = [i \in Items |-> Keep(ItemPieces[i], Replayed)]
  OBVIOUS
<1>4. \A i \in Items : f[i] = ItemToMessages(i) /\ h[i] = Keep(ItemPieces[i], Replayed)
  BY <1>2, <1>3
<1>5. f \in Terms(Items, Replays)
  <2>1. \A i \in Items : f[i] \in Seq(Replays)
    BY <1>4, ItemReplays
  <2>2. QED
    BY <1>2, <2>1 DEF Terms
<1>6. \A i \in Items : ItemPieces[i] \in Seq(Said)
  BY ItemTypes DEF Terms
<1>7. h \in Terms(Items, Said)
  <2>1. \A i \in Items : h[i] \in Seq(Said)
    BY <1>4, <1>6, Kept
  <2>2. QED
    BY <1>3, <2>1 DEF Terms
<1>8. PICK ms \in Seq(Replays) : ms = Gather(in, f)
  BY <1>5, GatherTyped
<1>9. Gather(ms, ReplayPieces) = Gather(in, h)
  <2>1. \A i \in Items : Gather(f[i], ReplayPieces) = h[i]
    BY <1>4, ItemReplays
  <2>2. ReplayPieces \in Terms(Replays, Said)
    BY ReplayTypes
  <2>3. QED
    BY <1>5, <1>7, <1>8, <2>1, <2>2, GatherNest
<1>10. Keep(ps, Replayed) = Gather(in, h)
  <2>1. \A i \in Items : Keep(ItemPieces[i], Replayed) = h[i]
    BY <1>4
  <2>2. ItemPieces \in Terms(Items, Said)
    BY ItemTypes
  <2>3. QED
    BY <1>1, <1>7, <2>1, <2>2, GatherKept
<1>11. \A k \in DOMAIN in : in[k] \in Items
  OBVIOUS
<1>12. FlattenSeq([k \in DOMAIN in |-> ItemToMessages(in[k])]) = ms
  <2>1. [k \in DOMAIN in |-> ItemToMessages(in[k])] = [k \in DOMAIN in |-> f[in[k]]]
    BY <1>4, <1>11
  <2>2. QED
    BY <1>8, <2>1, Zenon DEF Gather
<1>13. FlattenSeq([k \in DOMAIN in |-> DeveloperText(in[k])]) = Gather(in, ItemSystem)
  <2>1. \A i \in Items : ItemSystem[i] = DeveloperText(i)
    BY DEF ItemSystem
  <2>2. [k \in DOMAIN in |-> DeveloperText(in[k])] = [k \in DOMAIN in |-> ItemSystem[in[k]]]
    BY <1>11, <2>1
  <2>3. QED
    BY <2>2, Zenon DEF Gather
<1>14. PICK b : b = ToAnthropicRequest(c) /\ b.system = sys /\ b.messages = ms
  <2>1. ToAnthropicRequest(c) = [system |-> sys, messages |-> ms]
    BY <1>1, <1>12, <1>13, Zenon DEF ToAnthropicRequest
  <2>2. QED
    BY <2>1
<1>15. FlattenSeq([k \in DOMAIN ms |-> ms[k].ps]) = Gather(ms, ReplayPieces)
  <2>1. \A k \in DOMAIN ms : ms[k] \in Replays /\ ReplayPieces[ms[k]] = ms[k].ps
    BY ReplayTypes
  <2>2. [k \in DOMAIN ms |-> ms[k].ps] = [k \in DOMAIN ms |-> ReplayPieces[ms[k]]]
    BY <2>1
  <2>3. QED
    BY <2>2, Zenon DEF Gather
<1>16. SystemOf("anthropic", b) = sys /\ SpokenOf("anthropic", b) = Gather(ms, ReplayPieces)
  BY <1>14, <1>15 DEF SystemOf, SpokenOf
<1>17. QED
  BY <1>9, <1>10, <1>14, <1>16 DEF Delivers

\* The system's message alone.
LEMMA SystemBody ==
    ASSUME NEW ps \in Seq(SystemTexts), NEW c, c = Chat("system", ps, <<>>), NEW u, u = Optional(c, ps)
    PROVE  c \in Chats /\ u \in Seq(Chats) /\ Gather(u, ChatSystem) = ps /\ Gather(u, ChatPieces) = <<>>
<1>1. PICK none \in Seq(Calls) : none = <<>>
  BY EmptySeq
<1>2. c = [role |-> "system", ps |-> ps, calls |-> none] /\ c.role = "system" /\ c.ps = ps
  BY <1>1 DEF Chat
<1>3. c \in Chats
  <2>1. ps \in Seq(Said \cup SystemTexts)
    OBVIOUS
  <2>2. c.calls = <<>>
    BY <1>1, <1>2
  <2>3. c \in [role : {"system", "user", "assistant", "tool", "none"},
               ps : Seq(Said \cup SystemTexts), calls : Seq(Calls)]
    <3>1. PICK role \in {"system", "user", "assistant", "tool", "none"} : role = "system"
      OBVIOUS
    <3>2. c = [role |-> role, ps |-> ps, calls |-> none]
      BY <1>2, <3>1
    <3>3. PICK V, W : V = Seq(Said \cup SystemTexts) /\ W = Seq(Calls) /\ ps \in V /\ none \in W
      BY <2>1
    <3>4. c \in [role : {"system", "user", "assistant", "tool", "none"}, ps : V, calls : W]
      BY <3>2, <3>3
    <3>5. QED
      BY <3>3, <3>4, Zenon
  <2>4. QED
    BY <1>2, <2>2, <2>3 DEF Chats
<1>4. ChatPieces[c] = <<>> /\ ChatSystem[c] = ps
  BY <1>2, <1>3, ChatMessages
<1>5. ChatPieces \in Terms(Chats, Heard) /\ ChatSystem \in Terms(Chats, SystemTexts)
  BY ChatMessages
<1>6. CASE ps = <<>>
  <2>1. u = <<>>
    BY <1>6 DEF Optional
  <2>2. Gather(<<>>, ChatSystem) = <<>> /\ Gather(<<>>, ChatPieces) = <<>>
    BY <1>5, GatherNone, Zenon
  <2>3. QED
    BY <1>3, <1>6, <2>1, <2>2, EmptySeq
<1>7. CASE ps # <<>>
  <2>1. u = <<c>>
    BY <1>7 DEF Optional
  <2>2. Gather(<<c>>, ChatSystem) = ChatSystem[c] /\ Gather(<<c>>, ChatPieces) = ChatPieces[c]
    BY <1>3, <1>5, GatherOne
  <2>3. <<c>> \in Seq(Chats)
    BY <1>3
  <2>4. QED
    BY <1>3, <1>4, <2>1, <2>2, <2>3, Zenon
<1>8. QED
  BY <1>6, <1>7

LEMMA ChatBody ==
    ASSUME NEW ms \in Seq(Chats)
    PROVE  /\ FlattenSeq([k \in DOMAIN ms |-> IF ms[k].role = "system" THEN ms[k].ps ELSE <<>>])
                 = Gather(ms, ChatSystem)
           /\ FlattenSeq([k \in DOMAIN ms |-> IF ms[k].role = "system" THEN <<>> ELSE ms[k].ps \o ms[k].calls])
                 = Gather(ms, ChatPieces)
<1>1. \A k \in DOMAIN ms :
         /\ ChatPieces[ms[k]] = IF ms[k].role = "system" THEN <<>> ELSE ms[k].ps \o ms[k].calls
         /\ ChatSystem[ms[k]] = IF ms[k].role = "system" THEN ms[k].ps ELSE <<>>
  <2>1. \A k \in DOMAIN ms : ms[k] \in Chats
    OBVIOUS
  <2>2. QED
    BY <2>1, ChatMessages, Zenon
<1>2. [k \in DOMAIN ms |-> IF ms[k].role = "system" THEN ms[k].ps ELSE <<>>]
         = [k \in DOMAIN ms |-> ChatSystem[ms[k]]]
  BY <1>1
<1>3. [k \in DOMAIN ms |-> IF ms[k].role = "system" THEN <<>> ELSE ms[k].ps \o ms[k].calls]
         = [k \in DOMAIN ms |-> ChatPieces[ms[k]]]
  BY <1>1
<1>4. QED
  BY <1>2, <1>3, Zenon DEF Gather

LEMMA ToChat ==
    ASSUME NEW c, NEW sys, NEW ps, Canonical(c, sys, ps)
    PROVE  Delivers("openai", ToChatRequest(c), sys, Keep(ps, Heard))
<1>1. PICK in \in Seq(Items), own \in Seq(SystemTexts) :
         in = c.input /\ own = c.system /\ own \o Gather(in, ItemSystem) = sys /\ Gather(in, ItemPieces) = ps
  BY DEF Canonical
<1>2. PICK e : e = [i \in Items |-> ItemToChat(i)]
  OBVIOUS
<1>3. PICK h : h = [i \in Items |-> Keep(ItemPieces[i], Heard)]
  OBVIOUS
<1>4. \A i \in Items : e[i] = ItemToChat(i) /\ h[i] = Keep(ItemPieces[i], Heard)
  BY <1>2, <1>3
<1>5. e \in [Items -> Chats]
  BY <1>2, ItemChats
<1>6. \A i \in Items : ChatPieces[e[i]] = h[i] /\ ChatSystem[e[i]] = ItemSystem[i]
  BY <1>4, ItemChats
<1>7. h \in Terms(Items, Heard) /\ h \in Terms(Items, Said)
  <2>1. \A i \in Items : ItemPieces[i] \in Seq(Said)
    BY ItemTypes DEF Terms
  <2>2. \A i \in Items : h[i] \in Seq(Said)
    BY <1>4, <2>1, Kept
  <2>3. \A i \in Items : h[i] \in Seq(Heard)
    <3>1. ASSUME NEW i \in Items PROVE h[i] \in Seq(Heard)
      <4>1. ChatPieces[e[i]] \in Seq(Heard)
        BY <1>5, ChatMessages DEF Terms
      <4>2. QED
        BY <1>6, <4>1
    <3>2. QED
      BY <3>1
  <2>4. QED
    BY <1>3, <2>2, <2>3 DEF Terms
<1>8. PICK u : u = [k \in DOMAIN in |-> e[in[k]]]
  OBVIOUS
<1>9. u \in Seq(Chats) /\ Gather(u, ChatPieces) = Gather(in, h)
  <2>1. ChatPieces \in Terms(Chats, Heard)
    BY ChatMessages
  <2>2. h \in Terms(Items, Heard)
    BY <1>7
  <2>3. \A i \in Items : ChatPieces[e[i]] = h[i]
    BY <1>6
  <2>4. u \in Seq(Chats) /\ Len(u) = Len(in) /\ Gather(u, ChatPieces) = Gather(in, h)
    BY <1>5, <1>8, <2>1, <2>2, <2>3, GatherEach
  <2>5. QED
    BY <2>4
<1>10. Gather(u, ChatSystem) = Gather(in, ItemSystem)
  <2>1. ChatSystem \in Terms(Chats, SystemTexts) /\ \A i \in Items : ChatSystem[e[i]] = ItemSystem[i]
    BY <1>6, ChatMessages
  <2>2. ItemSystem \in Terms(Items, SystemTexts)
    BY ItemTypes
  <2>3. QED
    BY <1>5, <1>8, <2>1, <2>2, GatherEach
<1>11. Keep(ps, Heard) = Gather(in, h)
  <2>1. \A i \in Items : Keep(ItemPieces[i], Heard) = h[i]
    BY <1>4
  <2>2. ItemPieces \in Terms(Items, Said) /\ h \in Terms(Items, Said)
    BY <1>7, ItemTypes
  <2>3. QED
    BY <1>1, <2>1, <2>2, GatherKept
<1>12. PICK v \in Seq(Chats) : /\ v = Optional(Chat("system", own, <<>>), own)
                               /\ Gather(v, ChatSystem) = own /\ Gather(v, ChatPieces) = <<>>
  BY SystemBody
<1>13. PICK ms \in Seq(Chats) : ms = v \o u
  BY <1>9, ConcatProperties
<1>14. Gather(ms, ChatSystem) = sys
  <2>1. Gather(ms, ChatSystem) = Gather(v, ChatSystem) \o Gather(u, ChatSystem)
    BY <1>9, <1>13, ChatMessages, GatherConcat
  <2>2. QED
    BY <1>1, <1>10, <1>12, <2>1
<1>15. Gather(ms, ChatPieces) = Keep(ps, Heard)
  <2>1. Gather(ms, ChatPieces) = Gather(v, ChatPieces) \o Gather(u, ChatPieces)
    BY <1>9, <1>13, ChatMessages, GatherConcat, ZenonT(60)
  <2>2. Gather(in, h) \in Seq(Said)
    BY <1>7, GatherTyped, Zenon
  <2>3. <<>> \o Gather(in, h) = Gather(in, h)
    BY <2>2, ConcatEmptySeq
  <2>4. QED
    BY <1>9, <1>11, <1>12, <2>1, <2>3
<1>16. [k \in DOMAIN in |-> ItemToChat(in[k])] = u
  <2>1. \A k \in DOMAIN in : in[k] \in Items
    OBVIOUS
  <2>2. QED
    BY <1>4, <1>8, <2>1
<1>17. PICK b : b = ToChatRequest(c) /\ b.messages = ms
  <2>1. ToChatRequest(c) = [messages |-> ms]
    BY <1>1, <1>12, <1>13, <1>16, Zenon DEF ToChatRequest
  <2>2. QED
    BY <2>1
<1>18. SystemOf("openai", b) = Gather(ms, ChatSystem) /\ SpokenOf("openai", b) = Gather(ms, ChatPieces)
  BY <1>17, ChatBody DEF SystemOf, SpokenOf
<1>19. QED
  BY <1>14, <1>15, <1>17, <1>18 DEF Delivers

LEMMA ToResponses ==
    ASSUME NEW c, NEW sys, NEW ps, Canonical(c, sys, ps)
    PROVE  Delivers("openai-responses", c, sys, ps)
<1>1. PICK in \in Seq(Items) : in = c.input /\ c.system \o Gather(in, ItemSystem) = sys /\ Gather(in, ItemPieces) = ps
  BY DEF Canonical
<1>2. \A k \in DOMAIN in : in[k] \in Items
  OBVIOUS
<1>3. FlattenSeq([k \in DOMAIN in |-> DeveloperText(in[k])]) = Gather(in, ItemSystem)
  <2>1. \A i \in Items : ItemSystem[i] = DeveloperText(i)
    BY DEF ItemSystem
  <2>2. [k \in DOMAIN in |-> DeveloperText(in[k])] = [k \in DOMAIN in |-> ItemSystem[in[k]]]
    BY <1>2, <2>1
  <2>3. QED
    BY <2>2, Zenon DEF Gather
<1>4. FlattenSeq([k \in DOMAIN in |-> IF IsDeveloper(in[k]) THEN <<>> ELSE in[k].ps]) = Gather(in, ItemPieces)
  <2>1. \A i \in Items : ItemPieces[i] = IF IsDeveloper(i) THEN <<>> ELSE i.ps
    BY DEF ItemPieces
  <2>2. [k \in DOMAIN in |-> IF IsDeveloper(in[k]) THEN <<>> ELSE in[k].ps] = [k \in DOMAIN in |-> ItemPieces[in[k]]]
    BY <1>2, <2>1
  <2>3. QED
    BY <2>2, Zenon DEF Gather
<1>5. /\ SystemOf("openai-responses", c) = c.system \o Gather(in, ItemSystem)
      /\ SpokenOf("openai-responses", c) = Gather(in, ItemPieces)
  BY <1>1, <1>3, <1>4, Zenon DEF SystemOf, SpokenOf
<1>6. QED
  BY <1>1, <1>5 DEF Delivers

ActPieces == Of(Acts)

\* What a client's body has of what was said: an Anthropic client keeps the
\* blocks, a Chat client the texts and the calls, a Responses client all.
AnthropicHas(b, ps) ==
    /\ b \in [system : Seq(SystemTexts), messages : Seq(Messages)] /\ b.system = System
    /\ Keep(Gather(b.messages, MessagePieces), Heard) = Keep(ps, Heard)
ChatHas(b, ps) ==
    /\ b \in [messages : Seq(Chats)] /\ Gather(b.messages, ChatSystem) = System
    /\ Keep(Gather(b.messages, ChatPieces), TextPieces) = Keep(ps, TextPieces)
    /\ Keep(Gather(b.messages, ChatPieces), ActPieces) = Keep(ps, ActPieces)
ResponsesHas(b, ps) == b \in [system : Seq(SystemTexts), input : Seq(Items)] /\ Canonical(b, System, ps)
Has(protocol, b, ps) ==
    CASE protocol = "anthropic"        -> AnthropicHas(b, ps)
      [] protocol = "openai"           -> ChatHas(b, ps)
      [] protocol = "openai-responses" -> ResponsesHas(b, ps)

SystemFor(protocol) == (IF protocol = "openai-responses" THEN <<>> ELSE Prompt) \o System

\* The canonical form of a client's request says qs of what was said, ps.
CarriedBy(protocol, qs, ps) ==
    /\ qs \in Seq(Said)
    /\ protocol = "openai-responses" => qs = ps
    /\ protocol # "openai-responses" => qs \in Seq(Heard)
    /\ Keep(qs, TextPieces) = Keep(ps, TextPieces) /\ Keep(qs, ActPieces) = Keep(ps, ActPieces)
    /\ protocol # "openai" => Keep(qs, Heard) = Keep(ps, Heard)

LEMMA KeptPart ==
    ASSUME NEW A, NEW s \in Seq(A), NEW kept, NEW part, part \subseteq kept
    PROVE  Keep(Keep(s, kept), part) = Keep(s, part)
<1>1. kept \cap part = part
  OBVIOUS
<1>2. Keep(Keep(s, kept), part) = Keep(s, kept \cap part)
  BY KeptTwice
<1>3. QED
  BY <1>1, <1>2

LEMMA HeardParts == TextPieces \subseteq Heard /\ ActPieces \subseteq Heard /\ Heard \subseteq Replayed /\ Heard \subseteq Said
BY DEF TextPieces, ActPieces, Heard, Replayed, Of, Said

LEMMA ClientCanonical ==
    ASSUME NEW protocol \in Protocols, NEW b, NEW ps \in Seq(Said), Has(protocol, b, ps)
    PROVE  \E qs : /\ Canonical(ToCanonical(protocol, b, Prompt), SystemFor(protocol), qs)
                   /\ CarriedBy(protocol, qs, ps)
<1>1. CASE protocol = "anthropic"
  <2>1. AnthropicHas(b, ps)
    BY <1>1 DEF Has
  <2>2. PICK qs : qs = Keep(Gather(b.messages, MessagePieces), Heard)
    OBVIOUS
  <2>3. qs \in Seq(Heard) /\ qs \in Seq(Said)
    <3>1. PICK all \in Seq(Said) : all = Gather(b.messages, MessagePieces)
      BY <2>1, MessageTypes, GatherTyped DEF AnthropicHas
    <3>2. Keep(all, Heard) \in Seq(Said \cap Heard)
      BY KeptBy
    <3>3. Said \cap Heard = Heard
      BY HeardParts
    <3>4. QED
      BY <2>2, <3>1, <3>2, <3>3, Kept
  <2>4. qs = Keep(ps, Heard)
    BY <2>1, <2>2 DEF AnthropicHas
  <2>5. Keep(qs, TextPieces) = Keep(ps, TextPieces) /\ Keep(qs, ActPieces) = Keep(ps, ActPieces)
    BY <2>4, HeardParts, KeptPart
  <2>6. Keep(qs, Heard) = Keep(ps, Heard)
    BY <2>4, KeptPart
  <2>7. CarriedBy(protocol, qs, ps)
    BY <1>1, <2>3, <2>5, <2>6 DEF CarriedBy
  <2>8. Canonical(FromAnthropicRequest(b, Prompt), Prompt \o System, qs)
    <3>1. b.system \in Seq(SystemTexts) /\ b.system = System /\ b.messages \in Seq(Messages)
      BY <2>1, SystemTyped DEF AnthropicHas
    <3>2. Canonical(FromAnthropicRequest(b, Prompt), Prompt \o b.system, Keep(Gather(b.messages, MessagePieces), Heard))
      BY <3>1, AnthropicCanonical, Zenon
    <3>3. QED
      BY <2>2, <3>1, <3>2
  <2>9. ToCanonical(protocol, b, Prompt) = FromAnthropicRequest(b, Prompt) /\ SystemFor(protocol) = Prompt \o System
    BY <1>1 DEF ToCanonical, SystemFor
  <2>10. QED
    BY <2>7, <2>8, <2>9
<1>2. CASE protocol = "openai"
  <2>1. ChatHas(b, ps)
    BY <1>2 DEF Has
  <2>2. PICK qs : qs = Gather(b.messages, ChatPieces)
    OBVIOUS
  <2>3. qs \in Seq(Heard)
    BY <2>1, <2>2, ChatMessages, GatherTyped DEF ChatHas
  <2>4. qs \in Seq(Said)
    BY <2>3, HeardParts
  <2>5. CarriedBy(protocol, qs, ps)
    BY <1>2, <2>1, <2>2, <2>3, <2>4, Zenon DEF CarriedBy, ChatHas
  <2>6. b.messages \in Seq(Chats) /\ Gather(b.messages, ChatSystem) = System
    BY <2>1 DEF ChatHas
  <2>7. Canonical(FromChatRequest(b, Prompt), Prompt \o Gather(b.messages, ChatSystem), Gather(b.messages, ChatPieces))
    BY <2>6, ChatCanonical, Zenon
  <2>8. ToCanonical(protocol, b, Prompt) = FromChatRequest(b, Prompt) /\ SystemFor(protocol) = Prompt \o System
    BY <1>2 DEF ToCanonical, SystemFor
  <2>9. QED
    BY <2>2, <2>5, <2>6, <2>7, <2>8, Zenon
<1>3. CASE protocol = "openai-responses"
  <2>1. Canonical(b, System, ps)
    BY <1>3 DEF Has, ResponsesHas
  <2>2. ToCanonical(protocol, b, Prompt) = b
    BY <1>3 DEF ToCanonical
  <2>3. SystemFor(protocol) = System
    <3>1. SystemFor(protocol) = <<>> \o System
      BY <1>3 DEF SystemFor
    <3>2. QED
      BY <3>1, SystemTyped, ConcatEmptySeq
  <2>4. CarriedBy(protocol, ps, ps)
    BY <1>3 DEF CarriedBy
  <2>5. QED
    BY <2>1, <2>2, <2>3, <2>4
<1>4. QED
  BY <1>1, <1>2, <1>3 DEF Protocols

SpokenFor(backend, qs) ==
    CASE backend = "anthropic"        -> Keep(qs, Replayed)
      [] backend = "openai"           -> Keep(qs, Heard)
      [] backend = "openai-responses" -> qs

LEMMA BackendGiven ==
    ASSUME NEW backend \in Protocols, NEW c, NEW sys, NEW qs, Canonical(c, sys, qs)
    PROVE  Delivers(backend, FromCanonical(backend, c), sys, SpokenFor(backend, qs))
<1>1. CASE backend = "anthropic"
  BY <1>1, ToAnthropic DEF FromCanonical, SpokenFor
<1>2. CASE backend = "openai"
  BY <1>2, ToChat DEF FromCanonical, SpokenFor
<1>3. CASE backend = "openai-responses"
  BY <1>3, ToResponses DEF FromCanonical, SpokenFor
<1>4. QED
  BY <1>1, <1>2, <1>3 DEF Protocols

\* What a backend hears keeps the texts and acts, and thinking only where it may.
LEMMA SpokenKeeps ==
    ASSUME NEW protocol \in Protocols, NEW backend \in Protocols, protocol # backend,
           NEW ps \in Seq(Said), NEW qs, CarriedBy(protocol, qs, ps),
           NEW spoken, spoken = SpokenFor(backend, qs)
    PROVE  /\ Keep(spoken, TextPieces) = Keep(ps, TextPieces)
           /\ Keep(spoken, ActPieces) = Keep(ps, ActPieces)
           /\ protocol # "openai" => Keep(spoken, Heard) = Keep(ps, Heard)
           /\ IF protocol = "openai-responses" /\ backend = "anthropic"
              THEN spoken = Keep(ps, Replayed) ELSE Keep(spoken, ThinkingPieces) = <<>>
<1>1. /\ qs \in Seq(Said)
      /\ Keep(qs, TextPieces) = Keep(ps, TextPieces) /\ Keep(qs, ActPieces) = Keep(ps, ActPieces)
      /\ protocol # "openai" => Keep(qs, Heard) = Keep(ps, Heard)
  BY DEF CarriedBy
<1>2. ASSUME NEW kept, Heard \subseteq kept, spoken = Keep(qs, kept)
      PROVE  /\ Keep(spoken, TextPieces) = Keep(qs, TextPieces)
             /\ Keep(spoken, ActPieces) = Keep(qs, ActPieces)
             /\ Keep(spoken, Heard) = Keep(qs, Heard)
  <2>1. TextPieces \subseteq kept /\ ActPieces \subseteq kept
    BY <1>2, HeardParts
  <2>2. QED
    BY <1>1, <1>2, <2>1, KeptPart
<1>3. ASSUME NEW s \in Seq(Heard) PROVE Keep(s, ThinkingPieces) = <<>>
  <2>1. Heard \cap ThinkingPieces = {}
    BY ThinkingKinds
  <2>2. QED
    BY <2>1, KeptWhole
<1>4. Keep(qs, Heard) \in Seq(Heard)
  <2>1. Keep(qs, Heard) \in Seq(Said \cap Heard)
    BY <1>1, KeptBy
  <2>2. Said \cap Heard = Heard
    BY HeardParts
  <2>3. QED
    BY <2>1, <2>2
<1>5. CASE backend = "anthropic"
  <2>1. spoken = Keep(qs, Replayed) /\ Heard \subseteq Replayed
    BY <1>5, HeardParts DEF SpokenFor
  <2>2. CASE protocol = "openai-responses"
    BY <1>1, <1>2, <1>5, <2>1, <2>2 DEF CarriedBy
  <2>3. CASE protocol # "openai-responses"
    <3>1. qs \in Seq(Heard)
      BY <2>3 DEF CarriedBy
    <3>2. Keep(qs, Replayed) = qs
      BY <2>1, <3>1, KeptWhole
    <3>3. Keep(spoken, ThinkingPieces) = <<>>
      BY <1>3, <2>1, <3>1, <3>2
    <3>4. QED
      BY <1>1, <1>2, <2>1, <2>3, <3>3
  <2>4. QED
    BY <2>2, <2>3
<1>6. CASE backend = "openai"
  <2>1. spoken = Keep(qs, Heard)
    BY <1>6 DEF SpokenFor
  <2>2. QED
    BY <1>1, <1>2, <1>3, <1>4, <1>6, <2>1
<1>7. CASE backend = "openai-responses"
  <2>1. spoken = qs /\ qs \in Seq(Heard)
    BY <1>7 DEF SpokenFor, CarriedBy
  <2>2. QED
    BY <1>1, <1>3, <1>7, <2>1
<1>8. QED
  BY <1>5, <1>6, <1>7 DEF Protocols

\* A converted request delivers the system texts and all that was said.
LEMMA RequestDelivered ==
    ASSUME NEW protocol \in Protocols, NEW backend \in Protocols, protocol # backend,
           NEW b, NEW ps \in Seq(Said), Has(protocol, b, ps),
           NEW d, d = FromCanonical(backend, ToCanonical(protocol, b, Prompt)),
           NEW spoken, spoken = SpokenOf(backend, d)
    PROVE  /\ SystemOf(backend, d) = SystemFor(protocol)
           /\ Keep(spoken, TextPieces) = Keep(ps, TextPieces)
           /\ Keep(spoken, ActPieces) = Keep(ps, ActPieces)
           /\ protocol # "openai" => Keep(spoken, Heard) = Keep(ps, Heard)
           /\ IF protocol = "openai-responses" /\ backend = "anthropic"
              THEN spoken = Keep(ps, Replayed) ELSE Keep(spoken, ThinkingPieces) = <<>>
<1>1. PICK qs : /\ Canonical(ToCanonical(protocol, b, Prompt), SystemFor(protocol), qs)
                /\ CarriedBy(protocol, qs, ps)
  BY ClientCanonical
<1>2. Delivers(backend, d, SystemFor(protocol), SpokenFor(backend, qs))
  BY <1>1, BackendGiven
<1>3. SystemOf(backend, d) = SystemFor(protocol) /\ spoken = SpokenFor(backend, qs)
  BY <1>2 DEF Delivers
<1>4. QED
  BY <1>1, <1>3, SpokenKeeps

-----------------------------------------------------------------------------
(* What a client keeps.                                                       *)

LEMMA KeptJoin ==
    ASSUME NEW A, NEW s \in Seq(A), NEW u \in Seq(A), NEW B, NEW v \in Seq(B), NEW w \in Seq(B),
           NEW kept
    PROVE  Keep(s, kept) = Keep(v, kept) /\ Keep(u, kept) = Keep(w, kept)
              => Keep(s \o u, kept) = Keep(v \o w, kept)
<1>1. Keep(s \o u, kept) = Keep(s, kept) \o Keep(u, kept)
  BY KeptConcat
<1>2. Keep(v \o w, kept) = Keep(v, kept) \o Keep(w, kept)
  BY KeptConcat
<1>3. QED
  BY <1>1, <1>2

LEMMA PartsJoin ==
    ASSUME NEW s \in Seq(Said), NEW u \in Seq(Said), NEW v \in Seq(Said), NEW w \in Seq(Said)
    PROVE  /\ Keep(s, TextPieces) = Keep(v, TextPieces) /\ Keep(u, TextPieces) = Keep(w, TextPieces)
                => Keep(s \o u, TextPieces) = Keep(v \o w, TextPieces)
           /\ Keep(s, ActPieces) = Keep(v, ActPieces) /\ Keep(u, ActPieces) = Keep(w, ActPieces)
                => Keep(s \o u, ActPieces) = Keep(v \o w, ActPieces)
<1>1. Keep(s, TextPieces) = Keep(v, TextPieces) /\ Keep(u, TextPieces) = Keep(w, TextPieces)
         => Keep(s \o u, TextPieces) = Keep(v \o w, TextPieces)
  BY KeptJoin
<1>2. Keep(s, ActPieces) = Keep(v, ActPieces) /\ Keep(u, ActPieces) = Keep(w, ActPieces)
         => Keep(s \o u, ActPieces) = Keep(v \o w, ActPieces)
  BY KeptJoin
<1>3. QED
  BY <1>1, <1>2

LEMMA AnthropicAdds ==
    ASSUME NEW b, NEW ps \in Seq(Said), AnthropicHas(b, ps), NEW m \in Messages, NEW qs \in Seq(Said),
           Keep(m.ps, Heard) = Keep(qs, Heard),
           NEW d, d = [b EXCEPT !.messages = Append(@, m)]
    PROVE  AnthropicHas(d, ps \o qs)
<1>1. PICK ms \in Seq(Messages) : ms = b.messages
  BY DEF AnthropicHas
<1>2. Append(ms, m) \in Seq(Messages)
  OBVIOUS
<1>3. PICK V, W : V = Seq(SystemTexts) /\ W = Seq(Messages)
  OBVIOUS
<1>4. b \in [system : V, messages : W] /\ b.system = System
  BY <1>3, Zenon DEF AnthropicHas
<1>5. PICK us \in W : us = Append(ms, m)
  BY <1>2, <1>3
<1>6. d = [b EXCEPT !.messages = us]
  BY <1>1, <1>5
<1>7. d \in [system : V, messages : W] /\ d.system = System /\ d.messages = us
  BY <1>4, <1>6
<1>8. Keep(Gather(us, MessagePieces), Heard) = Keep(ps \o qs, Heard)
  <2>1. PICK a \in Seq(Said), c \in Seq(Said) : a = Gather(ms, MessagePieces) /\ c = m.ps
    BY MessageTypes, GatherTyped
  <2>2. Gather(us, MessagePieces) = a \o c
    <3>1. Gather(Append(ms, m), MessagePieces) = Gather(ms, MessagePieces) \o MessagePieces[m]
      BY MessageTypes, GatherAppend, Zenon
    <3>2. MessagePieces[m] = m.ps
      BY MessageTypes
    <3>3. QED
      BY <1>5, <2>1, <3>1, <3>2
  <2>3. Keep(a \o c, Heard) = Keep(a, Heard) \o Keep(c, Heard)
    BY KeptConcat
  <2>4. Keep(ps \o qs, Heard) = Keep(ps, Heard) \o Keep(qs, Heard)
    BY KeptConcat
  <2>5. Keep(a, Heard) = Keep(ps, Heard)
    BY <1>1, <2>1 DEF AnthropicHas
  <2>6. QED
    BY <2>1, <2>2, <2>3, <2>4, <2>5
<1>9. QED
  BY <1>3, <1>7, <1>8, Zenon DEF AnthropicHas

LEMMA ChatAdds ==
    ASSUME NEW b, NEW ps \in Seq(Said), ChatHas(b, ps), NEW u \in Seq(Chats), NEW qs \in Seq(Said),
           Gather(u, ChatSystem) = <<>>,
           Keep(Gather(u, ChatPieces), TextPieces) = Keep(qs, TextPieces),
           Keep(Gather(u, ChatPieces), ActPieces) = Keep(qs, ActPieces),
           NEW d, d = [b EXCEPT !.messages = @ \o u]
    PROVE  ChatHas(d, ps \o qs)
<1>1. PICK ms \in Seq(Chats) : ms = b.messages
  BY DEF ChatHas
<1>2. PICK W : W = Seq(Chats)
  OBVIOUS
<1>3. PICK us \in W : us = ms \o u
  BY <1>2, ConcatProperties
<1>4. b \in [messages : W]
  BY <1>2, Zenon DEF ChatHas
<1>5. d = [b EXCEPT !.messages = us]
  BY <1>1, <1>3
<1>6. d \in [messages : W] /\ d.messages = us
  BY <1>4, <1>5
<1>7. ChatPieces \in Terms(Chats, Heard) /\ ChatSystem \in Terms(Chats, SystemTexts)
  BY ChatMessages
<1>8. Gather(us, ChatSystem) = System
  <2>1. Gather(us, ChatSystem) = Gather(ms, ChatSystem) \o Gather(u, ChatSystem)
    BY <1>3, <1>7, GatherConcat
  <2>2. Gather(ms, ChatSystem) = System
    BY <1>1 DEF ChatHas
  <2>3. QED
    BY <2>1, <2>2, SystemTyped, ConcatEmptySeq
<1>9. PICK a \in Seq(Heard), c \in Seq(Heard) : a = Gather(ms, ChatPieces) /\ c = Gather(u, ChatPieces)
  BY <1>7, GatherTyped
<1>10. Gather(us, ChatPieces) = a \o c
  BY <1>3, <1>7, <1>9, GatherConcat
<1>11. Keep(a, TextPieces) = Keep(ps, TextPieces) /\ Keep(a, ActPieces) = Keep(ps, ActPieces)
  BY <1>1, <1>9 DEF ChatHas
<1>12. Keep(c, TextPieces) = Keep(qs, TextPieces) /\ Keep(c, ActPieces) = Keep(qs, ActPieces)
  BY <1>9
<1>13. /\ Keep(a \o c, TextPieces) = Keep(ps \o qs, TextPieces)
       /\ Keep(a \o c, ActPieces) = Keep(ps \o qs, ActPieces)
  <2>1. a \in Seq(Said) /\ c \in Seq(Said)
    BY HeardParts
  <2>2. QED
    BY <1>11, <1>12, <2>1, PartsJoin
<1>14. QED
  BY <1>2, <1>6, <1>8, <1>10, <1>13, Zenon DEF ChatHas

LEMMA ResponsesAdds ==
    ASSUME NEW b, NEW ps \in Seq(Said), ResponsesHas(b, ps), NEW u, NEW qs, Speaks(u, qs),
           NEW d, d = [b EXCEPT !.input = @ \o u]
    PROVE  ResponsesHas(d, ps \o qs)
<1>1. PICK V, W : V = Seq(SystemTexts) /\ W = Seq(Items)
  OBVIOUS
<1>2. b \in [system : V, input : W] /\ Canonical(b, System, ps)
  BY <1>1, Zenon DEF ResponsesHas
<1>3. u \in Seq(Items)
  BY SpeaksInBody
<1>4. PICK us \in W : us = b.input \o u
  BY <1>1, <1>2, <1>3, ConcatProperties
<1>5. d = [b EXCEPT !.input = us]
  BY <1>4
<1>6. d \in [system : V, input : W] /\ d.system = b.system /\ d.input = us
  BY <1>2, <1>5
<1>7. Canonical(d, System, ps \o qs)
  BY <1>2, <1>4, <1>6, CanonicalAppend
<1>8. QED
  BY <1>1, <1>6, <1>7, Zenon DEF ResponsesHas

\* Results come first in a message, and texts and calls are no results.
LEMMA ResultsFirst ==
    ASSUME NEW rs \in Seq(Results), NEW us \in Seq(TextPieces)
    PROVE  Orderly(rs \o us) /\ rs \o us \in Seq(Said)
<1>1. PICK n \in Nat, k \in Nat : n = Len(rs) /\ k = Len(us)
  OBVIOUS
<1>2. rs \in Seq(Said) /\ us \in Seq(Said)
  BY SaidKinds
<1>3. /\ rs \o us \in Seq(Said) /\ Len(rs \o us) = n + k
      /\ \A i \in 1..n : (rs \o us)[i] = rs[i]
      /\ \A i \in 1..k : (rs \o us)[n + i] = us[i]
  BY <1>1, <1>2, ConcatAt
<1>4. ASSUME NEW i \in 1..(n + k), NEW j \in 1..(n + k), i < j, (rs \o us)[j] \in Results
      PROVE  (rs \o us)[i] \notin TextPieces
  <2>1. j \in 1..n
    <3>1. SUFFICES ASSUME j \notin 1..n PROVE FALSE
      OBVIOUS
    <3>2. PICK l \in 1..k : j = n + l
      <4>1. j - n \in 1..k /\ j = n + (j - n)
        BY <3>1
      <4>2. QED
        BY <4>1
    <3>3. us[l] \in TextPieces
      BY <1>1
    <3>4. QED
      BY <1>3, <1>4, <3>2, <3>3, SaidKinds
  <2>2. i \in 1..n
    BY <1>4, <2>1
  <2>3. rs[i] \in Results
    BY <1>1, <2>2
  <2>4. QED
    BY <1>3, <2>2, <2>3, SaidKinds
<1>5. QED
  BY <1>3, <1>4 DEF Orderly

LEMMA NoResults ==
    ASSUME NEW ps \in Seq(Said), \A p \in ToSet(ps) : p \notin Results
    PROVE  Orderly(ps)
BY Elements DEF Orderly

AnswerPieces == Of({"text", "call"} \cup Thinking)

LEMMA AnswerKinds ==
    /\ AnswerPieces \subseteq Said /\ AnswerPieces \cap Results = {}
    /\ AnswerPieces \cap ActPieces = AnswerPieces \cap Calls
    /\ TextPieces \cap Calls = {} /\ TextPieces \cap ActPieces = {}
    /\ Calls \subseteq ActPieces /\ Results \subseteq ActPieces
    /\ TextPieces \subseteq Said /\ Calls \subseteq Said /\ Results \subseteq Said
BY DEF AnswerPieces, Said, Of, Texts, Acts, Thinking, TextPieces, Calls, Results, ActPieces

\* One message for each result, and one for what the user says.
LEMMA ToolBodies ==
    ASSUME NEW rs \in Seq(Results), NEW u, u = [k \in DOMAIN rs |-> Chat("tool", <<rs[k]>>, <<>>)]
    PROVE  u \in Seq(Chats) /\ Gather(u, ChatSystem) = <<>> /\ Gather(u, ChatPieces) = rs
<1>1. PICK e : e = [p \in Results |-> Chat("tool", <<p>>, <<>>)]
  OBVIOUS
<1>2. PICK one, none : one = [p \in Results |-> <<p>>] /\ none = [p \in Results |-> <<>>]
  OBVIOUS
<1>3. ASSUME NEW p \in Results
      PROVE  /\ e[p] = Chat("tool", <<p>>, <<>>) /\ e[p] \in Chats
             /\ ChatPieces[e[p]] = <<p>> /\ ChatSystem[e[p]] = <<>>
  <2>1. PICK ps \in Seq(Results), calls \in Seq(Calls) : ps = <<p>> /\ calls = <<>>
    <3>1. <<p>> \in Seq(Results) /\ <<>> \in Seq(Calls)
      BY EmptySeq
    <3>2. QED
      BY <3>1
  <2>2. PICK role \in {"system", "user", "assistant", "tool", "none"} : role = "tool"
    OBVIOUS
  <2>3. PICK c : c = e[p] /\ c = [role |-> role, ps |-> ps, calls |-> calls]
    BY <1>1, <2>1, <2>2 DEF Chat
  <2>4. c \in [role : {"system", "user", "assistant", "tool", "none"},
               ps : Seq(Said \cup SystemTexts), calls : Seq(Calls)]
    <3>1. ps \in Seq(Said \cup SystemTexts)
      BY AnswerKinds
    <3>2. QED
      BY <2>3, <3>1
  <2>5. c.role = "tool" /\ c.ps = ps /\ c.calls = calls
    BY <2>2, <2>3
  <2>6. c \in Chats
    BY <2>1, <2>4, <2>5 DEF Chats
  <2>7. ChatPieces[c] = ps \o calls /\ ChatSystem[c] = <<>>
    BY <2>5, <2>6, ChatMessages
  <2>8. ps \o calls = ps
    BY <2>1, ConcatEmptySeq
  <2>9. e[p] = Chat("tool", <<p>>, <<>>)
    BY <1>1
  <2>10. QED
    BY <2>1, <2>3, <2>6, <2>7, <2>8, <2>9
<1>4. e \in [Results -> Chats]
  BY <1>1, <1>3
<1>5. \A p \in Results : ChatPieces[e[p]] = one[p] /\ ChatSystem[e[p]] = none[p]
  BY <1>2, <1>3
<1>6. one \in Terms(Results, Heard) /\ one \in Terms(Results, Results)
  <2>1. \A p \in Results : <<p>> \in Seq(Results) /\ <<p>> \in Seq(Heard)
    BY SaidKinds
  <2>2. QED
    BY <1>2, <2>1 DEF Terms
<1>7. none \in Terms(Results, SystemTexts)
  <2>1. <<>> \in Seq(SystemTexts)
    BY EmptySeq
  <2>2. QED
    BY <1>2, <2>1 DEF Terms
<1>8. PICK w : w = [k \in DOMAIN rs |-> e[rs[k]]]
  OBVIOUS
<1>9. w \in Seq(Chats) /\ Gather(w, ChatPieces) = Gather(rs, one)
  <2>1. ChatPieces \in Terms(Chats, Heard)
    BY ChatMessages
  <2>2. one \in Terms(Results, Heard)
    BY <1>6
  <2>3. \A p \in Results : ChatPieces[e[p]] = one[p]
    BY <1>5
  <2>4. w \in Seq(Chats) /\ Len(w) = Len(rs) /\ Gather(w, ChatPieces) = Gather(rs, one)
    BY <1>4, <1>8, <2>1, <2>2, <2>3, GatherEach
  <2>5. QED
    BY <2>4
<1>10. Gather(w, ChatSystem) = Gather(rs, none)
  <2>1. ChatSystem \in Terms(Chats, SystemTexts)
    BY ChatMessages
  <2>2. \A p \in Results : ChatSystem[e[p]] = none[p]
    BY <1>5
  <2>3. w \in Seq(Chats) /\ Len(w) = Len(rs) /\ Gather(w, ChatSystem) = Gather(rs, none)
    BY <1>4, <1>7, <1>8, <2>1, <2>2, GatherEach
  <2>4. QED
    BY <2>3
<1>11. Gather(rs, one) = rs
  BY <1>2, <1>6, GatherSelf
<1>12. Gather(rs, none) = <<>>
  BY <1>2, <1>7, GatherNothing
<1>13. u = w
  <2>1. \A k \in DOMAIN rs : rs[k] \in Results
    OBVIOUS
  <2>2. QED
    BY <1>3, <1>8, <2>1
<1>14. QED
  BY <1>9, <1>10, <1>11, <1>12, <1>13

\* A message that is not of the system, alone.
Alone(c, ps) == <<c>> \in Seq(Chats) /\ Gather(<<c>>, ChatSystem) = <<>> /\ Gather(<<c>>, ChatPieces) = ps

LEMMA OneChat ==
    ASSUME NEW role \in {"user", "assistant"}, NEW ps \in Seq(TextPieces), NEW calls \in Seq(Calls),
           role = "user" => calls = <<>>, NEW c, c = Chat(role, ps, calls)
    PROVE  Alone(c, ps \o calls)
<1>1. c = [role |-> role, ps |-> ps, calls |-> calls]
  BY DEF Chat
<1>2. c.role = role /\ c.ps = ps /\ c.calls = calls
  BY <1>1
<1>3. ps \in Seq(Said \cup SystemTexts) /\ role \in {"system", "user", "assistant", "tool", "none"}
  BY AnswerKinds
<1>4. c \in [role : {"system", "user", "assistant", "tool", "none"},
             ps : Seq(Said \cup SystemTexts), calls : Seq(Calls)]
  BY <1>1, <1>3
<1>5. c \in Chats
  BY <1>2, <1>4 DEF Chats
<1>6. ChatPieces[c] = ps \o calls /\ ChatSystem[c] = <<>>
  BY <1>2, <1>5, ChatMessages
<1>7. ChatPieces \in Terms(Chats, Heard) /\ ChatSystem \in Terms(Chats, SystemTexts)
  BY ChatMessages
<1>8. Gather(<<c>>, ChatSystem) = ChatSystem[c] /\ Gather(<<c>>, ChatPieces) = ChatPieces[c]
  BY <1>5, <1>7, GatherOne
<1>9. <<c>> \in Seq(Chats)
  BY <1>5
<1>10. QED
  BY <1>6, <1>8, <1>9, Zenon DEF Alone

LEMMA UserBody ==
    ASSUME NEW us \in Seq(TextPieces), NEW u, u = Optional(Chat("user", us, <<>>), us)
    PROVE  u \in Seq(Chats) /\ Gather(u, ChatSystem) = <<>> /\ Gather(u, ChatPieces) = us
<1>1. CASE us = <<>>
  <2>1. u = <<>>
    BY <1>1 DEF Optional
  <2>2. Gather(<<>>, ChatSystem) = <<>> /\ Gather(<<>>, ChatPieces) = <<>>
    BY ChatMessages, GatherNone, Zenon
  <2>3. QED
    BY <1>1, <2>1, <2>2, EmptySeq
<1>2. CASE us # <<>>
  <2>1. PICK calls \in Seq(Calls) : calls = <<>>
    BY EmptySeq
  <2>2. PICK role \in {"user", "assistant"} : role = "user"
    OBVIOUS
  <2>3. PICK c : c = Chat(role, us, calls)
    OBVIOUS
  <2>4. Alone(c, us \o calls)
    <3>1. role = "user" => calls = <<>>
      BY <2>1
    <3>2. QED
      BY <2>3, <3>1, OneChat
  <2>5. us \o calls = us
    BY <2>1, ConcatEmptySeq
  <2>6. u = <<c>>
    BY <1>2, <2>1, <2>2, <2>3 DEF Optional
  <2>7. QED
    BY <2>4, <2>5, <2>6 DEF Alone
<1>3. QED
  BY <1>1, <1>2

\* What the client says next is in its body.
LEMMA ClientSays ==
    ASSUME client \in Protocols, NEW ps \in Seq(Said), NEW b, Has(client, b, ps),
           NEW rs \in Seq(Results), NEW us \in Seq(TextPieces)
    PROVE  Has(client, Says(b, rs, us), (ps \o rs) \o us) /\ (ps \o rs) \o us \in Seq(Said)
<1>1. rs \in Seq(Said) /\ us \in Seq(Said)
  BY AnswerKinds
<1>2. /\ ps \o rs \in Seq(Said) /\ (ps \o rs) \o us \in Seq(Said)
      /\ (ps \o rs) \o us = ps \o (rs \o us)
  BY <1>1, Associates, ConcatProperties
<1>3. PICK m : m = Message("user", rs \o us)
  OBVIOUS
<1>4. CASE client = "anthropic"
  <2>1. m \in Messages /\ m.ps = rs \o us /\ rs \o us \in Seq(Said)
    BY <1>3, ResultsFirst DEF Messages, Message
  <2>2. PICK d : d = [b EXCEPT !.messages = Append(@, m)]
    OBVIOUS
  <2>3. AnthropicHas(b, ps)
    BY <1>4 DEF Has
  <2>4. Keep(m.ps, Heard) = Keep(rs \o us, Heard)
    BY <2>1
  <2>5. AnthropicHas(d, ps \o (rs \o us))
    BY <2>1, <2>2, <2>3, <2>4, AnthropicAdds
  <2>6. Says(b, rs, us) = d
    BY <1>3, <1>4, <2>2 DEF Says
  <2>7. QED
    BY <1>2, <1>4, <2>5, <2>6 DEF Has
<1>5. CASE client = "openai"
  <2>1. PICK u, v : u = [k \in DOMAIN rs |-> Chat("tool", <<rs[k]>>, <<>>)] /\ v = Optional(Chat("user", us, <<>>), us)
    OBVIOUS
  <2>2. u \in Seq(Chats) /\ Gather(u, ChatSystem) = <<>> /\ Gather(u, ChatPieces) = rs
    BY <2>1, ToolBodies
  <2>3. v \in Seq(Chats) /\ Gather(v, ChatSystem) = <<>> /\ Gather(v, ChatPieces) = us
    BY <2>1, UserBody
  <2>4. PICK c : c = [b EXCEPT !.messages = @ \o u]
    OBVIOUS
  <2>5. PICK d : d = [c EXCEPT !.messages = @ \o v]
    OBVIOUS
  <2>6. ChatHas(b, ps)
    BY <1>5 DEF Has
  <2>7. ChatHas(c, ps \o rs)
    BY <1>1, <2>2, <2>4, <2>6, ChatAdds
  <2>8. ChatHas(d, (ps \o rs) \o us)
    BY <1>1, <1>2, <2>3, <2>5, <2>7, ChatAdds
  <2>9. Says(b, rs, us) = d
    <3>1. PICK W : b \in [messages : W]
      BY <2>6 DEF ChatHas
    <3>2. d = [b EXCEPT !.messages = (@ \o u) \o v]
      BY <2>4, <2>5, <3>1
    <3>3. QED
      BY <1>5, <2>1, <3>2, Zenon DEF Says
  <2>10. QED
    BY <1>2, <1>5, <2>8, <2>9 DEF Has
<1>6. CASE client = "openai-responses"
  <2>1. PICK u, v : /\ u = [k \in DOMAIN rs |-> Item("output", "none", <<rs[k]>>)]
                    /\ v = Optional(Item("message", "user", us), us)
    OBVIOUS
  <2>2. Speaks(u, rs)
    <3>1. PICK e : e = [p \in Results |-> Item("output", "none", <<p>>)]
      OBVIOUS
    <3>2. \A p \in Results : e[p] = Item("output", "none", <<p>>)
      BY <3>1
    <3>3. \A p \in Results : e[p] \in PlainItems /\ e[p].ps = <<p>>
      <4>1. ASSUME NEW p \in Results PROVE e[p] \in PlainItems /\ e[p].ps = <<p>>
        <5>1. PICK t, i : t = "output" /\ i = Item(t, "none", <<p>>)
          OBVIOUS
        <5>2. i \in PlainItems /\ i.ps = <<p>>
          BY <5>1, PieceItem
        <5>3. QED
          BY <3>2, <5>1, <5>2
      <4>2. QED
        BY <4>1
    <3>4. e \in [Results -> PlainItems] /\ Results \in SUBSET Said /\ \A p \in Results : e[p].ps = <<p>>
      BY <3>1, <3>3, AnswerKinds
    <3>5. Speaks([k \in DOMAIN rs |-> e[rs[k]]], rs)
      BY <3>4, SpeaksEach
    <3>6. u = [k \in DOMAIN rs |-> e[rs[k]]]
      <4>1. \A k \in DOMAIN rs : rs[k] \in Results
        OBVIOUS
      <4>2. QED
        BY <2>1, <3>2, <4>1
    <3>7. QED
      BY <3>5, <3>6, Zenon
  <2>3. Speaks(v, us)
    <3>1. PICK i \in PlainItems : i = Item("message", "user", us) /\ i.ps = us
      BY PlainItem, ItemFields
    <3>2. QED
      BY <2>1, <3>1, SpeaksOptional
  <2>4. PICK c : c = [b EXCEPT !.input = @ \o u]
    OBVIOUS
  <2>5. PICK d : d = [c EXCEPT !.input = @ \o v]
    OBVIOUS
  <2>6. ResponsesHas(b, ps)
    BY <1>6 DEF Has
  <2>7. ResponsesHas(c, ps \o rs)
    BY <2>2, <2>4, <2>6, ResponsesAdds
  <2>8. ResponsesHas(d, (ps \o rs) \o us)
    BY <1>2, <2>3, <2>5, <2>7, ResponsesAdds
  <2>9. Says(b, rs, us) = d
    <3>1. PICK V, W : b \in [system : V, input : W]
      BY <2>6 DEF ResponsesHas
    <3>2. d = [b EXCEPT !.input = (@ \o u) \o v]
      BY <2>4, <2>5, <3>1
    <3>3. QED
      BY <1>6, <2>1, <3>2, Zenon DEF Says
  <2>10. QED
    BY <1>2, <1>6, <2>8, <2>9 DEF Has
<1>7. QED
  BY <1>4, <1>5, <1>6 DEF Protocols

\* What a client receives of an answer ps.
Receives(protocol, a, ps) ==
    CASE protocol = "anthropic"        -> a.ps \in Seq(AnswerPieces) /\ Keep(a.ps, Heard) = Keep(ps, Heard)
      [] protocol = "openai"           -> a.ps = Keep(ps, TextPieces) /\ a.calls = Keep(ps, Calls)
      [] protocol = "openai-responses" -> Speaks(a.output, ps)

LEMMA KeptIn ==
    ASSUME NEW A, NEW s \in Seq(A), NEW kept, kept \subseteq A
    PROVE  Keep(s, kept) \in Seq(kept)
<1>1. Keep(s, kept) \in Seq(A \cap kept)
  BY KeptBy
<1>2. A \cap kept = kept
  OBVIOUS
<1>3. QED
  BY <1>1, <1>2

LEMMA KeptSame ==
    ASSUME NEW A, NEW s \in Seq(A), NEW kept, NEW also, A \cap kept = A \cap also
    PROVE  Keep(s, kept) = Keep(s, also)
<1> DEFINE T == {v \in Seq(A) : Keep(v, kept) = Keep(v, also)}
<1>1. <<>> \in T
  BY KeptNone, EmptySeq
<1>2. ASSUME NEW v \in Seq(A), NEW x \in A, v \in T PROVE Append(v, x) \in T
  <2>1. \A k : Keep(Append(v, x), k) = IF x \in k THEN Append(Keep(v, k), x) ELSE Keep(v, k)
    BY KeptAppend
  <2>2. Append(v, x) \in Seq(A)
    BY AppendProperties
  <2>3. Keep(v, kept) = Keep(v, also) /\ (x \in kept <=> x \in also)
    BY <1>2
  <2>4. QED
    BY <2>1, <2>2, <2>3
<1> HIDE DEF T
<1>3. \A v \in Seq(A) : v \in T
  BY <1>1, <1>2, SeqInduction
<1>4. QED
  BY <1>3 DEF T

LEMMA AnswerActs ==
    ASSUME NEW qs \in Seq(AnswerPieces)
    PROVE  Keep(qs, Calls) = Keep(qs, ActPieces)
<1>1. AnswerPieces \cap Calls = AnswerPieces \cap ActPieces
  BY AnswerKinds
<1>2. QED
  BY <1>1, KeptSame

\* It is in its body then.
LEMMA ClientKeeps ==
    ASSUME client \in Protocols, NEW ps \in Seq(Said), NEW b, Has(client, b, ps),
           NEW qs \in Seq(AnswerPieces), NEW a, Receives(client, a, qs)
    PROVE  Has(client, Keeps(b, a), ps \o qs) /\ ps \o qs \in Seq(Said)
<1>1. qs \in Seq(Said) /\ ps \o qs \in Seq(Said)
  <2>1. qs \in Seq(Said)
    BY AnswerKinds
  <2>2. QED
    BY <2>1, ConcatProperties
<1>2. CASE client = "anthropic"
  <2>1. PICK us \in Seq(AnswerPieces) : us = a.ps /\ Keep(us, Heard) = Keep(qs, Heard)
    BY <1>2 DEF Receives
  <2>2. PICK role \in {"user", "assistant", "none"} : role = "assistant"
    OBVIOUS
  <2>3. us \in Seq(Said) /\ Orderly(us)
    <3>1. us \in Seq(Said)
      BY AnswerKinds
    <3>2. \A p \in ToSet(us) : p \notin Results
      BY Elements, AnswerKinds
    <3>3. QED
      BY <3>1, <3>2, NoResults
  <2>4. PICK m \in Messages : m = Message("assistant", a.ps) /\ m.ps = us
    <3>1. [role |-> role, ps |-> us] \in Messages
      BY <2>3 DEF Messages
    <3>2. QED
      BY <2>1, <2>2, <3>1 DEF Message
  <2>5. PICK d : d = [b EXCEPT !.messages = Append(@, m)]
    OBVIOUS
  <2>6. AnthropicHas(b, ps) /\ Keep(m.ps, Heard) = Keep(qs, Heard)
    BY <1>2, <2>1, <2>4 DEF Has
  <2>7. AnthropicHas(d, ps \o qs)
    BY <1>1, <2>5, <2>6, AnthropicAdds
  <2>8. Keeps(b, a) = d
    BY <1>2, <2>4, <2>5 DEF Keeps
  <2>9. QED
    BY <1>1, <1>2, <2>7, <2>8 DEF Has
<1>3. CASE client = "openai"
  <2>1. PICK us \in Seq(TextPieces), calls \in Seq(Calls) : us = a.ps /\ calls = a.calls
    <3>1. Keep(qs, TextPieces) \in Seq(TextPieces) /\ Keep(qs, Calls) \in Seq(Calls)
      BY <1>1, AnswerKinds, KeptIn
    <3>2. QED
      BY <1>3, <3>1 DEF Receives
  <2>2. us = Keep(qs, TextPieces) /\ calls = Keep(qs, Calls)
    BY <1>3, <2>1 DEF Receives
  <2>3. PICK role \in {"user", "assistant"} : role = "assistant"
    OBVIOUS
  <2>4. PICK c : c = Chat(role, us, calls)
    OBVIOUS
  <2>5. Alone(c, us \o calls)
    <3>1. role = "user" => calls = <<>>
      BY <2>3
    <3>2. QED
      BY <2>4, <3>1, OneChat
  <2>6. PICK u \in Seq(Chats) : u = <<c>> /\ Gather(u, ChatSystem) = <<>> /\ Gather(u, ChatPieces) = us \o calls
    BY <2>5 DEF Alone
  <2>7. us \in Seq(Said) /\ calls \in Seq(Said)
    BY AnswerKinds
  <2>8. Keep(us \o calls, TextPieces) = Keep(qs, TextPieces)
    <3>1. Keep(us \o calls, TextPieces) = Keep(us, TextPieces) \o Keep(calls, TextPieces)
      BY <2>7, KeptConcat
    <3>2. Calls \cap TextPieces = {}
      BY AnswerKinds
    <3>3. Keep(us, TextPieces) = us
      BY KeptWhole
    <3>4. Keep(calls, TextPieces) = <<>>
      BY <3>2, KeptWhole
    <3>5. QED
      BY <2>2, <3>1, <3>3, <3>4, ConcatEmptySeq
  <2>9. Keep(us \o calls, ActPieces) = Keep(qs, ActPieces)
    <3>1. Keep(us \o calls, ActPieces) = Keep(us, ActPieces) \o Keep(calls, ActPieces)
      BY <2>7, KeptConcat
    <3>2. TextPieces \cap ActPieces = {} /\ Calls \subseteq ActPieces /\ AnswerPieces \cap Calls = AnswerPieces \cap ActPieces
      BY AnswerKinds
    <3>3. Keep(us, ActPieces) = <<>>
      BY <3>2, KeptWhole
    <3>4. Keep(calls, ActPieces) = calls
      BY <3>2, KeptWhole
    <3>5. Keep(qs, Calls) = Keep(qs, ActPieces)
      BY AnswerActs
    <3>6. QED
      BY <2>2, <3>1, <3>3, <3>4, <3>5, ConcatEmptySeq
  <2>10. PICK d : d = [b EXCEPT !.messages = @ \o u]
    OBVIOUS
  <2>11. ChatHas(b, ps)
    BY <1>3 DEF Has
  <2>12. /\ Keep(Gather(u, ChatPieces), TextPieces) = Keep(qs, TextPieces)
         /\ Keep(Gather(u, ChatPieces), ActPieces) = Keep(qs, ActPieces)
    BY <2>6, <2>8, <2>9
  <2>13. ChatHas(d, ps \o qs)
    BY <1>1, <2>6, <2>10, <2>11, <2>12, ChatAdds
  <2>14. Keeps(b, a) = d
    <3>1. PICK ms \in Seq(Chats) : ms = b.messages
      BY <2>11 DEF ChatHas
    <3>2. c \in Chats
      BY <2>6
    <3>3. Append(ms, c) = ms \o u
      BY <2>6, <3>2, ConcatAppend
    <3>4. Keeps(b, a) = [b EXCEPT !.messages = Append(@, c)]
      BY <1>3, <2>1, <2>3, <2>4 DEF Keeps
    <3>5. QED
      BY <2>10, <3>1, <3>3, <3>4
  <2>15. QED
    BY <1>1, <1>3, <2>13, <2>14 DEF Has
<1>4. CASE client = "openai-responses"
  <2>1. Speaks(a.output, qs) /\ ResponsesHas(b, ps)
    BY <1>4 DEF Receives, Has
  <2>2. PICK u : u = a.output
    OBVIOUS
  <2>3. PICK d : d = [b EXCEPT !.input = @ \o u]
    OBVIOUS
  <2>4. ResponsesHas(d, ps \o qs)
    BY <2>1, <2>2, <2>3, ResponsesAdds
  <2>5. Keeps(b, a) = d
    BY <1>4, <2>2, <2>3 DEF Keeps
  <2>6. QED
    BY <1>1, <1>4, <2>4, <2>5 DEF Has
<1>5. QED
  BY <1>2, <1>3, <1>4 DEF Protocols

-----------------------------------------------------------------------------
(* Answers.                                                                   *)

LEMMA PieceSpeaks ==
    ASSUME NEW p \in AnswerPieces
    PROVE  /\ p[1] = "text" => p \in TextPieces
           /\ p[1] = "call" => p \in Calls
           /\ p[1] \in Thinking => p \in Unsigned \/ p \in SignedPieces
           /\ \/ p[1] = "text" \/ p[1] = "call" \/ p[1] \in Thinking
           /\ p[1] = "text" => Speaks(<<Item("message", "none", <<p>>)>>, <<p>>)
           /\ p[1] = "call" => Speaks(<<Item("call", "none", <<p>>)>>, <<p>>)
           /\ p[1] \in Thinking => Speaks(<<Item("reasoning", "none", <<p>>)>>, <<p>>)
<1>1. /\ p[1] = "text" => p \in TextPieces
      /\ p[1] = "call" => p \in Calls
      /\ p[1] \in Thinking => p \in Unsigned \/ p \in SignedPieces
      /\ \/ p[1] = "text" \/ p[1] = "call" \/ p[1] \in Thinking
  BY DEF AnswerPieces, Of, Thinking, TextPieces, Calls, Unsigned, SignedPieces, Texts, Signed
<1>2. ASSUME NEW t, \/ t = "call" /\ p \in Calls
                    \/ t = "message" /\ p \in TextPieces
                    \/ t = "reasoning" /\ (p \in Unsigned \/ p \in SignedPieces)
      PROVE  Speaks(<<Item(t, "none", <<p>>)>>, <<p>>)
  <2>1. PICK i : i = Item(t, "none", <<p>>)
    OBVIOUS
  <2>2. i \in PlainItems /\ i.ps = <<p>>
    BY <1>2, <2>1, PieceItem
  <2>3. Speaks(<<i>>, <<p>>)
    BY <2>2, SpeaksOne
  <2>4. QED
    BY <2>1, <2>3
<1>3. QED
  BY <1>1, <1>2, Zenon

\* An answer of one item for each piece, or none.
LEMMA AnswerSpeaks ==
    ASSUME NEW f \in Terms(AnswerPieces, PlainItems), \A p \in AnswerPieces : Speaks(f[p], <<p>>),
           NEW ps \in Seq(AnswerPieces)
    PROVE  Speaks(Gather(ps, f), ps)
<1>1. PICK h : h = [p \in AnswerPieces |-> <<p>>]
  OBVIOUS
<1>2. h \in Terms(AnswerPieces, Said) /\ h \in Terms(AnswerPieces, AnswerPieces)
  <2>1. \A p \in AnswerPieces : <<p>> \in Seq(Said) /\ <<p>> \in Seq(AnswerPieces)
    BY AnswerKinds
  <2>2. QED
    BY <1>1, <2>1 DEF Terms
<1>3. \A p \in AnswerPieces : h[p] = <<p>>
  BY <1>1
<1>4. \A p \in AnswerPieces : Speaks(f[p], h[p])
  BY <1>3
<1>5. Speaks(Gather(ps, f), Gather(ps, h))
  BY <1>2, <1>4, SpeaksGather
<1>6. Gather(ps, h) = ps
  BY <1>2, <1>3, GatherSelf
<1>7. QED
  BY <1>5, <1>6

LEMMA AnthropicAnswer ==
    ASSUME NEW a, NEW ps \in Seq(AnswerPieces), a.ps = ps
    PROVE  Speaks(FromAnthropicAnswer(a).output, ps)
<1>1. PICK f : f = [p \in AnswerPieces |-> BlockToItems(p)]
  OBVIOUS
<1>2. ASSUME NEW p \in AnswerPieces PROVE f[p] = BlockToItems(p) /\ Speaks(f[p], <<p>>)
  <2>1. f[p] = BlockToItems(p)
    BY <1>1
  <2>2. CASE p[1] = "text"
    BY <2>1, <2>2, PieceSpeaks DEF BlockToItems
  <2>3. CASE p[1] = "call"
    <3>1. PICK calls \in Seq(Calls) : calls = <<p>>
      <4>1. p \in Calls
        BY <2>3, PieceSpeaks
      <4>2. <<p>> \in Seq(Calls)
        BY <4>1
      <4>3. QED
        BY <4>2
    <3>2. Speaks(CallItems(calls), calls)
      BY CallItemsSpeak
    <3>3. BlockToItems(p) = CallItems(<<p>>)
      BY <2>3, Zenon DEF BlockToItems, Thinking
    <3>4. QED
      BY <2>1, <3>1, <3>2, <3>3
  <2>4. CASE p[1] \in Thinking
    <3>1. BlockToItems(p) = <<Item("reasoning", "none", <<p>>)>>
      BY <2>4 DEF BlockToItems, Thinking
    <3>2. QED
      BY <2>1, <2>4, <3>1, PieceSpeaks
  <2>5. QED
    BY <2>2, <2>3, <2>4, PieceSpeaks
<1>3. f \in Terms(AnswerPieces, PlainItems)
  <2>1. \A p \in AnswerPieces : f[p] \in Seq(PlainItems)
    BY <1>2, SpeaksTyped
  <2>2. QED
    BY <1>1, <2>1 DEF Terms
<1>4. PICK u : u = Gather(ps, f) /\ Speaks(u, ps)
  BY <1>2, <1>3, AnswerSpeaks
<1>5. FlattenSeq([k \in DOMAIN ps |-> BlockToItems(ps[k])]) = u
  <2>1. \A k \in DOMAIN ps : ps[k] \in AnswerPieces
    OBVIOUS
  <2>2. [k \in DOMAIN ps |-> BlockToItems(ps[k])] = [k \in DOMAIN ps |-> f[ps[k]]]
    BY <1>2, <2>1
  <2>3. QED
    BY <1>4, <2>2, Zenon DEF Gather
<1>6. FromAnthropicAnswer(a).output = IF u = <<>> THEN <<Item("message", "none", <<>>)>> ELSE u
  <2>1. PICK v, w : v = (IF u = <<>> THEN <<Item("message", "none", <<>>)>> ELSE u)
                    /\ w = (IF a.stop = "max_tokens" THEN "incomplete" ELSE "completed")
    OBVIOUS
  <2>2. FromAnthropicAnswer(a) = [output |-> v, stop |-> w]
    <3>1. FlattenSeq([k \in DOMAIN a.ps |-> BlockToItems(a.ps[k])]) = u
      BY <1>5
    <3>2. QED
      BY <2>1, <3>1, Zenon DEF FromAnthropicAnswer
  <2>3. QED
    BY <2>1, <2>2
<1>7. CASE u = <<>>
  <2>1. PICK e \in Seq(TextPieces) : e = <<>>
    BY EmptySeq
  <2>2. PICK i \in PlainItems : i = Item("message", "none", e) /\ i.ps = e
    BY PlainItem, ItemFields
  <2>3. Speaks(<<i>>, e)
    BY <2>2, SpeaksOne
  <2>4. Gather(<<>>, PlainPieces) = <<>>
    BY ItemTypes, GatherNone, Zenon
  <2>5. ps = <<>>
    BY <1>4, <1>7, <2>4 DEF Speaks
  <2>6. QED
    BY <1>6, <1>7, <2>1, <2>2, <2>3, <2>5
<1>8. CASE u # <<>>
  BY <1>4, <1>6, <1>8
<1>9. QED
  BY <1>7, <1>8

\* What a model answered in the kinds that the conversions tell apart.
VisiblePieces == Of(Thinking \ {"redacted"})
ChatAnswers == Of({"reasoning", "text", "call"})

LEMMA AnswerForms ==
    ASSUME NEW ps \in Seq(AnswerPieces)
    PROVE  /\ OfKinds(ps, {"text"}) = Keep(ps, TextPieces)
           /\ OfKinds(ps, {"call"}) = Keep(ps, Calls)
           /\ OfKinds(ps, {"reasoning"}) = Keep(ps, Unsigned)
           /\ OfKinds(ps, {"text", "call"}) = Keep(ps, Heard)
           /\ OfKinds(ps, Thinking) = Keep(ps, ThinkingPieces)
           /\ OfKinds(ps, Thinking \ {"redacted"}) = Keep(ps, VisiblePieces)
<1>1. \A kinds : OfKinds(ps, kinds) = Keep(ps, Of(kinds))
  BY ThinkingKinds
<1>2. AnswerPieces \cap Of({"text"}) = AnswerPieces \cap TextPieces
  BY DEF AnswerPieces, Of, TextPieces, Texts, Thinking
<1>3. AnswerPieces \cap Of({"text", "call"}) = AnswerPieces \cap Heard
  BY DEF AnswerPieces, Of, Heard, Texts, Acts, Thinking
<1>4. Keep(ps, Of({"text"})) = Keep(ps, TextPieces)
  BY <1>2, KeptSame
<1>5. Keep(ps, Of({"text", "call"})) = Keep(ps, Heard)
  BY <1>3, KeptSame
<1>6. QED
  BY <1>1, <1>4, <1>5 DEF Calls, Unsigned, ThinkingPieces, VisiblePieces

\* The order of the fields of a Chat message.
ChatOrder(ps) ==
    \A i, j \in 1..Len(ps) : i < j => /\ ps[j] \in Unsigned => ps[i] \in Unsigned
                                      /\ ps[j] \in TextPieces => ps[i] \notin Calls

LEMMA ChatKinds ==
    /\ ChatAnswers \subseteq AnswerPieces
    /\ ChatAnswers \subseteq (Unsigned \cup TextPieces) \cup Calls
    /\ Unsigned \cap TextPieces = {} /\ Unsigned \cap Calls = {} /\ TextPieces \cap Calls = {}
    /\ Unsigned \subseteq AnswerPieces /\ Calls \subseteq AnswerPieces
BY DEF ChatAnswers, AnswerPieces, Of, Unsigned, TextPieces, Calls, Texts, Thinking

LEMMA ChatParts ==
    ASSUME NEW ps \in Seq(ChatAnswers), ChatOrder(ps)
    PROVE  (Keep(ps, Unsigned) \o Keep(ps, TextPieces)) \o Keep(ps, Calls) = ps
<1>1. \A i, j \in 1..Len(ps) : i < j => (ps[j] \in Unsigned => ps[i] \in Unsigned)
                                        /\ (ps[j] \in TextPieces => ps[i] \notin Calls)
  BY DEF ChatOrder
<1>2. /\ ChatAnswers \subseteq (Unsigned \cup TextPieces) \cup Calls
      /\ Unsigned \cap TextPieces = {} /\ Unsigned \cap Calls = {} /\ TextPieces \cap Calls = {}
  BY ChatKinds
<1>3. QED
  BY <1>1, <1>2, ThreeParts

LEMMA ChatAnswer ==
    ASSUME NEW a, NEW us \in Seq(Unsigned), NEW ts \in Seq(TextPieces), NEW cs \in Seq(Calls),
           a.reasoning = us, a.ps = ts, a.calls = cs
    PROVE  Speaks(FromChatAnswer(a).output, (us \o ts) \o cs)
<1>1. Speaks(Optional(Item("reasoning", "none", us), us), us)
  <2>1. PICK i \in PlainItems : i = Item("reasoning", "none", us) /\ i.ps = us
    BY PlainItem, ItemFields
  <2>2. QED
    BY <2>1, SpeaksOptional
<1>2. Speaks(Optional(Item("message", "none", ts), ts), ts)
  <2>1. PICK i \in PlainItems : i = Item("message", "none", ts) /\ i.ps = ts
    BY PlainItem, ItemFields
  <2>2. QED
    BY <2>1, SpeaksOptional
<1>3. Speaks(CallItems(cs), cs)
  BY CallItemsSpeak
<1>4. PICK x, y, z : /\ x = Optional(Item("reasoning", "none", us), us)
                     /\ y = Optional(Item("message", "none", ts), ts)
                     /\ z = CallItems(cs)
  OBVIOUS
<1>5. Speaks(x, us) /\ Speaks(y, ts) /\ Speaks(z, cs)
  BY <1>1, <1>2, <1>3, <1>4
<1>6. Speaks(x \o y, us \o ts)
  BY <1>5, SpeaksConcat
<1>7. Speaks((x \o y) \o z, (us \o ts) \o cs)
  BY <1>5, <1>6, SpeaksConcat
<1>8. FromChatAnswer(a).output = (x \o y) \o z
  BY <1>4 DEF FromChatAnswer
<1>9. QED
  BY <1>7, <1>8

\* Each piece is an item of its own in a Responses answer.
LEMMA ResponsesAnswer ==
    ASSUME NEW ps \in Seq(AnswerPieces), NEW end,
           NEW a, a = InForm("openai-responses", ps, end)
    PROVE  /\ Speaks(a.output, ps)
           /\ a.stop = Status[end]
<1>1. PICK e : e = [p \in AnswerPieces |->
                       Item(CASE p[1] = "text" -> "message" [] p[1] = "call" -> "call"
                              [] OTHER -> "reasoning", "none", <<p>>)]
  OBVIOUS
<1>2. ASSUME NEW p \in AnswerPieces PROVE e[p] \in PlainItems /\ e[p].ps = <<p>>
  <2>1. PICK t : t = CASE p[1] = "text" -> "message" [] p[1] = "call" -> "call"
                       [] OTHER -> "reasoning"
    OBVIOUS
  <2>2. \/ t = "call" /\ p \in Calls
        \/ t = "output" /\ p \in Results
        \/ t = "message" /\ p \in TextPieces
        \/ t = "reasoning" /\ (p \in Unsigned \/ p \in SignedPieces)
    BY <2>1, PieceSpeaks DEF Thinking
  <2>3. e[p] = Item(t, "none", <<p>>)
    BY <1>1, <2>1
  <2>4. QED
    BY <2>2, <2>3, PieceItem
<1>3. e \in [AnswerPieces -> PlainItems] /\ AnswerPieces \in SUBSET Said
  BY <1>1, <1>2, AnswerKinds
<1>4. Speaks([k \in DOMAIN ps |-> e[ps[k]]], ps)
  BY <1>2, <1>3, SpeaksEach
<1>5. PICK u : u = [k \in DOMAIN ps |-> Item(CASE ps[k][1] = "text" -> "message" [] ps[k][1] = "call" -> "call"
                                              [] OTHER -> "reasoning", "none", <<ps[k]>>)]
  OBVIOUS
<1>6. u = [k \in DOMAIN ps |-> e[ps[k]]]
  <2>1. \A k \in DOMAIN ps : ps[k] \in AnswerPieces
    OBVIOUS
  <2>2. \A p \in AnswerPieces :
            e[p] = Item(CASE p[1] = "text" -> "message" [] p[1] = "call" -> "call"
                          [] OTHER -> "reasoning", "none", <<p>>)
    BY <1>1
  <2>3. QED
    BY <1>5, <2>1, <2>2
<1>7. a = [output |-> u, stop |-> Status[end]]
  BY <1>5, Zenon DEF InForm
<1>8. QED
  BY <1>4, <1>6, <1>7

\* Only a Responses backend says that it failed; the status tells.
LEMMA EndStatus ==
    ASSUME NEW backend \in Protocols, NEW end \in Ends200(backend)
    PROVE  /\ end # "error" /\ Status[end] # "error"
           /\ Status[end] = "incomplete" <=> end = "cut"
           /\ backend # "openai-responses" =>
                Status[end] = IF end = "cut" THEN "incomplete" ELSE "completed"
BY DEF Ends200, Status

\* A canonical answer of pieces ps.
Answer(c, ps, end) == Speaks(c.output, ps) /\ c.stop = Status[end]

\* A backend may give ps.
MayAnswer(backend, ps) ==
    ps \in Seq(AnswerPieces) /\ (backend = "openai" => ps \in Seq(ChatAnswers) /\ ChatOrder(ps))

LEMMA AnswerCanonical ==
    ASSUME NEW backend \in Protocols, NEW ps, MayAnswer(backend, ps),
           NEW end \in Ends200(backend), NEW a, a = InForm(backend, ps, end)
    PROVE  Answer(ResponseToCanonical(backend, a), ps, end)
<1>1. ps \in Seq(AnswerPieces)
  BY DEF MayAnswer
<1>2. CASE backend = "anthropic"
  <2>1. PICK stop : /\ stop = IF end = "cut" THEN "max_tokens"
                              ELSE IF OfKinds(ps, {"call"}) = <<>> THEN "end_turn" ELSE "tool_use"
                    /\ stop # "error" /\ (stop = "max_tokens" <=> end = "cut")
    OBVIOUS
  <2>2. a = [ps |-> ps, stop |-> stop]
    BY <1>2, <2>1, Zenon DEF InForm
  <2>3. a.ps = ps /\ a.stop = stop
    BY <2>2
  <2>4. ResponseToCanonical(backend, a) = FromAnthropicAnswer(a)
    BY <1>2, <2>1, <2>3 DEF ResponseToCanonical
  <2>5. Speaks(FromAnthropicAnswer(a).output, ps)
    BY <1>1, <2>3, AnthropicAnswer
  <2>6. FromAnthropicAnswer(a).stop = IF a.stop = "max_tokens" THEN "incomplete" ELSE "completed"
    BY DEF FromAnthropicAnswer
  <2>7. FromAnthropicAnswer(a).stop = Status[end]
    BY <1>2, <2>1, <2>3, <2>6, EndStatus
  <2>8. QED
    BY <2>4, <2>5, <2>7 DEF Answer
<1>3. CASE backend = "openai"
  <2>1. PICK us, ts, cs : us = Keep(ps, Unsigned) /\ ts = Keep(ps, TextPieces) /\ cs = Keep(ps, Calls)
    OBVIOUS
  <2>2. ps \in Seq(ChatAnswers) /\ ChatOrder(ps)
    BY <1>3 DEF MayAnswer
  <2>3. (us \o ts) \o cs = ps
    BY <2>1, <2>2, ChatParts
  <2>4. us \in Seq(Unsigned) /\ ts \in Seq(TextPieces) /\ cs \in Seq(Calls)
    <3>1. Unsigned \subseteq Said /\ TextPieces \subseteq Said /\ Calls \subseteq Said /\ ps \in Seq(Said)
      BY <1>1, AnswerKinds, ChatKinds
    <3>2. QED
      BY <2>1, <3>1, KeptIn
  <2>5. PICK stop : /\ stop = IF end = "cut" THEN "length"
                              ELSE IF OfKinds(ps, {"call"}) = <<>> THEN "stop" ELSE "tool_calls"
                    /\ stop # "error" /\ (stop = "length" <=> end = "cut")
    OBVIOUS
  <2>6. a = [reasoning |-> us, ps |-> ts, calls |-> cs, stop |-> stop]
    <3>1. /\ OfKinds(ps, {"reasoning"}) = us /\ OfKinds(ps, {"text"}) = ts
          /\ OfKinds(ps, {"call"}) = cs
      BY <1>1, <2>1, AnswerForms
    <3>2. a = [reasoning |-> OfKinds(ps, {"reasoning"}), ps |-> OfKinds(ps, {"text"}),
               calls |-> OfKinds(ps, {"call"}), stop |-> stop]
      BY <1>3, <2>5, Zenon DEF InForm
    <3>3. QED
      BY <3>1, <3>2
  <2>7. a.reasoning = us /\ a.ps = ts /\ a.calls = cs /\ a.stop = stop
    BY <2>6
  <2>8. ResponseToCanonical(backend, a) = FromChatAnswer(a)
    BY <1>3, <2>5, <2>7 DEF ResponseToCanonical
  <2>9. Speaks(FromChatAnswer(a).output, ps)
    BY <2>3, <2>4, <2>7, ChatAnswer
  <2>10. FromChatAnswer(a).stop = IF a.stop = "length" THEN "incomplete" ELSE "completed"
    BY DEF FromChatAnswer
  <2>11. FromChatAnswer(a).stop = Status[end]
    BY <1>3, <2>5, <2>7, <2>10, EndStatus
  <2>12. QED
    BY <2>8, <2>9, <2>11 DEF Answer
<1>4. CASE backend = "openai-responses"
  <2>1. Speaks(a.output, ps) /\ a.stop = Status[end]
    BY <1>1, <1>4, ResponsesAnswer
  <2>2. ResponseToCanonical(backend, a) = a
    BY <1>4 DEF ResponseToCanonical
  <2>3. QED
    BY <2>1, <2>2 DEF Answer
<1>5. QED
  BY <1>2, <1>3, <1>4 DEF Protocols

-----------------------------------------------------------------------------
(* The parts of a canonical answer.                                           *)

LEMMA PartsKept ==
    ASSUME NEW types, NEW kept,
           \A i \in PlainItems : Keep(i.ps, kept) = IF i.t \in types THEN i.ps ELSE <<>>,
           NEW s, NEW ps, Speaks(s, ps)
    PROVE  PiecesOf(s, types) = Keep(ps, kept)
<1>1. s \in Seq(PlainItems) /\ Gather(s, PlainPieces) = ps
  BY DEF Speaks
<1>2. PICK h : h = [i \in PlainItems |-> IF i.t \in types THEN i.ps ELSE <<>>]
  OBVIOUS
<1>3. PlainPieces \in Terms(PlainItems, Said) /\ \A i \in PlainItems : PlainPieces[i] = i.ps
  BY ItemTypes
<1>4. h \in Terms(PlainItems, Said)
  <2>1. \A i \in PlainItems : i.ps \in Seq(Said) /\ <<>> \in Seq(Said)
    BY <1>3, EmptySeq DEF Terms
  <2>2. QED
    BY <1>2, <2>1 DEF Terms
<1>5. \A i \in PlainItems : Keep(PlainPieces[i], kept) = h[i]
  BY <1>2, <1>3
<1>6. Keep(Gather(s, PlainPieces), kept) = Gather(s, h)
  BY <1>1, <1>3, <1>4, <1>5, GatherKept
<1>7. PiecesOf(s, types) = Gather(s, h)
  <2>1. \A k \in DOMAIN s : s[k] \in PlainItems
    BY <1>1
  <2>2. \A k \in DOMAIN s : h[s[k]] = IF s[k].t \in types THEN s[k].ps ELSE <<>>
    BY <1>2, <2>1
  <2>3. [k \in DOMAIN s |-> IF s[k].t \in types THEN s[k].ps ELSE <<>>] = [k \in DOMAIN s |-> h[s[k]]]
    BY <2>2
  <2>4. QED
    BY <2>3, Zenon DEF PiecesOf, Gather
<1>8. QED
  BY <1>1, <1>6, <1>7

LEMMA PartClasses ==
    ASSUME NEW i \in PlainItems
    PROVE  /\ i.t = "message" => i.ps \in Seq(TextPieces)
           /\ i.t = "call" => i.ps \in Seq(Calls)
           /\ i.t = "output" => i.ps \in Seq(Results)
           /\ i.t = "reasoning" => i.ps \in Seq(ThinkingPieces)
           /\ i.t \in {"message", "call", "output", "reasoning"}
<1>1. Unsigned \subseteq ThinkingPieces /\ SignedPieces \subseteq ThinkingPieces
  BY ThinkingKinds
<1>2. \/ i.t = "message" /\ i.ps \in Seq(TextPieces)
      \/ i.t = "call" /\ i.ps \in Seq(Calls)
      \/ i.t = "output" /\ i.ps \in Seq(Results)
      \/ i.t = "reasoning" /\ i.ps \in Seq(Unsigned)
      \/ i.t = "reasoning" /\ i.ps \in Seq(SignedPieces)
  BY ItemClasses
<1>3. QED
  BY <1>1, <1>2

LEMMA PartKept ==
    ASSUME NEW i \in PlainItems, NEW kept,
           i.t = "message" => TextPieces \cap kept = {} \/ TextPieces \subseteq kept,
           i.t = "call" => Calls \cap kept = {} \/ Calls \subseteq kept,
           i.t = "output" => Results \cap kept = {} \/ Results \subseteq kept,
           i.t = "reasoning" => ThinkingPieces \cap kept = {} \/ ThinkingPieces \subseteq kept
    PROVE  /\ i.t = "message" => Keep(i.ps, kept) = IF TextPieces \subseteq kept THEN i.ps ELSE <<>>
           /\ i.t = "call" => Keep(i.ps, kept) = IF Calls \subseteq kept THEN i.ps ELSE <<>>
           /\ i.t = "output" => Keep(i.ps, kept) = IF Results \subseteq kept THEN i.ps ELSE <<>>
           /\ i.t = "reasoning" => Keep(i.ps, kept) = IF ThinkingPieces \subseteq kept THEN i.ps ELSE <<>>
<1>1. ASSUME NEW K, i.ps \in Seq(K), K \cap kept = {} \/ K \subseteq kept
      PROVE  Keep(i.ps, kept) = IF K \subseteq kept THEN i.ps ELSE <<>>
  <2>1. CASE K \subseteq kept
    BY <1>1, <2>1, KeptWhole
  <2>2. CASE ~(K \subseteq kept)
    BY <1>1, <2>2, KeptWhole
  <2>3. QED
    BY <2>1, <2>2
<1>2. /\ i.t = "message" => i.ps \in Seq(TextPieces)
      /\ i.t = "call" => i.ps \in Seq(Calls)
      /\ i.t = "output" => i.ps \in Seq(Results)
      /\ i.t = "reasoning" => i.ps \in Seq(ThinkingPieces)
  BY PartClasses
<1>3. QED
  BY <1>1, <1>2

LEMMA PartSets ==
    /\ Calls \cap TextPieces = {} /\ Results \cap TextPieces = {} /\ ThinkingPieces \cap TextPieces = {}
    /\ TextPieces \cap Calls = {} /\ Results \cap Calls = {} /\ ThinkingPieces \cap Calls = {}
    /\ TextPieces \cap ThinkingPieces = {} /\ Calls \cap ThinkingPieces = {} /\ Results \cap ThinkingPieces = {}
    /\ ~(Calls \subseteq TextPieces) /\ ~(Results \subseteq TextPieces) /\ ~(ThinkingPieces \subseteq TextPieces)
    /\ ~(TextPieces \subseteq Calls) /\ ~(Results \subseteq Calls) /\ ~(ThinkingPieces \subseteq Calls)
    /\ ~(TextPieces \subseteq ThinkingPieces) /\ ~(Calls \subseteq ThinkingPieces) /\ ~(Results \subseteq ThinkingPieces)
<1>1. PICK a, b, c, d : a = <<"text", 0>> /\ b = <<"call", 0>> /\ c = <<"result", 0>> /\ d = <<"thinking", 0>>
  OBVIOUS
<1>2. a \in TextPieces /\ b \in Calls /\ c \in Results /\ d \in ThinkingPieces
  BY <1>1 DEF TextPieces, Calls, Results, ThinkingPieces, Of, Texts, Thinking
<1>3. /\ Calls \cap TextPieces = {} /\ Results \cap TextPieces = {} /\ ThinkingPieces \cap TextPieces = {}
      /\ Results \cap Calls = {} /\ ThinkingPieces \cap Calls = {} /\ Results \cap ThinkingPieces = {}
  BY DEF TextPieces, Calls, Results, ThinkingPieces, Of, Texts, Thinking
<1>4. QED
  BY <1>2, <1>3

LEMMA AnswerParts ==
    ASSUME NEW s, NEW ps \in Seq(AnswerPieces), Speaks(s, ps)
    PROVE  /\ PiecesOf(s, {"message"}) = Keep(ps, TextPieces)
           /\ PiecesOf(s, {"call"}) = Keep(ps, Calls)
           /\ PiecesOf(s, {"reasoning"}) = Keep(ps, ThinkingPieces)
           /\ PiecesOf(s, {"message", "call"}) = Keep(ps, Heard)
           /\ PiecesOf(s, {"message", "call", "reasoning"}) = ps
<1>1. ASSUME NEW types, NEW kept,
             "message" \in types <=> TextPieces \subseteq kept,
             "call" \in types <=> Calls \subseteq kept,
             "output" \in types <=> Results \subseteq kept,
             "reasoning" \in types <=> ThinkingPieces \subseteq kept,
             TextPieces \cap kept = {} \/ TextPieces \subseteq kept,
             Calls \cap kept = {} \/ Calls \subseteq kept,
             Results \cap kept = {} \/ Results \subseteq kept,
             ThinkingPieces \cap kept = {} \/ ThinkingPieces \subseteq kept
      PROVE  PiecesOf(s, types) = Keep(ps, kept)
  <2>1. ASSUME NEW i \in PlainItems PROVE Keep(i.ps, kept) = IF i.t \in types THEN i.ps ELSE <<>>
    <3>1. /\ i.t = "message" => Keep(i.ps, kept) = IF TextPieces \subseteq kept THEN i.ps ELSE <<>>
          /\ i.t = "call" => Keep(i.ps, kept) = IF Calls \subseteq kept THEN i.ps ELSE <<>>
          /\ i.t = "output" => Keep(i.ps, kept) = IF Results \subseteq kept THEN i.ps ELSE <<>>
          /\ i.t = "reasoning" => Keep(i.ps, kept) = IF ThinkingPieces \subseteq kept THEN i.ps ELSE <<>>
      BY <1>1, PartKept
    <3>2. i.t \in {"message", "call", "output", "reasoning"}
      BY PartClasses
    <3>3. QED
      BY <1>1, <3>1, <3>2
  <2>2. QED
    BY <2>1, PartsKept
<1>2. PiecesOf(s, {"message"}) = Keep(ps, TextPieces)
  BY <1>1, PartSets
<1>3. PiecesOf(s, {"call"}) = Keep(ps, Calls)
  BY <1>1, PartSets
<1>4. PiecesOf(s, {"reasoning"}) = Keep(ps, ThinkingPieces)
  BY <1>1, PartSets
<1>5. PiecesOf(s, {"message", "call"}) = Keep(ps, Heard)
  <2>1. PICK kept : kept = TextPieces \cup Calls
    OBVIOUS
  <2>2. PiecesOf(s, {"message", "call"}) = Keep(ps, kept)
    BY <1>1, <2>1, PartSets
  <2>3. AnswerPieces \cap kept = AnswerPieces \cap Heard
    BY <2>1 DEF AnswerPieces, Of, TextPieces, Calls, Heard, Texts, Acts, Thinking
  <2>4. Keep(ps, kept) = Keep(ps, Heard)
    BY <2>3, KeptSame
  <2>5. QED
    BY <2>2, <2>4
<1>6. PiecesOf(s, {"message", "call", "reasoning"}) = ps
  <2>1. PICK kept : kept = (TextPieces \cup Calls) \cup ThinkingPieces
    OBVIOUS
  <2>2. PiecesOf(s, {"message", "call", "reasoning"}) = Keep(ps, kept)
    BY <1>1, <2>1, PartSets
  <2>3. AnswerPieces \subseteq kept
    BY <2>1 DEF AnswerPieces, Of, TextPieces, Calls, ThinkingPieces, Texts, Thinking
  <2>4. Keep(ps, kept) = ps
    BY <2>3, KeptWhole
  <2>5. QED
    BY <2>2, <2>4
<1>7. QED
  BY <1>2, <1>3, <1>4, <1>5, <1>6

Numbers(ps) == {p[2] : p \in ToSet(ps)}

\* The summaries are of what is visible, piece by piece.
LEMMA Summarized ==
    ASSUME NEW s, NEW ps \in Seq(AnswerPieces), Speaks(s, ps)
    PROVE  /\ Summaries(s) \in Seq(Unsigned)
           /\ Numbers(Summaries(s)) = Numbers(Keep(ps, VisiblePieces))
<1>1. PICK visible : visible = OfKinds(PiecesOf(s, {"reasoning"}), Thinking \ {"redacted"})
  OBVIOUS
<1>2. visible = Keep(ps, VisiblePieces)
  <2>1. PiecesOf(s, {"reasoning"}) = Keep(ps, ThinkingPieces)
    BY AnswerParts
  <2>2. visible = Keep(Keep(ps, ThinkingPieces), VisiblePieces)
    BY <1>1, <2>1, ThinkingKinds DEF VisiblePieces
  <2>3. VisiblePieces \subseteq ThinkingPieces
    BY DEF VisiblePieces, ThinkingPieces, Of
  <2>4. QED
    BY <2>2, <2>3, KeptPart
<1>3. visible \in Seq(VisiblePieces)
  <2>1. VisiblePieces \subseteq AnswerPieces
    BY DEF VisiblePieces, AnswerPieces, Of
  <2>2. QED
    BY <1>2, <2>1, KeptIn
<1>4. Summaries(s) = [k \in DOMAIN visible |-> <<"reasoning", visible[k][2]>>]
  BY <1>1, Zenon DEF Summaries
<1>5. \A p \in VisiblePieces : p[2] \in Nat
  BY DEF VisiblePieces, Of
<1>6. PICK n \in Nat : n = Len(visible) /\ DOMAIN visible = 1..n
  BY <1>3, LenProperties
<1>7. \A k \in 1..n : visible[k] \in VisiblePieces
  BY <1>3, <1>6
<1>8. PICK u : u = Summaries(s)
  OBVIOUS
<1>9. u \in Seq(Unsigned) /\ Len(u) = n /\ \A k \in 1..n : u[k] = <<"reasoning", visible[k][2]>>
  <2>1. \A k \in 1..n : <<"reasoning", visible[k][2]>> \in Unsigned
    BY <1>5, <1>7 DEF Unsigned, Of
  <2>2. u = [k \in 1..n |-> <<"reasoning", visible[k][2]>>]
    BY <1>4, <1>6, <1>8
  <2>3. u \in [1..n -> Unsigned]
    BY <2>1, <2>2
  <2>4. u \in Seq(Unsigned) /\ Len(u) = n
    BY <2>3, FunctionIsSeq
  <2>5. QED
    BY <2>2, <2>4
<1>10. \A k \in 1..n : u[k][2] = visible[k][2]
  BY <1>9
<1>11. \A x : x \in ToSet(u) <=> \E k \in 1..n : u[k] = x
  <2>1. \A x : x \in ToSet(u) <=> \E k \in 1..Len(u) : u[k] = x
    BY <1>9, Elements
  <2>2. QED
    BY <1>9, <2>1
<1>12. \A x : x \in ToSet(visible) <=> \E k \in 1..n : visible[k] = x
  <2>1. \A x : x \in ToSet(visible) <=> \E k \in 1..Len(visible) : visible[k] = x
    BY <1>3, Elements
  <2>2. QED
    BY <1>6, <2>1
<1>13. Numbers(u) = Numbers(visible)
  <2>1. ASSUME NEW x \in Numbers(u) PROVE x \in Numbers(visible)
    <3>1. PICK p \in ToSet(u) : x = p[2]
      BY <2>1 DEF Numbers
    <3>2. PICK k \in 1..n : u[k] = p
      BY <1>11, <3>1
    <3>3. visible[k] \in ToSet(visible) /\ visible[k][2] = x
      BY <1>10, <1>12, <3>1, <3>2
    <3>4. QED
      BY <3>3 DEF Numbers
  <2>2. ASSUME NEW x \in Numbers(visible) PROVE x \in Numbers(u)
    <3>1. PICK p \in ToSet(visible) : x = p[2]
      BY <2>2 DEF Numbers
    <3>2. PICK k \in 1..n : visible[k] = p
      BY <1>12, <3>1
    <3>3. u[k] \in ToSet(u) /\ u[k][2] = x
      BY <1>10, <1>11, <3>1, <3>2
    <3>4. QED
      BY <3>3 DEF Numbers
  <2>3. QED
    BY <2>1, <2>2
<1>14. QED
  BY <1>2, <1>8, <1>9, <1>13

\* What a client is told of an answer that was converted for it.
TellsConverted(protocol, a, ps, end) ==
    /\ a.stop # "error"
    /\ protocol = "anthropic" =>
         /\ OfKinds(a.ps, {"text", "call"}) = OfKinds(ps, {"text", "call"})
         /\ Numbers(OfKinds(a.ps, Thinking)) = Numbers(OfKinds(ps, Thinking \ {"redacted"}))
         /\ a.stop = IF OfKinds(ps, {"call"}) # <<>> THEN "tool_use"
                     ELSE IF end = "cut" THEN "max_tokens" ELSE "end_turn"
    /\ protocol = "openai" =>
         /\ a.ps = OfKinds(ps, {"text"}) /\ a.calls = OfKinds(ps, {"call"})
         /\ Numbers(OfKinds(a.reasoning, Thinking)) = Numbers(OfKinds(ps, Thinking \ {"redacted"}))
         /\ a.stop = IF OfKinds(ps, {"call"}) # <<>> THEN "tool_calls"
                     ELSE IF end = "cut" THEN "length" ELSE "stop"

\* What any Responses client is told.
TellsResponses(a, ps, end) ==
    /\ a.stop # "error"
    /\ PiecesOf(a.output, {"message", "call", "reasoning"}) = ps
    /\ a.stop = Status[end]

LEMMA SummariesKept ==
    ASSUME NEW us \in Seq(Unsigned)
    PROVE  /\ us \in Seq(AnswerPieces) /\ Keep(us, Heard) = <<>> /\ Keep(us, ThinkingPieces) = us
           /\ OfKinds(us, Thinking) = us
<1>1. Unsigned \subseteq AnswerPieces /\ Unsigned \subseteq ThinkingPieces /\ Unsigned \cap Heard = {}
  BY ChatKinds, ThinkingKinds
<1>2. us \in Seq(AnswerPieces)
  BY <1>1
<1>3. Keep(us, Heard) = <<>>
  BY <1>1, KeptWhole
<1>4. Keep(us, ThinkingPieces) = us
  BY <1>1, KeptWhole
<1>5. OfKinds(us, Thinking) = Keep(us, ThinkingPieces)
  BY ThinkingKinds DEF ThinkingPieces
<1>6. QED
  BY <1>2, <1>3, <1>4, <1>5

\* The summaries come before what is heard.
LEMMA ThoughtFirst ==
    ASSUME NEW us \in Seq(Unsigned), NEW ts \in Seq(AnswerPieces), ts \in Seq(Heard)
    PROVE  /\ us \o ts \in Seq(AnswerPieces) /\ Keep(us \o ts, Heard) = ts
           /\ Keep(us \o ts, ThinkingPieces) = us
<1>1. us \in Seq(AnswerPieces) /\ Keep(us, Heard) = <<>> /\ Keep(us, ThinkingPieces) = us
  BY SummariesKept
<1>2. us \in Seq(AnswerPieces)
  BY <1>1
<1>3. Keep(ts, Heard) = ts /\ Keep(ts, ThinkingPieces) = <<>>
  <2>1. Heard \subseteq Heard /\ Heard \cap ThinkingPieces = {}
    BY ThinkingKinds
  <2>2. QED
    BY <2>1, KeptWhole
<1>4. Keep(us \o ts, Heard) = Keep(us, Heard) \o Keep(ts, Heard)
  BY <1>2, KeptConcat
<1>5. Keep(us \o ts, ThinkingPieces) = Keep(us, ThinkingPieces) \o Keep(ts, ThinkingPieces)
  BY <1>2, KeptConcat
<1>6. <<>> \o ts = ts /\ us \o <<>> = us /\ us \o ts \in Seq(AnswerPieces)
  BY <1>2, ConcatEmptySeq, ConcatProperties
<1>7. QED
  BY <1>1, <1>3, <1>4, <1>5, <1>6

LEMMA ToClient ==
    ASSUME NEW protocol \in Protocols, NEW ps \in Seq(AnswerPieces),
           NEW backend \in Protocols, NEW end \in Ends200(backend),
           NEW c, Answer(c, ps, end), NEW a, a = ResponseFromCanonical(protocol, c)
    PROVE  /\ Receives(protocol, a, ps) /\ TellsConverted(protocol, a, ps, end)
           /\ protocol = "openai-responses" => TellsResponses(a, ps, end)
<1>1. /\ Speaks(c.output, ps) /\ c.stop = Status[end]
      /\ c.stop # "error" /\ (c.stop = "incomplete" <=> end = "cut")
  BY EndStatus DEF Answer
<1>2. PICK us \in Seq(Unsigned) : us = Summaries(c.output) /\ Numbers(us) = Numbers(Keep(ps, VisiblePieces))
  BY <1>1, Summarized
<1>3. /\ PiecesOf(c.output, {"message"}) = Keep(ps, TextPieces)
      /\ PiecesOf(c.output, {"call"}) = Keep(ps, Calls)
      /\ PiecesOf(c.output, {"message", "call"}) = Keep(ps, Heard)
      /\ PiecesOf(c.output, {"message", "call", "reasoning"}) = ps
  BY <1>1, AnswerParts
<1>4. /\ OfKinds(ps, {"text"}) = Keep(ps, TextPieces)
      /\ OfKinds(ps, {"call"}) = Keep(ps, Calls)
      /\ OfKinds(ps, {"text", "call"}) = Keep(ps, Heard)
      /\ OfKinds(ps, Thinking \ {"redacted"}) = Keep(ps, VisiblePieces)
  BY AnswerForms
<1>5. CASE protocol = "anthropic"
  <2>1. PICK qs : qs = us \o Keep(ps, Heard)
    OBVIOUS
  <2>2. /\ qs \in Seq(AnswerPieces) /\ Keep(qs, Heard) = Keep(ps, Heard)
        /\ Keep(qs, ThinkingPieces) = us
    <3>1. PICK ts : ts = Keep(ps, Heard)
      OBVIOUS
    <3>2. ts \in Seq(AnswerPieces) /\ ts \in Seq(Heard)
      <4>1. ts \in Seq(AnswerPieces \cap Heard)
        BY <3>1, KeptBy
      <4>2. QED
        BY <4>1
    <3>3. us \o ts \in Seq(AnswerPieces) /\ Keep(us \o ts, Heard) = ts /\ Keep(us \o ts, ThinkingPieces) = us
      BY <3>2, ThoughtFirst
    <3>4. QED
      BY <2>1, <3>1, <3>3
  <2>3. a = ToAnthropicAnswer(c)
    BY <1>1, <1>5, Zenon DEF ResponseFromCanonical
  <2>4. PICK stop : stop = IF Keep(ps, Calls) # <<>> THEN "tool_use"
                           ELSE IF end = "cut" THEN "max_tokens" ELSE "end_turn"
    OBVIOUS
  <2>5. a = [ps |-> qs, stop |-> stop]
    <3>1. stop = IF PiecesOf(c.output, {"call"}) # <<>> THEN "tool_use"
                 ELSE IF c.stop = "incomplete" THEN "max_tokens" ELSE "end_turn"
      BY <1>1, <1>3, <2>4
    <3>2. Summaries(c.output) \o PiecesOf(c.output, {"message", "call"}) = qs
      BY <1>2, <1>3, <2>1
    <3>3. QED
      BY <2>3, <3>1, <3>2, Zenon DEF ToAnthropicAnswer
  <2>6. a.ps = qs /\ a.stop = stop
    BY <2>5
  <2>7. OfKinds(qs, {"text", "call"}) = Keep(qs, Heard) /\ OfKinds(qs, Thinking) = Keep(qs, ThinkingPieces)
    BY <2>2, AnswerForms
  <2>8. Receives(protocol, a, ps)
    BY <1>5, <2>2, <2>6 DEF Receives
  <2>9. stop # "error"
    BY <2>4
  <2>10. TellsConverted(protocol, a, ps, end)
    BY <1>2, <1>4, <1>5, <2>2, <2>4, <2>6, <2>7, <2>9 DEF TellsConverted
  <2>11. QED
    BY <1>5, <2>8, <2>10
<1>6. CASE protocol = "openai"
  <2>1. a = ToChatAnswer(c)
    BY <1>1, <1>6, Zenon DEF ResponseFromCanonical
  <2>2. PICK stop : stop = IF Keep(ps, Calls) # <<>> THEN "tool_calls"
                           ELSE IF end = "cut" THEN "length" ELSE "stop"
    OBVIOUS
  <2>3. PICK ts, cs : ts = Keep(ps, TextPieces) /\ cs = Keep(ps, Calls)
    OBVIOUS
  <2>4. a = [reasoning |-> us, ps |-> ts, calls |-> cs, stop |-> stop]
    <3>1. stop = IF PiecesOf(c.output, {"call"}) # <<>> THEN "tool_calls"
                 ELSE IF c.stop = "incomplete" THEN "length" ELSE "stop"
      BY <1>1, <1>3, <2>2
    <3>2. PiecesOf(c.output, {"message"}) = ts /\ PiecesOf(c.output, {"call"}) = cs
      BY <1>3, <2>3
    <3>3. QED
      BY <1>2, <2>1, <3>1, <3>2, Zenon DEF ToChatAnswer
  <2>5. a.reasoning = us /\ a.ps = ts /\ a.calls = cs /\ a.stop = stop
    BY <2>4
  <2>6. Receives(protocol, a, ps)
    BY <1>6, <2>3, <2>5 DEF Receives
  <2>7. stop # "error"
    BY <2>2
  <2>8. OfKinds(us, Thinking) = us
    BY SummariesKept
  <2>9. TellsConverted(protocol, a, ps, end)
    BY <1>2, <1>4, <1>6, <2>2, <2>3, <2>5, <2>7, <2>8 DEF TellsConverted
  <2>10. QED
    BY <1>6, <2>6, <2>9
<1>7. CASE protocol = "openai-responses"
  <2>1. a = c
    BY <1>7, Zenon DEF ResponseFromCanonical
  <2>2. Receives(protocol, a, ps)
    BY <1>1, <1>7, <2>1 DEF Receives
  <2>3. TellsConverted(protocol, a, ps, end) /\ TellsResponses(a, ps, end)
    BY <1>1, <1>3, <1>7, <2>1 DEF TellsConverted, TellsResponses
  <2>4. QED
    BY <2>2, <2>3
<1>8. QED
  BY <1>5, <1>6, <1>7 DEF Protocols

\* An answer that is passed through.
LEMMA PassedThrough ==
    ASSUME NEW protocol \in Protocols, NEW ps \in Seq(AnswerPieces), NEW end \in Ends200(protocol),
           NEW a, a = InForm(protocol, ps, end)
    PROVE  /\ Receives(protocol, a, ps) /\ a.stop # "error"
           /\ protocol = "openai-responses" => TellsResponses(a, ps, end)
<1>1. CASE protocol = "anthropic"
  <2>1. PICK stop : /\ stop = IF end = "cut" THEN "max_tokens"
                              ELSE IF OfKinds(ps, {"call"}) = <<>> THEN "end_turn" ELSE "tool_use"
                    /\ stop # "error"
    OBVIOUS
  <2>2. a = [ps |-> ps, stop |-> stop]
    BY <1>1, <2>1, Zenon DEF InForm
  <2>3. QED
    BY <1>1, <2>1, <2>2 DEF Receives
<1>2. CASE protocol = "openai"
  <2>1. PICK stop : /\ stop = IF end = "cut" THEN "length"
                              ELSE IF OfKinds(ps, {"call"}) = <<>> THEN "stop" ELSE "tool_calls"
                    /\ stop # "error"
    OBVIOUS
  <2>2. a = [reasoning |-> OfKinds(ps, {"reasoning"}), ps |-> OfKinds(ps, {"text"}),
             calls |-> OfKinds(ps, {"call"}), stop |-> stop]
    BY <1>2, <2>1, Zenon DEF InForm
  <2>3. OfKinds(ps, {"text"}) = Keep(ps, TextPieces) /\ OfKinds(ps, {"call"}) = Keep(ps, Calls)
    BY AnswerForms
  <2>4. QED
    BY <1>2, <2>1, <2>2, <2>3 DEF Receives
<1>3. CASE protocol = "openai-responses"
  <2>1. Speaks(a.output, ps) /\ a.stop = Status[end]
    BY <1>3, ResponsesAnswer
  <2>2. PiecesOf(a.output, {"message", "call", "reasoning"}) = ps
    BY <2>1, AnswerParts
  <2>3. a.stop # "error"
    BY <2>1, EndStatus
  <2>4. QED
    BY <1>3, <2>1, <2>2, <2>3 DEF Receives, TellsResponses
<1>4. QED
  BY <1>1, <1>2, <1>3 DEF Protocols

\* An error arrives as one, converted or not.
LEMMA ErrorArrives ==
    ASSUME NEW protocol \in Protocols, NEW backend \in Protocols, NEW a, a = [stop |-> "error"]
    PROVE  /\ a.stop = "error"
           /\ ResponseFromCanonical(protocol, ResponseToCanonical(backend, a)).stop = "error"
<1>1. PICK c : c = ResponseToCanonical(backend, a)
  OBVIOUS
<1>2. c.stop = "error"
  BY <1>1 DEF ResponseToCanonical
<1>3. ResponseFromCanonical(protocol, c).stop = "error"
  BY <1>2 DEF ResponseFromCanonical, Protocols
<1>4. QED
  BY <1>1, <1>3

-----------------------------------------------------------------------------
(* Conversations.                                                             *)

\* What was said is in the client's body, whatever its form.
Speaking ==
    /\ client \in Protocols /\ said \in Seq(Said) /\ open \in Seq(Calls)
    /\ Has(client, body, said)
    /\ phase = "asked" => asked.protocol \in Protocols

ConversationInv ==
    /\ stage # "body" => Quiet
    /\ stage = "body" => Speaking
    /\ HistoryArrives /\ ThinkingIsReplayed /\ AnswerArrives

LEMMA BodyBegins ==
    ASSUME NEW protocol \in Protocols, NEW b \in FirstBody(protocol)
    PROVE  Has(protocol, b, <<>>)
<1>1. System \in Seq(SystemTexts) /\ System # <<>>
  BY SystemTyped DEF System
<1>2. PICK none : none = <<>> /\ none \in Seq(SystemTexts)
  BY EmptySeq
<1>3. \A kept : Keep(<<>>, kept) = <<>>
  BY KeptNone
<1>4. CASE protocol = "anthropic"
  <2>1. PICK ms \in Seq(Messages) : ms = <<>>
    BY EmptySeq
  <2>2. b = [system |-> System, messages |-> ms]
    BY <1>4, <2>1, Zenon DEF FirstBody
  <2>3. b \in [system : Seq(SystemTexts), messages : Seq(Messages)] /\ b.system = System /\ b.messages = ms
    BY <1>1, <2>2
  <2>4. Gather(ms, MessagePieces) = <<>>
    BY <2>1, MessageTypes, GatherNone, Zenon
  <2>5. QED
    BY <1>3, <1>4, <2>3, <2>4 DEF Has, AnthropicHas
<1>5. CASE protocol = "openai"
  <2>1. PICK c : c = Chat("system", System, <<>>)
    OBVIOUS
  <2>2. PICK u : u = Optional(c, System)
    OBVIOUS
  <2>3. c \in Chats /\ u \in Seq(Chats) /\ Gather(u, ChatSystem) = System /\ Gather(u, ChatPieces) = <<>>
    BY <1>1, <2>1, <2>2, SystemBody
  <2>4. u = <<c>>
    BY <1>1, <2>2 DEF Optional
  <2>5. b = [messages |-> u]
    BY <1>5, <2>1, <2>4, Zenon DEF FirstBody
  <2>6. b \in [messages : Seq(Chats)] /\ b.messages = u
    BY <2>3, <2>5
  <2>7. QED
    BY <1>3, <1>5, <2>3, <2>6 DEF Has, ChatHas
<1>6. CASE protocol = "openai-responses"
  <2>1. PICK i : i = Item("message", "developer", System)
    OBVIOUS
  <2>2. PICK u : u = Optional(i, System)
    OBVIOUS
  <2>3. i \in Items /\ u \in Seq(Items) /\ Gather(u, ItemSystem) = System /\ Gather(u, ItemPieces) = <<>>
    BY <1>1, <2>1, <2>2, DeveloperBody
  <2>4. u = <<i>>
    BY <1>1, <2>2 DEF Optional
  <2>5. PICK v \in Seq(Items) : v = <<>>
    BY EmptySeq
  <2>6. Gather(v, ItemSystem) = <<>> /\ Gather(v, ItemPieces) = <<>>
    BY <2>5, ItemTypes, GatherNone, Zenon
  <2>7. b = [system |-> System, input |-> v] \/ b = [system |-> none, input |-> u]
    BY <1>2, <1>6, <2>1, <2>4, <2>5, Zenon DEF FirstBody
  <2>8. System \o <<>> = System /\ <<>> \o System = System
    BY <1>1, ConcatEmptySeq
  <2>9. CASE b = [system |-> System, input |-> v]
    <3>1. b \in [system : Seq(SystemTexts), input : Seq(Items)] /\ b.system = System /\ b.input = v
      BY <1>1, <2>9
    <3>2. Canonical(b, System, <<>>)
      BY <1>1, <2>6, <2>8, <3>1 DEF Canonical
    <3>3. QED
      BY <1>6, <3>1, <3>2 DEF Has, ResponsesHas
  <2>10. CASE b = [system |-> none, input |-> u]
    <3>1. b \in [system : Seq(SystemTexts), input : Seq(Items)] /\ b.system = none /\ b.input = u
      BY <1>2, <2>3, <2>10
    <3>2. Canonical(b, System, <<>>)
      BY <1>2, <2>3, <2>8, <3>1 DEF Canonical
    <3>3. QED
      BY <1>6, <3>1, <3>2 DEF Has, ResponsesHas
  <2>11. QED
    BY <2>7, <2>9, <2>10
<1>7. QED
  BY <1>4, <1>5, <1>6 DEF Protocols

\* A request is given to the backend as HistoryArrives and ThinkingIsReplayed say.
LEMMA ForwardedHistory ==
    ASSUME Speaking, NEW backend \in Protocols, TryForward(backend)
    PROVE  HistoryArrives' /\ ThinkingIsReplayed'
<1>1. /\ client \in Protocols /\ said \in Seq(Said) /\ Has(client, body, said)
      /\ client' = client /\ said' = said /\ asked'.protocol = backend
  BY DEF Speaking, TryForward
<1>2. SUFFICES ASSUME Converted' PROVE HistoryArrives' /\ ThinkingIsReplayed'
  BY DEF HistoryArrives, ThinkingIsReplayed
<1>3. client # backend /\ client # ""
  BY <1>1, <1>2 DEF Converted, NeedsConversion
<1>4. PICK d : d = FromCanonical(backend, ToCanonical(client, body, Prompt))
  OBVIOUS
<1>5. asked'.body = d
  <2>1. PICK plain \in BOOLEAN :
            asked' = [protocol |-> backend,
                      body |-> IF NeedsConversion(client, backend)
                               THEN FromCanonical(backend, ToCanonical(client, body, Prompt))
                               ELSE InjectSystemPrompt(backend, body, Prompt, plain)]
    BY Zenon DEF TryForward
  <2>2. NeedsConversion(client, backend)
    BY <1>3 DEF NeedsConversion
  <2>3. asked' = [protocol |-> backend, body |-> d]
    BY <1>4, <2>1, <2>2, Zenon
  <2>4. QED
    BY <2>3
<1>6. PICK spoken : spoken = SpokenOf(backend, d)
  OBVIOUS
<1>7. /\ SystemOf(backend, d) = SystemFor(client)
      /\ Keep(spoken, TextPieces) = Keep(said, TextPieces)
      /\ Keep(spoken, ActPieces) = Keep(said, ActPieces)
      /\ client # "openai" => Keep(spoken, Heard) = Keep(said, Heard)
      /\ IF client = "openai-responses" /\ backend = "anthropic"
         THEN spoken = Keep(said, Replayed) ELSE Keep(spoken, ThinkingPieces) = <<>>
  <2>1. PICK protocol \in Protocols : protocol = client
    BY <1>1
  <2>2. PICK b, ps : b = body /\ ps = said
    OBVIOUS
  <2>3. ps \in Seq(Said) /\ Has(protocol, b, ps)
    BY <1>1, <2>1, <2>2
  <2>4. d = FromCanonical(backend, ToCanonical(protocol, b, Prompt)) /\ protocol # backend
    BY <1>3, <1>4, <2>1, <2>2
  <2>5. /\ SystemOf(backend, d) = SystemFor(protocol)
        /\ Keep(spoken, TextPieces) = Keep(ps, TextPieces)
        /\ Keep(spoken, ActPieces) = Keep(ps, ActPieces)
        /\ protocol # "openai" => Keep(spoken, Heard) = Keep(ps, Heard)
        /\ IF protocol = "openai-responses" /\ backend = "anthropic"
           THEN spoken = Keep(ps, Replayed) ELSE Keep(spoken, ThinkingPieces) = <<>>
    BY <1>6, <2>3, <2>4, RequestDelivered
  <2>6. QED
    BY <2>1, <2>2, <2>5
<1>8. \A ps, kinds : OfKinds(ps, kinds) = Keep(ps, Of(kinds))
  BY ThinkingKinds
<1>9. /\ TextPieces = Of(Texts) /\ ActPieces = Of(Acts) /\ Heard = Of(Texts \cup Acts)
      /\ ThinkingPieces = Of(Thinking) /\ Replayed = Of(Texts \cup Acts \cup Signed)
  BY DEF TextPieces, ActPieces, Heard, ThinkingPieces, Replayed, SignedPieces, Of
<1>10. HistoryArrives'
  <2>1. /\ OfKinds(spoken, Texts) = OfKinds(said, Texts)
        /\ OfKinds(spoken, Acts) = OfKinds(said, Acts)
        /\ client # "openai" => OfKinds(spoken, Texts \cup Acts) = OfKinds(said, Texts \cup Acts)
    BY <1>7, <1>8, <1>9
  <2>2. SystemOf(backend, d) = (IF client = "openai-responses" THEN <<>> ELSE Prompt) \o System
    BY <1>7 DEF SystemFor
  <2>3. QED
    BY <1>1, <1>5, <1>6, <2>1, <2>2 DEF HistoryArrives
<1>11. ThinkingIsReplayed'
  <2>1. IF client = "openai-responses" /\ backend = "anthropic"
        THEN spoken = OfKinds(said, Texts \cup Acts \cup Signed)
        ELSE OfKinds(spoken, Thinking) = <<>>
    BY <1>7, <1>8, <1>9
  <2>2. QED
    BY <1>1, <1>5, <1>6, <2>1 DEF ThinkingIsReplayed
<1>12. QED
  BY <1>10, <1>11

\* What the client says, in answer to the calls and of its own.
LEMMA ClientSendsStep ==
    ASSUME Speaking, ClientSends
    PROVE  Speaking' /\ phase' = "forward"
<1>1. /\ client \in Protocols /\ said \in Seq(Said) /\ open \in Seq(Calls) /\ Has(client, body, said)
      /\ client' = client /\ open' = <<>> /\ phase' = "forward"
  BY DEF Speaking, ClientSends
<1>2. PICK n \in Nat : n = Len(open) /\ DOMAIN open = 1..n
  BY <1>1, LenProperties
<1>3. PICK rs : rs = [k \in DOMAIN open |-> <<"result", open[k][2]>>]
  OBVIOUS
<1>4. rs \in Seq(Results)
  <2>1. \A k \in 1..n : open[k] \in Calls
    BY <1>1, <1>2
  <2>2. \A p \in Calls : <<"result", p[2]>> \in Results
    BY DEF Calls, Results, Of
  <2>3. rs \in [1..n -> Results]
    BY <1>2, <1>3, <2>1, <2>2
  <2>4. QED
    BY <2>3, FunctionIsSeq
<1>5. PICK us \in {<<>>, <<<<"user", Len(said) + 1>>>>} : said' = said \o rs \o us /\ body' = Says(body, rs, us)
  BY <1>3 DEF ClientSends
<1>6. us \in Seq(TextPieces)
  <2>1. PICK p : p = <<"user", Len(said) + 1>>
    OBVIOUS
  <2>2. p \in TextPieces
    <3>1. Len(said) + 1 \in Nat
      BY <1>1, LenProperties
    <3>2. QED
      BY <2>1, <3>1 DEF TextPieces, Of, Texts
  <2>3. <<>> \in Seq(TextPieces) /\ <<p>> \in Seq(TextPieces)
    BY <2>2, EmptySeq
  <2>4. us = <<>> \/ us = <<p>>
    BY <1>5, <2>1
  <2>5. QED
    BY <2>3, <2>4
<1>7. PICK b, ps : b = body /\ ps = said
  OBVIOUS
<1>8. Has(client, Says(b, rs, us), (ps \o rs) \o us) /\ (ps \o rs) \o us \in Seq(Said)
  BY <1>1, <1>4, <1>6, <1>7, ClientSays
<1>9. Has(client, body', said') /\ said' \in Seq(Said)
  BY <1>5, <1>7, <1>8
<1>10. <<>> \in Seq(Calls)
  BY EmptySeq
<1>11. QED
  BY <1>1, <1>9, <1>10 DEF Speaking

\* The pieces of an answer are numbered on from what was said.
LEMMA AnswerTyped ==
    ASSUME NEW backend \in Protocols, NEW kinds \in Answers[backend], NEW m \in Nat,
           NEW ps, ps = [k \in DOMAIN kinds |-> <<kinds[k], m + k>>]
    PROVE  MayAnswer(backend, ps)
<1>1. PICK K : /\ K = IF backend = "anthropic" THEN {"thinking", "redacted", "text", "call"}
                      ELSE {"reasoning", "text", "call"}
               /\ kinds \in Seq(K)
  BY ConversationAssumption DEF Protocols
<1>2. PICK n \in Nat : n = Len(kinds) /\ DOMAIN kinds = 1..n
  BY <1>1, LenProperties
<1>3. \A k \in 1..n : kinds[k] \in K /\ m + k \in Nat
  BY <1>1, <1>2
<1>4. K \subseteq {"text", "call"} \cup Thinking
  BY <1>1 DEF Thinking
<1>5. \A k \in 1..n : <<kinds[k], m + k>> \in AnswerPieces
  BY <1>3, <1>4 DEF AnswerPieces, Of
<1>6. ps = [k \in 1..n |-> <<kinds[k], m + k>>]
  BY <1>2
<1>7. ps \in Seq(AnswerPieces) /\ Len(ps) = n
  <2>1. ps \in [1..n -> AnswerPieces]
    BY <1>5, <1>6
  <2>2. QED
    BY <2>1, FunctionIsSeq
<1>8. ASSUME backend = "openai" PROVE ps \in Seq(ChatAnswers) /\ ChatOrder(ps)
  <2>1. \A k \in 1..n : <<kinds[k], m + k>> \in ChatAnswers
    <3>1. K = {"reasoning", "text", "call"}
      BY <1>1, <1>8
    <3>2. QED
      BY <1>3, <3>1 DEF ChatAnswers, Of
  <2>2. ps \in Seq(ChatAnswers)
    <3>1. ps \in [1..n -> ChatAnswers]
      BY <1>6, <2>1
    <3>2. QED
      BY <3>1, FunctionIsSeq
  <2>3. \A i, j \in 1..n : i < j => /\ kinds[j] = "reasoning" => kinds[i] = "reasoning"
                                    /\ kinds[j] = "text" => kinds[i] # "call"
    BY <1>2, <1>8, ConversationAssumption
  <2>4. \A k \in 1..n : /\ kinds[k] \in {"reasoning", "text", "call"} /\ m + k \in Nat
                        /\ ps[k] = <<kinds[k], m + k>>
    BY <1>1, <1>3, <1>6, <1>8
  <2>5. \A k \in 1..n : /\ ps[k] \in Unsigned <=> kinds[k] = "reasoning"
                        /\ ps[k] \in TextPieces <=> kinds[k] = "text"
                        /\ ps[k] \in Calls <=> kinds[k] = "call"
    BY <2>4 DEF Unsigned, TextPieces, Calls, Of, Texts
  <2>6. ChatOrder(ps)
    BY <1>7, <2>3, <2>5 DEF ChatOrder
  <2>7. QED
    BY <2>2, <2>6
<1>9. QED
  BY <1>7, <1>8 DEF MayAnswer

LEMMA Answers200Step ==
    ASSUME Speaking, Answers200
    PROVE  Speaking' /\ phase' = "client" /\ AnswerArrives'
<1>1. /\ client \in Protocols /\ said \in Seq(Said) /\ Has(client, body, said)
      /\ phase = "asked" /\ phase' = "client" /\ client' = client /\ asked' = asked
      /\ asked.protocol \in Protocols
  BY DEF Speaking, Answers200
<1>2. PICK protocol \in Protocols, backend \in Protocols : protocol = client /\ backend = asked.protocol
  BY <1>1
<1>3. PICK kinds \in Answers[backend], end \in Ends200(backend) :
        LET ps == [k \in DOMAIN kinds |-> <<kinds[k], Len(said) + k>>]
            a  == InForm(backend, ps, end)
        IN  /\ given' = [ps |-> ps, end |-> end]
            /\ got' = InClientForm(a)
            /\ said' = said \o ps
            /\ open' = OfKinds(ps, {"call"})
            /\ body' = Keeps(body, InClientForm(a))
  BY <1>2 DEF Answers200
<1>4. PICK ps : ps = [k \in DOMAIN kinds |-> <<kinds[k], Len(said) + k>>]
  OBVIOUS
<1>5. PICK a : a = InClientForm(InForm(backend, ps, end))
  OBVIOUS
<1>6. /\ given' = [ps |-> ps, end |-> end]
      /\ got' = a /\ said' = said \o ps /\ open' = OfKinds(ps, {"call"}) /\ body' = Keeps(body, a)
  BY <1>3, <1>4, <1>5
<1>7. MayAnswer(backend, ps) /\ ps \in Seq(AnswerPieces)
  <2>1. PICK m \in Nat : m = Len(said)
    BY <1>1, LenProperties
  <2>2. ps = [k \in DOMAIN kinds |-> <<kinds[k], m + k>>]
    BY <1>4, <2>1
  <2>3. QED
    BY <2>2, AnswerTyped DEF MayAnswer
<1>8. /\ Receives(protocol, a, ps) /\ a.stop # "error"
      /\ protocol # backend => TellsConverted(protocol, a, ps, end)
      /\ protocol = "openai-responses" => TellsResponses(a, ps, end)
  <2>1. PICK g : g = InForm(backend, ps, end)
    OBVIOUS
  <2>2. CASE protocol # backend
    <3>1. PICK c : c = ResponseToCanonical(backend, g)
      OBVIOUS
    <3>2. Answer(c, ps, end)
      BY <1>7, <2>1, <3>1, AnswerCanonical
    <3>3. a = ResponseFromCanonical(protocol, c)
      BY <1>2, <1>5, <2>1, <2>2, <3>1 DEF InClientForm, NeedsConversion, Protocols
    <3>4. /\ Receives(protocol, a, ps) /\ TellsConverted(protocol, a, ps, end)
          /\ protocol = "openai-responses" => TellsResponses(a, ps, end)
      BY <1>7, <3>2, <3>3, ToClient
    <3>5. QED
      BY <3>4 DEF TellsConverted
  <2>3. CASE protocol = backend
    <3>1. a = InForm(protocol, ps, end)
      BY <1>2, <1>5, <2>3 DEF InClientForm, NeedsConversion
    <3>2. QED
      BY <1>7, <2>3, <3>1, PassedThrough
  <2>4. QED
    BY <2>2, <2>3
<1>9. Speaking'
  <2>1. PICK b, qs : b = body /\ qs = said
    OBVIOUS
  <2>2. Has(client, Keeps(b, a), qs \o ps) /\ qs \o ps \in Seq(Said)
    BY <1>1, <1>2, <1>7, <1>8, <2>1, ClientKeeps
  <2>3. Has(client', body', said') /\ said' \in Seq(Said)
    BY <1>1, <1>6, <2>1, <2>2
  <2>4. open' \in Seq(Calls)
    <3>1. Keep(ps, Calls) \in Seq(AnswerPieces \cap Calls)
      BY <1>7, KeptBy
    <3>2. Keep(ps, Calls) \in Seq(Calls)
      BY <3>1
    <3>3. QED
      BY <1>6, <1>7, <3>2, AnswerForms
  <2>5. QED
    BY <1>1, <2>3, <2>4 DEF Speaking
<1>10. AnswerArrives'
  <2>1. given'.ps = ps /\ given'.end = end /\ end # "error"
    BY <1>6, EndStatus
  <2>2. \A qs, kept : Numbers(OfKinds(qs, kept)) = {p[2] : p \in ToSet(OfKinds(qs, kept))}
    BY DEF Numbers
  <2>3. a.stop # "error"
    BY <1>8
  <2>4. client = "anthropic" /\ backend # client =>
          /\ OfKinds(a.ps, {"text", "call"}) = OfKinds(ps, {"text", "call"})
          /\ {p[2] : p \in ToSet(OfKinds(a.ps, Thinking))} = {p[2] : p \in ToSet(OfKinds(ps, Thinking \ {"redacted"}))}
          /\ a.stop = IF OfKinds(ps, {"call"}) # <<>> THEN "tool_use"
                      ELSE IF end = "cut" THEN "max_tokens" ELSE "end_turn"
    BY <1>2, <1>8, <2>2, ZenonT(60) DEF TellsConverted
  <2>5. client = "openai" /\ backend # client =>
          /\ a.ps = OfKinds(ps, {"text"}) /\ a.calls = OfKinds(ps, {"call"})
          /\ {p[2] : p \in ToSet(OfKinds(a.reasoning, Thinking))} = {p[2] : p \in ToSet(OfKinds(ps, Thinking \ {"redacted"}))}
          /\ a.stop = IF OfKinds(ps, {"call"}) # <<>> THEN "tool_calls"
                      ELSE IF end = "cut" THEN "length" ELSE "stop"
    BY <1>2, <1>8, <2>2, ZenonT(60) DEF TellsConverted
  <2>6. client = "openai-responses" =>
          /\ OfKinds(PiecesOf(a.output, {"message", "call", "reasoning"}), {"text", "call"} \cup Signed)
                = OfKinds(ps, {"text", "call"} \cup Signed)
          /\ a.stop = Status[end]
    BY <1>2, <1>8 DEF TellsResponses
  <2>7. QED
    BY <1>1, <1>2, <1>6, <2>1, <2>3, <2>4, <2>5, <2>6, Zenon DEF AnswerArrives
<1>11. QED
  BY <1>1, <1>9, <1>10

\* Nothing is said outside of a conversation.
LEMMA QuietHolds ==
    ASSUME Quiet
    PROVE  HistoryArrives /\ ThinkingIsReplayed /\ AnswerArrives
BY DEF Quiet, HistoryArrives, ThinkingIsReplayed, AnswerArrives, Converted

LEMMA ServingKnown ==
    ASSUME RoutingInv
    PROVE  Serving \subseteq Protocols
<1>1. conf \in Seq(Backend)
  BY ConfigTypes DEF RoutingInv
<1>2. ASSUME NEW b \in ToSet(Enabled(conf)) PROVE b.protocol \in Protocols
  <2>1. PICK c \in Seq(Backend) : c = conf
    BY <1>1
  <2>2. Enabled(c) \in Seq(Backend)
    BY EnabledOnes
  <2>3. ToSet(Enabled(c)) \subseteq Backend
    BY <2>2, Elements
  <2>4. b \in Backend
    BY <1>2, <2>1, <2>3
  <2>5. QED
    BY <2>4 DEF Backend
<1>3. QED
  BY <1>2 DEF Serving

LEMMA OpensStep ==
    ASSUME ConversationInv, NEW r \in Requests, Forward(r)
    PROVE  ConversationInv'
<1>1. Quiet
  BY DEF ConversationInv, Forward
<1>2. PICK protocol, backend : /\ NeedsConversion(protocol, backend)
                               /\ \E versioned \in BOOLEAN : protocol = ClientProtocol(req[r].path, versioned)
                               /\ \/ stage' = "stream" /\ UNCHANGED conversationVars
                                  \/ stage' = "body" /\ Opens(protocol)
  BY Zenon DEF Forward
<1>3. protocol \in Protocols
  <2>1. protocol # ""
    BY <1>2 DEF NeedsConversion
  <2>2. QED
    BY <1>2, <2>1, Zenon DEF ClientProtocol, Protocols
<1>4. CASE stage' = "stream" /\ UNCHANGED conversationVars
  <2>1. Quiet'
    BY <1>1, <1>4 DEF Quiet, conversationVars, Nothing
  <2>2. (HistoryArrives /\ ThinkingIsReplayed /\ AnswerArrives)'
    BY <2>1 DEF Quiet, HistoryArrives, ThinkingIsReplayed, AnswerArrives, Converted
  <2>3. QED
    BY <1>4, <2>1, <2>2 DEF ConversationInv
<1>5. CASE stage' = "body" /\ Opens(protocol)
  <2>1. /\ client' = protocol /\ body' \in FirstBody(protocol) /\ phase' = "client"
        /\ said' = <<>> /\ open' = <<>> /\ given' = <<>>
    BY <1>1, <1>5 DEF Opens, Quiet
  <2>2. PICK b \in FirstBody(protocol) : b = body'
    BY <2>1
  <2>3. Has(protocol, b, <<>>)
    BY <1>3, BodyBegins
  <2>4. <<>> \in Seq(Said) /\ <<>> \in Seq(Calls)
    BY EmptySeq
  <2>5. Has(client', body', said')
    BY <2>1, <2>2, <2>3
  <2>6. Speaking'
    BY <1>3, <2>1, <2>4, <2>5 DEF Speaking
  <2>7. (HistoryArrives /\ ThinkingIsReplayed /\ AnswerArrives)'
    BY <2>1 DEF HistoryArrives, ThinkingIsReplayed, AnswerArrives, Converted
  <2>8. QED
    BY <1>5, <2>6, <2>7 DEF ConversationInv
<1>6. QED
  BY <1>2, <1>4, <1>5

LEMMA TryForwardStep ==
    ASSUME Speaking, NEW backend \in Protocols, TryForward(backend)
    PROVE  Speaking' /\ HistoryArrives' /\ ThinkingIsReplayed' /\ AnswerArrives'
<1>1. /\ client' = client /\ said' = said /\ open' = open /\ body' = body
      /\ phase' = "asked" /\ asked'.protocol = backend
  BY DEF TryForward
<1>2. Speaking'
  <2>1. Has(client', body', said')
    BY <1>1 DEF Speaking
  <2>2. QED
    BY <1>1, <2>1 DEF Speaking
<1>3. HistoryArrives' /\ ThinkingIsReplayed'
  BY ForwardedHistory
<1>4. AnswerArrives'
  BY <1>1 DEF AnswerArrives
<1>5. QED
  BY <1>2, <1>3, <1>4

LEMMA AnswersErrorStep ==
    ASSUME Speaking, AnswersError
    PROVE  Speaking' /\ phase' = "over" /\ AnswerArrives'
<1>1. /\ client' = client /\ said' = said /\ open' = open /\ body' = body /\ asked' = asked
      /\ phase = "asked" /\ phase' = "over"
      /\ given' = [ps |-> <<>>, end |-> "error"]
      /\ got' = InClientForm([stop |-> "error"])
  BY DEF AnswersError
<1>2. Speaking'
  <2>1. Has(client', body', said')
    BY <1>1 DEF Speaking
  <2>2. QED
    BY <1>1, <2>1 DEF Speaking
<1>3. PICK protocol \in Protocols, backend \in Protocols : protocol = client /\ backend = asked.protocol
  BY <1>1 DEF Speaking
<1>4. PICK a : a = [stop |-> "error"]
  OBVIOUS
<1>5. a.stop = "error" /\ ResponseFromCanonical(protocol, ResponseToCanonical(backend, a)).stop = "error"
  BY <1>4, ErrorArrives
<1>6. InClientForm(a).stop = "error"
  BY <1>3, <1>5 DEF InClientForm
<1>7. got'.stop = "error" /\ given'.end = "error"
  BY <1>1, <1>4, <1>6
<1>8. AnswerArrives'
  BY <1>7, Zenon DEF AnswerArrives
<1>9. QED
  BY <1>1, <1>2, <1>8

\* Every step of a conversation.
LEMMA ConversationStep ==
    ASSUME RoutingInv, ConversationInv, stage = "body", stage' = "body", ConversationNext(Serving)
    PROVE  ConversationInv'
<1>1. Speaking
  BY DEF ConversationInv
<1>2. CASE ClientSends
  <2>1. Speaking' /\ phase' = "forward"
    BY <1>1, <1>2, ClientSendsStep
  <2>2. (HistoryArrives /\ ThinkingIsReplayed /\ AnswerArrives)'
    BY <2>1 DEF HistoryArrives, ThinkingIsReplayed, AnswerArrives, Converted
  <2>3. QED
    BY <2>1, <2>2 DEF ConversationInv
<1>3. CASE Answers200
  <2>1. Speaking' /\ phase' = "client" /\ AnswerArrives'
    BY <1>1, <1>3, Answers200Step
  <2>2. HistoryArrives' /\ ThinkingIsReplayed'
    BY <2>1 DEF HistoryArrives, ThinkingIsReplayed, Converted
  <2>3. QED
    BY <2>1, <2>2 DEF ConversationInv
<1>4. CASE AnswersError
  <2>1. Speaking' /\ phase' = "over" /\ AnswerArrives'
    BY <1>1, <1>4, AnswersErrorStep
  <2>2. HistoryArrives' /\ ThinkingIsReplayed'
    BY <2>1 DEF HistoryArrives, ThinkingIsReplayed, Converted
  <2>3. QED
    BY <2>1, <2>2 DEF ConversationInv
<1>5. ASSUME NEW backend \in Serving, TryForward(backend) PROVE ConversationInv'
  <2>1. backend \in Protocols
    BY ServingKnown
  <2>2. Speaking' /\ HistoryArrives' /\ ThinkingIsReplayed' /\ AnswerArrives'
    BY <1>1, <1>5, <2>1, TryForwardStep
  <2>3. QED
    BY <2>2 DEF ConversationInv
<1>6. QED
  BY <1>2, <1>3, <1>4, <1>5 DEF ConversationNext

\* A conversation's history is in its client's body, and what the gateway
\* makes of a body or an answer keeps it, whichever backends are asked.
THEOREM ConversationInvariant == Spec => []ConversationInv
<1>1. Init => ConversationInv
  <2>1. SUFFICES ASSUME Init PROVE ConversationInv
    OBVIOUS
  <2>2. stage = "routing" /\ Quiet
    BY <2>1 DEF Init
  <2>3. QED
    BY <2>2, QuietHolds DEF ConversationInv
<1>2. RoutingInv /\ ConversationInv /\ [Next]_vars => ConversationInv'
  <2>1. SUFFICES ASSUME RoutingInv, ConversationInv, [Next]_vars PROVE ConversationInv'
    OBVIOUS
  <2>2. ASSUME UNCHANGED conversationVars, stage = "body" <=> stage' = "body" PROVE ConversationInv'
    <3>1. Quiet => Quiet'
      BY <2>2 DEF Quiet, conversationVars, Nothing
    <3>2. Speaking => Speaking'
      BY <2>2 DEF Speaking, conversationVars
    <3>3. HistoryArrives => HistoryArrives'
      BY <2>2 DEF HistoryArrives, Converted, conversationVars
    <3>4. ThinkingIsReplayed => ThinkingIsReplayed'
      BY <2>2 DEF ThinkingIsReplayed, Converted, conversationVars
    <3>5. AnswerArrives => AnswerArrives'
      BY <2>2 DEF AnswerArrives, conversationVars
    <3>6. QED
      BY <2>1, <2>2, <3>1, <3>2, <3>3, <3>4, <3>5 DEF ConversationInv
  <2>3. ASSUME NEW r \in Requests, Forward(r) PROVE ConversationInv'
    BY <2>1, <2>3, OpensStep
  <2>4. ASSUME stage = "body", ConversationNext(Serving), stage' = stage PROVE ConversationInv'
    BY <2>1, <2>4, ConversationStep
  <2>5. ASSUME StreamOver PROVE UNCHANGED conversationVars /\ stage # "body" /\ stage' # "body"
    BY <2>5 DEF StreamOver
  <2>6. ASSUME ConversationOver PROVE ConversationInv'
    <3>1. stage' = "routing" /\ Forgotten
      BY <2>6 DEF ConversationOver
    <3>2. Quiet'
      BY <3>1 DEF Forgotten, Quiet, Nothing
    <3>3. (HistoryArrives /\ ThinkingIsReplayed /\ AnswerArrives)'
      BY <3>2 DEF Quiet, HistoryArrives, ThinkingIsReplayed, AnswerArrives, Converted
    <3>4. QED
      BY <3>1, <3>2, <3>3 DEF ConversationInv
  <2>7. ASSUME UNCHANGED vars PROVE UNCHANGED conversationVars /\ stage' = stage
    BY <2>7 DEF vars
  <2>8. QED
    BY <2>1, <2>2, <2>3, <2>4, <2>5, <2>6, <2>7 DEF Next
<1>3. QED
  BY <1>1, <1>2, RoutingInvariant, PTL DEF Spec

\* However many requests a conversation has, whichever backends are asked and
\* whatever they answer, a converted request holds the system texts and all
\* that was said: each text once and in order, each call and result once and
\* in order, and both in one order unless the client's Chat messages keep them
\* apart (HistoryArrives).
THEOREM HistoriesArrive == Spec => []HistoryArrives
<1>1. ConversationInv => HistoryArrives
  BY DEF ConversationInv
<1>2. QED
  BY <1>1, ConversationInvariant, PTL

\* In a request that is converted, signed thinking comes back verbatim to an
\* Anthropic backend, when a Responses client kept it, and to no other, and
\* unsigned thinking to none; a request that is passed through keeps what
\* thinking it has (ThinkingIsReplayed).
THEOREM SignedThinkingIsReplayed == Spec => []ThinkingIsReplayed
<1>1. ConversationInv => ThinkingIsReplayed
  BY DEF ConversationInv
<1>2. QED
  BY <1>1, ConversationInvariant, PTL

\* Whatever a backend answers, in any order its protocol allows, the client
\* gets its texts, calls and visible thinking and the reason to stop, and an
\* error if and only if the backend answered with one; that a Responses
\* backend's answer has failed only a Responses client is told (AnswerArrives).
THEOREM AnswersArrive == Spec => []AnswerArrives
<1>1. ConversationInv => AnswerArrives
  BY DEF ConversationInv
<1>2. QED
  BY <1>1, ConversationInvariant, PTL
===============================================================================
