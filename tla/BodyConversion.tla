---------------------------- MODULE BodyConversion ----------------------------
(***************************************************************************)
(* Whole bodies between the protocols (internal/server/convert.go and      *)
(* codec_openai.go): a request and an answer are converted to the          *)
(* canonical form, that of the Responses protocol, and from it.            *)
(*                                                                         *)
(* A body is its pieces and how they are arranged; a piece is a pair of    *)
(* its kind and a number, and a result has the number of its call.  Model, *)
(* sampling, tools, effort and usage are left out.  Whether a text is a    *)
(* string or an array of parts matters to InjectSystemPrompt only: else a  *)
(* backend gets it as it was.  The input of a Responses request is a list; *)
(* one that is a string is not in the model.                               *)
(***************************************************************************)
EXTENDS Codec

\* A "thinking" piece carries Anthropic's signature, or is a reasoning item
\* whose encrypted_content holds such a block; "reasoning" has neither.
Thinking == {"reasoning", "thinking", "redacted"}
Signed == {"thinking", "redacted"}
OfKinds(ps, kinds) == Keep(ps, kinds \X Nat)

\* An item of a Responses request or answer, a Chat message, and an Anthropic
\* one.  The role is "none" where the body has no such field.
Item(t, role, ps) == [t |-> t, role |-> role, ps |-> ps]
Chat(role, ps, calls) == [role |-> role, ps |-> ps, calls |-> calls]
Message(role, ps) == [role |-> role, ps |-> ps]

Optional(x, ps) == IF ps = <<>> THEN <<>> ELSE <<x>>
CallItems(calls) == [k \in DOMAIN calls |-> Item("call", "none", <<calls[k]>>)]

-----------------------------------------------------------------------------
(* A request to the canonical form; prompt is the system prompt that the   *)
(* gateway adds.                                                           *)

\* Mutant: the text before a call is not flushed.
MessageToItemsUnflushed(m) ==
    LET texts == OfKinds(m.ps, {"text", "user"})
        rest  == OfKinds(m.ps, {"call", "result"})
    IN  [k \in DOMAIN rest |-> Item(IF rest[k][1] = "call" THEN "call" ELSE "output", "none", <<rest[k]>>)]
        \o Optional(Item("message", m.role, texts), texts)

\* convertAnthropicMessageToResponses: texts are joined until a call or the
\* end; thinking has no case.
Flushed(a, role) == a.items \o Optional(Item("message", role, a.text), a.text)
NextBlock(a, role, p) ==
    CASE p[1] \in {"text", "user"} -> [a EXCEPT !.text = Append(@, p)]
      [] p[1] = "call"    -> [items |-> Append(Flushed(a, role), Item("call", "none", <<p>>)), text |-> <<>>]
      [] p[1] = "result"  -> [a EXCEPT !.items = Append(@, Item("output", "none", <<p>>))]
      [] p[1] \in Thinking -> a
MessageBlocks(role, ps) ==
    LET f[k \in 0..Len(ps)] == IF k = 0 THEN [items |-> <<>>, text |-> <<>>]
                               ELSE NextBlock(f[k - 1], role, ps[k])
    IN  f[Len(ps)]
MessageToItems(m) ==
    LET items == Flushed(MessageBlocks(m.role, m.ps), m.role)
    IN  IF items = <<>> THEN <<Item("message", m.role, <<>>)>> ELSE items

FromAnthropicRequest(b, prompt) ==
    [system |-> <<>>,
     input  |-> Optional(Item("message", "developer", prompt \o b.system), prompt \o b.system)
                \o FlattenSeq([i \in DOMAIN b.messages |-> MessageToItems(b.messages[i])])]

ChatToItems(m) ==
    CASE m.role = "tool" -> <<Item("output", "none", m.ps)>>
      [] m.role = "assistant" /\ m.calls # <<>> ->
            Optional(Item("message", "assistant", m.ps), m.ps) \o CallItems(m.calls)
      [] OTHER -> <<Item("message", m.role, m.ps)>>

IsSystem(m) == m.role \in {"system", "developer"}

\* The prompt goes before the first system message, or is alone.
FromChatRequest(b, prompt) ==
    [system |-> prompt \o FlattenSeq([i \in DOMAIN b.messages |->
                             IF IsSystem(b.messages[i]) THEN b.messages[i].ps ELSE <<>>]),
     input  |-> FlattenSeq([i \in DOMAIN b.messages |->
                             IF IsSystem(b.messages[i]) THEN <<>> ELSE ChatToItems(b.messages[i])])]

\* The responses codec takes the body as it is, and ignores the prompt.
ToCanonical(client, b, prompt) ==
    CASE client = "anthropic"        -> FromAnthropicRequest(b, prompt)
      [] client = "openai"           -> FromChatRequest(b, prompt)
      [] client = "openai-responses" -> b

-----------------------------------------------------------------------------
(* A request from the canonical form.                                      *)

IsDeveloper(item) == item.t = "message" /\ item.role = "developer"
DeveloperText(item) == IF IsDeveloper(item) THEN item.ps ELSE <<>>

\* Mutant: any reasoning is replayed, also what no Anthropic model signed.
ItemToMessagesAny(item) ==
    CASE item.t = "reasoning" -> <<Message("assistant", item.ps)>>
      [] item.t = "call"      -> <<Message("assistant", item.ps)>>
      [] item.t = "output"    -> <<Message("user", item.ps)>>
      [] item.t = "message"   -> IF IsDeveloper(item) THEN <<>> ELSE <<Message(item.role, item.ps)>>

\* Only thinking that decodes to a block of Anthropic's is replayed.
ItemToMessages(item) ==
    CASE item.t = "reasoning" -> Optional(Message("assistant", item.ps), OfKinds(item.ps, Signed))
      [] item.t = "call"      -> <<Message("assistant", item.ps)>>
      [] item.t = "output"    -> <<Message("user", item.ps)>>
      [] item.t = "message"   -> IF IsDeveloper(item) THEN <<>> ELSE <<Message(item.role, item.ps)>>

ToAnthropicRequest(c) ==
    [system   |-> c.system \o FlattenSeq([i \in DOMAIN c.input |-> DeveloperText(c.input[i])]),
     messages |-> FlattenSeq([i \in DOMAIN c.input |-> ItemToMessages(c.input[i])])]

\* Reasoning falls to the default, and has neither role nor content there.
ItemToChat(item) ==
    CASE item.t = "call"      -> Chat("assistant", <<>>, item.ps)
      [] item.t = "output"    -> Chat("tool", item.ps, <<>>)
      [] item.t = "reasoning" -> Chat("none", <<>>, <<>>)
      [] item.t = "message"   ->
            Chat(IF item.role = "developer" THEN "system" ELSE item.role, item.ps, <<>>)

ToChatRequest(c) ==
    [messages |-> Optional(Chat("system", c.system, <<>>), c.system)
                  \o [i \in DOMAIN c.input |-> ItemToChat(c.input[i])]]

FromCanonical(backend, c) ==
    CASE backend = "anthropic"        -> ToAnthropicRequest(c)
      [] backend = "openai"           -> ToChatRequest(c)
      [] backend = "openai-responses" -> c

\* InjectSystemPrompt, of a body that is passed through.  A text that the client
\* has in the place already is kept if it is a string, and `plain' says that it
\* is; the conversion of an array of parts to a string gives "".  An Anthropic
\* client's is flattened.
Prepended(messages, role, prompt, plain, new) ==
    IF messages # <<>> /\ messages[1].role = role
    THEN <<[messages[1] EXCEPT !.ps = IF plain THEN prompt \o @ ELSE prompt]>> \o Tail(messages)
    ELSE <<new>> \o messages

InjectSystemPrompt(protocol, b, prompt, plain) ==
    IF prompt = <<>> THEN b ELSE
    CASE protocol = "anthropic"   -> [b EXCEPT !.system = prompt \o @]
      [] protocol = "openai"      ->
            [b EXCEPT !.messages = Prepended(@, "system", prompt, plain, Chat("system", prompt, <<>>))]
      [] protocol = "openai-responses" ->
            [b EXCEPT !.input = Prepended(@, "developer", prompt, plain, Item("message", "developer", prompt))]
-----------------------------------------------------------------------------
(* An answer to the canonical form and from it.  `stop' is its stop_reason,*)
(* finish_reason or status, and "error" for an error body.                 *)

BlockToItems(p) ==
    CASE p[1] = "text"     -> <<Item("message", "none", <<p>>)>>
      [] p[1] = "call"     -> CallItems(<<p>>)
      [] p[1] \in Thinking -> <<Item("reasoning", "none", <<p>>)>>

FromAnthropicAnswer(a) ==
    LET output == FlattenSeq([k \in DOMAIN a.ps |-> BlockToItems(a.ps[k])])
    IN  [output |-> IF output = <<>> THEN <<Item("message", "none", <<>>)>> ELSE output,
         stop   |-> IF a.stop = "max_tokens" THEN "incomplete" ELSE "completed"]

FromChatAnswer(a) ==
    [output |-> Optional(Item("reasoning", "none", a.reasoning), a.reasoning)
                \o Optional(Item("message", "none", a.ps), a.ps)
                \o CallItems(a.calls),
     stop   |-> IF a.stop = "length" THEN "incomplete" ELSE "completed"]

\* What an error body says survives each conversion, in the client's form.
ResponseToCanonical(backend, a) ==
    IF backend = "openai-responses" THEN a
    ELSE IF a.stop = "error" THEN [output |-> <<>>, stop |-> "error"]
    ELSE IF backend = "anthropic" THEN FromAnthropicAnswer(a) ELSE FromChatAnswer(a)

PiecesOf(output, types) ==
    FlattenSeq([i \in DOMAIN output |-> IF output[i].t \in types THEN output[i].ps ELSE <<>>])

\* The summaries: redacted thinking has none, and no signature is kept.
Summaries(output) ==
    LET visible == OfKinds(PiecesOf(output, {"reasoning"}), Thinking \ {"redacted"})
    IN  [k \in DOMAIN visible |-> <<"reasoning", visible[k][2]>>]

\* Thinking comes first; a call is the reason to stop before any other.
ToAnthropicAnswer(c) ==
    [ps   |-> Summaries(c.output) \o PiecesOf(c.output, {"message", "call"}),
     stop |-> IF PiecesOf(c.output, {"call"}) # <<>> THEN "tool_use"
              ELSE IF c.stop = "incomplete" THEN "max_tokens" ELSE "end_turn"]

\* Mutant: the status alone decides on the finish reason.
ToChatAnswerByStatus(c) ==
    [reasoning |-> Summaries(c.output),
     ps        |-> PiecesOf(c.output, {"message"}),
     calls     |-> PiecesOf(c.output, {"call"}),
     stop      |-> IF c.stop = "incomplete" THEN "length" ELSE "stop"]

ToChatAnswer(c) ==
    [reasoning |-> Summaries(c.output),
     ps        |-> PiecesOf(c.output, {"message"}),
     calls     |-> PiecesOf(c.output, {"call"}),
     stop      |-> IF PiecesOf(c.output, {"call"}) # <<>> THEN "tool_calls"
                   ELSE IF c.stop = "incomplete" THEN "length" ELSE "stop"]

ResponseFromCanonical(client, c) ==
    CASE client = "openai-responses" -> c
      [] client = "anthropic"        -> IF c.stop = "error" THEN [ps |-> <<>>, stop |-> "error"]
                                        ELSE ToAnthropicAnswer(c)
      [] client = "openai"           -> IF c.stop = "error"
                                        THEN [reasoning |-> <<>>, ps |-> <<>>, calls |-> <<>>, stop |-> "error"]
                                        ELSE ToChatAnswer(c)
=============================================================================
