----------------------------- MODULE Conversation -----------------------------
(***************************************************************************)
(* A conversation of several requests whose bodies are converted           *)
(* (tryForward and writeResponse in internal/server/server.go): a client   *)
(* sends all that was said so far with each request, the backend that is   *)
(* asked may be another one each time, and its answer becomes part of what *)
(* the client sends next.                                                  *)
(*                                                                         *)
(* What a client keeps of an answer and what a backend may answer is not   *)
(* in the code: Keeps and Answers follow what the conversions and their    *)
(* comments expect.                                                        *)
(***************************************************************************)
EXTENDS BodyConversion

CONSTANTS Prompt,    \* the gateway's system prompt: of no or one piece
          Answers,   \* by protocol, the sequences of kinds a backend may answer
          MaxTurns   \* bound: requests of one conversation

ASSUME ConversationAssumption ==
    /\ Prompt \in {<<>>, <<<<"prompt", 0>>>>}
    /\ DOMAIN Answers = Protocols
    /\ Answers["anthropic"] \subseteq Seq({"thinking", "redacted", "text", "call"})
    /\ \A protocol \in {"openai", "openai-responses"} :
          Answers[protocol] \subseteq Seq({"reasoning", "text", "call"})
    \* in the order of the fields of a Chat message
    /\ \A kinds \in Answers["openai"] : \A i, j \in DOMAIN kinds : i < j =>
          /\ kinds[j] = "reasoning" => kinds[i] = "reasoning"
          /\ kinds[j] = "text" => kinds[i] # "call"
    /\ MaxTurns \in Nat

VARIABLES client,  \* the client's protocol
          phase,   \* whose turn it is
          turn,    \* requests so far
          said,    \* history: the pieces said by either side, in order
          open,    \* the calls of the last answer, which the client is to answer
          body,    \* the client's request
          asked,   \* the protocol of the backend that was asked, and its request
          given,   \* its answer
          got      \* what the client received of it

conversationVars == <<client, phase, turn, said, open, body, asked, given, got>>

Nothing == [protocol |-> "", body |-> <<>>]
Quiet == /\ client = "" /\ phase = "idle" /\ turn = 0 /\ said = <<>> /\ open = <<>>
         /\ body = <<>> /\ asked = Nothing /\ given = <<>> /\ got = <<>>
Forgotten == /\ client' = "" /\ phase' = "idle" /\ turn' = 0 /\ said' = <<>> /\ open' = <<>>
             /\ body' = <<>> /\ asked' = Nothing /\ given' = <<>> /\ got' = <<>>

-----------------------------------------------------------------------------
(* The client.                                                             *)

\* A system text of the client, in the two places a Responses client has.
System == <<<<"system", 0>>>>
FirstBody(protocol) ==
    CASE protocol = "anthropic" -> {[system |-> System, messages |-> <<>>]}
      [] protocol = "openai"    -> {[messages |-> <<Chat("system", System, <<>>)>>]}
      [] protocol = "openai-responses" ->
            {[system |-> System, input |-> <<>>],
             [system |-> <<>>, input |-> <<Item("message", "developer", System)>>]}

\* The results of the calls first, then what the user says.
Says(b, results, user) ==
    CASE client = "anthropic" ->
            [b EXCEPT !.messages = Append(@, Message("user", results \o user))]
      [] client = "openai" ->
            [b EXCEPT !.messages = @ \o [k \in DOMAIN results |-> Chat("tool", <<results[k]>>, <<>>)]
                                     \o Optional(Chat("user", user, <<>>), user)]
      [] client = "openai-responses" ->
            [b EXCEPT !.input = @ \o [k \in DOMAIN results |-> Item("output", "none", <<results[k]>>)]
                                  \o Optional(Item("message", "user", user), user)]

\* An Anthropic client keeps the blocks and a Responses client the items as
\* they came; a Chat client keeps no reasoning.
Keeps(b, a) ==
    CASE client = "anthropic"        -> [b EXCEPT !.messages = Append(@, Message("assistant", a.ps))]
      [] client = "openai"           -> [b EXCEPT !.messages = Append(@, Chat("assistant", a.ps, a.calls))]
      [] client = "openai-responses" -> [b EXCEPT !.input = @ \o a.output]

\* A conversation begins, of a client whose protocol is known.
Opens(protocol) ==
    /\ client' = protocol
    /\ body' \in FirstBody(protocol)
    /\ phase' = "client"
    /\ UNCHANGED <<turn, said, open, asked, given, got>>

ClientSends ==
    /\ phase = "client" /\ turn < MaxTurns
    /\ LET results == [k \in DOMAIN open |-> <<"result", open[k][2]>>]
       IN  \E user \in {<<>>, <<<<"user", Len(said) + 1>>>>} :
              /\ results \o user # <<>>
              /\ said' = said \o results \o user
              /\ body' = Says(body, results, user)
    /\ turn' = turn + 1
    /\ open' = <<>>
    /\ phase' = "forward"
    /\ UNCHANGED <<client, asked, given, got>>

-----------------------------------------------------------------------------
(* The gateway.                                                            *)

\* tryForward, for a candidate or, after it failed, for the next one.  Whether
\* the client's first system text is a string is up to the client.
TryForward(backend) ==
    /\ phase \in {"forward", "asked"}
    /\ \E plain \in BOOLEAN :
          asked' = [protocol |-> backend,
                    body |-> IF NeedsConversion(client, backend)
                             THEN FromCanonical(backend, ToCanonical(client, body, Prompt))
                             ELSE InjectSystemPrompt(backend, body, Prompt, plain)]
    /\ phase' = "asked"
    /\ UNCHANGED <<client, turn, said, open, body, given, got>>

\* A backend's answer, of pieces ps, in its own form: "whole", "cut", or that
\* of a Responses backend which failed on the way and says so in its status.
Status == [whole |-> "completed", cut |-> "incomplete", failed |-> "failed"]
Ends200(protocol) == {"whole", "cut"} \cup IF protocol = "openai-responses" THEN {"failed"} ELSE {}

InForm(protocol, ps, end) ==
    CASE protocol = "anthropic" ->
            [ps |-> ps, stop |-> IF end = "cut" THEN "max_tokens"
                                 ELSE IF OfKinds(ps, {"call"}) = <<>> THEN "end_turn" ELSE "tool_use"]
      [] protocol = "openai" ->
            [reasoning |-> OfKinds(ps, {"reasoning"}), ps |-> OfKinds(ps, {"text"}),
             calls |-> OfKinds(ps, {"call"}),
             stop |-> IF end = "cut" THEN "length"
                      ELSE IF OfKinds(ps, {"call"}) = <<>> THEN "stop" ELSE "tool_calls"]
      [] protocol = "openai-responses" ->
            [output |-> [k \in DOMAIN ps |->
                            Item(CASE ps[k][1] = "text" -> "message" [] ps[k][1] = "call" -> "call"
                                   [] OTHER -> "reasoning", "none", <<ps[k]>>)],
             stop   |-> Status[end]]

\* writeResponse, of an answer that is not streamed.
InClientForm(a) ==
    IF NeedsConversion(client, asked.protocol)
    THEN ResponseFromCanonical(client, ResponseToCanonical(asked.protocol, a))
    ELSE a

Answers200 ==
    /\ phase = "asked"
    /\ \E kinds \in Answers[asked.protocol], end \in Ends200(asked.protocol) :
          LET ps == [k \in DOMAIN kinds |-> <<kinds[k], Len(said) + k>>]
              a  == InForm(asked.protocol, ps, end)
          IN  /\ given' = [ps |-> ps, end |-> end]
              /\ got' = InClientForm(a)
              /\ said' = said \o ps
              /\ open' = OfKinds(ps, {"call"})
              /\ body' = Keeps(body, InClientForm(a))
    /\ phase' = "client"
    /\ UNCHANGED <<client, turn, asked>>

\* An error that is not retried, or the last one.
AnswersError ==
    /\ phase = "asked"
    /\ given' = [ps |-> <<>>, end |-> "error"]
    /\ got' = InClientForm([stop |-> "error"])
    /\ phase' = "over"
    /\ UNCHANGED <<client, turn, said, open, body, asked>>

ConversationNext(protocols) ==
    \/ ClientSends \/ Answers200 \/ AnswersError
    \/ \E backend \in protocols : TryForward(backend)

-----------------------------------------------------------------------------
(* Properties.                                                             *)

Converted == phase = "asked" /\ NeedsConversion(client, asked.protocol)

\* The system texts that a backend is given, and what was said before it.
SystemOf(protocol, b) ==
    CASE protocol = "anthropic" -> b.system
      [] protocol = "openai" ->
            FlattenSeq([i \in DOMAIN b.messages |->
                           IF b.messages[i].role = "system" THEN b.messages[i].ps ELSE <<>>])
      [] protocol = "openai-responses" ->
            b.system \o FlattenSeq([i \in DOMAIN b.input |-> DeveloperText(b.input[i])])
SpokenOf(protocol, b) ==
    CASE protocol = "anthropic" -> FlattenSeq([i \in DOMAIN b.messages |-> b.messages[i].ps])
      [] protocol = "openai" ->
            FlattenSeq([i \in DOMAIN b.messages |->
                           IF b.messages[i].role = "system" THEN <<>>
                           ELSE b.messages[i].ps \o b.messages[i].calls])
      [] protocol = "openai-responses" ->
            FlattenSeq([i \in DOMAIN b.input |-> IF IsDeveloper(b.input[i]) THEN <<>> ELSE b.input[i].ps])

Texts == {"user", "text"}
Acts == {"call", "result"}

\* However many requests a conversation has and whichever backends served
\* them, a backend is given all that was said, each text, call and result
\* once and in order, so that a result follows its call.  A Chat client keeps
\* the texts of an answer before its calls.  The system texts come once each,
\* but the gateway's is lost when a Responses client's request is converted.
HistoryArrives ==
    Converted =>
        LET spoken == SpokenOf(asked.protocol, asked.body)
            system == (IF client = "openai-responses" THEN <<>> ELSE Prompt) \o System
        IN  /\ OfKinds(spoken, Texts) = OfKinds(said, Texts)
            /\ OfKinds(spoken, Acts) = OfKinds(said, Acts)
            /\ client # "openai" => OfKinds(spoken, Texts \cup Acts) = OfKinds(said, Texts \cup Acts)
            /\ SystemOf(asked.protocol, asked.body) = system

\* Of a request that is converted: thinking that Anthropic signed comes back to
\* an Anthropic backend verbatim, between what it stood between, when a Responses
\* client kept it, also after requests that other backends served; thinking that
\* nobody signed is left out, and to any other backend all of it is.  (What is
\* passed through keeps the thinking it has, unsigned thinking included.)
ThinkingIsReplayed ==
    Converted =>
        LET spoken == SpokenOf(asked.protocol, asked.body)
        IN  IF client = "openai-responses" /\ asked.protocol = "anthropic"
            THEN spoken = OfKinds(said, Texts \cup Acts \cup Signed)
            ELSE OfKinds(spoken, Thinking) = <<>>

\* A client receives the texts and calls of an answer in order, and the
\* thinking that is visible, in whatever protocol it was given; it is told
\* that the model calls, else that the answer is cut; and of an error if and
\* only if the backend answered with one.  A failure that a Responses backend
\* reports as the status of its answer only a Responses client is told of: an
\* Anthropic or a Chat client gets a regular end.
AnswerArrives ==
    given # <<>> /\ phase \in {"client", "over"} =>
        LET calls == OfKinds(given.ps, {"call"})
            texts == OfKinds(given.ps, {"text"})
            visible == {p[2] : p \in ToSet(OfKinds(given.ps, Thinking \ {"redacted"}))}
            thought(ps) == {p[2] : p \in ToSet(OfKinds(ps, Thinking))}
        IN  /\ got.stop = "error" <=> given.end = "error"
            /\ given.end # "error" /\ client = "anthropic" /\ asked.protocol # client =>
                 /\ OfKinds(got.ps, {"text", "call"}) = OfKinds(given.ps, {"text", "call"})
                 /\ thought(got.ps) = visible
                 /\ got.stop = IF calls # <<>> THEN "tool_use"
                               ELSE IF given.end = "cut" THEN "max_tokens" ELSE "end_turn"
            /\ given.end # "error" /\ client = "openai" /\ asked.protocol # client =>
                 /\ got.ps = texts /\ got.calls = calls
                 /\ thought(got.reasoning) = visible
                 /\ got.stop = IF calls # <<>> THEN "tool_calls"
                               ELSE IF given.end = "cut" THEN "length" ELSE "stop"
            /\ given.end # "error" /\ client = "openai-responses" =>
                 /\ OfKinds(PiecesOf(got.output, {"message", "call", "reasoning"}), {"text", "call"} \cup Signed)
                        = OfKinds(given.ps, {"text", "call"} \cup Signed)
                 /\ got.stop = Status[given.end]
=============================================================================
