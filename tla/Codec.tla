-------------------------------- MODULE Codec --------------------------------
(***************************************************************************)
(* The protocols that the gateway speaks, and when a request is converted  *)
(* between two of them (buildCodecs, detectProtocolByRequest and           *)
(* needsProtocolConversion).  A path is a sequence of segments.            *)
(***************************************************************************)
EXTENDS Lists

Protocols == {"openai", "anthropic", "openai-responses"}

Under(path, roots) == \E root \in roots : IsPrefix(<<"v1">> \o root, path)

AnthropicRoots == {<<"messages">>, <<"complete">>, <<"completions">>}
ResponsesRoots == {<<"responses">>}
OpenAIRoots == {<<"chat", "completions">>, <<"embeddings">>, <<"images">>, <<"audio", "transcriptions">>,
                <<"audio", "translations">>, <<"audio", "speech">>, <<"moderations">>, <<"models">>}

\* The protocol of a client; "" is unknown.  `versioned' says that the request
\* has an anthropic-version header.  strings.HasPrefix also takes a segment that
\* only begins like the last one of a root: so OpenAI's completions are taken
\* for Anthropic's, since "/v1/completions" begins with "/v1/complete".
ClientProtocol(path, versioned) ==
    CASE Under(path, AnthropicRoots) -> "anthropic"
      [] Under(path, ResponsesRoots) -> "openai-responses"
      [] Under(path, OpenAIRoots)    -> "openai"
      [] OTHER -> IF versioned THEN "anthropic" ELSE ""

NeedsConversion(client, backend) == client # "" /\ client # backend
=============================================================================
