------------------------------ MODULE MCExchange ------------------------------
(* Small instances of Exchange for TLC. *)
EXTENDS Exchange

CONSTANTS r1

OneRequest == {r1}

MakeModel(name, aliases) == [name |-> name, aliases |-> aliases]
MakeBackend(name, protocol, enabled, default, priority, prefix, models) ==
    [name |-> name, protocol |-> protocol, enabled |-> enabled, default |-> default,
     priority |-> priority, prefix |-> prefix, models |-> models]

\* The first backend repeats the name of its model as an alias, the third one
\* has no models and serves by its prefix or as the default.
A(enabled, priority) == MakeBackend("a", "openai", enabled, FALSE, priority, {<<>>},
                                <<MakeModel("big", <<"alias", "big">>), MakeModel("small", <<>>)>>)
B(priority) == MakeBackend("b", "anthropic", TRUE, FALSE, priority, {<<"v1", "b">>},
                       <<MakeModel("huge", <<"alias">>), MakeModel("", <<"small">>)>>)
C(default) == MakeBackend("c", "openai-responses", TRUE, default, 1, {<<"v1">>}, <<>>)

\* Without prefixes, so that the model decides.
Unprefixed(b) == [b EXCEPT !.prefix = {}]

Prefixed == {<<A(e, p), B(2), C(TRUE)>> : e \in BOOLEAN, p \in {1, 2}}
ByModels == {<<Unprefixed(A(e, p)), Unprefixed(B(q)), Unprefixed(C(d))>> :
                e \in BOOLEAN, p \in {1, 2}, q \in {1, 2}, d \in BOOLEAN}
                \cup {<<Unprefixed(B(1))>>}

\* Refused: no backend, a name or a default twice, an alias for two models.
Refused == {<<>>, <<A(TRUE, 1), Unprefixed(A(TRUE, 2))>>, <<C(TRUE), Unprefixed([C(TRUE) EXCEPT !.name = "d"])>>,
            <<MakeBackend("b", "anthropic", TRUE, FALSE, 1, {}, <<MakeModel("huge", <<"alias">>), MakeModel("big", <<"alias">>)>>)>>}
AllConfigs == Prefixed \cup ByModels \cup Refused

\* By prefix, and by model with one backend of each protocol.
Mixed == <<Unprefixed(A(TRUE, 1)), Unprefixed(B(2)), Unprefixed(C(TRUE))>>
Starts == {<<A(TRUE, 1), B(2), C(TRUE)>>, Mixed}

ClientPaths == {<<"v1", "chat", "completions">>, <<"v1", "messages">>, <<"v1", "responses">>,
                <<"v1", "b", "chat", "completions">>, <<"x">>}
ClientModels == {"", "alias", "big", "small", "other"}

\* The model that the first two backends offer, and the default of the third.
Followed == {"alias", "other"}
FollowedPaths == {<<"v1", "chat", "completions">>, <<"v1", "messages">>, <<"v1", "responses">>} \X Followed

-----------------------------------------------------------------------------
(* Streams. *)

MakeChunk(reasoning, content, calls, finish) ==
    [reasoning |-> reasoning, content |-> content, calls |-> calls, finish |-> finish]
Arguments(i) == [i |-> i, args |-> TRUE]
Named(i) == [i |-> i, args |-> FALSE]

\* Single deltas, and chunks that have several at once.
SomeChunks ==
    {MakeChunk(TRUE, FALSE, <<>>, "none"),
     MakeChunk(FALSE, TRUE, <<>>, "none"),
     MakeChunk(TRUE, TRUE, <<>>, "none"),
     MakeChunk(FALSE, FALSE, <<Named(0)>>, "none"),
     MakeChunk(FALSE, FALSE, <<Arguments(0)>>, "none"),
     MakeChunk(FALSE, FALSE, <<Arguments(1)>>, "none"),
     MakeChunk(FALSE, TRUE, <<Arguments(1), Arguments(0)>>, "none"),
     MakeChunk(FALSE, FALSE, <<>>, "stop"),
     MakeChunk(FALSE, FALSE, <<>>, "length")}

Lines == [protocol \in Protocols |->
             CASE protocol = "openai"           -> 5
               [] protocol = "anthropic"        -> 8
               [] protocol = "openai-responses" -> 9]

-----------------------------------------------------------------------------
(* Conversations. *)

TheirPrompt == <<<<"prompt", 0>>>>

SomeAnswers == [protocol \in Protocols |->
    CASE protocol = "anthropic" ->
            {<<"thinking", "text">>, <<"redacted", "call">>, <<"thinking", "text", "call", "call">>,
             <<"text", "call", "text">>, <<>>}
      [] protocol = "openai" -> {<<"reasoning", "text", "call">>, <<"call", "call">>, <<"text">>, <<>>}
      [] protocol = "openai-responses" -> {<<"reasoning", "call", "text">>, <<"text", "call">>, <<"text">>}]
=============================================================================
