\* Every route of every request, a reload at any moment; the six conversions
\* of a stream, and conversations of three requests.
CONSTANTS
    r1 = r1
    Requests <- OneRequest
    Configs <- AllConfigs
    StartConfigs <- Starts
    Paths <- ClientPaths
    Models <- ClientModels
    MaxGen = 2
    FollowedConfig <- Mixed
    FollowedRequests <- FollowedPaths
    Chunks <- SomeChunks
    MaxLines <- Lines
    Prompt <- TheirPrompt
    Answers <- SomeAnswers
    MaxTurns = 3
SPECIFICATION Spec
INVARIANTS PrefixIsLongest CandidatesAreExact ModelIsMapped
    ContentArrives BlocksWellFormed EndIsTruthful
    HistoryArrives ThinkingIsReplayed AnswerArrives
