------------------------------- MODULE Exchange -------------------------------
(***************************************************************************)
(* From the routing of a request to what is converted for its client: the  *)
(* path tells the client's protocol, the backend that answers has its own, *)
(* and where they differ a stream is converted line by line or a body as a *)
(* whole (tryForward and writeResponse in internal/server/server.go).      *)
(*                                                                         *)
(* What follows does not read the locals of the routing any more, and they *)
(* are dropped; the next request is routed after it.                       *)
(***************************************************************************)
EXTENDS Routing, StreamConversion, Conversation

CONSTANTS FollowedConfig,   \* bound: the configuration and the requests whose
          FollowedRequests  \* conversions are followed, <<path, model>>

ASSUME ExchangeAssumption ==
    /\ FollowedConfig \in StartConfigs
    /\ FollowedRequests \subseteq Paths \X Models

VARIABLE stage  \* "routing", or what is converted: a "stream" or a "body"

vars == <<stage, routingVars, streamVars, conversationVars>>

Init == stage = "routing" /\ RoutingInit /\ NoStream /\ Quiet

\* A candidate answers a request.  Without conversion it is passed through.
Forward(r) ==
    /\ stage = "routing" /\ req[r].pc = "forward"
    /\ gen = 1 /\ conf = FollowedConfig /\ <<req[r].path, req[r].model>> \in FollowedRequests
    /\ \E e \in ToSet(req[r].ordered), versioned \in BOOLEAN :
          LET backend  == e.backend.protocol
              protocol == ClientProtocol(req[r].path, versioned)
          IN  /\ NeedsConversion(protocol, backend)
              /\ \/ stage' = "stream" /\ StreamBegins(backend, protocol)
                    /\ UNCHANGED conversationVars
                 \/ stage' = "body" /\ Opens(protocol)
                    /\ UNCHANGED streamVars
    /\ req' = [req EXCEPT ![r] = Idle]
    /\ UNCHANGED <<conf, gen>>

\* The conversation goes on with any backend of the configuration.
Serving == {b.protocol : b \in ToSet(Enabled(conf))}

StreamOver ==
    /\ stage = "stream" /\ pc # "reading"
    /\ stage' = "routing"
    /\ StreamForgotten
    /\ UNCHANGED <<routingVars, conversationVars>>

ConversationOver ==
    /\ stage = "body"
    /\ phase = "over" \/ (phase = "client" /\ turn = MaxTurns)
    /\ stage' = "routing"
    /\ Forgotten
    /\ UNCHANGED <<routingVars, streamVars>>

Next ==
    \/ stage = "routing" /\ RoutingNext /\ UNCHANGED <<stage, streamVars, conversationVars>>
    \/ \E r \in Requests : Forward(r)
    \/ stage = "stream" /\ StreamNext /\ UNCHANGED <<stage, routingVars, conversationVars>>
    \/ stage = "body" /\ ConversationNext(Serving) /\ UNCHANGED <<stage, routingVars, streamVars>>
    \/ StreamOver \/ ConversationOver

Spec == Init /\ [][Next]_vars
=============================================================================
