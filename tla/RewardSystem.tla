---------------------------- MODULE RewardSystem ----------------------------
(***************************************************************************)
(* A claim from end to end: a user's client that asks the gateway and asks *)
(* again when it learns nothing, the gateway with its timeout, and the     *)
(* event server, which handles what arrives whoever still waits for it.    *)
(* The client's token is valid and its role is USER: what the guards do    *)
(* otherwise is in Gateway.                                                *)
(***************************************************************************)
EXTENDS RewardClaim, Sequences

CONSTANTS Wanted,          \* what each request claims
          Previous,        \* the request it repeats, or Undefined
          MaxGateRestarts  \* bound: restarts of the gateway

VARIABLES gate,          \* where each request is in the gateway
          told,          \* the statuses the gateway has sent to the client
          gateRestarts   \* restarts so far

systemVars == <<gate, told, gateRestarts>>
allVars == <<vars, systemVars>>

ASSUME SystemAssumption ==
    /\ Wanted \in [ClaimRequests -> Keys]
    /\ Previous \in [ClaimRequests -> Maybe(ClaimRequests)]
    /\ MaxGateRestarts \in Nat

SystemInit ==
    /\ Init
    /\ gate = [q \in ClaimRequests |-> "idle"]
    /\ told = [q \in ClaimRequests |-> <<>>]
    /\ gateRestarts = 0

\* The client learned nothing from q: an error, a timeout, or no answer at all.
LearnedNothing(q) == gate[q] = "lost" \/ told[q] \in {<<500>>, <<503>>}

\* The client posts a claim, or repeats one it learned nothing from; the guards
\* let it pass and the gateway forwards it.
Ask(q) ==
    /\ gate[q] = "idle"
    /\ \A p \in ClaimRequests : Previous[q] = p => LearnedNothing(p)
    /\ gate' = [gate EXCEPT ![q] = "forwarded"]
    /\ UNCHANGED <<vars, told, gateRestarts>>

\* The forwarded request reaches the event server, be it after the gateway has
\* given it up.
Arrive(q) ==
    /\ gate[q] # "idle"
    /\ Submit(q)
    /\ target' = [target EXCEPT ![q] = Wanted[q]]
    /\ UNCHANGED systemVars

Tell(q, status) ==
    /\ gate' = [gate EXCEPT ![q] = "done"]
    /\ told' = [told EXCEPT ![q] = <<status>>]
    /\ UNCHANGED <<vars, gateRestarts>>

\* (Slip: the proxy answers for the service that the claim was accepted.)
RelayAccepted(q) ==
    /\ gate[q] = "forwarded"
    /\ pc[q] # "idle"
    /\ Tell(q, 201)

\* The answer of the event server is relayed as it is.
Relay(q) ==
    /\ gate[q] = "forwarded"
    /\ pc[q] = "done"
    /\ Tell(q, response[q])

\* (Slip: only a broken connection is given up.)
GiveUpOnBroken(q) ==
    /\ gate[q] = "forwarded"
    /\ pc[q] = "lost"
    /\ Tell(q, 503)

\* (Slip: the status of a response that did not come is passed on.)
GiveUpUnanswered(q) ==
    /\ gate[q] = "forwarded"
    /\ Tell(q, response[q])

\* The timeout, or a connection that breaks or is refused.
GiveUp(q) ==
    /\ gate[q] = "forwarded"
    /\ Tell(q, 503)

\* (Slip: a gateway that starts again answers what it had forwarded.)
RestartTelling ==
    /\ gateRestarts < MaxGateRestarts
    /\ gateRestarts' = gateRestarts + 1
    /\ told' = [q \in ClaimRequests |-> IF gate[q] = "forwarded" THEN <<500>> ELSE told[q]]
    /\ UNCHANGED <<vars, gate>>

\* The gateway restarts: its clients' connections break, what it forwarded goes on.
RestartGateway ==
    /\ gateRestarts < MaxGateRestarts
    /\ gateRestarts' = gateRestarts + 1
    /\ gate' = [q \in ClaimRequests |-> IF gate[q] = "forwarded" THEN "lost" ELSE gate[q]]
    /\ UNCHANGED <<vars, told>>

\* The event server goes on by itself.
EventServerStep ==
    /\ \/ \E q \in ClaimRequests : ClaimStep(q) \/ ReadFails(q) \/ WriteFails(q)
       \/ Crash
       \/ Tick
       \/ OperatorStep
    /\ UNCHANGED systemVars

SystemNext ==
    \/ \E q \in ClaimRequests : Ask(q) \/ Arrive(q) \/ Relay(q) \/ GiveUp(q)
    \/ RestartGateway
    \/ EventServerStep

SystemSpec == SystemInit /\ [][SystemNext]_allVars

\* The event server handles what has arrived, and the gateway's timer fires in the
\* end; no client has to ask, and no request has to arrive.
SystemFairSpec ==
    /\ SystemSpec
    /\ \A q \in ClaimRequests : WF_allVars(ClaimStep(q) /\ UNCHANGED systemVars)
                                  /\ WF_allVars(GiveUp(q))

-----------------------------------------------------------------------------
(* Properties.                                                             *)

SystemTypeOK ==
    /\ TypeOK
    /\ gate \in [ClaimRequests -> {"idle", "forwarded", "done", "lost"}]
    /\ told \in [ClaimRequests -> Seq({201, 400, 404, 409, 500, 503})]
    /\ gateRestarts \in 0..MaxGateRestarts

\* What the client has been told holds at the event server, however many times it
\* has asked: after 201 the request's own claim is live on what it wants, and paid;
\* after 409 a claim is that another request of the client asked for; after 400
\* and 404 the request has no live claim.
ToldIsTrue ==
    \A q \in ClaimRequests :
        /\ told[q] = <<201>> => /\ Live(q)
                               /\ claims[q].key = Wanted[q]
                               /\ claims[q].status = "PAID"
        /\ told[q] = <<409>> => \E p \in ClaimRequests \ {q} :
              /\ Live(p) /\ claims[p].key = Wanted[q]
              /\ gate[p] # "idle" /\ Wanted[p] = Wanted[q]
        /\ told[q] \in {<<400>>, <<404>>} => ~Live(q)

\* A client that repeats what it has asked for is granted it twice only if the
\* gateway gave the first request up, by its timeout or a restart: an answer of the
\* event server, 500 as well, comes when the first claim is already to be seen.
TwiceOnlyAfterTimeout ==
    \A p, q \in ClaimRequests :
        Previous[q] = p /\ p # q /\ Wanted[p] = Wanted[q] /\ Live(p) /\ Live(q) =>
            told[p] = <<503>> \/ gate[p] = "lost"

-----------------------------------------------------------------------------
(* The gateway of module Gateway, with the event server for its service.    *)

ClaimCall == [call |-> [service |-> "event-service", method |-> "POST",
                        path |-> <<"reward-claims">>],
              bearer |-> [token |-> "valid", roles |-> {"USER"}],
              inDatabase |-> {"USER"}]

\* The statuses of Gateway stand for classes of those of a claim.
StatusClass(status) ==
    IF status = 201 THEN 200 ELSE IF status \in {404, 409} THEN 400 ELSE status

\* Nothing comes back from a request until its answer has left the event server.
WorkAt(q) ==
    IF gate[q] = "idle" THEN "none"
    ELSE IF pc[q] # "done" THEN "sent"
    ELSE IF response[q] = 201 THEN "carriedOut"
    ELSE IF response[q] = 500 THEN "failed" ELSE "rejected"

TheGateway == INSTANCE Gateway WITH
    Calls <- {ClaimCall.call}, RoleSets <- {{"USER"}}, GatewayRequests <- ClaimRequests,
    MaxRestarts <- MaxGateRestarts, restarts <- gateRestarts,
    asked <- [q \in ClaimRequests |-> IF gate[q] = "idle" THEN <<>> ELSE ClaimCall],
    work <- [q \in ClaimRequests |-> WorkAt(q)],
    outcome <- [q \in ClaimRequests |->
                   IF pc[q] = "done" THEN StatusClass(response[q]) ELSE 0],
    answers <- [q \in ClaimRequests |->
                   [i \in DOMAIN told[q] |-> StatusClass(told[q][i])]]

\* Client, gateway and event server together are a gateway as module Gateway has
\* it: the event server is one of the services that module allows.
ImplementsGateway == TheGateway!GatewaySpec

\* Every claim a client asks for gets an answer from the gateway, or loses its
\* connection to a restart, whatever the event server does.
EveryAskEnds == TheGateway!EveryForwardedCallEnds

=============================================================================
