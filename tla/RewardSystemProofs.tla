-------------------------- MODULE RewardSystemProofs --------------------------
(***************************************************************************)
(* Theorems about RewardSystem: the claims behave as RewardClaim has them, *)
(* so that its theorems hold here too, what clients are told is true, and  *)
(* client, gateway and event server are a gateway as module Gateway has it.*)
(***************************************************************************)
EXTENDS RewardSystem, RewardClaimProofs

-----------------------------------------------------------------------------
(* The claims of the system are those of RewardClaim.                      *)

\* A step of the system is one of the event server, or none for it.
LEMMA SystemSteps == [SystemNext]_allVars => [Next]_vars
  BY DEF SystemNext, allVars, Ask, Arrive, Relay, GiveUp, Tell, RestartGateway, EventServerStep,
         Next, RequestStep

\* What is proved of RewardClaim's behaviours holds of the system's.
THEOREM SystemClaims == SystemSpec => Spec
  <1>1. SystemInit => Init
    BY DEF SystemInit
  <1>2. QED
    BY <1>1, SystemSteps, PTL DEF SystemSpec, Spec

-----------------------------------------------------------------------------
(* What the client is told.                                                *)

Statuses == {201, 400, 404, 409, 500, 503}

\* A request at the event server is one a client has asked for, on what it wants;
\* it is told one status, and the event server's only as that had it.
SystemInv(q) ==
    /\ pc[q] # "idle" => gate[q] # "idle" /\ target[q] = Wanted[q]
    /\ IF gate[q] = "done" THEN \E s \in Statuses : told[q] = <<s>> ELSE told[q] = <<>>
    /\ \A s \in {201, 400, 404, 409, 500} :
          told[q] = <<s>> => pc[q] = "done" /\ response[q] = s

GateTypeOK ==
    /\ gate \in [ClaimRequests -> {"idle", "forwarded", "done", "lost"}]
    /\ told \in [ClaimRequests -> Seq(Statuses)]
    /\ gateRestarts \in 0..MaxGateRestarts

\* The event server by itself takes up no request, and does not go back on one.
LEMMA ServerKeeps ==
  ASSUME ClaimInv, EventServerStep, NEW q \in ClaimRequests
  PROVE  /\ pc[q] = "idle" <=> pc'[q] = "idle"
         /\ target'[q] = target[q]
         /\ pc[q] = "done" => pc'[q] = "done" /\ response'[q] = response[q]
  <1>0. TypeOK /\ [Next]_vars
    BY DEF ClaimInv, EventServerStep, Next, RequestStep
  <1>1. ASSUME pc[q] = "idle" PROVE pc'[q] = "idle"
    <2>1. ASSUME NEW r \in ClaimRequests, ClaimStep(r) \/ ReadFails(r) \/ WriteFails(r)
          PROVE  pc'[q] = "idle"
      <3>1. pc[r] # "idle"
        BY <2>1 DEF ClaimStep, FindActiveEvent, FindReward, FindExistingClaim, SaveRejected,
                    SaveApproved, SavePaid, Reply, ReadFails, WriteFails, ReadSteps, WriteSteps
      <3>2. RequestStep(r) /\ r # q
        BY <1>1, <2>1, <3>1 DEF RequestStep
      <3>3. QED
        BY <1>0, <1>1, <3>2, OthersUntouched
    <2>2. CASE Crash
      BY <1>0, <1>1, <2>2 DEF Crash, InFlight, ReadSteps, WriteSteps, TypeOK
    <2>3. CASE Tick \/ OperatorStep
      BY <1>1, <2>3 DEF Tick, OperatorStep, claimVars, requestVars
    <2>4. QED
      BY <2>1, <2>2, <2>3 DEF EventServerStep
  <1>2. QED
    BY <1>0, <1>1, AnsweredStays

LEMMA GateTypesStep == GateTypeOK /\ AnswerInv /\ [SystemNext]_allVars => GateTypeOK'
  <1> SUFFICES ASSUME GateTypeOK, AnswerInv, [SystemNext]_allVars PROVE GateTypeOK'
    OBVIOUS
  <1>1. ASSUME NEW q \in ClaimRequests, NEW s \in Statuses, Tell(q, s) PROVE GateTypeOK'
    BY <1>1 DEF Tell, GateTypeOK
  <1>2. ASSUME NEW q \in ClaimRequests, Relay(q) \/ GiveUp(q) PROVE GateTypeOK'
    <2>1. pc[q] = "done" => response[q] \in Statuses
      BY DEF AnswerInv, AnswerTrue, Statuses
    <2>2. QED
      BY <1>1, <1>2, <2>1 DEF Relay, GiveUp, Statuses
  <1>3. CASE RestartGateway
    BY <1>3, SystemAssumption DEF RestartGateway, GateTypeOK
  <1>4. ASSUME NEW q \in ClaimRequests, Ask(q) \/ Arrive(q) PROVE GateTypeOK'
    BY <1>4 DEF Ask, Arrive, systemVars, GateTypeOK
  <1>5. CASE EventServerStep \/ UNCHANGED allVars
    BY <1>5 DEF EventServerStep, allVars, systemVars, GateTypeOK
  <1>6. QED
    BY <1>2, <1>3, <1>4, <1>5 DEF SystemNext

\* A step keeps what is known of each request.
LEMMA SystemInvStep ==
  ASSUME GateTypeOK, AnswerInv, [SystemNext]_allVars, NEW q \in ClaimRequests, SystemInv(q)
  PROVE  SystemInv(q)'
  <1>0. ClaimInv /\ TypeOK
    BY DEF AnswerInv, ClaimInv
  <1>1. ASSUME /\ gate'[q] = gate[q] \/ (gate[q] \in {"idle", "forwarded"} /\ gate'[q] \in {"forwarded", "lost"})
               /\ told'[q] = told[q]
               /\ pc'[q] # "idle" => pc[q] # "idle" /\ target'[q] = target[q]
               /\ pc[q] = "done" => pc'[q] = "done" /\ response'[q] = response[q]
        PROVE  SystemInv(q)'
    BY <1>1 DEF SystemInv
  <1>2. ASSUME NEW r \in ClaimRequests, Ask(r) PROVE SystemInv(q)'
    BY <1>1, <1>2 DEF Ask, vars, claimVars, GateTypeOK
  <1>3. ASSUME NEW r \in ClaimRequests, Arrive(r) PROVE SystemInv(q)'
    <2>1. CASE r = q
      BY <1>0, <1>3, <2>1 DEF Arrive, Submit, GoTo, systemVars, SystemInv, TypeOK
    <2>2. CASE r # q
      BY <1>0, <1>1, <1>3, <2>2 DEF Arrive, Submit, GoTo, systemVars, TypeOK
    <2>3. QED
      BY <2>1, <2>2
  <1>4. ASSUME NEW r \in ClaimRequests, NEW s \in Statuses, Tell(r, s), gate[r] = "forwarded",
               s \in {201, 400, 404, 409, 500} => pc[r] = "done" /\ response[r] = s
        PROVE  SystemInv(q)'
    <2>1. UNCHANGED vars
      BY <1>4 DEF Tell
    <2>2. CASE r = q
      <3>1. gate'[q] = "done" /\ told'[q] = <<s>>
        BY <1>4, <2>2 DEF Tell, GateTypeOK
      <3>2. \A t \in {201, 400, 404, 409, 500} : <<s>> = <<t>> => t = s
        OBVIOUS
      <3>3. QED
        BY <1>4, <2>1, <2>2, <3>1, <3>2 DEF SystemInv, vars, claimVars
    <2>3. CASE r # q
      BY <1>1, <1>4, <2>1, <2>3 DEF Tell, GateTypeOK, vars, claimVars
    <2>4. QED
      BY <2>2, <2>3
  <1>5. ASSUME NEW r \in ClaimRequests, Relay(r) \/ GiveUp(r) PROVE SystemInv(q)'
    <2>1. pc[r] = "done" => response[r] \in Statuses
      BY DEF AnswerInv, AnswerTrue, Statuses
    <2>2. QED
      BY <1>4, <1>5, <2>1 DEF Relay, GiveUp, Statuses
  <1>6. CASE RestartGateway
    BY <1>1, <1>6 DEF RestartGateway, vars, claimVars
  <1>7. CASE EventServerStep
    BY <1>0, <1>1, <1>7, ServerKeeps DEF EventServerStep, systemVars
  <1>8. CASE UNCHANGED allVars
    BY <1>1, <1>8 DEF allVars, systemVars, vars, claimVars
  <1>9. QED
    BY <1>2, <1>3, <1>5, <1>6, <1>7, <1>8 DEF SystemNext

WholeInv == AnswerInv /\ GateTypeOK /\ \A q \in ClaimRequests : SystemInv(q)

LEMMA WholeInvAlways == SystemSpec => []WholeInv
  <1> DEFINE Inv == GateTypeOK /\ \A q \in ClaimRequests : SystemInv(q)
  <1>1. SystemInit => Inv
    BY SystemAssumption DEF SystemInit, Init, GateTypeOK, SystemInv, Statuses
  <1>2. Inv /\ AnswerInv /\ [SystemNext]_allVars => Inv'
    BY GateTypesStep, SystemInvStep
  <1>3. Inv /\ AnswerInv => WholeInv
    BY DEF WholeInv
  <1> HIDE DEF Inv
  <1>4. QED
    BY <1>1, <1>2, <1>3, SystemClaims, AnswerInvAlways, PTL DEF SystemSpec

\* The parts of the system keep their types.
THEOREM SystemTypesCorrect == SystemSpec => []SystemTypeOK
  <1>1. WholeInv => SystemTypeOK
    BY DEF WholeInv, AnswerInv, ClaimInv, GateTypeOK, Statuses, SystemTypeOK
  <1>2. QED
    BY <1>1, WholeInvAlways, PTL

\* What a client is told is true and stays true, however often it asks again and
\* whatever times out, breaks or restarts between it and the claims.
THEOREM ClientsAreToldTheTruth == SystemSpec => []ToldIsTrue
  <1>1. WholeInv => ToldIsTrue
    <2> SUFFICES ASSUME WholeInv, NEW q \in ClaimRequests
                 PROVE  /\ told[q] = <<201>> => /\ Live(q)
                                               /\ claims[q].key = Wanted[q]
                                               /\ claims[q].status = "PAID"
                        /\ told[q] = <<409>> => \E p \in ClaimRequests \ {q} :
                              /\ Live(p) /\ claims[p].key = Wanted[q]
                              /\ gate[p] # "idle" /\ Wanted[p] = Wanted[q]
                        /\ told[q] \in {<<400>>, <<404>>} => ~Live(q)
      BY DEF ToldIsTrue
    <2>1. /\ SystemInv(q) /\ AnswerTrue(q) /\ Stored(q) /\ Progress(q)
          /\ \A p \in ClaimRequests : SystemInv(p) /\ Stored(p) /\ Progress(p)
      BY DEF WholeInv, AnswerInv, ClaimInv
    <2>2. ASSUME told[q] = << 201 >>
          PROVE  Live(q) /\ claims[q].key = Wanted[q] /\ claims[q].status = "PAID"
      <3>1. pc[q] = "done" /\ response[q] = 201 /\ target[q] = Wanted[q]
        BY <2>1, <2>2 DEF SystemInv
      <3>2. QED
        BY <2>1, <3>1 DEF AnswerTrue, Stored, Live, Uncounted
    <2>3. ASSUME told[q] = << 409 >>
          PROVE  \E p \in ClaimRequests \ {q} : /\ Live(p) /\ claims[p].key = Wanted[q]
                                                /\ gate[p] # "idle" /\ Wanted[p] = Wanted[q]
      <3>1. pc[q] = "done" /\ response[q] = 409 /\ target[q] = Wanted[q]
        BY <2>1, <2>3 DEF SystemInv
      <3>2. claims[q] = NoDoc /\ Held(Wanted[q])
        BY <2>1, <3>1 DEF AnswerTrue
      <3>3. PICK p \in ClaimRequests : Live(p) /\ claims[p].key = Wanted[q]
        BY <3>2 DEF Held
      <3>4. p # q /\ pc[p] # "idle" /\ target[p] = Wanted[q]
        BY <2>1, <3>2, <3>3 DEF Live, Progress, Stored
      <3>5. gate[p] # "idle" /\ Wanted[p] = Wanted[q]
        BY <2>1, <3>4 DEF SystemInv
      <3>6. QED
        BY <3>3, <3>4, <3>5
    <2>4. ASSUME told[q] \in {<< 400 >>, << 404 >>} PROVE ~Live(q)
      <3>1. pc[q] = "done" /\ response[q] \in {400, 404}
        BY <2>1, <2>4 DEF SystemInv
      <3>2. QED
        BY <2>1, <3>1 DEF AnswerTrue, Live, Uncounted
    <2>5. QED
      BY <2>2, <2>3, <2>4
  <1>2. QED
    BY <1>1, WholeInvAlways, PTL

-----------------------------------------------------------------------------
(* Asking again.                                                           *)

\* q repeats p: it was asked when p had told its client nothing, and where that was
\* because of a 500 that had left a live claim, q does not get past the check.
RepeatInv(p, q) ==
    Previous[q] = p /\ p # q =>
        /\ gate[q] # "idle" => LearnedNothing(p)
        /\ told[p] = <<500>> /\ Live(p) /\ Wanted[p] = Wanted[q] =>
              ~Live(q) /\ pc[q] # "saveApproved"

\* The gateway tells a request one thing at most, and a restart cuts it off for good.
LEMMA LearnedNothingStays ==
  ASSUME WholeInv, [SystemNext]_allVars, NEW p \in ClaimRequests
  PROVE  /\ gate[p] = "done" => gate'[p] = "done" /\ told'[p] = told[p]
         /\ gate[p] = "lost" => gate'[p] = "lost"
         /\ LearnedNothing(p) => LearnedNothing(p)'
         /\ told'[p] # told[p] => gate[p] = "forwarded" /\ UNCHANGED vars
  <1>1. /\ gate[p] = "done" => gate'[p] = "done" /\ told'[p] = told[p]
        /\ gate[p] = "lost" => gate'[p] = "lost"
        /\ told'[p] # told[p] => gate[p] = "forwarded" /\ UNCHANGED vars
    BY DEF WholeInv, GateTypeOK, SystemNext, Ask, Arrive, Relay, GiveUp, Tell, RestartGateway,
       EventServerStep, allVars, systemVars
  <1>2. told[p] \in {<<500>>, <<503>>} => gate[p] = "done"
    BY DEF WholeInv, SystemInv
  <1>3. QED
    BY <1>1, <1>2 DEF LearnedNothing

\* A step of the event server, seen from a request p that is over with a live claim
\* and from q, which wants the same: q stays without one.
LEMMA CheckBars ==
  ASSUME WholeInv, [Next]_vars, NEW p \in ClaimRequests, NEW q \in ClaimRequests, p # q,
         pc[p] = "done", Live(p)', Wanted[p] = Wanted[q],
         Live(p) => ~Live(q) /\ pc[q] # "saveApproved"
  PROVE  ~Live(q)' /\ pc'[q] # "saveApproved"
  <1> USE DEF WholeInv, AnswerInv, ClaimInv
  <1>1. UNCHANGED claims \/ \E r \in ClaimRequests : RequestStep(r) /\ Writes(r)
    BY RequestWrites, OtherStepsKeepClaims DEF Next
  <1>2. claims'[p] = claims[p]
    <2>1. ASSUME NEW r \in ClaimRequests, RequestStep(r), Writes(r) PROVE claims'[p] = claims[p]
      BY <2>1, OthersUntouched DEF Writes
    <2>2. QED
      BY <1>1, <2>1
  <1>3. Live(p) /\ ~Live(q) /\ pc[q] # "saveApproved"
    BY <1>2 DEF Live
  <1>4. CASE RequestStep(q)
    <2>1. ~Live(q)'
      <3>1. CASE UNCHANGED claims
        BY <1>3, <3>1 DEF Live
      <3>2. CASE Writes(q)
        <4>1. pc[q] # "savePaid"
          BY <1>3 DEF Progress, ApprovedUnpaid, Live, Uncounted
        <4>2. QED
          BY <1>3, <3>2, <4>1, WritesTyped DEF Writes, Live, Uncounted
      <3>3. QED
        BY <1>4, <3>1, <3>2, RequestWrites
    <2>2. pc'[q] # "saveApproved"
      <3>1. CASE FindExistingClaim(q)
        <4>1. target[q] = Wanted[q] /\ target[p] = Wanted[p] /\ claims[p].key = target[p]
          BY <1>3, <3>1 DEF FindExistingClaim, SystemInv, Stored, Live
        <4>2. Held(target[q])
          BY <1>3, <4>1 DEF Held
        <4>3. QED
          BY <3>1, <4>2 DEF FindExistingClaim, RespondWith, TypeOK
      <3>2. CASE ~FindExistingClaim(q)
        BY <1>3, <1>4, <3>2 DEF RequestStep, ClaimStep, Submit, FindActiveEvent, FindReward,
           SaveRejected, SaveApproved, SavePaid, Reply, ReadFails, WriteFails, GoTo,
           RespondWith, TypeOK
      <3>3. QED
        BY <3>1, <3>2
    <2>3. QED
      BY <2>1, <2>2
  <1>5. ASSUME NEW r \in ClaimRequests \ {q}, RequestStep(r)
        PROVE  ~Live(q)' /\ pc'[q] # "saveApproved"
    BY <1>3, <1>5, OthersUntouched DEF Live
  <1>6. CASE Crash \/ Tick \/ OperatorStep \/ UNCHANGED vars
    BY <1>3, <1>6 DEF Crash, Tick, OperatorStep, vars, claimVars, requestVars, Live
  <1>7. QED
    BY <1>4, <1>5, <1>6 DEF Next

LEMMA RepeatStep ==
  ASSUME WholeInv, [SystemNext]_allVars, NEW p \in ClaimRequests, NEW q \in ClaimRequests,
         RepeatInv(p, q)
  PROVE  RepeatInv(p, q)'
  <1> USE DEF WholeInv
  <1> SUFFICES ASSUME Previous[q] = p, p # q
               PROVE  /\ gate'[q] # "idle" => LearnedNothing(p)'
                      /\ told'[p] = << 500 >> /\ Live(p)' /\ Wanted[p] = Wanted[q] =>
                            ~Live(q)' /\ pc'[q] # "saveApproved"
    BY DEF RepeatInv
  <1>1. gate'[q] # "idle" => LearnedNothing(p)'
    <2>1. gate[q] = "idle" /\ gate'[q] # "idle" => Ask(q)
      BY DEF GateTypeOK, SystemNext, Ask, Arrive, Relay, GiveUp, Tell, RestartGateway,
         EventServerStep, allVars, systemVars
    <2>2. Ask(q) => LearnedNothing(p)
      BY DEF Ask
    <2>3. QED
      BY <2>1, <2>2, LearnedNothingStays DEF RepeatInv
  <1>2. ASSUME told'[p] = << 500 >>, Live(p)', Wanted[p] = Wanted[q]
        PROVE  ~Live(q)' /\ pc'[q] # "saveApproved"
    <2>1. CASE told[p] = << 500 >>
      <3>1. pc[p] = "done" /\ (Live(p) => ~Live(q) /\ pc[q] # "saveApproved")
        BY <1>2, <2>1 DEF SystemInv, RepeatInv
      <3>2. QED
        BY <1>2, <3>1, CheckBars, SystemSteps
    <2>2. CASE told[p] # <<500>>
      <3>1. gate[p] = "forwarded" /\ UNCHANGED vars
        BY <1>2, <2>2, LearnedNothingStays
      <3>2. told[p] = <<>>
        BY <3>1 DEF SystemInv
      <3>3. ~LearnedNothing(p)
        BY <3>1, <3>2 DEF LearnedNothing
      <3>4. pc[q] = "idle" /\ claims[q] = NoDoc
        BY <3>3 DEF RepeatInv, SystemInv, AnswerInv, ClaimInv, Progress
      <3>5. QED
        BY <3>1, <3>4 DEF vars, claimVars, Live
    <2>3. QED
      BY <2>1, <2>2
  <1>3. QED
    BY <1>1, <1>2

\* A client that asks again for the same is granted it twice only if the gateway had
\* given its first request up, by the timeout or a restart: the event server's own
\* answers, its errors too, leave no second grant to be had.
THEOREM TwiceOnlyIfGivenUp == SystemSpec => []TwiceOnlyAfterTimeout
  <1>1. SystemInit => \A p, q \in ClaimRequests : RepeatInv(p, q)
    BY DEF SystemInit, Init, RepeatInv, Live
  <1>2. WholeInv /\ (\A p, q \in ClaimRequests : RepeatInv(p, q)) /\ [SystemNext]_allVars =>
           (\A p, q \in ClaimRequests : RepeatInv(p, q))'
    BY RepeatStep
  <1>3. WholeInv /\ (\A p, q \in ClaimRequests : RepeatInv(p, q)) => TwiceOnlyAfterTimeout
    <2> SUFFICES ASSUME WholeInv, NEW p \in ClaimRequests, NEW q \in ClaimRequests,
                        RepeatInv(p, q), Previous[q] = p, p # q, Wanted[p] = Wanted[q],
                        Live(p), Live(q)
                 PROVE  told[p] = << 503 >> \/ gate[p] = "lost"
      BY DEF TwiceOnlyAfterTimeout
    <2>1. gate[q] # "idle"
      BY DEF WholeInv, SystemInv, AnswerInv, ClaimInv, Progress, Live
    <2>2. QED
      BY <2>1 DEF RepeatInv, LearnedNothing
  <1>4. QED
    BY <1>1, <1>2, <1>3, WholeInvAlways, PTL DEF SystemSpec

\* The claims of the whole system are a ledger.
THEOREM SystemImplementsLedger == SystemSpec => ImplementsLedger
  BY SystemClaims, ClaimsImplementLedger

\* Operators see the catalogue behind the whole system take their calls one by one.
THEOREM SystemCatalogueIsAtomic == SystemSpec => ImplementsAtomicCatalog
  BY SystemClaims, ClaimsKeepCatalogueAtomic

-----------------------------------------------------------------------------
(* The system is a gateway with a service.                                 *)

\* The variables of Gateway, as the system has them.
MappedAsked == [q \in ClaimRequests |-> IF gate[q] = "idle" THEN <<>> ELSE ClaimCall]
MappedWork == [q \in ClaimRequests |-> WorkAt(q)]
MappedOutcome == [q \in ClaimRequests |-> IF pc[q] = "done" THEN StatusClass(response[q]) ELSE 0]
MappedAnswers == [q \in ClaimRequests |-> [i \in DOMAIN told[q] |-> StatusClass(told[q][i])]]

ClaimRoute == TheGateway!Route("POST", <<"reward-claims">>, {"USER"})

\* The registry has one entry for POST /reward-claims.
LEMMA ClaimEntry ==
  /\ ClaimRoute \in TheGateway!staticServiceRegistry["event-service"]
  /\ \A r \in TheGateway!staticServiceRegistry["event-service"] :
        r.path = <<"reward-claims">> /\ r.method = "POST" => r = ClaimRoute
  <1>1. TheGateway!staticServiceRegistry["event-service"] = TheGateway!EventService
    BY DEF TheGateway!staticServiceRegistry, TheGateway!Services
  <1>2. /\ <<"health">> # <<"reward-claims">>
        /\ <<"events">> # <<"reward-claims">>
        /\ <<"rewards">> # <<"reward-claims">>
        /\ <<"reward-claims", "me">> # <<"reward-claims">>
        /\ \A name : <<name, ":id">> # <<"reward-claims">>
    OBVIOUS
  <1>3. ASSUME NEW r \in TheGateway!EventService, r.path = <<"reward-claims">>, r.method = "POST"
        PROVE  r = ClaimRoute
    BY <1>2, <1>3 DEF TheGateway!EventService, TheGateway!Catalogue, TheGateway!Route, ClaimRoute
  <1>4. ClaimRoute \in TheGateway!EventService
    BY DEF TheGateway!EventService, ClaimRoute
  <1>5. QED
    BY <1>1, <1>3, <1>4

\* The guards let a claim of a user pass, and the handler lets it in.
LEMMA ClaimsPass ==
  /\ TheGateway!GuardStatus(ClaimCall.call, ClaimCall.bearer) = 0
  /\ ClaimCall.bearer \in TheGateway!Bearers
  /\ ClaimRoute \in TheGateway!HandlerOf(ClaimCall.call)
  <1> DEFINE c == ClaimCall.call
  <1>0. /\ c.service = "event-service" /\ c.method = "POST" /\ c.path = <<"reward-claims">>
        /\ ClaimCall.bearer.token = "valid" /\ ClaimCall.bearer.roles = {"USER"}
    BY DEF ClaimCall
  <1>1. /\ ClaimRoute.path = <<"reward-claims">> /\ ClaimRoute.method = "POST"
        /\ ClaimRoute.roles = {"USER"}
    BY DEF ClaimRoute, TheGateway!Route
  <1> HIDE DEF c
  <1>2. TheGateway!Permission(c) = {"USER"}
    <2>1. "event-service" \in TheGateway!Services
      BY DEF TheGateway!Services
    <2>2. {r \in TheGateway!staticServiceRegistry[c.service] :
              r.path = c.path /\ r.method = c.method} = {ClaimRoute}
      BY <1>0, <1>1, ClaimEntry
    <2>3. UNION {r.roles : r \in {ClaimRoute}} = {"USER"}
      BY <1>1
    <2>4. QED
      BY <1>0, <2>1, <2>2, <2>3 DEF TheGateway!Permission
  <1>3. TheGateway!GuardStatus(c, ClaimCall.bearer) = 0
    BY <1>0, <1>2 DEF TheGateway!GuardStatus, TheGateway!TokenStatus, TheGateway!RoleStatus
  <1>4. ClaimCall.bearer \in TheGateway!Bearers
    BY DEF ClaimCall, TheGateway!Bearers
  <1>5. ClaimRoute \in TheGateway!Handlers["event-service"]
    <2>1. ClaimRoute \in TheGateway!RewardClaimController
      BY DEF ClaimRoute, TheGateway!RewardClaimController
    <2>2. QED
      BY <2>1 DEF TheGateway!Handlers, TheGateway!Services
  <1>6. TheGateway!Fits(c.path, ClaimRoute.path)
    BY <1>0, <1>1 DEF TheGateway!Fits
  <1>7. ClaimRoute \in TheGateway!HandlerOf(c)
    BY <1>0, <1>1, <1>5, <1>6 DEF TheGateway!HandlerOf, TheGateway!RouteOf
  <1>8. QED
    BY <1>3, <1>4, <1>7 DEF c

MappedVars == <<gate, MappedAsked, MappedWork, MappedOutcome, MappedAnswers, gateRestarts>>

\* The statuses a client was told, as Gateway has them.
AnswersOf(q) == [i \in DOMAIN told[q] |-> StatusClass(told[q][i])]

LEMMA MappedSequences ==
  ASSUME NEW q \in ClaimRequests
  PROVE  /\ told[q] = <<>> => AnswersOf(q) = <<>>
         /\ \A s : told[q] = <<s>> => AnswersOf(q) = <<StatusClass(s)>>
  <1>1. DOMAIN <<>> = {} /\ \A s : DOMAIN <<s>> = {1} /\ <<s>>[1] = s
    OBVIOUS
  <1>2. \A f : [i \in {} |-> StatusClass(f[i])] = <<>>
    OBVIOUS
  <1>3. \A f : [i \in {1} |-> StatusClass(f[i])] = <<StatusClass(f[1])>>
    OBVIOUS
  <1>4. QED
    BY <1>1, <1>2, <1>3 DEF AnswersOf

LEMMA MapInit == SystemInit => TheGateway!GatewayInit
  <1> SUFFICES ASSUME SystemInit PROVE TheGateway!GatewayInit
    OBVIOUS
  <1>1. \A q \in ClaimRequests : gate[q] = "idle" /\ pc[q] = "idle" /\ told[q] = <<>>
    BY DEF SystemInit, Init
  <1>2. MappedAsked = [q \in ClaimRequests |-> <<>>]
    BY <1>1 DEF MappedAsked
  <1>3. MappedWork = [q \in ClaimRequests |-> "none"]
    BY <1>1 DEF MappedWork, WorkAt
  <1>4. MappedOutcome = [q \in ClaimRequests |-> 0]
    BY <1>1 DEF MappedOutcome
  <1>5. MappedAnswers = [q \in ClaimRequests |-> <<>>]
    BY <1>1, MappedSequences DEF MappedAnswers, AnswersOf
  <1>6. QED
    BY <1>2, <1>3, <1>4, <1>5
       DEF SystemInit, TheGateway!GatewayInit, TheGateway!Nothing, MappedAsked, MappedWork,
           MappedOutcome, MappedAnswers

\* Asking is the gateway's receiving a call and forwarding it.
LEMMA AskReceives == ASSUME WholeInv, NEW q \in ClaimRequests, Ask(q) PROVE TheGateway!Receive(q)
  <1> DEFINE c == ClaimCall.call
             bearer == ClaimCall.bearer
  <1>0. GateTypeOK /\ pc[q] = "idle" /\ gate[q] = "idle"
    BY DEF WholeInv, SystemInv, Ask
  <1>1. /\ gate' = [gate EXCEPT ![q] = "forwarded"]
        /\ UNCHANGED <<pc, response, told, gateRestarts>>
    BY DEF Ask, vars, claimVars
  <1>2. MappedAsked' = [MappedAsked EXCEPT ![q] = [call |-> c, bearer |-> bearer,
                                                   inDatabase |-> {"USER"}]]
    BY <1>0, <1>1 DEF GateTypeOK, MappedAsked, ClaimCall
  <1>3. MappedWork' = [MappedWork EXCEPT ![q] = "sent"]
    <2>1. gate'[q] = "forwarded" /\ \A r \in ClaimRequests : r # q => gate'[r] = gate[r]
      BY <1>0, <1>1 DEF GateTypeOK
    <2>2. WorkAt(q)' = "sent" /\ \A r \in ClaimRequests : r # q => WorkAt(r)' = WorkAt(r)
      BY <1>0, <1>1, <2>1 DEF WorkAt
    <2>3. QED
      BY <2>2 DEF MappedWork
  <1>4. UNCHANGED <<MappedOutcome, MappedAnswers, gateRestarts>>
    BY <1>1 DEF MappedOutcome, MappedAnswers
  <1>5. c \in {ClaimCall.call} /\ {"USER"} \in {{"USER"}}
    OBVIOUS
  <1> HIDE DEF c, bearer
  <1>6. QED
    BY <1>0, <1>1, <1>2, <1>3, <1>4, <1>5, ClaimsPass
       DEF TheGateway!Receive, MappedAsked, MappedWork, MappedOutcome, MappedAnswers, c, bearer

\* A status told is the gateway's answering with it.
LEMMA TellAnswers ==
  ASSUME WholeInv, NEW q \in ClaimRequests, NEW s, gate[q] = "forwarded", Tell(q, s)
  PROVE  TheGateway!AnswerWith(q, <<StatusClass(s)>>)
  <1>0. GateTypeOK /\ told[q] = <<>>
    BY DEF WholeInv, SystemInv
  <1>1. /\ gate' = [gate EXCEPT ![q] = "done"] /\ told' = [told EXCEPT ![q] = <<s>>]
        /\ UNCHANGED <<pc, response, gateRestarts>>
    BY DEF Tell, vars, claimVars
  <1>2. \A r \in ClaimRequests : gate'[r] = "idle" <=> gate[r] = "idle"
    BY <1>0, <1>1 DEF GateTypeOK
  <1>3. UNCHANGED <<MappedAsked, MappedWork, MappedOutcome>>
    BY <1>1, <1>2 DEF MappedAsked, MappedWork, WorkAt, MappedOutcome
  <1>4. MappedAnswers' = [MappedAnswers EXCEPT ![q] = <<StatusClass(s)>>]
    <2>1. told'[q] = <<s>> /\ \A r \in ClaimRequests : r # q => told'[r] = told[r]
      BY <1>0, <1>1 DEF GateTypeOK
    <2>2. AnswersOf(q)' = <<StatusClass(s)>>
      <3>1. DOMAIN <<s>> = {1} /\ <<s>>[1] = s
        OBVIOUS
      <3>2. [i \in {1} |-> StatusClass(<<s>>[i])] = <<StatusClass(s)>>
        BY <3>1
      <3>3. QED
        BY <2>1, <3>1, <3>2 DEF AnswersOf
    <2>3. \A r \in ClaimRequests : r # q => AnswersOf(r)' = AnswersOf(r)
      BY <2>1 DEF AnswersOf
    <2>4. QED
      BY <2>2, <2>3 DEF MappedAnswers, AnswersOf
  <1>5. QED
    BY <1>1, <1>3, <1>4
       DEF TheGateway!AnswerWith, MappedAsked, MappedWork, MappedOutcome, MappedAnswers

\* A relayed answer is relayed, and one given up is given up.
LEMMA RelayRelays == ASSUME WholeInv, NEW q \in ClaimRequests, Relay(q)
                     PROVE  TheGateway!Relay(q) \/ TheGateway!RelayError(q)
  <1>0. gate[q] = "forwarded" /\ pc[q] = "done" /\ response[q] \in {201, 400, 404, 409, 500}
    BY DEF Relay, WholeInv, AnswerInv, AnswerTrue
  <1>1. PICK s \in {201, 400, 404, 409, 500} : s = response[q]
    BY <1>0
  <1>2. TheGateway!AnswerWith(q, <<StatusClass(s)>>)
    BY <1>0, <1>1, TellAnswers DEF Relay
  <1>3. PICK c \in {200, 400, 500} : c = StatusClass(s)
    BY DEF StatusClass
  <1>4. TheGateway!AnswerWith(q, <<c>>)
    BY <1>2, <1>3
  <1>5. MappedOutcome[q] = c
    BY <1>0, <1>1, <1>3 DEF MappedOutcome
  <1>6. CASE c = 500
    <2>1. TheGateway!Caught(<<500>>) = <<500>>
      BY DEF TheGateway!Caught
    <2>2. TheGateway!AnswerWith(q, TheGateway!Caught(<<500>>))
      BY <1>4, <1>6, <2>1
    <2>3. TheGateway!Caught(<<MappedOutcome[q]>>) = TheGateway!Caught(<<500>>)
      BY <1>5, <1>6
    <2>4. TheGateway!AnswerWith(q, TheGateway!Caught(<<MappedOutcome[q]>>))
      BY <2>2, <2>3 DEF TheGateway!AnswerWith
    <2>5. MappedOutcome[q] >= 500
      BY <1>5, <1>6
    <2>6. QED
      BY <1>0, <2>4, <2>5 DEF TheGateway!RelayError, MappedOutcome
  <1>7. CASE c # 500
    <2>1. MappedOutcome[q] \in 200..499
      BY <1>3, <1>5, <1>7
    <2>2. TheGateway!AnswerWith(q, <<MappedOutcome[q]>>)
      BY <1>4, <1>5 DEF TheGateway!AnswerWith
    <2>3. QED
      BY <1>0, <2>1, <2>2 DEF TheGateway!Relay, MappedOutcome
  <1>8. QED
    BY <1>6, <1>7

LEMMA GiveUpGivesUp == ASSUME WholeInv, NEW q \in ClaimRequests, GiveUp(q)
                       PROVE  TheGateway!GiveUp(q)
  <1>1. gate[q] = "forwarded" /\ TheGateway!AnswerWith(q, <<StatusClass(503)>>)
    BY TellAnswers DEF GiveUp
  <1>2. StatusClass(503) = 503 /\ TheGateway!Caught(<<503>>) = <<503>>
    BY DEF StatusClass, TheGateway!Caught
  <1>3. QED
    BY <1>1, <1>2 DEF TheGateway!GiveUp

\* A restart of the gateway is one.
LEMMA RestartRestarts == ASSUME WholeInv, RestartGateway PROVE TheGateway!Restart
  <1>1. /\ gate' = [q \in ClaimRequests |-> IF gate[q] = "forwarded" THEN "lost" ELSE gate[q]]
        /\ UNCHANGED <<pc, response, told>>
    BY DEF RestartGateway, vars, claimVars
  <1>2. \A r \in ClaimRequests : gate'[r] = "idle" <=> gate[r] = "idle"
    BY <1>1
  <1>3. UNCHANGED <<MappedAsked, MappedWork, MappedOutcome, MappedAnswers>>
    BY <1>1, <1>2 DEF MappedAsked, MappedWork, WorkAt, MappedOutcome, MappedAnswers
  <1>4. QED
    BY <1>1, <1>3 DEF RestartGateway, TheGateway!Restart, MappedAsked, MappedWork, MappedOutcome,
                      MappedAnswers

\* While no answer leaves the event server, the gateway's view does not change.
LEMMA NoAnswerStutters ==
  ASSUME UNCHANGED systemVars,
         \A q \in ClaimRequests : /\ pc'[q] = "done" <=> pc[q] = "done"
                                  /\ pc[q] = "done" => response'[q] = response[q]
  PROVE  UNCHANGED MappedVars
  <1>1. UNCHANGED MappedAsked /\ UNCHANGED MappedAnswers /\ UNCHANGED <<gate, gateRestarts>>
    BY DEF systemVars, MappedAsked, MappedAnswers
  <1>2. \A q \in ClaimRequests : WorkAt(q)' = WorkAt(q)
    BY DEF systemVars, WorkAt
  <1>3. UNCHANGED MappedWork /\ UNCHANGED MappedOutcome
    BY <1>2 DEF MappedWork, MappedOutcome, StatusClass
  <1>4. QED
    BY <1>1, <1>3 DEF MappedVars

\* The status the service has for q, as Gateway has it.
OutcomeOf(q) == IF pc[q] = "done" THEN StatusClass(response[q]) ELSE 0

\* An answer that leaves the event server is the service's coming to an end.
LEMMA ReplyServes ==
  ASSUME WholeInv, NEW q \in ClaimRequests, Reply(q), UNCHANGED systemVars
  PROVE  TheGateway!Serve(q)
  <1>0. /\ TypeOK /\ pc[q] = "reply" /\ gate[q] # "idle"
        /\ response[q] \in {201, 400, 404, 409, 500}
        /\ UNCHANGED <<gate, told, gateRestarts, response>>
    BY DEF Reply, WholeInv, AnswerInv, AnswerTrue, ClaimInv, SystemInv, systemVars
  <1>1. pc'[q] = "done" /\ \A r \in ClaimRequests : r # q => pc'[r] = pc[r]
    BY <1>0 DEF Reply, TypeOK
  <1>2. PICK s \in {201, 400, 404, 409, 500} : s = response[q]
    BY <1>0
  <1>3. PICK how \in {"carriedOut", "failed", "rejected"} :
           how = IF s = 201 THEN "carriedOut" ELSE IF s = 500 THEN "failed" ELSE "rejected"
    OBVIOUS
  <1>4. PICK status \in {200, 400, 500} : status = StatusClass(s)
    BY DEF StatusClass
  <1>5. MappedWork' = [MappedWork EXCEPT ![q] = how]
    <2>1. WorkAt(q)' = how
      BY <1>0, <1>1, <1>2, <1>3 DEF WorkAt
    <2>2. \A r \in ClaimRequests : r # q => WorkAt(r)' = WorkAt(r)
      BY <1>0, <1>1 DEF WorkAt
    <2>3. QED
      BY <2>1, <2>2 DEF MappedWork
  <1>6. MappedOutcome' = [MappedOutcome EXCEPT ![q] = status]
    <2>1. OutcomeOf(q)' = status
      BY <1>0, <1>1, <1>2, <1>4 DEF OutcomeOf, StatusClass
    <2>2. \A r \in ClaimRequests : r # q => OutcomeOf(r)' = OutcomeOf(r)
      BY <1>0, <1>1 DEF OutcomeOf, StatusClass
    <2>3. /\ MappedOutcome = [r \in ClaimRequests |-> OutcomeOf(r)]
          /\ MappedOutcome' = [r \in ClaimRequests |-> OutcomeOf(r)']
      BY DEF MappedOutcome, OutcomeOf
    <2>4. QED
      BY <2>1, <2>2, <2>3
  <1>7. UNCHANGED MappedAsked /\ UNCHANGED MappedAnswers
    BY <1>0 DEF MappedAsked, MappedAnswers
  <1>8. TheGateway!Ends(q, how, status)
    BY <1>0, <1>5, <1>6, <1>7
       DEF TheGateway!Ends, MappedAsked, MappedWork, MappedOutcome, MappedAnswers
  <1>9. \/ how = "carriedOut" /\ status = 200
        \/ how = "rejected" /\ status = 400
        \/ how = "failed" /\ status = 500
    BY <1>3, <1>4 DEF StatusClass
  <1>10. MappedWork[q] = "sent" /\ MappedAsked[q] = ClaimCall
    BY <1>0 DEF MappedWork, WorkAt, MappedAsked
  <1>11. TheGateway!LetIn(q)
    <2>1. ClaimCall.call.service # "auth-service" /\ ClaimCall.bearer.roles = {"USER"}
      BY DEF ClaimCall
    <2>2. TheGateway!CallerRoles(q) = {"USER"}
      BY <1>10, <2>1 DEF TheGateway!CallerRoles, MappedAsked
    <2>3. ClaimRoute.roles = {"USER"}
      BY DEF ClaimRoute, TheGateway!Route
    <2>4. QED
      BY <1>10, <2>2, <2>3, ClaimsPass DEF TheGateway!LetIn, MappedAsked
  <1>12. QED
    BY <1>8, <1>9, <1>10, <1>11 DEF TheGateway!Serve, MappedWork

\* Every step of the system is a step of the gateway, or none.
LEMMA MapStep ==
  ASSUME WholeInv, [SystemNext]_allVars
  PROVE  [TheGateway!GatewayNext]_MappedVars
  <1>0. AnswerInv /\ ClaimInv /\ TypeOK
    BY DEF WholeInv, AnswerInv, ClaimInv
  <1>1. ASSUME NEW q \in ClaimRequests, Ask(q) \/ Relay(q) \/ GiveUp(q)
        PROVE  TheGateway!GatewayNext
    BY <1>1, AskReceives, RelayRelays, GiveUpGivesUp DEF TheGateway!GatewayNext
  <1>2. CASE RestartGateway
    BY <1>2, RestartRestarts DEF TheGateway!GatewayNext
  <1>3. ASSUME NEW q \in ClaimRequests, Arrive(q) PROVE UNCHANGED MappedVars
    <2>1. /\ pc[q] = "idle" /\ pc' = [pc EXCEPT ![q] = "findActiveEvent"]
          /\ UNCHANGED <<systemVars, response>>
      BY <1>3 DEF Arrive, Submit, GoTo
    <2>2. QED
      BY <1>0, <2>1, NoAnswerStutters DEF TypeOK
  <1>4. ASSUME NEW q \in ClaimRequests, Reply(q), UNCHANGED systemVars
        PROVE  TheGateway!GatewayNext
    BY <1>4, ReplyServes DEF TheGateway!GatewayNext
  <1>5. ASSUME EventServerStep, \A q \in ClaimRequests : ~Reply(q)
        PROVE  UNCHANGED MappedVars
    <2>1. ASSUME NEW q \in ClaimRequests, pc'[q] = "done" PROVE pc[q] = "done"
      <3>1. ASSUME NEW r \in ClaimRequests, ClaimStep(r) \/ ReadFails(r) \/ WriteFails(r)
            PROVE  pc[q] = "done"
        <4>1. RequestStep(r) /\ ~Reply(r)
          BY <1>5, <3>1 DEF RequestStep
        <4>2. r # q => pc'[q] = pc[q]
          BY <1>0, <4>1, OthersUntouched
        <4>3. r # q
          BY <1>0, <2>1, <3>1, <4>1
             DEF ClaimStep, FindActiveEvent, FindReward, FindExistingClaim, SaveRejected,
                 SaveApproved, SavePaid, ReadFails, WriteFails, GoTo, RespondWith, TypeOK
        <4>4. QED
          BY <2>1, <4>2, <4>3
      <3>2. CASE Crash
        BY <1>0, <2>1, <3>2 DEF Crash, TypeOK
      <3>3. CASE Tick \/ OperatorStep
        BY <2>1, <3>3 DEF Tick, OperatorStep, claimVars, requestVars
      <3>4. QED
        BY <1>5, <3>1, <3>2, <3>3 DEF EventServerStep
    <2>2. QED
      BY <1>0, <1>5, <2>1, ServerKeeps, NoAnswerStutters DEF EventServerStep
  <1>6. CASE UNCHANGED allVars
    BY <1>6, NoAnswerStutters DEF allVars, vars, claimVars
  <1>7. QED
    BY <1>1, <1>2, <1>3, <1>4, <1>5, <1>6 DEF SystemNext, EventServerStep

\* Client, gateway and event server together behave as Gateway lets a gateway
\* and a service behave, retries and late answers included.
THEOREM SystemImplementsGateway == SystemSpec => ImplementsGateway
  <1>1. WholeInv /\ [SystemNext]_allVars => [TheGateway!GatewayNext]_MappedVars
    BY MapStep
  <1>2. QED
    BY <1>1, MapInit, WholeInvAlways, PTL
       DEF SystemSpec, ImplementsGateway, TheGateway!GatewaySpec, TheGateway!gatewayVars,
           MappedVars, MappedAsked, MappedWork, MappedOutcome, MappedAnswers

=============================================================================
