------------------------------- MODULE Gateway -------------------------------
(***************************************************************************)
(* A call through the gateway: JwtAuthGuard and RolesGuard, the forwarded  *)
(* request with its timeout, the service that handles it, and the answer.  *)
(* The gateway and the service are two processes: the service may go on    *)
(* with a call the gateway has given up.                                   *)
(***************************************************************************)
EXTENDS GatewayRoutes

CONSTANTS Calls,          \* service, method and path of what clients ask for
          RoleSets,       \* the roles a user may have
          GatewayRequests,\* the requests of a behaviour, each used once
          MaxRestarts     \* bound: restarts of the gateway

VARIABLES gate,       \* where each request is in the gateway
          asked,      \* the call, its token, and the caller's roles in the database
          work,       \* what has become of it at the service
          outcome,    \* the status the service has for it
          answers,    \* the statuses the gateway has sent to the client
          restarts    \* how many so far

gatewayVars == <<gate, asked, work, outcome, answers, restarts>>

\* What stands in the Authorization header.  Roles of no token are empty.
Bearers == [token : {"valid", "expired"}, roles : RoleSets]
              \cup [token : {"missing", "malformed"}, roles : {{}}]

ASSUME GatewayAssumption ==
    /\ \A c \in Calls : c.path \in Seq(STRING)
    /\ RoleSets \subseteq SUBSET Role
    /\ MaxRestarts \in Nat

Nothing == <<>>

-----------------------------------------------------------------------------
(* The guards of the gateway.                                              *)

\* What JwtAuthStrategy makes of the header: the status it throws, or 0.
TokenStatus(bearer) ==
    CASE bearer.token \in {"missing", "malformed"} -> 400
      [] bearer.token = "expired" -> 401
      [] OTHER -> 0

\* (Slip: every role of the entry is asked for.)
RoleStatusOfAll(c, bearer) == IF Permission(c) \subseteq bearer.roles THEN 0 ELSE 403

\* What RolesGuard makes of the roles in a valid token.
RoleStatus(c, bearer) == IF Permission(c) \cap bearer.roles = {} THEN 403 ELSE 0

\* JwtAuthGuard, then RolesGuard.  A public route is not asked for a token.
GuardStatus(c, bearer) ==
    CASE Permission(c) = {} -> 404
      [] "PUBLIC" \in Permission(c) -> 0
      [] OTHER -> IF TokenStatus(bearer) # 0 THEN TokenStatus(bearer)
                  ELSE RoleStatus(c, bearer)

-----------------------------------------------------------------------------
(* The guards of the service that handles the call.                        *)

\* (Slip: auth-server takes the roles from the header as event-server does.)
HeaderRoles(q) == asked[q].bearer.roles

\* The roles RolesGuard tests: event-server's strategy takes them from the
\* gateway's header, auth-server's reads the user in the database.
CallerRoles(q) ==
    IF asked[q].call.service = "auth-service" THEN asked[q].inDatabase
    ELSE asked[q].bearer.roles

\* The handler lets the call of q in.
LetIn(q) ==
    \E r \in HandlerOf(asked[q].call) : "PUBLIC" \in r.roles \/ r.roles \cap CallerRoles(q) # {}

-----------------------------------------------------------------------------
GatewayInit ==
    /\ gate = [q \in GatewayRequests |-> "idle"]
    /\ asked = [q \in GatewayRequests |-> Nothing]
    /\ work = [q \in GatewayRequests |-> "none"]
    /\ outcome = [q \in GatewayRequests |-> 0]
    /\ answers = [q \in GatewayRequests |-> <<>>]
    /\ restarts = 0

\* A request comes in; its token is the caller's, whose roles may have been
\* changed since it was issued.  Guards refuse it, or it is on its way to the service.
Receive(q) ==
    /\ gate[q] = "idle"
    /\ \E c \in Calls, bearer \in Bearers, current \in RoleSets :
          LET status == GuardStatus(c, bearer)
          IN  /\ asked' = [asked EXCEPT ![q] = [call |-> c, bearer |-> bearer,
                                                inDatabase |-> current]]
              /\ \/ /\ status = 0
                    /\ gate' = [gate EXCEPT ![q] = "forwarded"]
                    /\ work' = [work EXCEPT ![q] = "sent"]
                    /\ UNCHANGED answers
                 \/ /\ status # 0
                    /\ gate' = [gate EXCEPT ![q] = "done"]
                    /\ answers' = [answers EXCEPT ![q] = <<status>>]
                    /\ UNCHANGED work
    /\ UNCHANGED <<outcome, restarts>>

\* The service comes to an end with q, whoever still waits for it.
Ends(q, how, status) ==
    /\ work' = [work EXCEPT ![q] = how]
    /\ outcome' = [outcome EXCEPT ![q] = status]
    /\ UNCHANGED <<gate, asked, answers, restarts>>

\* The service's routes and guards, then its handler: 200 stands for any success
\* and 400 for what validation and the handler's own checks turn away.
Serve(q) ==
    /\ work[q] = "sent"
    /\ \/ HandlerOf(asked[q].call) = {} /\ Ends(q, "refused", 404)
       \/ HandlerOf(asked[q].call) # {} /\ ~LetIn(q) /\ Ends(q, "refused", 403)
       \/ LetIn(q) /\ \/ Ends(q, "carriedOut", 200)
                      \/ Ends(q, "rejected", 400)
                      \/ Ends(q, "failed", 500)

\* The connection is refused, or the service stops before it does anything.
Lost(q) == work[q] = "sent" /\ Ends(q, "lost", 0)

\* (Slip: the outer catch answers without looking at headersSent.)
CaughtAnyway(sent) == Append(sent, 500)

\* The outer catch of proxyRequest, with what has been sent already.
Caught(sent) == IF sent = <<>> THEN <<500>> ELSE sent

AnswerWith(q, statuses) ==
    /\ gate' = [gate EXCEPT ![q] = "done"]
    /\ answers' = [answers EXCEPT ![q] = statuses]
    /\ UNCHANGED <<asked, work, outcome, restarts>>

\* (Slip: the status of the service is left out of the answer.)
RelayAsSuccess(q) ==
    /\ gate[q] = "forwarded"
    /\ outcome[q] \in 200..499
    /\ AnswerWith(q, <<200>>)

\* A status validateStatus accepts is relayed as it is.
Relay(q) ==
    /\ gate[q] = "forwarded"
    /\ outcome[q] \in 200..499
    /\ AnswerWith(q, <<outcome[q]>>)

\* Any other goes through catchError, which relays it and throws.
RelayError(q) ==
    /\ gate[q] = "forwarded"
    /\ outcome[q] >= 500
    /\ AnswerWith(q, Caught(<<outcome[q]>>))

\* (Slip: no timeout, only broken connections.)
GiveUpOnBroken(q) ==
    /\ gate[q] = "forwarded"
    /\ work[q] = "lost"
    /\ AnswerWith(q, Caught(<<503>>))

\* (Slip: catchError answers with the status of a response that did not come.)
GiveUpUnanswered(q) ==
    /\ gate[q] = "forwarded"
    /\ AnswerWith(q, Caught(<<outcome[q]>>))

\* The timeout, or a connection that breaks: a request was made and no response
\* came, and catchError answers 503 and throws.
GiveUp(q) ==
    /\ gate[q] = "forwarded"
    /\ AnswerWith(q, Caught(<<503>>))

\* Axios cannot make the request: there is neither a response nor a request, and
\* catchError answers 500 and throws.
CannotRequest(q) ==
    /\ gate[q] = "forwarded"
    /\ work[q] = "sent"
    /\ gate' = [gate EXCEPT ![q] = "done"]
    /\ answers' = [answers EXCEPT ![q] = Caught(<<500>>)]
    /\ work' = [work EXCEPT ![q] = "lost"]
    /\ UNCHANGED <<asked, outcome, restarts>>

\* Relaying the response throws before anything is sent, over a header that cannot
\* be set, say: the outer catch is the one that answers.
RelayFails(q) ==
    /\ gate[q] = "forwarded"
    /\ outcome[q] \in 200..499
    /\ AnswerWith(q, Caught(<<>>))

\* The gateway restarts: what it had forwarded goes on without it.
Restart ==
    /\ restarts < MaxRestarts
    /\ restarts' = restarts + 1
    /\ gate' = [q \in GatewayRequests |-> IF gate[q] = "forwarded" THEN "lost" ELSE gate[q]]
    /\ UNCHANGED <<asked, work, outcome, answers>>

GatewayNext ==
    \/ \E q \in GatewayRequests :
          \/ Receive(q) \/ Serve(q) \/ Lost(q)
          \/ Relay(q) \/ RelayError(q) \/ GiveUp(q) \/ CannotRequest(q) \/ RelayFails(q)
    \/ Restart

GatewaySpec == GatewayInit /\ [][GatewayNext]_gatewayVars

\* The timer of a forwarded call fires in the end; services promise nothing.
GatewayFairSpec == GatewaySpec /\ \A q \in GatewayRequests : WF_gatewayVars(GiveUp(q))

-----------------------------------------------------------------------------
(* Properties.                                                             *)

GatewayTypeOK ==
    /\ gate \in [GatewayRequests -> {"idle", "forwarded", "done", "lost"}]
    /\ asked \in [GatewayRequests ->
                     {Nothing} \cup [call : Calls, bearer : Bearers, inDatabase : RoleSets]]
    /\ work \in [GatewayRequests -> {"none", "sent", "carriedOut", "rejected", "refused",
                                     "failed", "lost"}]
    /\ outcome \in [GatewayRequests -> {0, 200, 400, 403, 404, 500}]
    /\ answers \in [GatewayRequests -> Seq({200, 400, 401, 403, 404, 500, 503})]
    /\ restarts \in 0..MaxRestarts

\* A request has one answer when the gateway is through with it, on the error
\* paths too, and none before.
OneAnswer ==
    \A q \in GatewayRequests : Len(answers[q]) = IF gate[q] = "done" THEN 1 ELSE 0

\* A client that is told of success has had its call carried out, whatever timed
\* out, broke or restarted on the way.
SuccessIsCarriedOut ==
    \A q \in GatewayRequests : answers[q] = <<200>> => work[q] = "carriedOut"

\* A role the documents name for the call of q.
Entitled(q, roles) ==
    LET named == Documented(asked[q].call) IN "PUBLIC" \in named \/ named \cap roles # {}

\* Nothing is carried out but for a documented role: one in the token when the
\* gateway saw it, and for auth-server one the user still has.
CarriedOutForARole ==
    \A q \in GatewayRequests : work[q] = "carriedOut" =>
        /\ Entitled(q, asked[q].bearer.roles)
        /\ asked[q].call.service = "auth-service" => Entitled(q, asked[q].inDatabase)

\* The gateway keeps from the services what the documents name no role for: a
\* call is forwarded on a documented role or on the default one, by a valid token
\* if the route is not public.
ForwardedForARole ==
    \A q \in GatewayRequests : work[q] # "none" =>
        \/ "PUBLIC" \in Documented(asked[q].call)
        \/ /\ asked[q].bearer.token = "valid"
           /\ asked[q].bearer.roles \cap (Documented(asked[q].call) \cup DefaultRoles) # {}

\* The registry has an entry with the very path of c.
OwnEntry(c) ==
    c.service \in Services /\ \E r \in staticServiceRegistry[c.service] :
                                  r.path = c.path /\ r.method = c.method

\* Whom the gateway itself turns away: nobody from a public route, whatever the
\* token, and with 403 a caller of no documented role, or on a path the registry
\* has with a parameter, or not at all, one who is no administrator.  And whom the
\* @Roles of a service turn away then: a caller whose roles, as that service reads
\* them, are not documented, but for GET /users/me, which the documents open to all.
RefusedWithReason ==
    \A q \in GatewayRequests :
        /\ work[q] = "none" /\ answers[q] # <<>> =>
              /\ "PUBLIC" \notin Documented(asked[q].call)
              /\ answers[q] = <<403>> =>
                    \/ ~Entitled(q, asked[q].bearer.roles)
                    \/ ~OwnEntry(asked[q].call) /\ asked[q].bearer.roles \cap DefaultRoles = {}
        /\ work[q] = "refused" /\ outcome[q] = 403 =>
              \/ ~Entitled(q, CallerRoles(q))
              \/ asked[q].call.path = <<"users", "me">>

\* A forwarded call is answered even if the service never is.
EveryForwardedCallEnds ==
    \A q \in GatewayRequests : gate[q] = "forwarded" ~> gate[q] \in {"done", "lost"}

\* The gateway refuses with 403 only a token without a role the README names:
\* "GET /events/:id ... ADMIN, OPERATOR", and the like.
DocumentedRolesAreForwarded ==
    \A q \in GatewayRequests : answers[q] = <<403>> /\ work[q] = "none" =>
        ~Entitled(q, asked[q].bearer.roles)

=============================================================================
