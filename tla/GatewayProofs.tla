---------------------------- MODULE GatewayProofs ----------------------------
(***************************************************************************)
(* Theorems about Gateway, for any calls, tokens and number of requests:   *)
(* its types, one answer to each request, the truth of success, and the    *)
(* roles that stand behind whatever is forwarded and carried out.          *)
(***************************************************************************)
EXTENDS Gateway, TLAPS

(* The tables.                                                             *)

\* The paths of the tables differ from each other.
LEMMA PathsDiffer ==
  /\ <<"health">> # <<"users", "me">>
  /\ <<"auth", "login">> # <<"users", "me">>
  /\ <<"users", "register">> # <<"users", "me">>
  /\ <<"users", ":username">> # <<"users", "me">>
  /\ <<"users", ":username", "roles">> # <<"users", "me">>
  /\ \A name : <<name>> # <<"users", "me">> /\ <<name, ":id">> # <<"users", "me">>
  /\ <<"reward-claims", "me">> # <<"users", "me">>
  OBVIOUS

\* The route of the own profile, in the registry and in the controller.
OwnProfile == Route("GET", <<"users", "me">>, Role)
OwnProfileHandler == Route("GET", <<"users", "me">>, {"USER", "ADMIN"})

\* But for the own profile, the controllers name the roles the registry names.
LEMMA TablesAgree ==
  ASSUME NEW s \in Services
  PROVE  /\ \A r \in staticServiceRegistry[s] : r \in Handlers[s] \/ r = OwnProfile
         /\ \A h \in Handlers[s] : \/ h \in staticServiceRegistry[s]
                                   \/ h = OwnProfileHandler /\ OwnProfile \in staticServiceRegistry[s]
         /\ OwnProfile \in staticServiceRegistry[s] => OwnProfileHandler \in Handlers[s]
  <1>1. CASE s = "auth-service"
    <2>1. /\ staticServiceRegistry[s] = AuthService
          /\ Handlers[s] = HealthController \cup AuthController \cup UserController
      BY <1>1 DEF staticServiceRegistry, Handlers
    <2>2. QED
      BY <2>1 DEF AuthService, HealthController, AuthController, UserController, OwnProfile,
                  OwnProfileHandler
  <1>2. CASE s # "auth-service"
    <2>1. /\ staticServiceRegistry[s] = EventService
          /\ Handlers[s] = HealthController \cup EventController \cup RewardController
                              \cup RewardClaimController
      BY <1>2 DEF staticServiceRegistry, Handlers
    <2>2. \A name : Catalogue(name) =
             {Route("POST", <<name>>, {"ADMIN", "OPERATOR"}),
              Route("GET", <<name>>, {"ADMIN", "OPERATOR"}),
              Route("GET", <<name, ":id">>, {"ADMIN", "OPERATOR"}),
              Route("PUT", <<name, ":id">>, {"ADMIN", "OPERATOR"})}
      BY DEF Catalogue, Operators
    <2>3. Handlers[s] = staticServiceRegistry[s]
      BY <2>1, <2>2 DEF EventService, HealthController, EventController, RewardController,
                        RewardClaimController, Auditors
    <2>4. ASSUME NEW r \in EventService PROVE r.path # <<"users", "me">>
      BY <2>2, PathsDiffer DEF EventService, Route
    <2>5. OwnProfile \notin staticServiceRegistry[s]
      BY <2>1, <2>4 DEF OwnProfile, Route
    <2>6. QED
      BY <2>3, <2>5
  <1>3. QED
    BY <1>1, <1>2

\* The two routes of the own profile differ in their roles only.
LEMMA OwnProfileRoutes ==
  /\ OwnProfile.method = "GET" /\ OwnProfileHandler.method = "GET"
  /\ OwnProfile.path = <<"users", "me">> /\ OwnProfileHandler.path = <<"users", "me">>
  /\ OwnProfileHandler.roles \subseteq OwnProfile.roles
  BY DEF OwnProfile, OwnProfileHandler, Route, Role

\* Every entry of auth-server is public or open to an administrator.
LEMMA AdministratorsAreNamed ==
  ASSUME NEW r \in staticServiceRegistry["auth-service"]
  PROVE  "PUBLIC" \in r.roles \/ "ADMIN" \in r.roles
  BY DEF Services, staticServiceRegistry, AuthService, Route, Public, Role

\* A handler asks for no role but those documented for its route.
LEMMA HandlersAreDocumented ==
  ASSUME NEW c, c.service \in Services, NEW h \in HandlerOf(c)
  PROVE  h.roles \subseteq Documented(c)
  <1> DEFINE table == staticServiceRegistry[c.service]
             fitting == {r \in table : r.method = c.method /\ Fits(c.path, r.path)}
  <1>1. /\ h \in Handlers[c.service] /\ h.method = c.method /\ Fits(c.path, h.path)
        /\ (\E g \in Handlers[c.service] :
               g.method = c.method /\ Fits(c.path, g.path) /\ g.path = c.path)
              => h.path = c.path
    BY DEF HandlerOf, RouteOf
  <1>2. PICK r \in table : /\ r.method = h.method /\ r.path = h.path
                           /\ h.roles \subseteq r.roles
    BY <1>1, TablesAgree, OwnProfileRoutes
  <1>3. ASSUME NEW g \in fitting, g.path = c.path PROVE r.path = c.path
    <2>1. \E f \in Handlers[c.service] : f.method = g.method /\ f.path = g.path
      BY TablesAgree, OwnProfileRoutes
    <2>2. QED
      BY <1>1, <1>2, <1>3, <2>1
  <1>4. r \in RouteOf(table, c)
    BY <1>1, <1>2, <1>3 DEF RouteOf
  <1>5. QED
    BY <1>2, <1>4 DEF Documented

\* A route the documents name for a call, but for the own profile, has a handler
\* with the same roles.
LEMMA DocumentedAreHandled ==
  ASSUME NEW c, c.service \in Services, c.path \in Seq(STRING), c.path # <<"users", "me">>,
         NEW r \in RouteOf(staticServiceRegistry[c.service], c)
  PROVE  r \in HandlerOf(c)
  <1> DEFINE table == staticServiceRegistry[c.service]
  <1>1. /\ r \in table /\ r.method = c.method /\ Fits(c.path, r.path)
        /\ (\E g \in table : g.method = c.method /\ Fits(c.path, g.path) /\ g.path = c.path)
              => r.path = c.path
    BY DEF RouteOf
  <1>2. r # OwnProfile
    <2> SUFFICES ASSUME r = OwnProfile PROVE FALSE
      OBVIOUS
    <2>1. r.path = <<"users", "me">>
      BY OwnProfileRoutes
    <2>2. Len(c.path) = 2 /\ c.path[1] = "users" /\ c.path[2] = "me"
      BY <1>1, <2>1 DEF Fits
    <2>3. QED
      BY <2>2
  <1>3. r \in Handlers[c.service]
    BY <1>1, <1>2, TablesAgree
  <1>4. ASSUME NEW g \in Handlers[c.service], g.method = c.method, Fits(c.path, g.path),
               g.path = c.path
        PROVE  r.path = c.path
    <2>1. g # OwnProfileHandler
      BY <1>4, OwnProfileRoutes
    <2>2. QED
      BY <1>1, <1>4, <2>1, TablesAgree
  <1>5. QED
    BY <1>1, <1>3, <1>4 DEF HandlerOf, RouteOf

\* What the gateway's lookup finds is documented, or the default.
LEMMA LookupIsDocumented ==
  ASSUME NEW c, Permission(c) # {}
  PROVE  /\ c.service \in Services
         /\ Permission(c) \subseteq Documented(c) \/ Permission(c) = DefaultRoles
  <1>1. c.service \in Services
    BY DEF Permission
  <1> DEFINE entries == {r \in staticServiceRegistry[c.service] :
                            r.path = c.path /\ r.method = c.method}
  <1>2. entries \subseteq RouteOf(staticServiceRegistry[c.service], c)
    BY DEF RouteOf, Fits
  <1>3. QED
    BY <1>1, <1>2 DEF Permission, Documented

\* What the documents say of a call with an entry of its own is what the lookup finds.
LEMMA OwnEntryIsFound ==
  ASSUME NEW c, OwnEntry(c)
  PROVE  Permission(c) = Documented(c)
  <1> DEFINE table == staticServiceRegistry[c.service]
             entries == {r \in table : r.path = c.path /\ r.method = c.method}
  <1>1. c.service \in Services /\ entries # {}
    BY DEF OwnEntry
  <1>2. \A r \in table : r.path = c.path => Fits(c.path, r.path)
    BY DEF Fits
  <1>3. RouteOf(table, c) = entries
    BY <1>1, <1>2 DEF RouteOf
  <1>4. QED
    BY <1>1, <1>3 DEF Permission, Documented

\* The public routes have no parameters.
LEMMA PublicRoutes ==
  ASSUME NEW s \in Services, NEW r \in staticServiceRegistry[s], "PUBLIC" \in r.roles
  PROVE  r.path \in {<<"health">>, <<"auth", "login">>}
  <1>1. CASE s = "auth-service"
    BY <1>1 DEF staticServiceRegistry, AuthService, Route, Role
  <1>2. CASE s # "auth-service"
    BY <1>2 DEF staticServiceRegistry, EventService, Catalogue, Route, Operators, Auditors
  <1>3. QED
    BY <1>1, <1>2

\* So a call of a public route has an entry of its own.
LEMMA PublicIsOwn ==
  ASSUME NEW c, c.path \in Seq(STRING), "PUBLIC" \in Documented(c)
  PROVE  OwnEntry(c)
  <1>1. c.service \in Services
    BY DEF Documented
  <1>2. PICK r \in staticServiceRegistry[c.service] :
           r.method = c.method /\ Fits(c.path, r.path) /\ "PUBLIC" \in r.roles
    BY <1>1 DEF Documented, RouteOf
  <1>3. CASE r.path = <<"health">>
    <2>1. Len(c.path) = 1 /\ c.path[1] = "health"
      BY <1>2, <1>3 DEF Fits
    <2>2. c.path = <<"health">>
      BY <2>1
    <2>3. QED
      BY <1>1, <1>2, <1>3, <2>2 DEF OwnEntry
  <1>4. CASE r.path = <<"auth", "login">>
    <2>1. Len(c.path) = 2 /\ c.path[1] = "auth" /\ c.path[2] = "login"
      BY <1>2, <1>4 DEF Fits
    <2>2. c.path = <<"auth", "login">>
      BY <2>1
    <2>3. QED
      BY <1>1, <1>2, <1>4, <2>2 DEF OwnEntry
  <1>5. QED
    BY <1>1, <1>2, <1>3, <1>4, PublicRoutes

-----------------------------------------------------------------------------
(* The guards.                                                             *)

\* What the guards let pass is public, or carries a valid token with a role.
LEMMA GuardsPass ==
  ASSUME NEW c, NEW bearer \in Bearers
  PROVE  /\ GuardStatus(c, bearer) \in {0, 400, 401, 403, 404}
         /\ GuardStatus(c, bearer) = 0 =>
               /\ Permission(c) # {}
               /\ \/ "PUBLIC" \in Permission(c)
                  \/ bearer.token = "valid" /\ Permission(c) \cap bearer.roles # {}
  <1>1. bearer.token \in {"valid", "expired", "missing", "malformed"}
    BY DEF Bearers
  <1>2. TokenStatus(bearer) \in {0, 400, 401} /\ (TokenStatus(bearer) = 0 => bearer.token = "valid")
    BY <1>1 DEF TokenStatus
  <1>3. RoleStatus(c, bearer) \in {0, 403}
        /\ (RoleStatus(c, bearer) = 0 => Permission(c) \cap bearer.roles # {})
    BY DEF RoleStatus
  <1>4. QED
    BY <1>2, <1>3 DEF GuardStatus

\* Whom the gateway let through, a role of the token stands behind.
PassedGuards(q) ==
    GuardStatus(asked[q].call, asked[q].bearer) = 0

\* What is forwarded for a role is forwarded for a documented one or the default.
LEMMA PassedForARole ==
  ASSUME NEW q, asked[q].bearer \in Bearers, PassedGuards(q)
  PROVE  \/ "PUBLIC" \in Documented(asked[q].call)
         \/ /\ asked[q].bearer.token = "valid"
            /\ asked[q].bearer.roles \cap (Documented(asked[q].call) \cup DefaultRoles) # {}
  <1>1. "PUBLIC" \notin DefaultRoles
    BY DEF DefaultRoles
  <1>2. QED
    BY <1>1, GuardsPass, LookupIsDocumented DEF PassedGuards

\* What a service lets in after the gateway is let in for a documented role.
LEMMA LetInForARole ==
  ASSUME NEW q, asked[q].bearer \in Bearers, PassedGuards(q), LetIn(q)
  PROVE  /\ Entitled(q, asked[q].bearer.roles)
         /\ asked[q].call.service = "auth-service" => Entitled(q, asked[q].inDatabase)
  <1> DEFINE c == asked[q].call
  <1>1. c.service \in Services
    BY GuardsPass, LookupIsDocumented DEF PassedGuards
  <1>2. PICK h \in HandlerOf(c) : "PUBLIC" \in h.roles \/ h.roles \cap CallerRoles(q) # {}
    BY DEF LetIn
  <1>3. h.roles \subseteq Documented(c)
    BY <1>1, HandlersAreDocumented
  <1>4. Entitled(q, CallerRoles(q))
    BY <1>2, <1>3 DEF Entitled
  <1>5. CASE c.service # "auth-service"
    BY <1>4, <1>5 DEF CallerRoles
  <1>6. CASE c.service = "auth-service"
    <2>1. Entitled(q, asked[q].inDatabase)
      BY <1>4, <1>6 DEF CallerRoles
    <2>2. "PUBLIC" \in Documented(c) \/ "ADMIN" \in Documented(c)
      <3>1. PICK r \in RouteOf(staticServiceRegistry["auth-service"], c) : TRUE
        BY <1>2, <1>3, <1>6 DEF Documented
      <3>2. r \in staticServiceRegistry["auth-service"]
        BY <3>1 DEF RouteOf
      <3>3. QED
        BY <1>1, <1>6, <3>1, <3>2, AdministratorsAreNamed DEF Documented
    <2>3. Entitled(q, asked[q].bearer.roles)
      BY <2>2, PassedForARole DEF Entitled, DefaultRoles
    <2>4. QED
      BY <2>1, <2>3
  <1>7. QED
    BY <1>5, <1>6

-----------------------------------------------------------------------------
(* The inductive invariant.                                                *)

AskedCalls == [call : Calls, bearer : Bearers, inDatabase : RoleSets]

Statuses == {200, 400, 401, 403, 404, 500, 503}

\* A request is answered once; what is at the service was let through, and what
\* the service did it was let in for; a 200 anywhere comes from work carried out.
RequestInv(q) ==
    /\ gate[q] = "idle" => work[q] = "none"
    /\ IF gate[q] = "done" THEN \E s \in Statuses : answers[q] = <<s>> ELSE answers[q] = <<>>
    /\ work[q] # "none" => asked[q] \in AskedCalls /\ PassedGuards(q)
    /\ work[q] = "carriedOut" => LetIn(q)
    /\ outcome[q] = 200 => work[q] = "carriedOut"
    /\ answers[q] = <<200>> => work[q] = "carriedOut"

GatewayInv ==
    /\ GatewayTypeOK
    /\ \A q \in GatewayRequests : RequestInv(q)

\* The steps of one request.
RequestStep(q) ==
    \/ Receive(q) \/ Serve(q) \/ Lost(q)
    \/ Relay(q) \/ RelayError(q) \/ GiveUp(q) \/ CannotRequest(q) \/ RelayFails(q)

\* A request that was let through keeps what it asked.
LEMMA RequestStays ==
  ASSUME NEW q \in GatewayRequests, RequestInv(q),
         gate'[q] = gate[q] \/ (gate[q] = "forwarded" /\ gate'[q] = "lost"),
         asked'[q] = asked[q], work'[q] = work[q], outcome'[q] = outcome[q],
         answers'[q] = answers[q]
  PROVE  RequestInv(q)'
  BY DEF RequestInv, PassedGuards, LetIn, CallerRoles

\* A step of one request leaves the others.
LEMMA OthersUntouched ==
  ASSUME GatewayTypeOK, NEW q \in GatewayRequests, RequestStep(q),
         NEW r \in GatewayRequests, r # q
  PROVE  /\ gate'[r] = gate[r] /\ asked'[r] = asked[r] /\ work'[r] = work[r]
         /\ outcome'[r] = outcome[r] /\ answers'[r] = answers[r]
  BY DEF GatewayTypeOK, RequestStep, Receive, Serve, Lost, Ends, Relay, RelayError, GiveUp,
         CannotRequest, RelayFails, AnswerWith

\* What the gateway answers is one status.
LEMMA AnsweredOnce ==
  ASSUME GatewayInv, NEW q \in GatewayRequests, NEW s \in Statuses, gate[q] = "forwarded",
         AnswerWith(q, <<s>>), s = 200 => work[q] = "carriedOut"
  PROVE  GatewayTypeOK' /\ RequestInv(q)'
  <1>0. GatewayTypeOK /\ RequestInv(q)
    BY DEF GatewayInv
  <1>1. answers' \in [GatewayRequests -> Seq(Statuses)]
    BY <1>0 DEF AnswerWith, GatewayTypeOK, Statuses
  <1>2. GatewayTypeOK'
    BY <1>0, <1>1 DEF AnswerWith, GatewayTypeOK, Statuses
  <1>3. gate'[q] = "done" /\ answers'[q] = <<s>>
    BY <1>0 DEF AnswerWith, GatewayTypeOK
  <1>4. UNCHANGED <<asked, work, outcome>>
    BY DEF AnswerWith
  <1>5. QED
    BY <1>0, <1>2, <1>3, <1>4 DEF RequestInv, PassedGuards, LetIn, CallerRoles

\* What the service makes of a request has one of its statuses.
LEMMA EndedOnce ==
  ASSUME GatewayInv, NEW q \in GatewayRequests, work[q] = "sent",
         NEW how \in {"carriedOut", "rejected", "refused", "failed", "lost"},
         NEW s \in {0, 200, 400, 403, 404, 500}, Ends(q, how, s),
         s = 200 <=> how = "carriedOut", how = "carriedOut" => LetIn(q)
  PROVE  GatewayTypeOK' /\ RequestInv(q)'
  <1>0. GatewayTypeOK /\ RequestInv(q)
    BY DEF GatewayInv
  <1>1. GatewayTypeOK'
    BY <1>0 DEF Ends, GatewayTypeOK
  <1>2. work'[q] = how /\ outcome'[q] = s /\ UNCHANGED <<gate, asked, answers>>
    BY <1>0 DEF Ends, GatewayTypeOK
  <1>3. answers[q] # <<200>>
    BY <1>0 DEF RequestInv
  <1>4. QED
    BY <1>0, <1>1, <1>2, <1>3 DEF RequestInv, PassedGuards, LetIn, CallerRoles

\* A step of q keeps the types and what is known of q.
LEMMA OwnStep ==
  ASSUME GatewayInv, NEW q \in GatewayRequests, RequestStep(q)
  PROVE  GatewayTypeOK' /\ RequestInv(q)'
  <1>0. GatewayTypeOK /\ RequestInv(q)
    BY DEF GatewayInv
  <1>1. CASE Receive(q)
    <2>1. PICK c \in Calls, bearer \in Bearers, current \in RoleSets :
             /\ asked' = [asked EXCEPT ![q] = [call |-> c, bearer |-> bearer,
                                              inDatabase |-> current]]
             /\ \/ /\ GuardStatus(c, bearer) = 0
                   /\ gate' = [gate EXCEPT ![q] = "forwarded"]
                   /\ work' = [work EXCEPT ![q] = "sent"]
                   /\ UNCHANGED answers
                \/ /\ GuardStatus(c, bearer) # 0
                   /\ gate' = [gate EXCEPT ![q] = "done"]
                   /\ answers' = [answers EXCEPT ![q] = <<GuardStatus(c, bearer)>>]
                   /\ UNCHANGED work
      BY <1>1 DEF Receive
    <2>2. /\ gate[q] = "idle" /\ work[q] = "none" /\ answers[q] = <<>> /\ outcome[q] # 200
          /\ UNCHANGED <<outcome, restarts>>
      BY <1>0, <1>1 DEF Receive, RequestInv
    <2> DEFINE ask == [call |-> c, bearer |-> bearer, inDatabase |-> current]
    <2>3. ask \in AskedCalls /\ ask.call = c /\ ask.bearer = bearer
      BY DEF AskedCalls
    <2> HIDE DEF ask
    <2>4. /\ asked' \in [GatewayRequests -> {Nothing} \cup AskedCalls]
          /\ asked'[q] = ask
      BY <1>0, <2>1, <2>3 DEF GatewayTypeOK, AskedCalls, ask
    <2>5. CASE GuardStatus(c, bearer) = 0
      <3>1. /\ gate' = [gate EXCEPT ![q] = "forwarded"] /\ work' = [work EXCEPT ![q] = "sent"]
            /\ UNCHANGED answers
        BY <2>1, <2>5
      <3>2. GatewayTypeOK'
        BY <1>0, <2>2, <2>4, <3>1 DEF GatewayTypeOK, AskedCalls
      <3>3. gate'[q] = "forwarded" /\ work'[q] = "sent" /\ PassedGuards(q)'
        BY <1>0, <2>3, <2>4, <2>5, <3>1 DEF GatewayTypeOK, PassedGuards
      <3>4. answers'[q] = <<>> /\ <<>> # <<200>> /\ outcome'[q] # 200 /\ asked'[q] \in AskedCalls
        BY <2>2, <2>3, <2>4, <3>1
      <3>5. QED
        BY <3>2, <3>3, <3>4 DEF RequestInv
    <2>6. CASE GuardStatus(c, bearer) # 0
      <3>1. PICK s \in {400, 401, 403, 404} : s = GuardStatus(c, bearer)
        BY <2>6, GuardsPass
      <3>2. /\ gate' = [gate EXCEPT ![q] = "done"] /\ answers' = [answers EXCEPT ![q] = <<s>>]
            /\ UNCHANGED work
        BY <2>1, <2>6, <3>1
      <3>3. s \in Statuses /\ s # 200 /\ <<s>> \in Seq(Statuses)
        BY <3>1 DEF Statuses
      <3>4. answers' \in [GatewayRequests -> Seq(Statuses)] /\ answers'[q] = <<s>>
        BY <1>0, <3>2, <3>3 DEF GatewayTypeOK, Statuses
      <3>5. GatewayTypeOK' /\ gate'[q] = "done"
        BY <1>0, <2>2, <2>4, <3>2, <3>4 DEF GatewayTypeOK, AskedCalls, Statuses
      <3>6. <<s>> # <<200>>
        BY <3>3
      <3>7. QED
        BY <2>2, <3>2, <3>3, <3>4, <3>5, <3>6 DEF RequestInv
    <2>7. QED
      BY <2>5, <2>6
  <1>2. CASE Serve(q)
    BY <1>2, EndedOnce DEF Serve
  <1>3. CASE Lost(q)
    BY <1>3, EndedOnce DEF Lost
  <1>4. CASE Relay(q)
    <2>1. outcome[q] \in {0, 200, 400, 403, 404, 500}
      BY <1>0 DEF GatewayTypeOK
    <2>2. outcome[q] \in 200..499
      BY <1>4 DEF Relay
    <2>3. outcome[q] \in Statuses
      BY <2>1, <2>2 DEF Statuses
    <2>4. QED
      BY <1>0, <1>4, <2>3, AnsweredOnce DEF Relay, RequestInv
  <1>5. CASE RelayError(q)
    <2>1. outcome[q] \in {0, 200, 400, 403, 404, 500}
      BY <1>0 DEF GatewayTypeOK
    <2>2. outcome[q] >= 500
      BY <1>5 DEF RelayError
    <2>3. outcome[q] = 500
      BY <2>1, <2>2
    <2>4. AnswerWith(q, <<500>>)
      BY <1>5, <2>3 DEF RelayError, Caught
    <2>5. QED
      BY <1>5, <2>4, AnsweredOnce DEF RelayError, Statuses
  <1>6. CASE GiveUp(q)
    <2>1. AnswerWith(q, <<503>>)
      BY <1>6 DEF GiveUp, Caught
    <2>2. QED
      BY <1>6, <2>1, AnsweredOnce DEF GiveUp, Statuses
  <1>7. CASE CannotRequest(q)
    <2>1. /\ gate[q] = "forwarded" /\ work[q] = "sent" /\ UNCHANGED <<asked, outcome, restarts>>
          /\ gate' = [gate EXCEPT ![q] = "done"] /\ work' = [work EXCEPT ![q] = "lost"]
          /\ answers' = [answers EXCEPT ![q] = <<500>>]
      BY <1>7 DEF CannotRequest, Caught
    <2>2. answers' \in [GatewayRequests -> Seq(Statuses)] /\ answers'[q] = <<500>>
      BY <1>0, <2>1 DEF GatewayTypeOK, Statuses
    <2>3. GatewayTypeOK' /\ gate'[q] = "done" /\ work'[q] = "lost"
      BY <1>0, <2>1, <2>2 DEF GatewayTypeOK, Statuses
    <2>4. <<500>> # <<200>> /\ 500 \in Statuses
      BY DEF Statuses
    <2>5. outcome'[q] # 200 /\ asked'[q] \in AskedCalls /\ PassedGuards(q)'
      BY <1>0, <2>1 DEF RequestInv, PassedGuards
    <2>6. QED
      BY <2>2, <2>3, <2>4, <2>5 DEF RequestInv
  <1>8. CASE RelayFails(q)
    <2>1. AnswerWith(q, <<500>>)
      BY <1>8 DEF RelayFails, Caught
    <2>2. QED
      BY <1>8, <2>1, AnsweredOnce DEF RelayFails, Statuses
  <1>9. QED
    BY <1>1, <1>2, <1>3, <1>4, <1>5, <1>6, <1>7, <1>8 DEF RequestStep

LEMMA GatewayInvInit == GatewayInit => GatewayInv
  BY GatewayAssumption DEF GatewayInit, GatewayInv, GatewayTypeOK, RequestInv, Nothing

LEMMA GatewayInvStep == GatewayInv /\ [GatewayNext]_gatewayVars => GatewayInv'
  <1> SUFFICES ASSUME GatewayInv, [GatewayNext]_gatewayVars PROVE GatewayInv'
    OBVIOUS
  <1>0. GatewayTypeOK /\ \A q \in GatewayRequests : RequestInv(q)
    BY DEF GatewayInv
  <1>1. ASSUME NEW q \in GatewayRequests, RequestStep(q) PROVE GatewayInv'
    <2>1. GatewayTypeOK' /\ RequestInv(q)'
      BY <1>1, OwnStep
    <2>2. ASSUME NEW r \in GatewayRequests, r # q PROVE RequestInv(r)'
      BY <1>0, <1>1, <2>2, OthersUntouched, RequestStays
    <2>3. QED
      BY <2>1, <2>2 DEF GatewayInv
  <1>2. CASE Restart
    <2>1. GatewayTypeOK'
      BY <1>0, <1>2, GatewayAssumption DEF Restart, GatewayTypeOK
    <2>2. ASSUME NEW q \in GatewayRequests PROVE RequestInv(q)'
      <3>1. /\ gate'[q] = gate[q] \/ (gate[q] = "forwarded" /\ gate'[q] = "lost")
            /\ UNCHANGED <<asked, work, outcome, answers>>
        BY <1>2 DEF Restart
      <3>2. QED
        BY <1>0, <3>1, RequestStays
    <2>3. QED
      BY <2>1, <2>2 DEF GatewayInv
  <1>3. CASE UNCHANGED gatewayVars
    <2>1. GatewayTypeOK'
      BY <1>0, <1>3 DEF gatewayVars, GatewayTypeOK
    <2>2. QED
      BY <1>0, <1>3, <2>1, RequestStays DEF gatewayVars, GatewayInv
  <1>4. QED
    BY <1>1, <1>2, <1>3 DEF GatewayNext, RequestStep

LEMMA GatewayInvAlways == GatewaySpec => []GatewayInv
  BY GatewayInvInit, GatewayInvStep, PTL DEF GatewaySpec

-----------------------------------------------------------------------------
(* The theorems.                                                           *)

\* Requests, calls and statuses keep their types.
THEOREM GatewayTypesCorrect == GatewaySpec => []GatewayTypeOK
  <1>1. GatewayInv => GatewayTypeOK
    BY DEF GatewayInv
  <1>2. QED
    BY <1>1, GatewayInvAlways, PTL

\* Each request gets one answer, from the error handling too, or its connection
\* is lost.
THEOREM AnsweredExactlyOnce == GatewaySpec => []OneAnswer
  <1>1. GatewayInv => OneAnswer
    <2>1. \A s : Len(<<s>>) = 1 /\ Len(<<>>) = 0
      OBVIOUS
    <2>2. QED
      BY <2>1 DEF GatewayInv, RequestInv, OneAnswer
  <1>2. QED
    BY <1>1, GatewayInvAlways, PTL

\* Success is told of calls that were carried out.
THEOREM SuccessIsTrue == GatewaySpec => []SuccessIsCarriedOut
  <1>1. GatewayInv => SuccessIsCarriedOut
    BY DEF GatewayInv, RequestInv, SuccessIsCarriedOut
  <1>2. QED
    BY <1>1, GatewayInvAlways, PTL

\* A documented role stands behind whatever a service carries out: in the token,
\* and for auth-server in the database.
THEOREM RolesStandBehindWork == GatewaySpec => []CarriedOutForARole
  <1>1. GatewayInv => CarriedOutForARole
    BY LetInForARole DEF GatewayInv, RequestInv, AskedCalls, CarriedOutForARole
  <1>2. QED
    BY <1>1, GatewayInvAlways, PTL

\* A documented role or the default one stands behind whatever is forwarded.
THEOREM RolesStandBehindForwarding == GatewaySpec => []ForwardedForARole
  <1>1. GatewayInv => ForwardedForARole
    BY PassedForARole DEF GatewayInv, RequestInv, AskedCalls, ForwardedForARole
  <1>2. QED
    BY <1>1, GatewayInvAlways, PTL

-----------------------------------------------------------------------------
(* Refusals.                                                               *)

\* What the gateway answers by itself is the status of its guards, for what was asked,
\* and what a service answers with 403 it has a handler for that did not let it in.
Refusal(q) ==
    /\ work[q] = "refused" /\ outcome[q] = 403 => HandlerOf(asked[q].call) # {} /\ ~LetIn(q)
    /\ gate[q] = "forwarded" => work[q] # "none"
    /\ work[q] = "none" /\ answers[q] # <<>> =>
          /\ asked[q] \in AskedCalls
          /\ ~PassedGuards(q)
          /\ answers[q] = <<GuardStatus(asked[q].call, asked[q].bearer)>>

\* A step of q refuses it with the status of the guards, or not at all.
LEMMA OwnRefusal ==
  ASSUME GatewayInv, NEW q \in GatewayRequests, RequestStep(q), Refusal(q)
  PROVE  Refusal(q)'
  <1>0. GatewayTypeOK /\ RequestInv(q)
    BY DEF GatewayInv
  <1>1. CASE Receive(q)
    <2>1. PICK c \in Calls, bearer \in Bearers, current \in RoleSets :
             /\ asked' = [asked EXCEPT ![q] = [call |-> c, bearer |-> bearer,
                                              inDatabase |-> current]]
             /\ \/ /\ gate' = [gate EXCEPT ![q] = "forwarded"]
                   /\ work' = [work EXCEPT ![q] = "sent"]
                   /\ UNCHANGED answers
                \/ /\ GuardStatus(c, bearer) # 0
                   /\ gate' = [gate EXCEPT ![q] = "done"]
                   /\ answers' = [answers EXCEPT ![q] = <<GuardStatus(c, bearer)>>]
                   /\ UNCHANGED work
      BY <1>1 DEF Receive
    <2> DEFINE ask == [call |-> c, bearer |-> bearer, inDatabase |-> current]
    <2>2. ask \in AskedCalls /\ ask.call = c /\ ask.bearer = bearer
      BY DEF AskedCalls
    <2>3. asked'[q] = ask
      BY <1>0, <2>1 DEF GatewayTypeOK
    <2> HIDE DEF ask
    <2>4. work[q] = "none" /\ work'[q] # "refused"
      BY <1>0, <1>1, <2>1 DEF GatewayTypeOK, RequestInv, Receive
    <2>5. QED
      BY <1>0, <2>1, <2>2, <2>3, <2>4 DEF GatewayTypeOK, Refusal, PassedGuards
  <1>2. CASE Serve(q) \/ Lost(q)
    <2>1. PICK how \in {"carriedOut", "rejected", "refused", "failed", "lost"},
               status \in {0, 200, 400, 403, 404, 500} :
             /\ Ends(q, how, status)
             /\ how = "refused" /\ status = 403 =>
                   HandlerOf(asked[q].call) # {} /\ ~LetIn(q)
      BY <1>2 DEF Serve, Lost
    <2>2. work'[q] = how /\ outcome'[q] = status /\ asked'[q] = asked[q]
      BY <1>0, <2>1 DEF Ends, GatewayTypeOK
    <2>3. QED
      BY <2>1, <2>2 DEF Refusal, LetIn, CallerRoles
  <1>3. CASE Relay(q) \/ RelayError(q) \/ GiveUp(q) \/ RelayFails(q)
    BY <1>0, <1>3 DEF Relay, RelayError, GiveUp, RelayFails, AnswerWith, Refusal, GatewayTypeOK,
                      LetIn, CallerRoles
  <1>4. CASE CannotRequest(q)
    BY <1>0, <1>4 DEF CannotRequest, Refusal, GatewayTypeOK
  <1>5. QED
    BY <1>1, <1>2, <1>3, <1>4 DEF RequestStep

\* A call that was refused was refused for its reason: the routes without parameters
\* work as documented for every call, token and role, and the services' own guards
\* agree with the documents but on one route.
THEOREM RefusalsHaveReasons == GatewaySpec => []RefusedWithReason
  <1> DEFINE Inv == GatewayInv /\ \A q \in GatewayRequests : Refusal(q)
  <1>1. GatewayInit => Inv
    BY GatewayInvInit DEF GatewayInit, Refusal
  <1>2. Inv /\ [GatewayNext]_gatewayVars => Inv'
    <2> SUFFICES ASSUME Inv, [GatewayNext]_gatewayVars, NEW q \in GatewayRequests
                 PROVE  Refusal(q)'
      BY GatewayInvStep
    <2>1. ASSUME asked'[q] = asked[q], work'[q] = work[q], answers'[q] = answers[q],
                 outcome'[q] = outcome[q], gate'[q] = gate[q] \/ gate'[q] = "lost"
          PROVE  Refusal(q)'
      BY <2>1 DEF Refusal, PassedGuards, LetIn, CallerRoles
    <2>2. CASE RequestStep(q)
      BY <2>2, OwnRefusal
    <2>3. ASSUME NEW r \in GatewayRequests, r # q, RequestStep(r) PROVE Refusal(q)'
      BY <2>1, <2>3, OthersUntouched DEF GatewayInv
    <2>4. CASE Restart \/ UNCHANGED gatewayVars
      BY <2>1, <2>4 DEF Restart, gatewayVars
    <2>5. QED
      BY <2>2, <2>3, <2>4 DEF GatewayNext, RequestStep
  <1>3. Inv => RefusedWithReason
    <2> SUFFICES ASSUME Inv, NEW q \in GatewayRequests
                 PROVE  /\ work[q] = "none" /\ answers[q] # <<>> =>
                              /\ "PUBLIC" \notin Documented(asked[q].call)
                              /\ answers[q] = <<403>> =>
                                    \/ ~Entitled(q, asked[q].bearer.roles)
                                    \/ /\ ~OwnEntry(asked[q].call)
                                       /\ asked[q].bearer.roles \cap DefaultRoles = {}
                        /\ work[q] = "refused" /\ outcome[q] = 403 =>
                              \/ ~Entitled(q, CallerRoles(q))
                              \/ asked[q].call.path = <<"users", "me">>
      BY DEF RefusedWithReason
    <2>0. CASE work[q] = "refused" /\ outcome[q] = 403
      <3>1. /\ asked[q].call \in Calls /\ asked[q].call.path \in Seq(STRING)
            /\ ~LetIn(q) /\ asked[q].call.service \in Services
        BY <2>0, GatewayAssumption, GuardsPass, LookupIsDocumented
           DEF GatewayInv, RequestInv, Refusal, AskedCalls, PassedGuards
      <3>2. ASSUME asked[q].call.path # <<"users", "me">> PROVE ~Entitled(q, CallerRoles(q))
        BY <3>1, <3>2, DocumentedAreHandled DEF LetIn, Entitled, Documented
      <3>3. QED
        BY <2>0, <3>2
    <2> SUFFICES ASSUME work[q] = "none", answers[q] # <<>>
                 PROVE  /\ "PUBLIC" \notin Documented(asked[q].call)
                        /\ answers[q] = <<403>> =>
                              \/ ~Entitled(q, asked[q].bearer.roles)
                              \/ /\ ~OwnEntry(asked[q].call)
                                 /\ asked[q].bearer.roles \cap DefaultRoles = {}
      BY <2>0
    <2> DEFINE c == asked[q].call
               bearer == asked[q].bearer
    <2>1. /\ c \in Calls /\ bearer \in Bearers /\ c.path \in Seq(STRING)
          /\ GuardStatus(c, bearer) # 0
          /\ answers[q] = <<GuardStatus(c, bearer)>>
      BY GatewayAssumption DEF Refusal, PassedGuards, AskedCalls
    <2>2. "PUBLIC" \notin Permission(c)
      BY <2>1 DEF GuardStatus
    <2>3. "PUBLIC" \notin Documented(c)
      BY <2>1, <2>2, PublicIsOwn, OwnEntryIsFound
    <2>4. ASSUME GuardStatus(c, bearer) = 403
          PROVE  Permission(c) # {} /\ Permission(c) \cap bearer.roles = {}
      <3>1. bearer.token \in {"valid", "expired", "missing", "malformed"}
        BY <2>1 DEF Bearers
      <3>2. TokenStatus(bearer) \in {0, 400, 401}
        BY <3>1 DEF TokenStatus
      <3>3. QED
        BY <2>4, <3>2 DEF GuardStatus, RoleStatus
    <2>5. ASSUME answers[q] = << 403 >>
          PROVE  ~Entitled(q, bearer.roles) \/ (~OwnEntry(c) /\ bearer.roles \cap DefaultRoles = {})
      <3>1. Permission(c) # {} /\ Permission(c) \cap bearer.roles = {}
        BY <2>1, <2>4, <2>5
      <3>2. CASE OwnEntry(c)
        BY <2>3, <3>1, <3>2, OwnEntryIsFound DEF Entitled
      <3>3. CASE ~OwnEntry(c)
        <4>1. Permission(c) = DefaultRoles
          BY <3>1, <3>3 DEF Permission, OwnEntry
        <4>2. QED
          BY <3>1, <3>3, <4>1
      <3>4. QED
        BY <3>2, <3>3
    <2>6. QED
      BY <2>3, <2>5
  <1>4. QED
    BY <1>1, <1>2, <1>3, PTL DEF GatewaySpec

=============================================================================
