---------------------------- MODULE GatewayRoutes ----------------------------
(***************************************************************************)
(* Who may call what: the gateway's static registry with its lookup, and   *)
(* the roles the services' own handlers ask for.  A path is the sequence   *)
(* of its segments after the service's prefix, without the query; a        *)
(* segment such as ":id" stands for any.                                   *)
(***************************************************************************)
EXTENDS Sequences, Naturals

Role == {"USER", "OPERATOR", "AUDITOR", "ADMIN"}

Route(method, path, roles) == [method |-> method, path |-> path, roles |-> roles]

-----------------------------------------------------------------------------
(* The registry of the gateway.                                            *)

Public == {"PUBLIC"}
Operators == {"ADMIN", "OPERATOR"}
Auditors == {"ADMIN", "AUDITOR"}

AuthService ==
    {Route("GET", <<"health">>, Public),
     Route("POST", <<"auth", "login">>, Public),
     Route("POST", <<"users", "register">>, {"ADMIN"}),
     Route("GET", <<"users", "me">>, Role),
     Route("GET", <<"users", ":username">>, {"ADMIN"}),
     Route("PUT", <<"users", ":username", "roles">>, {"ADMIN"})}

\* The same four routes for events and for rewards.
Catalogue(name) ==
    {Route(method, <<name>>, Operators) : method \in {"POST", "GET"}}
        \cup {Route(method, <<name, ":id">>, Operators) : method \in {"GET", "PUT"}}

EventService ==
    {Route("GET", <<"health">>, Public)} \cup Catalogue("events") \cup Catalogue("rewards")
        \cup {Route("POST", <<"reward-claims">>, {"USER"}),
              Route("GET", <<"reward-claims">>, Auditors),
              Route("GET", <<"reward-claims", "me">>, {"USER"}),
              Route("GET", <<"reward-claims", ":id">>, Auditors)}

Services == {"auth-service", "event-service"}

staticServiceRegistry ==
    [s \in Services |-> IF s = "auth-service" THEN AuthService ELSE EventService]

DefaultRoles == {"ADMIN"}

\* (Slip: a lookup that compares the path only.)
PermissionOfPath(c) ==
    LET onPath == {r \in staticServiceRegistry[c.service] : r.path = c.path}
    IN  IF c.service \notin Services THEN {}
        ELSE IF onPath = {} THEN DefaultRoles ELSE UNION {r.roles : r \in onPath}

\* findServiceAndPermissionForRequest: the roles of the entry whose path and
\* method are the call's, else the service's default; none for no service.
Permission(c) ==
    IF c.service \notin Services THEN {}
    ELSE LET entries == {r \in staticServiceRegistry[c.service] :
                            r.path = c.path /\ r.method = c.method}
         IN  IF entries = {} THEN DefaultRoles ELSE UNION {r.roles : r \in entries}

-----------------------------------------------------------------------------
(* The handlers of the services, with the @Roles of the controllers, which *)
(* are written down there independently of the registry.                   *)

\* Login and health have no guard of the roles.
HealthController == {Route("GET", <<"health">>, Public)}

AuthController == {Route("POST", <<"auth", "login">>, Public)}

UserController ==
    {Route("POST", <<"users", "register">>, {"ADMIN"}),
     Route("GET", <<"users", "me">>, {"USER", "ADMIN"}),
     Route("GET", <<"users", ":username">>, {"ADMIN"}),
     Route("PUT", <<"users", ":username", "roles">>, {"ADMIN"})}

EventController ==
    {Route("POST", <<"events">>, {"ADMIN", "OPERATOR"}),
     Route("GET", <<"events">>, {"ADMIN", "OPERATOR"}),
     Route("GET", <<"events", ":id">>, {"ADMIN", "OPERATOR"}),
     Route("PUT", <<"events", ":id">>, {"ADMIN", "OPERATOR"})}

RewardController ==
    {Route("POST", <<"rewards">>, {"ADMIN", "OPERATOR"}),
     Route("GET", <<"rewards">>, {"ADMIN", "OPERATOR"}),
     Route("GET", <<"rewards", ":id">>, {"ADMIN", "OPERATOR"}),
     Route("PUT", <<"rewards", ":id">>, {"ADMIN", "OPERATOR"})}

RewardClaimController ==
    {Route("POST", <<"reward-claims">>, {"USER"}),
     Route("GET", <<"reward-claims">>, {"ADMIN", "AUDITOR"}),
     Route("GET", <<"reward-claims", "me">>, {"USER"}),
     Route("GET", <<"reward-claims", ":id">>, {"ADMIN", "AUDITOR"})}

Handlers ==
    [s \in Services |->
        IF s = "auth-service" THEN HealthController \cup AuthController \cup UserController
        ELSE HealthController \cup EventController \cup RewardController
                \cup RewardClaimController]

Fits(path, pattern) ==
    /\ Len(path) = Len(pattern)
    /\ \A i \in 1..Len(path) : pattern[i] \in {path[i], ":id", ":username"}

\* The route of a table that a call belongs to, as a set: the controllers declare
\* one with its very path before one with a parameter, and the first that fits is it.
RouteOf(table, c) ==
    LET fitting == {r \in table : r.method = c.method /\ Fits(c.path, r.path)}
    IN  IF \E r \in fitting : r.path = c.path
        THEN {r \in fitting : r.path = c.path} ELSE fitting

HandlerOf(c) == RouteOf(Handlers[c.service], c)

\* What the documents promise: the registry's entries with their parameters
\* read as parameters.
Documented(c) ==
    IF c.service \in Services
    THEN UNION {r.roles : r \in RouteOf(staticServiceRegistry[c.service], c)} ELSE {}

=============================================================================
