----------------------------- MODULE MCGateway -----------------------------
(***************************************************************************)
(* Gateway on the calls the services know and some they do not.            *)
(***************************************************************************)
EXTENDS Gateway, TLC

Call(service, method, path) == [service |-> service, method |-> method, path |-> path]

\* Every documented call, with an id or a name for each parameter.
Concrete(path) ==
    [i \in DOMAIN path |-> IF path[i] \in {":id", ":username"} THEN "x" ELSE path[i]]

KnownCalls ==
    UNION {{Call(s, r.method, Concrete(r.path)) : r \in staticServiceRegistry[s]} : s \in Services}

\* A service, a path and a method that nobody serves.
StrayCalls == {Call("mail-service", "GET", <<"health">>),
               Call("event-service", "GET", <<"claims">>),
               Call("event-service", "PUT", <<"reward-claims">>)}

AllCalls == KnownCalls \cup StrayCalls

\* Users have one role, or two.
MCRoleSets == {{r} : r \in Role} \cup {{"USER", "OPERATOR"}}

=============================================================================
