------------------------------ MODULE AuthUsers ------------------------------
(***************************************************************************)
(* Users, roles and logins of auth-server: UserService and AuthService over *)
(* the users collection, from the start of the server, which makes the two *)
(* default accounts, through calls that race with each other, restarts and *)
(* failing database calls, which in the start end the process.  As in      *)
(* RewardClaim, an action is a stretch of a handler between two awaits of  *)
(* the database.                                                           *)
(***************************************************************************)
EXTENDS Naturals

CONSTANTS AccountIds,      \* the ids MongoDB hands out for user documents
          AuthRequests,    \* the calls of a behaviour, each used once
          Spellings,       \* user names as callers spell them
          LowerCase,       \* toLowerCase on them
          RegisterBodies,  \* bodies of POST /users/register that pass validation
          RoleBodies,      \* names and bodies of PUT /users/:username/roles
          LoginBodies,     \* bodies of POST /auth/login, which nothing validates
          Lookups,         \* names asked for in GET /users/:username
          NoList,          \* the body has no list of roles: none or null, and for an
                           \* assignment, which nothing validates, a number or an object
          NotAString,      \* what a login has for a name or a password is no string
          NoUser,          \* a lookup returns null
          MaxRestarts,     \* bound: how often the server is started again
          MaxFaults        \* bound: database calls that report an error

VARIABLES users,       \* the users collection, by id
          userIndex,   \* the unique index on the name: "absent", "unique" or "failed"
          server,      \* where onModuleInit is; "up" once the server listens,
                       \* "exited" when it could not start
          pc,          \* where each call is in its handler
          call,        \* what it asks for
          userRead,    \* the id and the document it read
          reply,       \* the HTTP status it is answered with
          tokens,      \* the tokens issued: a user and the roles written in them
          restarts, faults   \* how many of each so far

collectionVars == <<users, userIndex>>
callVars == <<pc, call, userRead, reply>>
authVars == <<collectionVars, server, callVars, tokens, restarts, faults>>

-----------------------------------------------------------------------------
(* Documents and calls.                                                    *)

Role == {"USER", "OPERATOR", "AUDITOR", "ADMIN"}

Usernames == {LowerCase[s] : s \in Spellings}

\* version is __v, which Mongoose keeps for documents with arrays.
UserDocs == [username : Usernames, roles : SUBSET Role, version : Nat]

RegisterCalls == [op : {"register"}, caller : AccountIds,
                  username : Spellings, roles : {NoList} \cup (SUBSET Role \ {{}})]

\* Nothing validates the roles of an assignment before the handler does.  A string
\* has letters for roles, which are OTHER.
AssignCalls == [op : {"assign"}, caller : AccountIds,
                username : Spellings, roles : {NoList} \cup SUBSET (Role \cup {"OTHER"})]

\* Nothing validates a login but passport-local, which turns one away that has no
\* name or no password, as it does a wrong one.
Passwords == {"right", "wrong", NotAString}
LoginCalls == [op : {"login"}, username : Spellings \cup {NotAString}, password : Passwords]

\* GET /users/:username, and GET /users/me.
ProfileCalls == [op : {"profile"}, caller : AccountIds, username : Spellings]
MeCalls == [op : {"me"}, caller : AccountIds]

NoCall == [op |-> "none"]

ASSUME AuthAssumption ==
    /\ AccountIds \subseteq Nat
    /\ LowerCase \in [Spellings -> Spellings]
    /\ \A s \in Spellings : LowerCase[LowerCase[s]] = LowerCase[s]
    /\ {"admin", "test"} \subseteq Usernames
    /\ RegisterBodies \subseteq [username : Spellings,
                                 roles : {NoList} \cup (SUBSET Role \ {{}})]
    /\ RoleBodies \subseteq [username : Spellings,
                             roles : {NoList} \cup SUBSET (Role \cup {"OTHER"})]
    /\ LoginBodies \subseteq [username : Spellings \cup {NotAString}, password : Passwords]
    /\ NotAString \notin Spellings
    /\ Lookups \subseteq Spellings
    /\ \A roles \in SUBSET (Role \cup {"OTHER"}) : roles # NoList
    /\ NoUser \notin UserDocs
    /\ MaxRestarts \in Nat
    /\ MaxFaults \in Nat

-----------------------------------------------------------------------------
(* Lookups and inserts.                                                    *)

\* The accounts findOne({ username }) may return.
Matches(username) == {u \in AccountIds : users[u] # NoUser /\ users[u].username = username}

\* findOneByUsername
Found(spelling) == Matches(LowerCase[spelling])

\* (Slip: a schema without lowercase.)
NewUserAsSpelled(spelling, roles) ==
    [username |-> spelling, roles |-> roles, version |-> 0]

\* The schema lowercases the name; a new document has version 0.
NewUser(spelling, roles) ==
    [username |-> LowerCase[spelling], roles |-> roles, version |-> 0]

\* (Slip: the index declared without unique.)
NeverTaken(doc) == FALSE

\* Inserting a document raises E11000.
NameTaken(doc) == userIndex = "unique" /\ Matches(doc.username) # {}

\* The driver hands out ids in ascending order.
Insert(doc) ==
    \E u \in AccountIds :
        /\ users[u] = NoUser
        /\ \A v \in AccountIds : users[v] = NoUser => u <= v
        /\ users' = [users EXCEPT ![u] = doc]

\* The index can be built.
NamesDistinct ==
    \A u, v \in {a \in AccountIds : users[a] # NoUser} :
        users[u].username = users[v].username => u = v

\* validateRoles: known roles, and at least one.
RolesValid(roles) == roles \notin {NoList, {}} /\ roles \subseteq Role

-----------------------------------------------------------------------------
AuthInit ==
    /\ users = [u \in AccountIds |-> NoUser]
    /\ userIndex = "absent"
    /\ server = "findAdmin"
    /\ pc = [q \in AuthRequests |-> "idle"]
    /\ call = [q \in AuthRequests |-> NoCall]
    /\ userRead = [q \in AuthRequests |-> NoUser]
    /\ reply = [q \in AuthRequests |-> 0]
    /\ tokens = {}
    /\ restarts = 0
    /\ faults = 0

-----------------------------------------------------------------------------
(* The start of the server: createDefaultAdmin, then createDefaultUser.     *)

\* The account is looked for by its name, and made when it is not there.
FindDefault(username, step, save, next) ==
    /\ server = step
    /\ server' = IF Matches(username) = {} THEN save ELSE next
    /\ UNCHANGED <<collectionVars, callVars, tokens, restarts, faults>>

SaveDefault(doc, step, next) ==
    /\ server = step
    /\ Insert(doc)
    /\ server' = next
    /\ UNCHANGED <<userIndex, callVars, tokens, restarts, faults>>

\* (Slip: the second account is made only with the first.)
FindAdminOrListen ==
    FindDefault("admin", "findAdmin", "saveAdmin", "up")

\* (Slip: the start waits for an index it does not build.)
SaveAdminWhenIndexed ==
    userIndex = "unique" /\ SaveDefault(NewUser("admin", {"ADMIN"}), "saveAdmin", "findTest")

DefaultAdmin == NewUser("admin", {"ADMIN"})
DefaultUser == NewUser("test", {"USER"})

FindAdmin == FindDefault("admin", "findAdmin", "saveAdmin", "findTest")
SaveAdmin == SaveDefault(DefaultAdmin, "saveAdmin", "findTest")
FindTest == FindDefault("test", "findTest", "saveTest", "up")
SaveTest == SaveDefault(DefaultUser, "saveTest", "up")

Bootstrap == FindAdmin \/ SaveAdmin \/ FindTest \/ SaveTest

\* A database call of the start is reported as failed, a save possibly after it
\* was carried out: onModuleInit rejects and nothing catches it, which ends the
\* process.
StartFails ==
    /\ server \in {"findAdmin", "saveAdmin", "findTest", "saveTest"}
    /\ faults < MaxFaults
    /\ faults' = faults + 1
    /\ server' = "exited"
    /\ \/ UNCHANGED users
       \/ server = "saveAdmin" /\ Insert(DefaultAdmin)
       \/ server = "saveTest" /\ Insert(DefaultUser)
    /\ UNCHANGED <<userIndex, callVars, tokens, restarts>>

-----------------------------------------------------------------------------
(* One call.                                                               *)

GoTo(q, step) == pc' = [pc EXCEPT ![q] = step] /\ UNCHANGED reply

Respond(q, status) ==
    /\ pc' = [pc EXCEPT ![q] = "done"]
    /\ reply' = [reply EXCEPT ![q] = status]

\* What no call changes.
Outside == <<userIndex, server, call, restarts>>

\* The calls that the token's owner makes and the gateway lets pass: everybody's
\* for the own profile, an administrator's for the rest.
CallsWith(token) ==
    {[op |-> "me", caller |-> token.user]} \cup
    IF "ADMIN" \notin token.roles THEN {}
    ELSE {[op |-> "register", caller |-> token.user, username |-> body.username,
           roles |-> body.roles] : body \in RegisterBodies}
         \cup {[op |-> "assign", caller |-> token.user, username |-> body.username,
                roles |-> body.roles] : body \in RoleBodies}
         \cup {[op |-> "profile", caller |-> token.user, username |-> name] : name \in Lookups}

\* A call gets as far as auth-server: a login, where toLowerCase throws on a name
\* that is no string, or a call through the gateway with a token.
Submit(q) ==
    /\ server = "up"
    /\ pc[q] = "idle"
    /\ \/ \E body \in LoginBodies :
             /\ call' = [call EXCEPT ![q] = [op |-> "login", username |-> body.username,
                                             password |-> body.password]]
             /\ IF body.username = NotAString THEN Respond(q, 500) ELSE GoTo(q, "findUser")
       \/ \E t \in tokens : \E c \in CallsWith(t) :
             /\ call' = [call EXCEPT ![q] = c]
             /\ GoTo(q, "authorize")
    /\ UNCHANGED <<collectionVars, server, userRead, tokens, restarts, faults>>

\* The @Roles of the handlers.
Required(op) == IF op = "me" THEN {"USER", "ADMIN"} ELSE {"ADMIN"}

\* RolesGuard: the caller has a role that the handler requires.
Allowed(caller, op) == Required(op) \cap caller.roles # {}

\* GatewayStrategy reads the caller, RolesGuard tests what it read; the own
\* profile is what was read.
Authorize(q) ==
    /\ pc[q] = "authorize"
    /\ LET caller == users[call[q].caller]
       IN  \/ caller = NoUser /\ Respond(q, 401)
           \/ caller # NoUser /\ ~Allowed(caller, call[q].op) /\ Respond(q, 403)
           \/ /\ caller # NoUser
              /\ Allowed(caller, call[q].op)
              /\ IF call[q].op = "me" THEN Respond(q, 200) ELSE GoTo(q, "findUser")
    /\ UNCHANGED <<Outside, users, userRead, tokens, faults>>

\* GET /users/:username
FindProfile(q) ==
    /\ pc[q] = "findUser"
    /\ call[q].op = "profile"
    /\ Respond(q, IF Found(call[q].username) = {} THEN 404 ELSE 200)
    /\ UNCHANGED <<Outside, users, userRead, tokens, faults>>

\* POST /users/register, up to the name being free; hashing the password
\* looks at nothing.
FindSameName(q) ==
    /\ pc[q] = "findUser"
    /\ call[q].op = "register"
    /\ \/ /\ Found(call[q].username) # {}
          /\ Respond(q, 409)
       \/ /\ Found(call[q].username) = {}
          /\ GoTo(q, "saveUser")
    /\ UNCHANGED <<Outside, users, userRead, tokens, faults>>

\* What is saved for a registration.
Registered(q) ==
    NewUser(call[q].username, IF call[q].roles = NoList THEN {"USER"} ELSE call[q].roles)

\* (Slip: a catch that swallows E11000 and answers nothing.)
SaveUserOrHang(q) ==
    /\ pc[q] = "saveUser"
    /\ ~NameTaken(Registered(q))
    /\ Insert(Registered(q))
    /\ Respond(q, 201)
    /\ UNCHANGED <<Outside, userRead, tokens, faults>>

\* (Slip: the answer does not wait for the save.)
SaveUserUnawaited(q) ==
    /\ pc[q] = "saveUser"
    /\ UNCHANGED users \/ Insert(Registered(q))
    /\ Respond(q, 201)
    /\ UNCHANGED <<Outside, userRead, tokens, faults>>

\* The save; nothing catches E11000.
SaveUser(q) ==
    /\ pc[q] = "saveUser"
    /\ \/ /\ NameTaken(Registered(q))
          /\ Respond(q, 500)
          /\ UNCHANGED users
       \/ /\ ~NameTaken(Registered(q))
          /\ Insert(Registered(q))
          /\ Respond(q, 201)
    /\ UNCHANGED <<Outside, userRead, tokens, faults>>

\* PUT /users/:username/roles, up to its save: the user, then the roles, which
\* are a TypeError when they cannot be iterated.
FindAssignee(q) ==
    /\ pc[q] = "findUser"
    /\ call[q].op = "assign"
    /\ \/ /\ Found(call[q].username) = {}
          /\ Respond(q, 404)
          /\ UNCHANGED userRead
       \/ /\ Found(call[q].username) # {}
          /\ ~RolesValid(call[q].roles)
          /\ Respond(q, IF call[q].roles = NoList THEN 500 ELSE 400)
          /\ UNCHANGED userRead
       \/ \E u \in Found(call[q].username) :
             /\ RolesValid(call[q].roles)
             /\ userRead' = [userRead EXCEPT ![q] = [id |-> u, doc |-> users[u]]]
             /\ GoTo(q, "saveRoles")
    /\ UNCHANGED <<Outside, users, tokens, faults>>

\* The document user.save() makes of the one that was read.
Reassigned(q) ==
    [userRead[q].doc EXCEPT !.roles = call[q].roles, !.version = @ + 1]

\* (Slip: the document's version is not compared.)
AnyVersion(q) == TRUE

\* (Slip: the version compared is the one the save will leave.)
NextVersion(q) == users[userRead[q].id].version = userRead[q].doc.version + 1

\* Setting an array makes Mongoose match the version that was read.
VersionRead(q) == users[userRead[q].id].version = userRead[q].doc.version

SaveRoles(q) ==
    /\ pc[q] = "saveRoles"
    /\ \/ /\ call[q].roles = userRead[q].doc.roles   \* in the same order, too:
          /\ Respond(q, 200)                          \* nothing is written
          /\ UNCHANGED users
       \/ /\ VersionRead(q)
          /\ users' = [users EXCEPT ![userRead[q].id] = Reassigned(q)]
          /\ Respond(q, 200)
       \/ /\ ~VersionRead(q)                          \* VersionError
          /\ Respond(q, 500)
          /\ UNCHANGED users
    /\ UNCHANGED <<Outside, userRead, tokens, faults>>

\* validateUserCredentials: the users the name and the password are those of.
Identified(q) == IF call[q].password = "right" THEN Found(call[q].username) ELSE {}

\* bcrypt rejects a password that is no string, and is asked for accounts only.
CompareFails(q) == call[q].password = NotAString /\ Found(call[q].username) # {}

\* POST /auth/login, up to the password being compared with the user's.
FindCredentials(q) ==
    /\ pc[q] = "findUser"
    /\ call[q].op = "login"
    /\ \/ \E u \in Identified(q) :
             /\ userRead' = [userRead EXCEPT ![q] = [id |-> u, doc |-> users[u]]]
             /\ GoTo(q, "sign")
       \/ /\ Identified(q) = {}
          /\ Respond(q, IF CompareFails(q) THEN 500 ELSE 401)
          /\ UNCHANGED userRead
    /\ UNCHANGED <<Outside, users, tokens, faults>>

\* createJwt writes the roles that were read into the token.
TokenOf(q) == [user |-> userRead[q].id, roles |-> userRead[q].doc.roles]

Sign(q) ==
    /\ pc[q] = "sign"
    /\ tokens' = tokens \cup {TokenOf(q)}
    /\ Respond(q, 200)
    /\ UNCHANGED <<Outside, users, userRead, faults>>

CallStep(q) ==
    \/ Authorize(q)
    \/ FindProfile(q)
    \/ FindSameName(q)
    \/ SaveUser(q)
    \/ FindAssignee(q)
    \/ SaveRoles(q)
    \/ FindCredentials(q)
    \/ Sign(q)

-----------------------------------------------------------------------------
(* What goes wrong, and what goes on beside the calls.                     *)

InFlight(q) == pc[q] \notin {"idle", "done", "lost"}

\* A query or a save of q rejects with nothing done.  The lookup of the caller
\* answers null for an error.
CallFails(q) ==
    /\ pc[q] \in {"authorize", "findUser", "saveUser", "saveRoles"}
    /\ faults < MaxFaults
    /\ faults' = faults + 1
    /\ Respond(q, IF pc[q] = "authorize" THEN 401 ELSE 500)
    /\ UNCHANGED <<Outside, users, userRead, tokens>>

\* A save of q is carried out and reported as an error.
AcknowledgementLost(q) ==
    /\ faults < MaxFaults
    /\ faults' = faults + 1
    /\ \/ /\ pc[q] = "saveUser"
          /\ ~NameTaken(Registered(q))
          /\ Insert(Registered(q))
       \/ /\ pc[q] = "saveRoles"
          /\ VersionRead(q)
          /\ users' = [users EXCEPT ![userRead[q].id] = Reassigned(q)]
    /\ Respond(q, 500)
    /\ UNCHANGED <<Outside, userRead, tokens>>

\* The server stops, in the middle of its start or of calls, or has exited, and is
\* started again: by hand, as its container has no restart policy.
Restart ==
    /\ restarts < MaxRestarts
    /\ restarts' = restarts + 1
    /\ server' = "findAdmin"
    /\ pc' = [q \in AuthRequests |-> IF InFlight(q) THEN "lost" ELSE pc[q]]
    /\ userIndex' = IF userIndex = "failed" THEN "absent" ELSE userIndex
    /\ UNCHANGED <<users, call, userRead, reply, tokens, faults>>

\* Mongoose asks for the index beside everything else; MongoDB may finish it when
\* the server has exited.
BuildUserIndex ==
    /\ userIndex = "absent"
    /\ userIndex' = IF NamesDistinct THEN "unique" ELSE "failed"
    /\ UNCHANGED <<users, server, callVars, tokens, restarts, faults>>

AuthNext ==
    \/ Bootstrap
    \/ StartFails
    \/ \E q \in AuthRequests : Submit(q) \/ CallStep(q) \/ CallFails(q) \/ AcknowledgementLost(q)
    \/ Restart
    \/ BuildUserIndex

AuthSpec == AuthInit /\ [][AuthNext]_authVars

\* The server gets on with its start and with the calls it has.
AuthFairSpec ==
    /\ AuthSpec
    /\ WF_authVars(Bootstrap)
    /\ \A q \in AuthRequests : WF_authVars(CallStep(q))

-----------------------------------------------------------------------------
(* Properties.                                                             *)

Reads == [id : AccountIds, doc : UserDocs]

\* Users have known roles and names in lower case, and a call has read what the
\* step it is at works on.
AuthTypeOK ==
    /\ users \in [AccountIds -> UserDocs \cup {NoUser}]
    /\ userIndex \in {"absent", "unique", "failed"}
    /\ server \in {"findAdmin", "saveAdmin", "findTest", "saveTest", "up", "exited"}
    /\ pc \in [AuthRequests -> {"idle", "authorize", "findUser", "saveUser", "saveRoles",
                                "sign", "done", "lost"}]
    /\ call \in [AuthRequests -> RegisterCalls \cup AssignCalls \cup LoginCalls
                                    \cup ProfileCalls \cup MeCalls \cup {NoCall}]
    /\ userRead \in [AuthRequests -> Reads \cup {NoUser}]
    /\ \A q \in AuthRequests : pc[q] \in {"saveRoles", "sign"} => userRead[q] \in Reads
    /\ reply \in [AuthRequests -> {0, 200, 201, 400, 401, 403, 404, 409, 500}]
    /\ tokens \subseteq [user : AccountIds, roles : SUBSET Role]
    /\ restarts \in 0..MaxRestarts
    /\ faults \in 0..MaxFaults

\* Once the index is there, a name in any spelling has one account: registrations
\* that overlap, and a start of the server, all look first and insert later.
OneAccountPerName ==
    userIndex = "unique" =>
        \A u, v \in {a \in AccountIds : users[a] # NoUser} :
            LowerCase[users[u].username] = LowerCase[users[v].username] => u = v

\* A server that listens has both default accounts, wherever its earlier starts
\* were cut off or failed.
DefaultAccountsExist ==
    server = "up" => Matches("admin") # {} /\ Matches("test") # {}

\* An assignment of roles overwrites only the roles its call has read: of two
\* that overlap, one is not lost to the other unseen.
NoRolesOverwrittenUnread ==
    [][\A u \in AccountIds :
          users[u] # NoUser /\ users'[u].roles # users[u].roles =>
              \E q \in AuthRequests :
                  /\ pc[q] = "saveRoles"
                  /\ pc'[q] = "done"
                  /\ userRead[q] = [id |-> u, doc |-> users[u]]]_authVars

\* What a call was answered is true of the collection and stays true: after 201
\* and 409 for a registration, 200 for an assignment, a login or a profile, and
\* 400 for an assignment the name has an account, by whichever call.
AnswersMatchUsers ==
    \A q \in AuthRequests :
        reply[q] \in {200, 201, 400, 409} /\ call[q].op # "me" => Found(call[q].username) # {}

\* The account q means to write has been written since q read it.
Overtaken(q) ==
    /\ userRead[q] \in Reads
    /\ \E u \in Found(call[q].username) :
          u = userRead[q].id /\ users[u].version > userRead[q].doc.version

\* What makes a call fail when the database does not: a login with something else
\* than strings, a registration that lost a race for its name, an assignment to
\* an account of roles that cannot be iterated, and one that lost a race to another.
Excused(q) ==
    \/ call[q].op = "login" /\ call[q].username = NotAString
    \/ call[q].op = "login" /\ CompareFails(q)
    \/ call[q].op = "register" /\ userIndex = "unique" /\ Found(call[q].username) # {}
    \/ call[q].op = "assign" /\ call[q].roles = NoList /\ Found(call[q].username) # {}
    \/ call[q].op = "assign" /\ Overtaken(q)

\* A call is answered 500 only when the database has failed or for one of these:
\* a lookup, or a login with a name and a password, never is, nor is an assignment
\* of a list of roles that nobody interferes with.
FailuresAreExplained ==
    \A q \in AuthRequests : reply[q] = 500 => faults > 0 \/ Excused(q)

\* "409 Conflict: the name is in use" is what the README has for a registration
\* that fails on its name, and 400 for an invalid body: without a failing
\* database none ends in 500.
TakenNameIsConflict ==
    faults = 0 => \A q \in AuthRequests : call[q].op = "register" => reply[q] # 500

\* "400 Bad Request: validation failed (invalid roles and the like)" is what the
\* README has for an assignment of roles: without a failing database none of roles
\* that are not valid ends in 500.
InvalidRolesAreBadRequest ==
    faults = 0 => \A q \in AuthRequests :
        call[q].op = "assign" /\ ~RolesValid(call[q].roles) => reply[q] # 500

\* Every call ends, and a server that is started gets to listening, or has exited
\* over a database call that failed: it does not hang in its start.
EveryCallEnds == \A q \in AuthRequests : InFlight(q) ~> pc[q] \in {"done", "lost"}
ServerComesUp == <>[](server = "up" \/ (server = "exited" /\ faults > 0))

=============================================================================
