--------------------------- MODULE AuthUsersProofs ---------------------------
(***************************************************************************)
(* Theorems about AuthUsers: its types, one account per name, the default  *)
(* accounts, the truth of its answers, and assignments that do not         *)
(* overwrite each other.                                                   *)
(***************************************************************************)
EXTENDS AuthUsers, TLAPS

(* What the handlers write has the type of the collection.                 *)

\* Stored names are in lower case, and spellings of themselves.
LEMMA NamesAreLower == ASSUME NEW n \in Usernames PROVE n \in Spellings /\ LowerCase[n] = n
  BY AuthAssumption DEF Usernames

\* A new account is a document of the schema, under the name in lower case.
LEMMA NewUserType ==
  ASSUME NEW s \in Spellings, NEW R \in SUBSET Role
  PROVE  NewUser(s, R) \in UserDocs /\ NewUser(s, R).username = LowerCase[s]
  BY DEF NewUser, UserDocs, Usernames

\* What a registration saves is such a document.
LEMMA RegisteredType ==
  ASSUME NEW q \in AuthRequests, call[q] \in RegisterCalls
  PROVE  Registered(q) \in UserDocs /\ Registered(q).username = LowerCase[call[q].username]
  <1>1. call[q].username \in Spellings
    BY DEF RegisterCalls
  <1>2. (IF call[q].roles = NoList THEN {"USER"} ELSE call[q].roles) \in SUBSET Role
    BY DEF RegisterCalls, Role
  <1>3. QED
    BY <1>1, <1>2, NewUserType DEF Registered

\* The default accounts are such documents, under their own names.
LEMMA DefaultsType ==
  /\ DefaultAdmin \in UserDocs /\ DefaultAdmin.username = "admin"
  /\ DefaultUser \in UserDocs /\ DefaultUser.username = "test"
  <1>1. {"ADMIN"} \in SUBSET Role /\ {"USER"} \in SUBSET Role
    BY DEF Role
  <1>2. "admin" \in Usernames /\ "test" \in Usernames
    BY AuthAssumption
  <1>3. /\ "admin" \in Spellings /\ LowerCase["admin"] = "admin"
        /\ "test" \in Spellings /\ LowerCase["test"] = "test"
    BY <1>2, NamesAreLower
  <1>4. QED
    BY <1>1, <1>3, NewUserType DEF DefaultAdmin, DefaultUser

-----------------------------------------------------------------------------
(* The inductive invariant.                                                *)

\* What q has read is an account of the name it asks for, which keeps its name,
\* and whose version tells whether it has been written since.
ReadStillHolds(q) ==
    LET u == userRead[q].id
        doc == userRead[q].doc
    IN  /\ userRead[q] \in Reads
        /\ users[u] # NoUser
        /\ users[u].username = doc.username
        /\ doc.username = LowerCase[call[q].username]
        /\ doc.version <= users[u].version
        /\ doc.version = users[u].version => doc = users[u]

\* What q needs at the step it is at, and what its answer says.
CallInv(q) ==
    /\ pc[q] = "saveUser" => call[q] \in RegisterCalls
    /\ pc[q] = "saveRoles" => /\ call[q] \in AssignCalls
                              /\ RolesValid(call[q].roles)
                              /\ ReadStillHolds(q)
    /\ pc[q] = "sign" => call[q] \in LoginCalls /\ ReadStillHolds(q)
    /\ pc[q] \notin {"idle"} => call[q] # NoCall
    /\ pc[q] # "done" => reply[q] = 0
    /\ reply[q] \in {200, 201, 400, 409} /\ call[q].op # "me" => Found(call[q].username) # {}

\* How far the start has got, during which no call is in flight.
StartInv ==
    /\ server # "up" => \A q \in AuthRequests : ~InFlight(q)
    /\ server = "saveAdmin" => Matches("admin") = {}
    /\ server = "saveTest" => Matches("test") = {}
    /\ server \in {"findTest", "saveTest", "up"} => Matches("admin") # {}
    /\ server = "up" => Matches("test") # {}

AuthInv ==
    /\ AuthTypeOK
    /\ \A q \in AuthRequests : CallInv(q)
    /\ StartInv
    /\ userIndex = "unique" => NamesDistinct

\* The steps of one call.
RequestStep(q) == Submit(q) \/ CallStep(q) \/ CallFails(q) \/ AcknowledgementLost(q)

\* The writes of one call.
SavesUser(q) ==
    /\ pc[q] = "saveUser"
    /\ ~NameTaken(Registered(q))
    /\ Insert(Registered(q))

SavesRoles(q) ==
    /\ pc[q] = "saveRoles"
    /\ VersionRead(q)
    /\ users' = [users EXCEPT ![userRead[q].id] = Reassigned(q)]
    /\ pc' = [pc EXCEPT ![q] = "done"]

\* A call's step writes one document or none, and leaves the rest of the world.
LEMMA RequestWrites ==
  ASSUME NEW q \in AuthRequests, RequestStep(q)
  PROVE  /\ UNCHANGED <<userIndex, server, restarts>>
         /\ UNCHANGED users \/ SavesUser(q) \/ SavesRoles(q)
  BY DEF RequestStep, Submit, CallStep, CallFails, AcknowledgementLost, Authorize, FindProfile,
         FindSameName, SaveUser, FindAssignee, SaveRoles, FindCredentials, Sign, Outside,
         Respond, collectionVars, SavesUser, SavesRoles

\* A call's step leaves the other calls where they are.
LEMMA OthersUntouched ==
  ASSUME AuthTypeOK, NEW q \in AuthRequests, RequestStep(q), NEW r \in AuthRequests, r # q
  PROVE  /\ pc'[r] = pc[r] /\ call'[r] = call[r]
         /\ userRead'[r] = userRead[r] /\ reply'[r] = reply[r]
  BY DEF AuthTypeOK, RequestStep, Submit, CallStep, CallFails, AcknowledgementLost, Authorize,
         FindProfile, FindSameName, SaveUser, FindAssignee, SaveRoles, FindCredentials, Sign,
         Outside, GoTo, Respond

\* A document with other roles and one version more is one of the schema.
LEMMA RewrittenType ==
  ASSUME NEW d \in UserDocs, NEW R \in SUBSET Role
  PROVE  /\ [d EXCEPT !.roles = R, !.version = d.version + 1] \in UserDocs
         /\ [d EXCEPT !.roles = R, !.version = d.version + 1].username = d.username
         /\ [d EXCEPT !.roles = R, !.version = d.version + 1].version = d.version + 1
  <1>1. d \in [username : Usernames, roles : SUBSET Role, version : Nat]
    BY DEF UserDocs
  <1>2. /\ d.username \in Usernames /\ d.version + 1 \in Nat
        /\ DOMAIN d = {"username", "roles", "version"}
    BY <1>1
  <1> DEFINE e == [d EXCEPT !.roles = R, !.version = d.version + 1]
  <1>3. e.username = d.username /\ e.roles = R /\ e.version = d.version + 1
    BY <1>2
  <1>4. e \in [username : Usernames, roles : SUBSET Role, version : Nat]
    BY <1>1, <1>2, <1>3
  <1>5. QED
    BY <1>3, <1>4 DEF e, UserDocs

\* What a reassignment writes: the same account with one version more.
LEMMA ReassignedType ==
  ASSUME AuthInv, NEW q \in AuthRequests, SavesRoles(q)
  PROVE  /\ userRead[q].id \in AccountIds
         /\ Reassigned(q) \in UserDocs
         /\ Reassigned(q).username = users[userRead[q].id].username
         /\ Reassigned(q).version = users[userRead[q].id].version + 1
         /\ users[userRead[q].id] # NoUser
         /\ userRead[q] = [id |-> userRead[q].id, doc |-> users[userRead[q].id]]
  <1>1. /\ ReadStillHolds(q) /\ RolesValid(call[q].roles)
        /\ userRead[q].doc = users[userRead[q].id]
    BY DEF AuthInv, CallInv, SavesRoles, VersionRead, ReadStillHolds
  <1>2. userRead[q] \in Reads
    BY <1>1 DEF ReadStillHolds
  <1>3. call[q].roles \in SUBSET Role
    BY <1>1 DEF RolesValid
  <1> DEFINE doc == userRead[q].doc
  <1>4. doc \in UserDocs /\ userRead[q].id \in AccountIds
        /\ userRead[q] = [id |-> userRead[q].id, doc |-> doc]
    BY <1>2 DEF Reads
  <1>5. /\ Reassigned(q) \in UserDocs
        /\ Reassigned(q).username = doc.username
        /\ Reassigned(q).version = doc.version + 1
    BY <1>3, <1>4, RewrittenType DEF Reassigned
  <1>6. doc = users[userRead[q].id] /\ users[userRead[q].id] # NoUser
    BY <1>1 DEF ReadStillHolds
  <1>7. QED
    BY <1>4, <1>5, <1>6

-----------------------------------------------------------------------------
(* The accounts.                                                           *)

\* An insert adds one account and leaves the others.
LEMMA InsertAdds ==
  ASSUME AuthTypeOK, NEW doc \in UserDocs, Insert(doc)
  PROVE  /\ users' \in [AccountIds -> UserDocs \cup {NoUser}]
         /\ \E u \in AccountIds : users[u] = NoUser /\ users' = [users EXCEPT ![u] = doc]
  <1>1. users \in [AccountIds -> UserDocs \cup {NoUser}]
    BY DEF AuthTypeOK
  <1>2. PICK u \in AccountIds : users[u] = NoUser /\ users' = [users EXCEPT ![u] = doc]
    BY DEF Insert
  <1>3. QED
    BY <1>1, <1>2

\* What a step may do to an account: nothing, make it, or write new roles into it.
AccountStep(u) ==
    \/ users'[u] = users[u]
    \/ users[u] = NoUser
    \/ /\ users[u] # NoUser /\ users'[u] \in UserDocs
       /\ users'[u].username = users[u].username
       /\ users'[u].version = users[u].version + 1
       /\ \E q \in AuthRequests : SavesRoles(q) /\ userRead[q] = [id |-> u, doc |-> users[u]]

\* The start writes default accounts, and nothing else in the collection, also when
\* it fails; calls, tokens and the index stay.
LEMMA BootstrapWrites ==
  ASSUME Bootstrap \/ StartFails
  PROVE  /\ UNCHANGED <<userIndex, callVars, tokens, restarts>>
         /\ server # "up"
         /\ \/ UNCHANGED users
            \/ server = "saveAdmin" /\ Insert(DefaultAdmin)
            \/ server = "saveTest" /\ Insert(DefaultUser)
  BY DEF Bootstrap, StartFails, FindAdmin, SaveAdmin, FindTest, SaveTest, FindDefault,
         SaveDefault, collectionVars

\* Accounts are made and written as AccountStep has it.
LEMMA AccountsStep ==
  ASSUME AuthInv, [AuthNext]_authVars
  PROVE  /\ users' \in [AccountIds -> UserDocs \cup {NoUser}]
         /\ \A u \in AccountIds : AccountStep(u)
  <1>0. AuthTypeOK /\ users \in [AccountIds -> UserDocs \cup {NoUser}]
    BY DEF AuthInv, AuthTypeOK
  <1>1. ASSUME NEW doc \in UserDocs, Insert(doc)
        PROVE  /\ users' \in [AccountIds -> UserDocs \cup {NoUser}]
               /\ \A u \in AccountIds : AccountStep(u)
    BY <1>0, <1>1, InsertAdds DEF AccountStep
  <1>2. CASE UNCHANGED users
    BY <1>0, <1>2 DEF AccountStep
  <1>3. CASE Bootstrap \/ StartFails
    BY <1>1, <1>2, <1>3, BootstrapWrites, DefaultsType
  <1>4. ASSUME NEW q \in AuthRequests, RequestStep(q)
        PROVE  /\ users' \in [AccountIds -> UserDocs \cup {NoUser}]
               /\ \A u \in AccountIds : AccountStep(u)
    <2>1. CASE SavesUser(q)
      <3>1. call[q] \in RegisterCalls
        BY <2>1 DEF AuthInv, CallInv, SavesUser
      <3>2. QED
        BY <1>1, <2>1, <3>1, RegisteredType DEF SavesUser
    <2>2. CASE SavesRoles(q)
      <3>1. users' = [users EXCEPT ![userRead[q].id] = Reassigned(q)]
        BY <2>2 DEF SavesRoles
      <3>2. users' \in [AccountIds -> UserDocs \cup {NoUser}]
        BY <1>0, <2>2, <3>1, ReassignedType
      <3>3. \A u \in AccountIds : u # userRead[q].id => AccountStep(u)
        BY <1>0, <3>1 DEF AccountStep
      <3>4. AccountStep(userRead[q].id)
        BY <1>0, <2>2, <3>1, ReassignedType DEF AccountStep
      <3>5. QED
        BY <3>2, <3>3, <3>4
    <2>3. QED
      BY <1>2, <1>4, <2>1, <2>2, RequestWrites
  <1>5. CASE Restart \/ BuildUserIndex \/ UNCHANGED authVars
    BY <1>2, <1>5 DEF Restart, BuildUserIndex, authVars, collectionVars
  <1>6. QED
    BY <1>3, <1>4, <1>5 DEF AuthNext, RequestStep

\* Accounts stay, under their names.
LEMMA MatchesStay ==
  ASSUME AuthInv, [AuthNext]_authVars
  PROVE  \A n : Matches(n) \subseteq Matches(n)'
  <1> SUFFICES ASSUME NEW n, NEW u \in AccountIds, users[u] # NoUser, users[u].username = n
               PROVE  users'[u] # NoUser /\ users'[u].username = n
    BY DEF Matches
  <1>1. AccountStep(u)
    BY AccountsStep
  <1>2. QED
    BY <1>1, AuthAssumption DEF AccountStep

-----------------------------------------------------------------------------
(* The calls.                                                              *)

\* A call that a step leaves alone, or that is lost in a restart, stays as it was
\* but for what others have written: the account read is there, under its name,
\* and has a new version if it was written.
LEMMA CallStays ==
  ASSUME AuthInv, [AuthNext]_authVars, NEW q \in AuthRequests,
         pc'[q] = pc[q] \/ (InFlight(q) /\ pc'[q] = "lost"),
         call'[q] = call[q], userRead'[q] = userRead[q], reply'[q] = reply[q]
  PROVE  CallInv(q)'
  <1>1. CallInv(q)
    BY DEF AuthInv
  <1>2. ASSUME ReadStillHolds(q) PROVE ReadStillHolds(q)'
    <2> DEFINE u == userRead[q].id
               doc == userRead[q].doc
    <2>1. u \in AccountIds /\ doc \in UserDocs /\ userRead[q] \in Reads
      BY <1>2 DEF ReadStillHolds, Reads
    <2>2. /\ users[u] # NoUser /\ users[u].username = doc.username
          /\ doc.username = LowerCase[call[q].username]
          /\ doc.version <= users[u].version
          /\ doc.version = users[u].version => doc = users[u]
      BY <1>2 DEF ReadStillHolds
    <2>3. AccountStep(u)
      BY <2>1, AccountsStep
    <2>4. doc.version \in Nat /\ users[u].version \in Nat
      BY <2>1, <2>2 DEF UserDocs, AuthInv, AuthTypeOK
    <2>5. /\ users'[u] # NoUser /\ users'[u].username = doc.username
          /\ doc.version <= users'[u].version
          /\ doc.version = users'[u].version => doc = users'[u]
      BY <2>2, <2>3, <2>4, AuthAssumption DEF AccountStep
    <2>6. userRead'[q].id = u /\ userRead'[q].doc = doc
      OBVIOUS
    <2>7. QED
      BY <2>1, <2>2, <2>5, <2>6 DEF ReadStillHolds
  <1>3. ASSUME Found(call[q].username) # {} PROVE Found(call[q].username)' # {}
    <2>1. \A n : Matches(n) \subseteq Matches(n)'
      BY MatchesStay
    <2>2. QED
      BY <1>3, <2>1 DEF Found, Matches
  <1>4. QED
    BY <1>1, <1>2, <1>3 DEF CallInv, InFlight

\* An account that was found holds as what a call has read.
LEMMA ReadHolds ==
  ASSUME AuthTypeOK, NEW q \in AuthRequests, NEW u \in Found(call[q].username),
         userRead' = [userRead EXCEPT ![q] = [id |-> u, doc |-> users[u]]],
         UNCHANGED <<users, call>>
  PROVE  ReadStillHolds(q)'
  <1>1. /\ u \in AccountIds /\ users[u] # NoUser
        /\ users[u].username = LowerCase[call[q].username]
    BY DEF Found, Matches
  <1>2. users[u] \in UserDocs /\ users[u].version \in Nat
    BY <1>1 DEF AuthTypeOK, UserDocs
  <1>3. userRead'[q] = [id |-> u, doc |-> users[u]] /\ userRead'[q] \in Reads
    BY <1>1, <1>2 DEF AuthTypeOK, Reads
  <1>4. userRead'[q].id = u /\ userRead'[q].doc = users[u]
    BY <1>3
  <1>5. QED
    BY <1>1, <1>2, <1>3, <1>4 DEF ReadStillHolds

\* The call that takes a step finds at the next one what it needs.
LEMMA OwnCallInv ==
  ASSUME AuthInv, NEW q \in AuthRequests, RequestStep(q)
  PROVE  CallInv(q)'
  <1>0. AuthTypeOK /\ CallInv(q) /\ [AuthNext]_authVars
    BY DEF AuthInv, AuthNext, RequestStep
  <1>1. CASE Submit(q)
    BY <1>0, <1>1 DEF Submit, GoTo, Respond, CallInv, AuthTypeOK, CallsWith, NoCall
  <1>2. CASE Authorize(q)
    BY <1>0, <1>2 DEF Authorize, Outside, GoTo, Respond, CallInv, AuthTypeOK
  <1>3. CASE FindProfile(q)
    BY <1>0, <1>3 DEF FindProfile, Outside, Respond, CallInv, AuthTypeOK, Found, Matches
  <1>4. CASE FindSameName(q)
    <2>1. call[q] \in RegisterCalls
      BY <1>0, <1>4 DEF FindSameName, AuthTypeOK, CallInv, RegisterCalls, AssignCalls,
                        LoginCalls, ProfileCalls, MeCalls
    <2>2. QED
      BY <1>0, <1>4, <2>1 DEF FindSameName, Outside, GoTo, Respond, CallInv, AuthTypeOK,
                              Found, Matches
  <1>5. ASSUME pc[q] = "saveUser", Insert(Registered(q)), UNCHANGED call
        PROVE  Found(call[q].username)' # {}
    <2>1. /\ Registered(q) \in UserDocs
          /\ Registered(q).username = LowerCase[call[q].username]
      BY <1>0, <1>5, RegisteredType DEF CallInv
    <2>2. PICK u \in AccountIds : users' = [users EXCEPT ![u] = Registered(q)]
      BY <1>5 DEF Insert
    <2>3. users'[u] = Registered(q) /\ Registered(q) # NoUser
      BY <1>0, <2>1, <2>2, AuthAssumption DEF AuthTypeOK
    <2>4. QED
      BY <1>5, <2>1, <2>3 DEF Found, Matches
  <1>6. CASE SaveUser(q)
    BY <1>0, <1>5, <1>6 DEF SaveUser, Outside, Respond, CallInv, AuthTypeOK
  <1>7. CASE FindAssignee(q)
    <2>1. call[q] \in AssignCalls
      BY <1>0, <1>7 DEF FindAssignee, AuthTypeOK, CallInv, RegisterCalls, AssignCalls,
                        LoginCalls, ProfileCalls, MeCalls
    <2>2. CASE RolesValid(call[q].roles) /\ Found(call[q].username) # {}
      <3>1. PICK u \in Found(call[q].username) :
               /\ userRead' = [userRead EXCEPT ![q] = [id |-> u, doc |-> users[u]]]
               /\ GoTo(q, "saveRoles")
        BY <1>7, <2>2 DEF FindAssignee
      <3>2. ReadStillHolds(q)'
        BY <1>0, <1>7, <3>1, ReadHolds DEF FindAssignee, Outside
      <3>3. QED
        BY <1>0, <1>7, <2>1, <2>2, <3>1, <3>2
           DEF FindAssignee, Outside, GoTo, CallInv, AuthTypeOK
    <2>3. CASE ~(RolesValid(call[q].roles) /\ Found(call[q].username) # {})
      BY <1>0, <1>7, <2>3 DEF FindAssignee, Outside, Respond, CallInv, AuthTypeOK,
                              Found, Matches
    <2>4. QED
      BY <2>2, <2>3
  <1>8. ASSUME ReadStillHolds(q), UNCHANGED call
        PROVE  Found(call[q].username)' # {}
    <2>1. userRead[q].id \in Found(call[q].username)
      BY <1>8 DEF ReadStillHolds, Reads, Found, Matches
    <2>2. \A n : Matches(n) \subseteq Matches(n)'
      BY <1>0, MatchesStay
    <2>3. QED
      BY <1>8, <2>1, <2>2 DEF Found, Matches
  <1>9. CASE SaveRoles(q)
    BY <1>0, <1>8, <1>9 DEF SaveRoles, Outside, Respond, CallInv, AuthTypeOK
  <1>10. CASE FindCredentials(q)
    <2>1. call[q] \in LoginCalls
      BY <1>0, <1>10 DEF FindCredentials, AuthTypeOK, CallInv, RegisterCalls, AssignCalls,
                         LoginCalls, ProfileCalls, MeCalls
    <2>2. ASSUME NEW u \in Identified(q),
                 userRead' = [userRead EXCEPT ![q] = [id |-> u, doc |-> users[u]]],
                 GoTo(q, "sign")
          PROVE  CallInv(q)'
      <3>1. ReadStillHolds(q)'
        BY <1>0, <1>10, <2>2, ReadHolds DEF FindCredentials, Outside, Identified
      <3>2. QED
        BY <1>0, <1>10, <2>1, <2>2, <3>1
           DEF FindCredentials, Outside, GoTo, CallInv, AuthTypeOK
    <2>3. ASSUME NEW status \in {401, 500}, Respond(q, status) PROVE CallInv(q)'
      BY <1>0, <1>10, <2>3 DEF FindCredentials, Outside, Respond, CallInv, AuthTypeOK
    <2>4. QED
      BY <1>10, <2>2, <2>3 DEF FindCredentials
  <1>11. CASE Sign(q)
    BY <1>0, <1>8, <1>11 DEF Sign, Outside, Respond, CallInv, AuthTypeOK
  <1>12. CASE CallFails(q)
    BY <1>0, <1>12 DEF CallFails, Outside, Respond, CallInv, AuthTypeOK
  <1>13. CASE AcknowledgementLost(q)
    BY <1>0, <1>13 DEF AcknowledgementLost, Outside, Respond, CallInv, AuthTypeOK
  <1>14. QED
    BY <1>1, <1>2, <1>3, <1>4, <1>6, <1>7, <1>9, <1>10, <1>11, <1>12, <1>13
       DEF RequestStep, CallStep

\* A step keeps the types.
LEMMA AuthTypesStep == AuthInv /\ [AuthNext]_authVars => AuthTypeOK'
  <1> SUFFICES ASSUME AuthInv, [AuthNext]_authVars PROVE AuthTypeOK'
    OBVIOUS
  <1>0. /\ AuthTypeOK /\ users' \in [AccountIds -> UserDocs \cup {NoUser}]
        /\ \A q \in AuthRequests : CallInv(q)
    BY AccountsStep DEF AuthInv
  <1>1. ASSUME NEW q \in AuthRequests, RequestStep(q) PROVE AuthTypeOK'
    <2>0. /\ UNCHANGED <<userIndex, server, restarts>>
          /\ \A r \in AuthRequests : pc[r] \in {"saveRoles", "sign"} => userRead[r] \in Reads
      BY <1>0, <1>1, RequestWrites DEF AuthTypeOK
    <2> DEFINE Calls == RegisterCalls \cup AssignCalls \cup LoginCalls
                           \cup ProfileCalls \cup MeCalls \cup {NoCall}
    <2>1. CASE Submit(q)
      <3>1. call' \in [AuthRequests -> Calls]
        <4>1. ASSUME NEW body \in LoginBodies,
                     call' = [call EXCEPT ![q] = [op |-> "login", username |-> body.username,
                                                  password |-> body.password]]
              PROVE  call' \in [AuthRequests -> Calls]
          BY <1>0, <4>1, AuthAssumption DEF AuthTypeOK, LoginCalls
        <4>2. ASSUME NEW t \in tokens, NEW c \in CallsWith(t), call' = [call EXCEPT ![q] = c]
              PROVE  call' \in [AuthRequests -> Calls]
          <5>1. c \in Calls
            BY <1>0, <4>2, AuthAssumption
               DEF AuthTypeOK, CallsWith, RegisterCalls, AssignCalls, ProfileCalls, MeCalls
          <5>2. QED
            BY <1>0, <4>2, <5>1 DEF AuthTypeOK
        <4>3. QED
          BY <2>1, <4>1, <4>2 DEF Submit
      <3>2. QED
        BY <1>0, <2>0, <2>1, <3>1 DEF Submit, GoTo, Respond, AuthTypeOK, collectionVars
    <2>2. ASSUME UNCHANGED <<userRead, call, tokens, faults>>, NEW step, GoTo(q, step),
                 step \in {"findUser", "saveUser"}
          PROVE  AuthTypeOK'
      BY <1>0, <2>0, <2>2 DEF GoTo, AuthTypeOK
    <2>3. ASSUME UNCHANGED <<userRead, call>>, faults' \in 0..MaxFaults,
                 tokens' \subseteq [user : AccountIds, roles : SUBSET Role],
                 NEW status \in {200, 201, 400, 401, 403, 404, 409, 500}, Respond(q, status)
          PROVE  AuthTypeOK'
      BY <1>0, <2>0, <2>3 DEF Respond, AuthTypeOK
    <2>4. CASE Authorize(q) \/ FindProfile(q) \/ FindSameName(q) \/ SaveUser(q) \/ SaveRoles(q)
      BY <1>0, <2>2, <2>3, <2>4
         DEF Authorize, FindProfile, FindSameName, SaveUser, SaveRoles, Outside, AuthTypeOK
    <2>5. ASSUME NEW u \in Found(call[q].username), NEW step \in {"saveRoles", "sign"},
                 userRead' = [userRead EXCEPT ![q] = [id |-> u, doc |-> users[u]]],
                 GoTo(q, step), UNCHANGED <<users, call, tokens, faults>>
          PROVE  AuthTypeOK'
      <3>1. userRead'[q] \in Reads
        BY <1>0, <2>5, ReadHolds DEF ReadStillHolds
      <3>2. userRead' \in [AuthRequests -> Reads \cup {NoUser}]
        BY <1>0, <2>5, <3>1 DEF AuthTypeOK
      <3>3. \A r \in AuthRequests : pc'[r] \in {"saveRoles", "sign"} => userRead'[r] \in Reads
        BY <1>0, <2>0, <2>5, <3>1 DEF AuthTypeOK, GoTo
      <3>4. QED
        BY <1>0, <2>0, <2>5, <3>2, <3>3 DEF AuthTypeOK, GoTo
    <2>6. CASE FindAssignee(q)
      BY <1>0, <2>3, <2>5, <2>6 DEF FindAssignee, Outside, AuthTypeOK
    <2>7. CASE FindCredentials(q)
      BY <1>0, <2>3, <2>5, <2>7 DEF FindCredentials, Identified, Outside, AuthTypeOK
    <2>8. CASE Sign(q)
      <3>1. userRead[q].id \in AccountIds /\ userRead[q].doc.roles \in SUBSET Role
        BY <2>0, <2>8 DEF Sign, Reads, UserDocs
      <3>2. tokens' \subseteq [user : AccountIds, roles : SUBSET Role]
        BY <1>0, <2>8, <3>1 DEF Sign, TokenOf, AuthTypeOK
      <3>3. QED
        BY <1>0, <2>3, <2>8, <3>2 DEF Sign, Outside, AuthTypeOK
    <2>9. CASE CallFails(q) \/ AcknowledgementLost(q)
      <3>1. faults' \in 0..MaxFaults
        BY <1>0, <2>9, AuthAssumption DEF CallFails, AcknowledgementLost, AuthTypeOK
      <3>2. QED
        BY <1>0, <2>3, <2>9, <3>1 DEF CallFails, AcknowledgementLost, Outside, AuthTypeOK
    <2>10. QED
      BY <1>1, <2>1, <2>4, <2>6, <2>7, <2>8, <2>9 DEF RequestStep, CallStep
  <1>2. CASE Bootstrap \/ StartFails
    <2>1. /\ server' \in {"findAdmin", "saveAdmin", "findTest", "saveTest", "up", "exited"}
          /\ faults' \in 0..MaxFaults
      BY <1>0, <1>2, AuthAssumption
         DEF Bootstrap, StartFails, FindAdmin, SaveAdmin, FindTest, SaveTest, FindDefault,
             SaveDefault, AuthTypeOK
    <2>2. QED
      BY <1>0, <1>2, <2>1, BootstrapWrites DEF callVars, AuthTypeOK
  <1>3. CASE Restart
    BY <1>0, <1>3, AuthAssumption DEF Restart, AuthTypeOK, InFlight
  <1>4. CASE BuildUserIndex
    BY <1>0, <1>4 DEF BuildUserIndex, callVars, AuthTypeOK
  <1>5. CASE UNCHANGED authVars
    BY <1>0, <1>5 DEF authVars, collectionVars, callVars, AuthTypeOK
  <1>6. QED
    BY <1>1, <1>2, <1>3, <1>4, <1>5 DEF AuthNext, RequestStep

-----------------------------------------------------------------------------
(* The start, the names, and the theorems.                                 *)

\* A call takes a step only while the server listens.
LEMMA CallsNeedServer ==
  ASSUME AuthInv, NEW q \in AuthRequests, RequestStep(q)
  PROVE  server = "up"
  <1>1. server = "up" \/ InFlight(q)
    BY DEF RequestStep, Submit, CallStep, CallFails, AcknowledgementLost, Authorize, FindProfile,
           FindSameName, SaveUser, FindAssignee, SaveRoles, FindCredentials, Sign, InFlight
  <1>2. QED
    BY <1>1 DEF AuthInv, StartInv

\* The start goes from account to account, and a listening server has both.
LEMMA StartStep == AuthInv /\ [AuthNext]_authVars => StartInv'
  <1> SUFFICES ASSUME AuthInv, [AuthNext]_authVars PROVE StartInv'
    OBVIOUS
  <1>0. AuthTypeOK /\ StartInv /\ \A n : Matches(n) \subseteq Matches(n)'
    BY MatchesStay DEF AuthInv
  <1>1. ASSUME NEW q \in AuthRequests, RequestStep(q) PROVE StartInv'
    <2>1. server = "up" /\ server' = "up"
      BY <1>1, CallsNeedServer, RequestWrites
    <2>2. QED
      BY <1>0, <2>1 DEF StartInv
  <1>2. ASSUME NEW doc \in UserDocs, Insert(doc) PROVE Matches(doc.username)' # {}
    <2>1. PICK u \in AccountIds : users' = [users EXCEPT ![u] = doc]
      BY <1>2 DEF Insert
    <2>2. users'[u] = doc /\ doc # NoUser
      BY <1>0, <2>1, AuthAssumption DEF AuthTypeOK
    <2>3. QED
      BY <2>2 DEF Matches
  <1>3. CASE Bootstrap \/ StartFails
    <2>1. server # "up" /\ \A q \in AuthRequests : ~InFlight(q)'
      BY <1>0, <1>3, BootstrapWrites DEF callVars, StartInv, InFlight
    <2>2. CASE FindAdmin \/ FindTest
      BY <1>0, <2>1, <2>2 DEF FindAdmin, FindTest, FindDefault, collectionVars, StartInv, Matches
    <2>3. CASE SaveAdmin \/ SaveTest
      BY <1>0, <1>2, <2>1, <2>3, DefaultsType DEF SaveAdmin, SaveTest, SaveDefault, StartInv
    <2>4. CASE StartFails
      BY <1>0, <2>1, <2>4 DEF StartFails, StartInv
    <2>5. QED
      BY <1>3, <2>2, <2>3, <2>4 DEF Bootstrap
  <1>4. CASE Restart
    BY <1>0, <1>4 DEF Restart, StartInv, InFlight, AuthTypeOK
  <1>5. CASE BuildUserIndex \/ UNCHANGED authVars
    BY <1>0, <1>5 DEF BuildUserIndex, authVars, collectionVars, callVars, StartInv, InFlight,
                      Matches
  <1>6. QED
    BY <1>1, <1>3, <1>4, <1>5 DEF AuthNext, RequestStep

\* While the index is there, a step adds no second account of a name.
LEMMA NamesStep ==
  AuthInv /\ [AuthNext]_authVars => (userIndex' = "unique" => NamesDistinct')
  <1> SUFFICES ASSUME AuthInv, [AuthNext]_authVars, userIndex' = "unique" PROVE NamesDistinct'
    OBVIOUS
  <1>0. AuthTypeOK /\ StartInv /\ (userIndex = "unique" => NamesDistinct)
    BY DEF AuthInv
  <1>1. ASSUME userIndex = "unique", UNCHANGED users PROVE NamesDistinct'
    BY <1>0, <1>1 DEF NamesDistinct
  <1>2. ASSUME userIndex = "unique", NEW doc \in UserDocs, Insert(doc), Matches(doc.username) = {}
        PROVE  NamesDistinct'
    <2>1. PICK u \in AccountIds : users' = [users EXCEPT ![u] = doc]
      BY <1>2 DEF Insert
    <2>2. \A v \in AccountIds : users[v] # NoUser => users[v].username # doc.username
      BY <1>2 DEF Matches
    <2>3. QED
      BY <1>0, <1>2, <2>1, <2>2 DEF AuthTypeOK, NamesDistinct
  <1>3. CASE Bootstrap \/ StartFails
    <2>1. userIndex = "unique"
      BY <1>3, BootstrapWrites
    <2>2. QED
      BY <1>0, <1>1, <1>2, <1>3, <2>1, BootstrapWrites, DefaultsType DEF StartInv
  <1>4. ASSUME NEW q \in AuthRequests, RequestStep(q) PROVE NamesDistinct'
    <2>1. userIndex = "unique"
      BY <1>4, RequestWrites
    <2>2. CASE SavesUser(q)
      <3>1. call[q] \in RegisterCalls
        BY <2>2 DEF AuthInv, CallInv, SavesUser
      <3>2. QED
        BY <1>2, <2>1, <2>2, <3>1, RegisteredType DEF SavesUser, NameTaken
    <2>3. CASE SavesRoles(q)
      <3>1. \A u \in AccountIds :
               /\ users'[u] # NoUser <=> users[u] # NoUser
               /\ users[u] # NoUser => users'[u].username = users[u].username
        <4>1. userRead[q].id \in AccountIds /\ users[userRead[q].id] # NoUser
              /\ Reassigned(q) # NoUser
              /\ Reassigned(q).username = users[userRead[q].id].username
          BY <2>3, ReassignedType, AuthAssumption
        <4>2. QED
          BY <1>0, <2>3, <4>1 DEF SavesRoles, AuthTypeOK
      <3>2. QED
        BY <1>0, <2>1, <3>1 DEF NamesDistinct
    <2>4. QED
      BY <1>1, <1>4, <2>1, <2>2, <2>3, RequestWrites
  <1>5. CASE Restart
    BY <1>1, <1>5 DEF Restart
  <1>6. CASE BuildUserIndex
    BY <1>6 DEF BuildUserIndex, NamesDistinct
  <1>7. CASE UNCHANGED authVars
    BY <1>1, <1>7 DEF authVars, collectionVars
  <1>8. QED
    BY <1>3, <1>4, <1>5, <1>6, <1>7 DEF AuthNext, RequestStep

\* The invariant holds when the server is started for the first time.
LEMMA AuthInvInit == AuthInit => AuthInv
  BY AuthAssumption DEF AuthInit, AuthInv, AuthTypeOK, CallInv, StartInv, InFlight

\* Every step keeps it.
LEMMA AuthInvStep == AuthInv /\ [AuthNext]_authVars => AuthInv'
  <1> SUFFICES ASSUME AuthInv, [AuthNext]_authVars PROVE AuthInv'
    OBVIOUS
  <1>1. ASSUME NEW q \in AuthRequests PROVE CallInv(q)'
    <2>1. ASSUME NEW r \in AuthRequests, RequestStep(r) PROVE CallInv(q)'
      <3>1. CASE r = q
        BY <2>1, <3>1, OwnCallInv
      <3>2. CASE r # q
        BY <2>1, <3>2, OthersUntouched, CallStays DEF AuthInv
      <3>3. QED
        BY <3>1, <3>2
    <2>2. CASE Bootstrap \/ StartFails \/ BuildUserIndex \/ UNCHANGED authVars
      <3>1. UNCHANGED callVars
        BY <2>2, BootstrapWrites DEF BuildUserIndex, authVars
      <3>2. QED
        BY <3>1, CallStays DEF callVars
    <2>3. CASE Restart
      <3>1. /\ pc'[q] = pc[q] \/ (InFlight(q) /\ pc'[q] = "lost")
            /\ UNCHANGED <<call, userRead, reply>>
        BY <2>3 DEF Restart
      <3>2. QED
        BY <3>1, CallStays
    <2>4. QED
      BY <2>1, <2>2, <2>3 DEF AuthNext, RequestStep
  <1>2. QED
    BY <1>1, AuthTypesStep, StartStep, NamesStep DEF AuthInv

LEMMA AuthInvAlways == AuthSpec => []AuthInv
  BY AuthInvInit, AuthInvStep, PTL DEF AuthSpec

\* Users, calls and tokens keep their types, roles of tokens included.
THEOREM AuthTypesCorrect == AuthSpec => []AuthTypeOK
  <1>1. AuthInv => AuthTypeOK
    BY DEF AuthInv
  <1>2. QED
    BY <1>1, AuthInvAlways, PTL

\* With the index, a name in any spelling has one account, however many
\* registrations and starts of the server overlap.
THEOREM OneAccount == AuthSpec => []OneAccountPerName
  <1>1. AuthInv => OneAccountPerName
    <2>1. \A doc \in UserDocs : LowerCase[doc.username] = doc.username
      BY NamesAreLower DEF UserDocs
    <2>2. QED
      BY <2>1 DEF AuthInv, AuthTypeOK, NamesDistinct, OneAccountPerName
  <1>2. QED
    BY <1>1, AuthInvAlways, PTL

\* An index that is there stays.
LEMMA IndexStays ==
  ASSUME [AuthNext]_authVars, userIndex = "unique"
  PROVE  userIndex' = "unique"
  <1>1. ASSUME NEW q \in AuthRequests, RequestStep(q) PROVE userIndex' = "unique"
    BY <1>1, RequestWrites
  <1>2. CASE Bootstrap \/ StartFails \/ Restart \/ BuildUserIndex \/ UNCHANGED authVars
    BY <1>2, BootstrapWrites DEF Restart, BuildUserIndex, authVars, collectionVars
  <1>3. QED
    BY <1>1, <1>2 DEF AuthNext, RequestStep

\* From the moment the index is built, a name has one account for good: no restart
\* brings back the window in which two registrations could both succeed.
THEOREM OnceIndexedOneAccount == AuthSpec => [](userIndex = "unique" => []NamesDistinct)
  <1>1. AuthInv => (userIndex = "unique" => NamesDistinct)
    BY DEF AuthInv
  <1>2. [AuthNext]_authVars => (userIndex = "unique" => (userIndex = "unique")')
    BY IndexStays
  <1>3. QED
    BY <1>1, <1>2, AuthInvAlways, PTL DEF AuthSpec

\* A server that listens has both default accounts.
THEOREM DefaultsExist == AuthSpec => []DefaultAccountsExist
  <1>1. AuthInv => DefaultAccountsExist
    BY DEF AuthInv, StartInv, DefaultAccountsExist
  <1>2. QED
    BY <1>1, AuthInvAlways, PTL

\* What calls were answered stays true of the collection.
THEOREM AnswersStayTrue == AuthSpec => []AnswersMatchUsers
  <1>1. AuthInv => AnswersMatchUsers
    BY DEF AuthInv, CallInv, AnswersMatchUsers
  <1>2. QED
    BY <1>1, AuthInvAlways, PTL

-----------------------------------------------------------------------------
(* Errors.                                                                 *)

\* An error has a reason.
Explained(q) == reply[q] = 500 => faults > 0 \/ Excused(q)

\* The number of database errors only grows.
LEMMA FaultsGrow ==
  ASSUME AuthInv, [AuthNext]_authVars, faults > 0
  PROVE  faults' > 0
  <1>0. faults \in Nat
    BY AuthAssumption DEF AuthInv, AuthTypeOK
  <1>1. faults' = faults \/ faults' = faults + 1
    BY DEF AuthNext, Bootstrap, StartFails, FindAdmin, SaveAdmin, FindTest, SaveTest,
           FindDefault, SaveDefault, Submit, CallStep, Authorize, FindProfile, FindSameName, SaveUser, FindAssignee, SaveRoles,
           FindCredentials, Sign, CallFails, AcknowledgementLost, Restart, BuildUserIndex, authVars
  <1>2. QED
    BY <1>0, <1>1

\* An account that has been written since it was read stays so: versions grow.
LEMMA OvertakenStays ==
  ASSUME AuthInv, [AuthNext]_authVars, NEW q \in AuthRequests, Overtaken(q),
         call'[q] = call[q], userRead'[q] = userRead[q]
  PROVE  Overtaken(q)'
  <1>1. PICK u \in Found(call[q].username) :
           u = userRead[q].id /\ users[u].version > userRead[q].doc.version
    BY DEF Overtaken
  <1>2. /\ u \in AccountIds /\ users[u] \in UserDocs /\ users[u] # NoUser
        /\ userRead[q] \in Reads
    BY DEF Found, Matches, Overtaken, AuthInv, AuthTypeOK
  <1>3. users[u].version \in Nat /\ userRead[q].doc.version \in Nat
    BY <1>2 DEF UserDocs, Reads
  <1>4. AccountStep(u)
    BY <1>2, AccountsStep
  <1>5. users'[u].version > userRead[q].doc.version
    BY <1>1, <1>2, <1>3, <1>4 DEF AccountStep
  <1>6. \A n : Matches(n) \subseteq Matches(n)'
    BY MatchesStay
  <1>7. u \in Found(call[q].username)'
    BY <1>6 DEF Found, Matches
  <1>8. QED
    BY <1>1, <1>2, <1>5, <1>7 DEF Overtaken

\* A reason stays one while its call stays as it is.
LEMMA ExplainedStays ==
  ASSUME AuthInv, [AuthNext]_authVars, NEW q \in AuthRequests, Explained(q),
         call'[q] = call[q], userRead'[q] = userRead[q], reply'[q] = reply[q]
  PROVE  Explained(q)'
  <1>0. \A n : Matches(n) \subseteq Matches(n)'
    BY MatchesStay
  <1>1. Found(call[q].username) # {} => Found(call[q].username)' # {}
    BY <1>0 DEF Found, Matches
  <1>2. QED
    BY <1>1, FaultsGrow, IndexStays, OvertakenStays DEF Explained, Excused, CompareFails, Found,
                                                          Matches

\* A call's own step gives an error only for a reason.
LEMMA OwnExplained ==
  ASSUME AuthInv, NEW q \in AuthRequests, RequestStep(q)
  PROVE  Explained(q)'
  <1> SUFFICES ASSUME reply'[q] = 500 PROVE faults' > 0 \/ Excused(q)'
    BY DEF Explained
  <1>0. AuthTypeOK /\ CallInv(q) /\ faults \in Nat /\ reply \in [AuthRequests -> Nat]
    BY AuthAssumption DEF AuthInv, AuthTypeOK
  <1>1. CASE CallFails(q) \/ AcknowledgementLost(q)
    BY <1>0, <1>1 DEF CallFails, AcknowledgementLost
  <1>2. CASE Submit(q)
    BY <1>0, <1>2 DEF Submit, GoTo, Respond, CallInv, Excused, AuthTypeOK
  <1>3. CASE Authorize(q) \/ FindProfile(q) \/ FindSameName(q) \/ Sign(q)
    BY <1>0, <1>3 DEF Authorize, FindProfile, FindSameName, Sign, GoTo, Respond, CallInv
  <1>8. CASE FindCredentials(q)
    BY <1>0, <1>8 DEF FindCredentials, GoTo, Respond, CallInv, Excused, CompareFails, Found,
                      Matches, Outside
  <1>4. CASE SaveUser(q)
    <2>1. /\ NameTaken(Registered(q)) /\ UNCHANGED <<users, call, userIndex>>
          /\ call[q] \in RegisterCalls
      BY <1>0, <1>4 DEF SaveUser, Respond, CallInv, Outside
    <2>2. userIndex = "unique" /\ Found(call[q].username) # {}
      BY <2>1, RegisteredType DEF NameTaken, Found
    <2>3. call[q].op = "register"
      BY <2>1 DEF RegisterCalls
    <2>4. QED
      BY <2>1, <2>2, <2>3 DEF Excused, Found, Matches
  <1>5. CASE FindAssignee(q)
    BY <1>0, <1>5 DEF FindAssignee, GoTo, Respond, CallInv, Excused, Found, Matches, Outside
  <1>6. CASE SaveRoles(q)
    <2>1. /\ ~VersionRead(q) /\ UNCHANGED <<users, call, userRead>>
          /\ call[q] \in AssignCalls /\ ReadStillHolds(q)
      BY <1>0, <1>6 DEF SaveRoles, Respond, CallInv, Outside
    <2> DEFINE u == userRead[q].id
               doc == userRead[q].doc
    <2>2. /\ userRead[q] \in Reads /\ users[u] # NoUser
          /\ users[u].username = LowerCase[call[q].username]
          /\ doc.version <= users[u].version /\ doc.version # users[u].version
      BY <2>1 DEF ReadStillHolds, VersionRead
    <2>3. u \in AccountIds /\ doc.version \in Nat /\ users[u].version \in Nat
      BY <1>0, <2>2 DEF Reads, UserDocs, AuthTypeOK
    <2>4. u \in Found(call[q].username) /\ users[u].version > doc.version
      BY <2>2, <2>3 DEF Found, Matches
    <2>5. Overtaken(q)
      BY <2>2, <2>4 DEF Overtaken
    <2>6. Overtaken(q)'
      BY <2>1, <2>5 DEF Overtaken, Found, Matches
    <2>7. QED
      BY <2>1, <2>6 DEF Excused, AssignCalls
  <1>7. QED
    BY <1>1, <1>2, <1>3, <1>4, <1>5, <1>6, <1>8 DEF RequestStep, CallStep

\* A 500 has its reason in the database, in a lost race, or in a body that nothing
\* validates: a login that has no strings, an assignment that has no list.
THEOREM FailuresExplained == AuthSpec => []FailuresAreExplained
  <1> DEFINE Inv == AuthInv /\ \A q \in AuthRequests : Explained(q)
  <1>1. AuthInit => Inv
    BY AuthInvInit DEF AuthInit, Explained
  <1>2. Inv /\ [AuthNext]_authVars => Inv'
    <2> SUFFICES ASSUME Inv, [AuthNext]_authVars, NEW q \in AuthRequests
                 PROVE  Explained(q)'
      BY AuthInvStep
    <2>1. CASE RequestStep(q)
      BY <2>1, OwnExplained
    <2>2. ASSUME NEW r \in AuthRequests, r # q, RequestStep(r) PROVE Explained(q)'
      BY <2>2, OthersUntouched, ExplainedStays DEF AuthInv
    <2>3. CASE Bootstrap \/ StartFails \/ BuildUserIndex \/ Restart \/ UNCHANGED authVars
      <3>1. UNCHANGED <<call, userRead, reply>>
        BY <2>3, BootstrapWrites DEF BuildUserIndex, Restart, authVars, callVars
      <3>2. QED
        BY <3>1, ExplainedStays
    <2>4. QED
      BY <2>1, <2>2, <2>3 DEF AuthNext, RequestStep
  <1>3. Inv => FailuresAreExplained
    BY DEF Explained, FailuresAreExplained
  <1>4. QED
    BY <1>1, <1>2, <1>3, PTL DEF AuthSpec

-----------------------------------------------------------------------------
(* The way of the start and of a call.                                     *)

\* How far the start is from a server that listens, and a call from its end.
StartLeft(step) ==
    CASE step = "findAdmin" -> 4
      [] step = "saveAdmin" -> 3
      [] step = "findTest" -> 2
      [] step = "saveTest" -> 1
      [] OTHER -> 0

CallLeft(step) ==
    CASE step = "idle" -> 4
      [] step = "authorize" -> 3
      [] step = "findUser" -> 2
      [] step \in {"saveUser", "saveRoles", "sign"} -> 1
      [] OTHER -> 0

\* A step of a call takes it nearer to its end.
LEMMA OwnCallAdvances ==
  ASSUME AuthInv, NEW q \in AuthRequests, RequestStep(q)
  PROVE  CallLeft(pc'[q]) < CallLeft(pc[q])
  <1> USE DEF CallLeft, GoTo, Respond, AuthInv, AuthTypeOK
  <1>1. CASE Submit(q) \/ Authorize(q)
    BY <1>1 DEF Submit, Authorize
  <1>2. CASE FindProfile(q) \/ FindSameName(q) \/ SaveUser(q)
    BY <1>2 DEF FindProfile, FindSameName, SaveUser
  <1>3. CASE FindAssignee(q) \/ SaveRoles(q)
    BY <1>3 DEF FindAssignee, SaveRoles
  <1>4. CASE FindCredentials(q) \/ Sign(q)
    BY <1>4 DEF FindCredentials, Sign
  <1>5. CASE CallFails(q) \/ AcknowledgementLost(q)
    BY <1>5 DEF CallFails, AcknowledgementLost
  <1>6. QED
    BY <1>1, <1>2, <1>3, <1>4, <1>5 DEF RequestStep, CallStep

\* A start goes on to a server that listens or gives up, and is set back by a restart
\* only, and nothing sets a call back: a call answers after three steps of its own
\* at most.
THEOREM StartAndCallsAdvance ==
  AuthSpec => [][/\ server' # server => Restart \/ StartLeft(server') < StartLeft(server)
                 /\ \A q \in AuthRequests :
                       /\ pc'[q] # pc[q] => CallLeft(pc'[q]) < CallLeft(pc[q])
                       /\ CallStep(q) => pc'[q] # pc[q]]_authVars
  <1>1. ASSUME AuthInv, [AuthNext]_authVars
        PROVE  server' # server => Restart \/ StartLeft(server') < StartLeft(server)
    <2>1. ASSUME NEW q \in AuthRequests, RequestStep(q) PROVE server' = server
      BY <2>1, RequestWrites
    <2>2. CASE Bootstrap \/ StartFails
      BY <2>2 DEF Bootstrap, StartFails, FindAdmin, SaveAdmin, FindTest, SaveTest, FindDefault,
                  SaveDefault, StartLeft
    <2>3. CASE BuildUserIndex \/ UNCHANGED authVars
      BY <2>3 DEF BuildUserIndex, authVars
    <2>4. QED
      BY <1>1, <2>1, <2>2, <2>3 DEF AuthNext, RequestStep
  <1>2. ASSUME AuthInv, [AuthNext]_authVars, NEW q \in AuthRequests
        PROVE  /\ pc'[q] # pc[q] => CallLeft(pc'[q]) < CallLeft(pc[q])
               /\ CallStep(q) => pc'[q] # pc[q]
    <2>1. CallStep(q) => pc'[q] # pc[q]
      BY <1>2, OwnCallAdvances DEF RequestStep, CallLeft
    <2>2. CASE RequestStep(q)
      BY <1>2, <2>1, <2>2, OwnCallAdvances
    <2>3. ASSUME NEW r \in AuthRequests, r # q, RequestStep(r) PROVE pc'[q] = pc[q]
      BY <1>2, <2>3, OthersUntouched DEF AuthInv
    <2>4. CASE Restart
      <3>1. pc'[q] = IF InFlight(q) THEN "lost" ELSE pc[q]
        BY <2>4 DEF Restart
      <3>2. pc'[q] # pc[q] => InFlight(q) /\ pc'[q] = "lost"
        BY <3>1
      <3>3. CallLeft("lost") = 0 /\ (InFlight(q) => CallLeft(pc[q]) \in 1..3)
        BY <1>2 DEF CallLeft, InFlight, AuthInv, AuthTypeOK
      <3>4. pc'[q] # pc[q] => CallLeft(pc'[q]) = 0
        BY <3>2, <3>3
      <3>5. QED
        BY <2>1, <3>2, <3>3, <3>4
    <2>5. CASE Bootstrap \/ StartFails \/ BuildUserIndex \/ UNCHANGED authVars
      <3>1. UNCHANGED pc
        BY <2>5, BootstrapWrites DEF BuildUserIndex, authVars, callVars
      <3>2. QED
        BY <2>1, <3>1
    <2>6. QED
      BY <1>2, <2>1, <2>2, <2>3, <2>4, <2>5 DEF AuthNext, RequestStep
  <1>3. AuthInv /\ [AuthNext]_authVars =>
           [/\ server' # server => Restart \/ StartLeft(server') < StartLeft(server)
            /\ \A q \in AuthRequests :
                  /\ pc'[q] # pc[q] => CallLeft(pc'[q]) < CallLeft(pc[q])
                  /\ CallStep(q) => pc'[q] # pc[q]]_authVars
    BY <1>1, <1>2
  <1>4. QED
    BY <1>3, AuthInvAlways, PTL DEF AuthSpec

-----------------------------------------------------------------------------
(* Assignments.                                                            *)

\* No assignment overwrites roles its call has not read.
THEOREM NoLostRoles == AuthSpec => NoRolesOverwrittenUnread
  <1>1. AuthInv /\ [AuthNext]_authVars =>
           [\A u \in AccountIds :
               users[u] # NoUser /\ users'[u].roles # users[u].roles =>
                   \E q \in AuthRequests :
                       /\ pc[q] = "saveRoles"
                       /\ pc'[q] = "done"
                       /\ userRead[q] = [id |-> u, doc |-> users[u]]]_authVars
    <2> SUFFICES ASSUME AuthInv, [AuthNext]_authVars, NEW u \in AccountIds,
                        users[u] # NoUser, users'[u].roles # users[u].roles
                 PROVE  \E q \in AuthRequests :
                            /\ pc[q] = "saveRoles"
                            /\ pc'[q] = "done"
                            /\ userRead[q] = [id |-> u, doc |-> users[u]]
      OBVIOUS
    <2>1. PICK q \in AuthRequests : SavesRoles(q) /\ userRead[q] = [id |-> u, doc |-> users[u]]
      BY AccountsStep DEF AccountStep
    <2>2. QED
      BY <2>1 DEF SavesRoles, AuthInv, AuthTypeOK
  <1>2. QED
    BY <1>1, AuthInvAlways, PTL DEF AuthSpec, NoRolesOverwrittenUnread

=============================================================================
