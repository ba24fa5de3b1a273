---------------------------- MODULE EventCatalog ----------------------------
(***************************************************************************)
(* The catalogue the operators maintain: EventService and RewardService of *)
(* event-server, with the request bodies already through the global        *)
(* ValidationPipe.  A request is one HTTP call of an operator; the steps of *)
(* its handler are the stretches between two awaits of the database.       *)
(* Documents are created and updated, and no handler deletes one.          *)
(***************************************************************************)
EXTENDS Naturals

CONSTANTS EventIds,        \* the ids MongoDB hands out for event documents
          RewardIds,       \* the same for reward documents
          AdminRequests,   \* the operator calls of a behaviour, each used once
          CreateBodies,    \* bodies of POST /events that pass validation
          UpdateBodies,    \* bodies of PUT /events/:id that pass validation
          RewardBodies,    \* bodies of POST /rewards that pass validation
          RewardPatches,   \* bodies of PUT /rewards/:id that pass validation
          Dates,           \* the calendar, ordered instants
          Params,          \* parameter parts of a condition (days, count, ...)
          NoParams,        \* the condition carries a type only
          Details,         \* what a reward consists of (type, details, quantity)
          Undefined,       \* an optional field left out of a body
          Null,            \* a field a body has as null
          NoDoc,           \* findById returns null
          InitialEvents,   \* the database an earlier run of the server left
          InitialRewards

VARIABLES events,      \* the events collection, by id
          rewards,     \* the rewards collection, by id
          adminPc,     \* where each operator call is in its handler
          adminCall,   \* the arguments it is working on
          adminReply   \* the HTTP status it answered

catalogVars == <<events, rewards, adminPc, adminCall, adminReply>>

-----------------------------------------------------------------------------
(* Documents and request bodies.                                           *)

EventStatus == {"ACTIVE", "INACTIVE", "ENDED"}

\* The condition types checkEventCondition knows, and one it does not.
SupportedTypes == {"loginStreak", "inviteFriends", "questClear"}
ConditionTypes == SupportedTypes \cup {"other"}

Conditions == [type : ConditionTypes, params : Params]

Nullable(S) == S \cup {Null}

\* Updates run no validators, so what a schema requires may have become null.
EventDocs == [status : Nullable(EventStatus), isActive : Nullable(BOOLEAN),
              startDate : Dates, endDate : Dates, condition : Nullable(Conditions)]

RewardDocs == [eventId : Nullable(EventIds), details : Nullable(Details)]

Maybe(S) == S \cup {Undefined}

CreateEventDto == [status : Maybe(EventStatus), isActive : Maybe(BOOLEAN),
                   startDate : Dates, endDate : Dates, condition : Conditions]

\* POST /rewards requires its fields.
CreateRewardDto == [eventId : EventIds, details : Details]

\* PartialType makes every field of an update optional, for null as well.
UpdateEventDto == [status : Maybe(Nullable(EventStatus)), isActive : Maybe(Nullable(BOOLEAN)),
                   startDate : Maybe(Nullable(Dates)), endDate : Maybe(Nullable(Dates)),
                   condition : Maybe(Nullable(Conditions))]

UpdateRewardDto == [eventId : Maybe(Nullable(EventIds)), details : Maybe(Nullable(Details))]

NoCall == [reward |-> Undefined, body |-> Undefined]

Calls == [reward : Maybe(RewardIds), body : CreateRewardDto \cup UpdateRewardDto] \cup {NoCall}

ASSUME CatalogAssumption ==
    /\ Dates \subseteq Nat
    /\ NoParams \in Params
    /\ CreateBodies \subseteq CreateEventDto
    /\ UpdateBodies \subseteq UpdateEventDto
    /\ RewardBodies \subseteq CreateRewardDto
    /\ RewardPatches \subseteq UpdateRewardDto
    /\ NoDoc \notin EventDocs
    /\ NoDoc \notin RewardDocs
    /\ Undefined \notin EventStatus
    /\ Undefined \notin BOOLEAN
    /\ Undefined \notin Dates
    /\ Undefined \notin Conditions
    /\ Undefined \notin EventIds
    /\ Undefined \notin RewardIds
    /\ Undefined \notin Details
    /\ Null \notin Maybe(EventStatus)
    /\ Null \notin Maybe(BOOLEAN)
    /\ Null \notin Maybe(Dates)
    /\ Null \notin Maybe(Conditions)
    /\ Null \notin Maybe(EventIds)
    /\ Null \notin Maybe(Details)
    /\ InitialEvents \in [EventIds -> EventDocs \cup {NoDoc}]
    /\ InitialRewards \in [RewardIds -> RewardDocs \cup {NoDoc}]
    /\ \A r \in RewardIds : InitialRewards[r] # NoDoc /\ InitialRewards[r].eventId # Null =>
                               InitialEvents[InitialRewards[r].eventId] # NoDoc

-----------------------------------------------------------------------------
(* What the handlers compute.                                              *)

\* The ValidationPipe runs with whitelist: true and EventConditionDto declares
\* only "type", so every other field of a condition is dropped.
Whitelisted(condition) == [condition EXCEPT !.params = NoParams]

\* A field of a body, or the value it leaves in place when it is left out.
OrElse(value, old) == IF value = Undefined THEN old ELSE value

\* update() replaces a date that is null by undefined, like one left out.
DateOrElse(value, old) == IF value \in {Undefined, Null} THEN old ELSE value

\* The document `new this.eventModel(...)` saves: schema defaults filled in.
NewEvent(body) ==
    [status |-> OrElse(body.status, "ACTIVE"),
     isActive |-> OrElse(body.isActive, TRUE),
     startDate |-> body.startDate, endDate |-> body.endDate,
     condition |-> Whitelisted(body.condition)]

\* (Slip: an update that writes the fields the body leaves out, too.)
OverwrittenEvent(doc, body) == [body EXCEPT !.isActive = OrElse(body.isActive, doc.isActive)]

\* findByIdAndUpdate sets the fields the body has.
UpdatedEvent(doc, body) ==
    [status |-> OrElse(body.status, doc.status),
     isActive |-> OrElse(body.isActive, doc.isActive),
     startDate |-> DateOrElse(body.startDate, doc.startDate),
     endDate |-> DateOrElse(body.endDate, doc.endDate),
     condition |-> IF body.condition \in {Undefined, Null} THEN OrElse(body.condition, doc.condition)
                   ELSE Whitelisted(body.condition)]

UpdatedReward(doc, body) ==
    [eventId |-> OrElse(body.eventId, doc.eventId),
     details |-> OrElse(body.details, doc.details)]

EventExists(e) == events[e] # NoDoc

\* (Slip: the end of the period left out of it.)
ActiveBefore(doc, now) ==
    /\ doc # NoDoc
    /\ doc.status = "ACTIVE"
    /\ doc.isActive = TRUE
    /\ doc.startDate <= now
    /\ now < doc.endDate

\* The filter of findActiveEventById, both ends of the period included.
ActiveAt(doc, now) ==
    /\ doc # NoDoc
    /\ doc.status = "ACTIVE"
    /\ doc.isActive = TRUE
    /\ doc.startDate <= now
    /\ now <= doc.endDate

\* checkEventCondition: a known type is met by everybody, any other by nobody.
ConditionMet(doc) == doc.condition # Null /\ doc.condition.type \in SupportedTypes

-----------------------------------------------------------------------------
CatalogInit ==
    /\ events = InitialEvents
    /\ rewards = InitialRewards
    /\ adminPc = [a \in AdminRequests |-> "idle"]
    /\ adminCall = [a \in AdminRequests |-> NoCall]
    /\ adminReply = [a \in AdminRequests |-> 0]

\* The call a answers with an HTTP status and is over.
Answer(a, status) ==
    /\ adminPc' = [adminPc EXCEPT ![a] = "done"]
    /\ adminCall' = [adminCall EXCEPT ![a] = NoCall]
    /\ adminReply' = [adminReply EXCEPT ![a] = status]

\* The database acknowledges a write, or carries it out with an error reported to
\* the server.
AnswerWritten(a, status) == Answer(a, status) \/ Answer(a, 500)

\* The call a has found the event it names and goes on to its write.
ProceedTo(a, step, call) ==
    /\ adminPc' = [adminPc EXCEPT ![a] = step]
    /\ adminCall' = [adminCall EXCEPT ![a] = call]
    /\ UNCHANGED <<events, rewards, adminReply>>

\* POST /events
CreateEvent(a) ==
    /\ adminPc[a] = "idle"
    /\ \E e \in EventIds, body \in CreateBodies :
          /\ ~EventExists(e)
          /\ events' = [events EXCEPT ![e] = NewEvent(body)]
    /\ AnswerWritten(a, 201)
    /\ UNCHANGED rewards

\* (Slip: an update that ends an event removes it.)
UpdateOrRemoveEvent(a) ==
    /\ adminPc[a] = "idle"
    /\ \E e \in EventIds, body \in UpdateBodies :
          /\ EventExists(e)
          /\ events' = [events EXCEPT ![e] =
                IF body.status = "ENDED" THEN NoDoc ELSE UpdatedEvent(events[e], body)]
    /\ AnswerWritten(a, 200)
    /\ UNCHANGED rewards

\* PUT /events/:id
UpdateEvent(a) ==
    /\ adminPc[a] = "idle"
    /\ \E e \in EventIds, body \in UpdateBodies :
          \/ /\ ~EventExists(e)
             /\ Answer(a, 404)
             /\ UNCHANGED events
          \/ /\ EventExists(e)
             /\ events' = [events EXCEPT ![e] = UpdatedEvent(events[e], body)]
             /\ AnswerWritten(a, 200)
    /\ UNCHANGED rewards

\* (Slip: POST /rewards without looking the event up.)
SkipRewardEvent(a) ==
    /\ adminPc[a] = "idle"
    /\ \E body \in RewardBodies :
          ProceedTo(a, "saveReward", [reward |-> Undefined, body |-> body])

\* POST /rewards, up to the event it is for being found.
CheckRewardEvent(a) ==
    /\ adminPc[a] = "idle"
    /\ \E body \in RewardBodies :
          \/ /\ EventExists(body.eventId)
             /\ ProceedTo(a, "saveReward", [reward |-> Undefined, body |-> body])
          \/ /\ ~EventExists(body.eventId)
             /\ Answer(a, 404)
             /\ UNCHANGED <<events, rewards>>

\* POST /rewards, the save.
SaveReward(a) ==
    /\ adminPc[a] = "saveReward"
    /\ \E r \in RewardIds :
          /\ rewards[r] = NoDoc
          /\ rewards' = [rewards EXCEPT ![r] = adminCall[a].body]
    /\ AnswerWritten(a, 201)
    /\ UNCHANGED events

\* findByIdAndUpdate on the rewards collection.
WriteRewardUpdate(a, r, body) ==
    /\ \/ /\ rewards[r] = NoDoc
          /\ Answer(a, 404)
          /\ UNCHANGED rewards
       \/ /\ rewards[r] # NoDoc
          /\ rewards' = [rewards EXCEPT ![r] = UpdatedReward(rewards[r], body)]
          /\ AnswerWritten(a, 200)
    /\ UNCHANGED events

\* A body names an event to look up; undefined and null are no name.
NamesEvent(body) == body.eventId \notin {Undefined, Null}

\* PUT /rewards/:id, up to its first await: a body that names an event looks the
\* event up first, any other updates the reward at once.
StartRewardUpdate(a) ==
    /\ adminPc[a] = "idle"
    /\ \E r \in RewardIds, body \in RewardPatches :
          \/ /\ ~NamesEvent(body)
             /\ WriteRewardUpdate(a, r, body)
          \/ /\ NamesEvent(body)
             /\ EventExists(body.eventId)
             /\ ProceedTo(a, "updateReward", [reward |-> r, body |-> body])
          \/ /\ NamesEvent(body)
             /\ ~EventExists(body.eventId)
             /\ Answer(a, 404)
             /\ UNCHANGED <<events, rewards>>

\* PUT /rewards/:id, the write of a body that names an event.
FinishRewardUpdate(a) ==
    /\ adminPc[a] = "updateReward"
    /\ WriteRewardUpdate(a, adminCall[a].reward, adminCall[a].body)

\* A database call of a rejects with nothing done: it fails, or the id in the path
\* of a PUT, which nothing validates, cannot be cast to an ObjectId.
CatalogDbError(a) ==
    /\ adminPc[a] \in {"idle", "saveReward", "updateReward"}
    /\ Answer(a, 500)
    /\ UNCHANGED <<events, rewards>>

CatalogStep(a) ==
    \/ CreateEvent(a)
    \/ UpdateEvent(a)
    \/ CheckRewardEvent(a)
    \/ SaveReward(a)
    \/ StartRewardUpdate(a)
    \/ FinishRewardUpdate(a)
    \/ CatalogDbError(a)

CatalogNext == \E a \in AdminRequests : CatalogStep(a)

\* The server goes down: calls in flight get no answer, the database stays.
CatalogCrash ==
    /\ adminPc' = [a \in AdminRequests |->
                      IF adminPc[a] \in {"saveReward", "updateReward"}
                      THEN "lost" ELSE adminPc[a]]
    /\ adminCall' = [a \in AdminRequests |-> NoCall]
    /\ UNCHANGED <<events, rewards, adminReply>>

CatalogSpec == CatalogInit /\ [][CatalogNext \/ CatalogCrash]_catalogVars

-----------------------------------------------------------------------------
(* Properties.                                                             *)

\* The collections and the calls hold what their schemas and DTOs allow, and a
\* call waiting for its write carries the body that write needs.
CatalogTypeOK ==
    /\ events \in [EventIds -> EventDocs \cup {NoDoc}]
    /\ rewards \in [RewardIds -> RewardDocs \cup {NoDoc}]
    /\ adminPc \in [AdminRequests -> {"idle", "saveReward", "updateReward", "done", "lost"}]
    /\ adminCall \in [AdminRequests -> Calls]
    /\ adminReply \in [AdminRequests -> {0, 200, 201, 404, 500}]
    /\ \A a \in AdminRequests :
          /\ adminPc[a] = "saveReward" => adminCall[a].body \in CreateRewardDto
          /\ adminPc[a] = "updateReward" => /\ adminCall[a].reward \in RewardIds
                                            /\ adminCall[a].body \in UpdateRewardDto

\* A reward that names an event names one that exists.  RewardService looks the
\* event up in one step and writes the reward in a later one, with other operators
\* and restarts between the two.
RewardsBelongToEvents ==
    \A r \in RewardIds : rewards[r] # NoDoc /\ rewards[r].eventId # Null =>
                             EventExists(rewards[r].eventId)

\* What the write of a call in flight rests on: the event it found still exists.
PendingRewardsBelongToEvents ==
    \A a \in AdminRequests :
       /\ adminPc[a] = "saveReward" => EventExists(adminCall[a].body.eventId)
       /\ adminPc[a] = "updateReward" =>
             NamesEvent(adminCall[a].body) /\ EventExists(adminCall[a].body.eventId)

\* What an operator says of a condition is what the event keeps: while every body
\* that creates an event has parameters in its condition, every stored event has.
ConditionParamsKept ==
    (\A body \in CreateBodies : body.condition.params # NoParams) =>
        \A e \in EventIds : EventExists(e) /\ events[e].condition # Null =>
                               events[e].condition.params # NoParams

-----------------------------------------------------------------------------
(* The calls as if each took one step.                                     *)

Atomic == INSTANCE AtomicCatalog WITH CatalogCalls <- AdminRequests, answer <- adminReply

\* Handlers that look an event up and write the reward a step later are as good as
\* handlers that do both at once: nobody sees a moment at which an answer was wrong,
\* or a reward under an event that was not there when it got under it.
ImplementsAtomicCatalog == Atomic!AtomicSpec

=============================================================================
