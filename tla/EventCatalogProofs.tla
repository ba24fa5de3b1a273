------------------------- MODULE EventCatalogProofs -------------------------
(***************************************************************************)
(* Theorems about EventCatalog: its types, and that the events rewards     *)
(* name exist.                                                             *)
(***************************************************************************)
EXTENDS EventCatalog, TLAPS

(* What the handlers write has the type of the collection.                 *)

\* A saved event is a document of the schema, whatever valid body it is made of.
LEMMA NewEventType == ASSUME NEW body \in CreateBodies PROVE NewEvent(body) \in EventDocs
  <1>1. body \in CreateEventDto /\ NoParams \in Params
    BY CatalogAssumption
  <1>2. Whitelisted(body.condition) \in Conditions
    BY <1>1 DEF Whitelisted, CreateEventDto, Conditions
  <1>3. /\ OrElse(body.status, "ACTIVE") \in EventStatus
        /\ OrElse(body.isActive, TRUE) \in BOOLEAN
    BY <1>1 DEF OrElse, CreateEventDto, Maybe, EventStatus
  <1>4. QED
    BY <1>1, <1>2, <1>3 DEF NewEvent, EventDocs, CreateEventDto, Nullable

\* A partial update of an event document leaves a document of the schema.
LEMMA UpdatedEventType ==
  ASSUME NEW doc \in EventDocs, NEW body \in UpdateBodies
  PROVE  UpdatedEvent(doc, body) \in EventDocs
  <1>1. body \in UpdateEventDto /\ NoParams \in Params
    BY CatalogAssumption
  <1>2. /\ body.condition \notin {Undefined, Null} => Whitelisted(body.condition) \in Conditions
        /\ body.condition \in {Undefined, Null} =>
              OrElse(body.condition, doc.condition) \in Nullable(Conditions)
    BY <1>1 DEF Whitelisted, OrElse, UpdateEventDto, EventDocs, Conditions, Maybe, Nullable
  <1>3. /\ OrElse(body.status, doc.status) \in Nullable(EventStatus)
        /\ OrElse(body.isActive, doc.isActive) \in Nullable(BOOLEAN)
        /\ DateOrElse(body.startDate, doc.startDate) \in Dates
        /\ DateOrElse(body.endDate, doc.endDate) \in Dates
    BY <1>1 DEF OrElse, DateOrElse, UpdateEventDto, EventDocs, Maybe, Nullable
  <1>4. QED
    BY <1>1, <1>2, <1>3 DEF UpdatedEvent, EventDocs, Nullable

\* A partial update of a reward document leaves a document of the schema.
LEMMA UpdatedRewardType ==
  ASSUME NEW doc \in RewardDocs, NEW body \in UpdateRewardDto
  PROVE  UpdatedReward(doc, body) \in RewardDocs
  BY DEF UpdatedReward, RewardDocs, UpdateRewardDto, OrElse, Maybe, Nullable

\* What POST /rewards saves is a document of the schema.
LEMMA NewRewardType == CreateRewardDto \subseteq RewardDocs
  BY DEF CreateRewardDto, RewardDocs, Nullable

-----------------------------------------------------------------------------
\* The types hold when the server starts.
LEMMA CatalogInitType == CatalogInit => CatalogTypeOK
  BY CatalogAssumption DEF CatalogInit, CatalogTypeOK, Calls

\* The write of a reward update keeps the types, wherever it is called from.
LEMMA WriteRewardUpdateType ==
  ASSUME CatalogTypeOK, NEW a \in AdminRequests, NEW r \in RewardIds,
         NEW body \in UpdateRewardDto, WriteRewardUpdate(a, r, body)
  PROVE  CatalogTypeOK'
  <1>1. rewards' \in [RewardIds -> RewardDocs \cup {NoDoc}]
    <2>1. CASE rewards[r] = NoDoc
      BY <2>1 DEF WriteRewardUpdate, CatalogTypeOK
    <2>2. CASE rewards[r] # NoDoc
      <3>1. UpdatedReward(rewards[r], body) \in RewardDocs
        BY <2>2, UpdatedRewardType DEF CatalogTypeOK
      <3>2. QED
        BY <2>2, <3>1 DEF WriteRewardUpdate, CatalogTypeOK
    <2>3. QED
      BY <2>1, <2>2
  <1>2. QED
    BY <1>1 DEF WriteRewardUpdate, Answer, AnswerWritten, CatalogTypeOK, Calls

\* Every operator step keeps the types.
LEMMA CatalogNextType == CatalogTypeOK /\ CatalogNext => CatalogTypeOK'
  <1> SUFFICES ASSUME CatalogTypeOK, NEW a \in AdminRequests, CatalogStep(a)
               PROVE  CatalogTypeOK'
    BY DEF CatalogNext
  <1>1. CASE CreateEvent(a)
    <2>1. PICK e \in EventIds, body \in CreateBodies :
             events' = [events EXCEPT ![e] = NewEvent(body)]
      BY <1>1 DEF CreateEvent
    <2>2. events' \in [EventIds -> EventDocs \cup {NoDoc}]
      BY <2>1, NewEventType DEF CatalogTypeOK
    <2>3. QED
      BY <1>1, <2>2 DEF CreateEvent, AnswerWritten, Answer, CatalogTypeOK, Calls
  <1>2. CASE UpdateEvent(a)
    <2>1. PICK e \in EventIds, body \in UpdateBodies :
             \/ UNCHANGED events
             \/ /\ events[e] # NoDoc
                /\ events' = [events EXCEPT ![e] = UpdatedEvent(events[e], body)]
      BY <1>2 DEF UpdateEvent, EventExists
    <2>2. events' \in [EventIds -> EventDocs \cup {NoDoc}]
      BY <2>1, UpdatedEventType DEF CatalogTypeOK
    <2>3. QED
      BY <1>2, <2>2 DEF UpdateEvent, AnswerWritten, Answer, CatalogTypeOK, Calls
  <1>3. CASE CheckRewardEvent(a)
    BY <1>3, CatalogAssumption
       DEF CheckRewardEvent, ProceedTo, Answer, CatalogTypeOK, Calls, Maybe
  <1>4. CASE SaveReward(a)
    <2>1. adminCall[a].body \in RewardDocs
      BY <1>4, NewRewardType DEF SaveReward, CatalogTypeOK
    <2>2. QED
      BY <1>4, <2>1 DEF SaveReward, AnswerWritten, Answer, CatalogTypeOK, Calls
  <1>5. CASE StartRewardUpdate(a)
    <2>1. PICK r \in RewardIds, body \in RewardPatches :
             \/ WriteRewardUpdate(a, r, body)
             \/ ProceedTo(a, "updateReward", [reward |-> r, body |-> body])
             \/ Answer(a, 404) /\ UNCHANGED <<events, rewards>>
      BY <1>5 DEF StartRewardUpdate
    <2>2. body \in UpdateRewardDto
      BY CatalogAssumption
    <2>3. CASE WriteRewardUpdate(a, r, body)
      BY <2>2, <2>3, WriteRewardUpdateType
    <2>4. CASE ProceedTo(a, "updateReward", [reward |-> r, body |-> body])
      BY <2>2, <2>4 DEF ProceedTo, CatalogTypeOK, Calls, Maybe
    <2>5. CASE Answer(a, 404) /\ UNCHANGED <<events, rewards>>
      BY <2>5 DEF Answer, CatalogTypeOK, Calls
    <2>6. QED
      BY <2>1, <2>3, <2>4, <2>5
  <1>6. CASE FinishRewardUpdate(a)
    <2>1. /\ adminCall[a].reward \in RewardIds
          /\ adminCall[a].body \in UpdateRewardDto
      BY <1>6 DEF FinishRewardUpdate, CatalogTypeOK
    <2>2. QED
      BY <1>6, <2>1, WriteRewardUpdateType DEF FinishRewardUpdate
  <1>7. CASE CatalogDbError(a)
    BY <1>7 DEF CatalogDbError, Answer, CatalogTypeOK, Calls
  <1>8. QED
    BY <1>1, <1>2, <1>3, <1>4, <1>5, <1>6, <1>7 DEF CatalogStep

\* A restart keeps the types.
LEMMA CatalogCrashType == CatalogTypeOK /\ CatalogCrash => CatalogTypeOK'
  BY DEF CatalogTypeOK, CatalogCrash, Calls

\* The collections and the operator calls always have the types their schemas
\* and DTOs declare.
THEOREM CatalogTypeCorrect == CatalogSpec => []CatalogTypeOK
  <1>1. CatalogTypeOK /\ [CatalogNext \/ CatalogCrash]_catalogVars => CatalogTypeOK'
    <2>1. CASE UNCHANGED catalogVars
      BY <2>1 DEF CatalogTypeOK, catalogVars
    <2>2. QED
      BY <2>1, CatalogNextType, CatalogCrashType
  <1>2. QED
    BY <1>1, CatalogInitType, PTL DEF CatalogSpec

-----------------------------------------------------------------------------
\* RewardsBelongToEvents is inductive together with what each pending write
\* rests on: the event its handler found earlier still exists at the write.
CatalogInv == CatalogTypeOK /\ RewardsBelongToEvents /\ PendingRewardsBelongToEvents

\* No step of an operator or of the server makes an event disappear.
LEMMA EventsStay ==
  ASSUME CatalogTypeOK, CatalogNext \/ CatalogCrash,
         NEW e \in EventIds, events[e] # NoDoc
  PROVE  events'[e] # NoDoc
  <1>1. CASE CatalogCrash
    BY <1>1 DEF CatalogCrash
  <1>2. ASSUME NEW a \in AdminRequests, CatalogStep(a)
        PROVE  events'[e] # NoDoc
    <2>1. CASE CreateEvent(a)
      <3>1. PICK f \in EventIds, body \in CreateBodies :
               /\ events[f] = NoDoc
               /\ events' = [events EXCEPT ![f] = NewEvent(body)]
        BY <2>1 DEF CreateEvent, EventExists
      <3>2. QED
        BY <3>1 DEF CatalogTypeOK
    <2>2. CASE UpdateEvent(a)
      <3>1. PICK f \in EventIds, body \in UpdateBodies :
               \/ UNCHANGED events
               \/ /\ events[f] # NoDoc
                  /\ events' = [events EXCEPT ![f] = UpdatedEvent(events[f], body)]
        BY <2>2 DEF UpdateEvent, EventExists
      <3>2. events[f] # NoDoc => UpdatedEvent(events[f], body) # NoDoc
        BY UpdatedEventType, CatalogAssumption DEF CatalogTypeOK
      <3>3. QED
        BY <3>1, <3>2 DEF CatalogTypeOK
    <2>3. CASE ~CreateEvent(a) /\ ~UpdateEvent(a)
      <3>1. UNCHANGED events
        BY <1>2, <2>3 DEF CatalogStep, CheckRewardEvent, SaveReward, StartRewardUpdate,
           FinishRewardUpdate, WriteRewardUpdate, CatalogDbError, ProceedTo
      <3>2. QED
        BY <3>1
    <2>4. QED
      BY <2>1, <2>2, <2>3
  <1>3. QED
    BY <1>1, <1>2 DEF CatalogNext

\* No step makes a reward disappear either.
LEMMA RewardsStay ==
  ASSUME CatalogTypeOK, CatalogNext \/ CatalogCrash,
         NEW r \in RewardIds, rewards[r] # NoDoc
  PROVE  rewards'[r] # NoDoc
  <1>1. ASSUME NEW s \in RewardIds, NEW body \in UpdateRewardDto, rewards[s] # NoDoc,
               rewards' = [rewards EXCEPT ![s] = UpdatedReward(rewards[s], body)]
        PROVE  rewards'[r] # NoDoc
    <2>1. UpdatedReward(rewards[s], body) # NoDoc
      BY <1>1, UpdatedRewardType, CatalogAssumption DEF CatalogTypeOK
    <2>2. QED
      BY <1>1, <2>1 DEF CatalogTypeOK
  <1>2. ASSUME NEW a \in AdminRequests, CatalogStep(a)
        PROVE  rewards'[r] # NoDoc
    <2>1. CASE SaveReward(a)
      BY <2>1 DEF SaveReward, CatalogTypeOK
    <2>2. CASE StartRewardUpdate(a)
      BY <1>1, <2>2, CatalogAssumption DEF StartRewardUpdate, WriteRewardUpdate, ProceedTo
    <2>3. CASE FinishRewardUpdate(a)
      BY <1>1, <2>3 DEF FinishRewardUpdate, WriteRewardUpdate, CatalogTypeOK
    <2>4. CASE ~SaveReward(a) /\ ~StartRewardUpdate(a) /\ ~FinishRewardUpdate(a)
      BY <1>2, <2>4 DEF CatalogStep, CreateEvent, UpdateEvent, CheckRewardEvent,
         ProceedTo, CatalogDbError
    <2>5. QED
      BY <2>1, <2>2, <2>3, <2>4
  <1>3. QED
    BY <1>2 DEF CatalogNext, CatalogCrash

\* A write to the rewards collection whose document names an existing event
\* keeps the collection inside the catalogue.
LEMMA OneRewardWritten ==
  ASSUME CatalogInv, CatalogTypeOK', CatalogNext,
         NEW r \in RewardIds, NEW doc \in RewardDocs,
         doc.eventId # Null => EventExists(doc.eventId),
         rewards' = [rewards EXCEPT ![r] = doc]
  PROVE  RewardsBelongToEvents'
  <1> SUFFICES ASSUME NEW s \in RewardIds, rewards'[s] # NoDoc, rewards'[s].eventId # Null
               PROVE  events'[rewards'[s].eventId] # NoDoc
    BY DEF RewardsBelongToEvents, EventExists
  <1>1. rewards'[s] \in RewardDocs /\ rewards'[s].eventId \in EventIds
    BY DEF CatalogTypeOK, RewardDocs, Nullable
  <1>2. events[rewards'[s].eventId] # NoDoc
    BY DEF CatalogInv, CatalogTypeOK, RewardsBelongToEvents, EventExists
  <1>3. QED
    BY <1>1, <1>2, EventsStay DEF CatalogInv

\* The write of a reward update leaves its reward under an existing event.
LEMMA WriteRewardUpdateBelongs ==
  ASSUME CatalogInv, CatalogTypeOK', CatalogNext,
         NEW a \in AdminRequests, NEW r \in RewardIds, NEW body \in UpdateRewardDto,
         NamesEvent(body) => EventExists(body.eventId),
         rewards[r] # NoDoc,
         rewards' = [rewards EXCEPT ![r] = UpdatedReward(rewards[r], body)]
  PROVE  RewardsBelongToEvents'
  <1>1. rewards[r] \in RewardDocs
    BY DEF CatalogInv, CatalogTypeOK
  <1>2. UpdatedReward(rewards[r], body) \in RewardDocs
    BY <1>1, UpdatedRewardType
  <1>3. UpdatedReward(rewards[r], body).eventId # Null =>
           EventExists(UpdatedReward(rewards[r], body).eventId)
    BY DEF CatalogInv, RewardsBelongToEvents, UpdatedReward, OrElse, NamesEvent
  <1>4. QED
    BY <1>2, <1>3, OneRewardWritten

\* A step that writes no reward keeps the events rewards name in existence.
LEMMA NoRewardWritten ==
  ASSUME CatalogInv, CatalogTypeOK', CatalogNext \/ CatalogCrash, UNCHANGED rewards
  PROVE  RewardsBelongToEvents'
  <1> SUFFICES ASSUME NEW s \in RewardIds, rewards[s] # NoDoc, rewards[s].eventId # Null
               PROVE  events'[rewards[s].eventId] # NoDoc
    BY DEF RewardsBelongToEvents, EventExists
  <1>1. rewards[s].eventId \in EventIds /\ events[rewards[s].eventId] # NoDoc
    BY DEF CatalogInv, CatalogTypeOK, RewardDocs, Nullable, RewardsBelongToEvents, EventExists
  <1>2. QED
    BY <1>1, EventsStay DEF CatalogInv

\* Every operator step keeps rewards under existing events.
LEMMA RewardsStayUnderEvents ==
  ASSUME CatalogInv, CatalogTypeOK', NEW a \in AdminRequests, CatalogStep(a)
  PROVE  RewardsBelongToEvents'
  <1>0. CatalogNext
    BY DEF CatalogNext
  <1>1. CASE UNCHANGED rewards
    BY <1>0, <1>1, NoRewardWritten
  <1>2. CASE SaveReward(a)
    <2>1. PICK r \in RewardIds : rewards' = [rewards EXCEPT ![r] = adminCall[a].body]
      BY <1>2 DEF SaveReward
    <2>2. adminCall[a].body \in RewardDocs /\ EventExists(adminCall[a].body.eventId)
      BY <1>2, NewRewardType
         DEF SaveReward, CatalogInv, CatalogTypeOK, PendingRewardsBelongToEvents
    <2>3. QED
      BY <1>0, <2>1, <2>2, OneRewardWritten
  <1>3. CASE StartRewardUpdate(a) /\ ~UNCHANGED rewards
    <2>1. PICK r \in RewardIds, body \in RewardPatches :
             /\ ~NamesEvent(body)
             /\ rewards[r] # NoDoc
             /\ rewards' = [rewards EXCEPT ![r] = UpdatedReward(rewards[r], body)]
      BY <1>3 DEF StartRewardUpdate, WriteRewardUpdate, ProceedTo
    <2>2. body \in UpdateRewardDto
      BY CatalogAssumption
    <2>3. QED
      BY <1>0, <2>1, <2>2, WriteRewardUpdateBelongs
  <1>4. CASE FinishRewardUpdate(a) /\ ~UNCHANGED rewards
    <2>1. /\ adminCall[a].reward \in RewardIds
          /\ adminCall[a].body \in UpdateRewardDto
          /\ EventExists(adminCall[a].body.eventId)
      BY <1>4 DEF FinishRewardUpdate, CatalogInv, CatalogTypeOK, PendingRewardsBelongToEvents
    <2>2. /\ rewards[adminCall[a].reward] # NoDoc
          /\ rewards' = [rewards EXCEPT ![adminCall[a].reward] =
                            UpdatedReward(rewards[adminCall[a].reward], adminCall[a].body)]
      BY <1>4 DEF FinishRewardUpdate, WriteRewardUpdate
    <2>3. QED
      BY <1>0, <2>1, <2>2, WriteRewardUpdateBelongs
  <1>5. QED
    BY <1>1, <1>2, <1>3, <1>4 DEF CatalogStep, CreateEvent, UpdateEvent,
       CheckRewardEvent, ProceedTo, CatalogDbError

\* Every step keeps what the pending writes rest on.
LEMMA PendingStays ==
  ASSUME CatalogInv, CatalogTypeOK', CatalogNext \/ CatalogCrash
  PROVE  PendingRewardsBelongToEvents'
  <1> SUFFICES ASSUME NEW b \in AdminRequests
               PROVE  /\ adminPc'[b] = "saveReward" =>
                            events'[adminCall'[b].body.eventId] # NoDoc
                      /\ adminPc'[b] = "updateReward" =>
                            /\ NamesEvent(adminCall'[b].body)
                            /\ events'[adminCall'[b].body.eventId] # NoDoc
    BY DEF PendingRewardsBelongToEvents, EventExists, NamesEvent
  <1>1. /\ adminPc'[b] = "saveReward" => adminCall'[b].body.eventId \in EventIds
        /\ adminPc'[b] = "updateReward" /\ NamesEvent(adminCall'[b].body) =>
              adminCall'[b].body.eventId \in EventIds
    BY DEF CatalogTypeOK, CreateRewardDto, UpdateRewardDto, Maybe, Nullable, NamesEvent
  <1>2. CASE adminPc'[b] = adminPc[b] /\ adminCall'[b] = adminCall[b]
    BY <1>1, <1>2, EventsStay DEF CatalogInv, PendingRewardsBelongToEvents, EventExists
  <1>3. CASE CatalogCrash
    BY <1>3 DEF CatalogCrash, CatalogInv, CatalogTypeOK
  <1>4. ASSUME NEW a \in AdminRequests, CatalogStep(a),
               ~(adminPc'[b] = adminPc[b] /\ adminCall'[b] = adminCall[b])
        PROVE  /\ adminPc'[b] = "saveReward" =>
                     events[adminCall'[b].body.eventId] # NoDoc
               /\ adminPc'[b] = "updateReward" =>
                     /\ NamesEvent(adminCall'[b].body)
                     /\ events[adminCall'[b].body.eventId] # NoDoc
    <2>1. ASSUME NEW status, Answer(a, status)
          PROVE  adminPc'[b] = "done"
      BY <1>4, <2>1 DEF Answer, CatalogInv, CatalogTypeOK
    <2>2. CASE CheckRewardEvent(a)
      BY <1>4, <2>1, <2>2
         DEF CheckRewardEvent, ProceedTo, CatalogInv, CatalogTypeOK, EventExists
    <2>3. CASE StartRewardUpdate(a)
      BY <1>4, <2>1, <2>3 DEF StartRewardUpdate, WriteRewardUpdate, AnswerWritten,
         ProceedTo, CatalogInv, CatalogTypeOK, EventExists
    <2>4. CASE ~CheckRewardEvent(a) /\ ~StartRewardUpdate(a)
      BY <1>4, <2>1, <2>4 DEF CatalogStep, CreateEvent, UpdateEvent, SaveReward,
         FinishRewardUpdate, WriteRewardUpdate, CatalogDbError, AnswerWritten
    <2>5. QED
      BY <2>2, <2>3, <2>4
  <1>5. QED
    BY <1>1, <1>2, <1>3, <1>4, EventsStay DEF CatalogInv, CatalogNext

\* The inductive step of the catalogue.
LEMMA CatalogInvStep == CatalogInv /\ (CatalogNext \/ CatalogCrash) => CatalogInv'
  <1> SUFFICES ASSUME CatalogInv, CatalogNext \/ CatalogCrash
               PROVE  CatalogInv'
    OBVIOUS
  <1>1. CatalogTypeOK'
    BY CatalogNextType, CatalogCrashType DEF CatalogInv
  <1>2. PendingRewardsBelongToEvents'
    BY <1>1, PendingStays
  <1>3. CASE CatalogNext
    BY <1>1, <1>2, <1>3, RewardsStayUnderEvents DEF CatalogNext, CatalogInv
  <1>4. CASE CatalogCrash
    BY <1>1, <1>2, <1>4, NoRewardWritten DEF CatalogCrash, CatalogInv
  <1>5. QED
    BY <1>3, <1>4

\* It holds initially.
LEMMA CatalogInvInit == CatalogInit => CatalogInv
  BY CatalogInitType, CatalogAssumption
     DEF CatalogInit, CatalogInv, RewardsBelongToEvents, PendingRewardsBelongToEvents,
         EventExists

\* A reward that names an event names one that exists, although RewardService looks
\* the event up in one step and writes the reward in a later one.
THEOREM RewardsAlwaysBelong == CatalogSpec => []RewardsBelongToEvents
  <1>1. CatalogInv /\ [CatalogNext \/ CatalogCrash]_catalogVars => CatalogInv'
    <2>1. CASE UNCHANGED catalogVars
      BY <2>1 DEF CatalogInv, CatalogTypeOK, RewardsBelongToEvents,
         PendingRewardsBelongToEvents, EventExists, catalogVars
    <2>2. QED
      BY <2>1, CatalogInvStep
  <1>2. CatalogInv => RewardsBelongToEvents
    BY DEF CatalogInv
  <1>3. QED
    BY <1>1, <1>2, CatalogInvInit, PTL DEF CatalogSpec

-----------------------------------------------------------------------------
(* The handlers as single steps.                                           *)

\* A call that is not over has not been answered.
Unanswered == \A a \in AdminRequests : adminPc[a] # "done" => adminReply[a] = 0

AtomicInv == CatalogInv /\ Unanswered

\* A step answers its call at most, and then the call is over.
LEMMA UnansweredStays == AtomicInv /\ (CatalogNext \/ CatalogCrash) => Unanswered'
  <1> SUFFICES ASSUME AtomicInv, CatalogNext \/ CatalogCrash, NEW b \in AdminRequests,
                      adminPc'[b] # "done"
               PROVE  adminReply'[b] = 0
    BY DEF Unanswered
  <1> USE DEF AtomicInv, CatalogInv, CatalogTypeOK, Unanswered
  <1>1. CASE CatalogCrash
    BY <1>1 DEF CatalogCrash
  <1>2. ASSUME NEW a \in AdminRequests, CatalogStep(a)
        PROVE  adminReply'[b] = 0
    <2>1. \/ \E status : Answer(a, status)
          \/ \E step, c : ProceedTo(a, step, c) /\ adminPc[a] = "idle"
      <3>1. CASE CreateEvent(a) \/ UpdateEvent(a)
        BY <3>1 DEF CreateEvent, UpdateEvent, AnswerWritten
      <3>2. CASE SaveReward(a) \/ CatalogDbError(a)
        BY <3>2 DEF SaveReward, CatalogDbError, AnswerWritten
      <3>3. CASE CheckRewardEvent(a)
        BY <3>3 DEF CheckRewardEvent
      <3>4. CASE StartRewardUpdate(a)
        BY <3>4 DEF StartRewardUpdate, WriteRewardUpdate, AnswerWritten
      <3>5. CASE FinishRewardUpdate(a)
        BY <3>5 DEF FinishRewardUpdate, WriteRewardUpdate, AnswerWritten
      <3>6. QED
        BY <1>2, <3>1, <3>2, <3>3, <3>4, <3>5 DEF CatalogStep
    <2>2. ASSUME NEW status, Answer(a, status)
          PROVE  adminReply'[b] = 0
      BY <2>2 DEF Answer
    <2>3. ASSUME NEW step, NEW c, ProceedTo(a, step, c), adminPc[a] = "idle"
          PROVE  adminReply'[b] = 0
      BY <2>3 DEF ProceedTo
    <2>4. QED
      BY <2>1, <2>2, <2>3
  <1>3. QED
    BY <1>1, <1>2 DEF CatalogNext

\* The invariant of the refinement.
LEMMA AtomicInvAlways == CatalogSpec => []AtomicInv
  <1>1. CatalogInit => AtomicInv
    BY CatalogInvInit DEF CatalogInit, AtomicInv, Unanswered
  <1>2. AtomicInv /\ [CatalogNext \/ CatalogCrash]_catalogVars => AtomicInv'
    <2>1. CASE UNCHANGED catalogVars
      BY <2>1 DEF AtomicInv, Unanswered, CatalogInv, CatalogTypeOK, RewardsBelongToEvents,
         PendingRewardsBelongToEvents, EventExists, catalogVars
    <2>2. QED
      BY <2>1, CatalogInvStep, UnansweredStays DEF AtomicInv
  <1>3. QED
    BY <1>1, <1>2, PTL DEF CatalogSpec

\* A call in its handler that is answered is answered for the first time.
LEMMA AnswersFirst ==
  ASSUME AtomicInv, NEW a \in AdminRequests, adminPc[a] # "done", NEW status
  PROVE  /\ Answer(a, status) => Atomic!Answered(a, {status})
         /\ AnswerWritten(a, status) => Atomic!Answered(a, {status, 500})
  BY DEF AtomicInv, Unanswered, Answer, AnswerWritten, Atomic!Answered

\* The write of a reward update is the change of a reward, or tells truly that
\* the reward is not there.
LEMMA WriteRewardUpdateAtomic ==
  ASSUME AtomicInv, NEW a \in AdminRequests, adminPc[a] # "done", NEW r \in RewardIds,
         NEW body \in UpdateRewardDto, NamesEvent(body) => EventExists(body.eventId),
         WriteRewardUpdate(a, r, body)
  PROVE  Atomic!AtomicNext
  <1>1. CASE rewards[r] = NoDoc
    <2>1. Atomic!Answered(a, {404}) /\ UNCHANGED <<events, rewards>>
      BY <1>1, AnswersFirst DEF WriteRewardUpdate
    <2>2. Atomic!Missing
      BY <1>1 DEF Atomic!Missing
    <2>3. QED
      BY <2>1, <2>2 DEF Atomic!AtomicNext
  <1>2. CASE rewards[r] # NoDoc
    <2> DEFINE doc == UpdatedReward(rewards[r], body)
    <2>1. Atomic!Answered(a, {200, 500})
      BY <1>2, AnswersFirst DEF WriteRewardUpdate
    <2>2. rewards[r] \in RewardDocs /\ doc \in RewardDocs
      BY <1>2, UpdatedRewardType DEF AtomicInv, CatalogInv, CatalogTypeOK
    <2>3. doc.eventId \in {Null, rewards[r].eventId} \/ Atomic!Named(doc.eventId)
      BY DEF UpdatedReward, OrElse, NamesEvent, EventExists, Atomic!Named
    <2>4. rewards' = [rewards EXCEPT ![r] = doc] /\ UNCHANGED events
      BY <1>2 DEF WriteRewardUpdate
    <2>5. Atomic!ChangeReward(r)
      BY <1>2, <2>2, <2>3, <2>4 DEF Atomic!ChangeReward
    <2>6. QED
      BY <2>1, <2>5 DEF Atomic!AtomicNext
  <1>3. QED
    BY <1>1, <1>2

\* The step of a call is its whole effect, or nothing that shows.
LEMMA CallIsAtomic ==
  ASSUME AtomicInv, NEW a \in AdminRequests, CatalogStep(a)
  PROVE  Atomic!AtomicNext \/ UNCHANGED <<events, rewards, adminReply>>
  <1>0. CatalogTypeOK /\ PendingRewardsBelongToEvents
    BY DEF AtomicInv, CatalogInv
  <1>1. ASSUME NEW e \in EventIds, events[e] = NoDoc, Answer(a, 404), UNCHANGED <<events, rewards>>,
               adminPc[a] # "done"
        PROVE  Atomic!AtomicNext
    <2>1. Atomic!Answered(a, {404})
      BY <1>1, AnswersFirst
    <2>2. Atomic!Missing
      BY <1>1 DEF Atomic!Missing
    <2>3. QED
      BY <1>1, <2>1, <2>2 DEF Atomic!AtomicNext
  <1>2. CASE CreateEvent(a)
    <2>1. PICK e \in EventIds, body \in CreateBodies :
             events[e] = NoDoc /\ events' = [events EXCEPT ![e] = NewEvent(body)]
      BY <1>2 DEF CreateEvent, EventExists
    <2>2. Atomic!Answered(a, {201, 500})
      <3>1. adminPc[a] # "done" /\ AnswerWritten(a, 201)
        BY <1>2 DEF CreateEvent
      <3>2. QED
        BY <3>1, AnswersFirst
    <2>3. Atomic!StoreEvent(e)
      BY <1>2, <2>1, NewEventType DEF CreateEvent, Atomic!StoreEvent
    <2>4. QED
      BY <2>1, <2>2, <2>3 DEF Atomic!AtomicNext
  <1>3. CASE UpdateEvent(a)
    <2>1. PICK e \in EventIds, body \in UpdateBodies :
             \/ events[e] = NoDoc /\ Answer(a, 404) /\ UNCHANGED events
             \/ /\ events[e] # NoDoc
                /\ events' = [events EXCEPT ![e] = UpdatedEvent(events[e], body)]
                /\ AnswerWritten(a, 200)
      BY <1>3 DEF UpdateEvent, EventExists
    <2>2. CASE events[e] = NoDoc
      BY <1>1, <1>3, <2>1, <2>2 DEF UpdateEvent
    <2>3. CASE events[e] # NoDoc
      <3>1. Atomic!Answered(a, {200, 500})
        <4>1. adminPc[a] # "done" /\ AnswerWritten(a, 200)
          BY <1>3, <2>1, <2>3 DEF UpdateEvent
        <4>2. QED
          BY <4>1, AnswersFirst
      <3>2. UpdatedEvent(events[e], body) \in EventDocs
        BY <1>0, <2>3, UpdatedEventType DEF CatalogTypeOK
      <3>3. Atomic!StoreEvent(e)
        BY <1>3, <2>1, <2>3, <3>2 DEF UpdateEvent, Atomic!StoreEvent
      <3>4. QED
        BY <2>3, <3>1, <3>3 DEF Atomic!AtomicNext
    <2>4. QED
      BY <2>2, <2>3
  <1>4. CASE CheckRewardEvent(a)
    <2>1. PICK body \in RewardBodies :
             \/ ProceedTo(a, "saveReward", [reward |-> Undefined, body |-> body])
             \/ ~EventExists(body.eventId) /\ Answer(a, 404) /\ UNCHANGED <<events, rewards>>
      BY <1>4 DEF CheckRewardEvent
    <2>2. body.eventId \in EventIds
      BY CatalogAssumption DEF CreateRewardDto
    <2>3. QED
      BY <1>1, <1>4, <2>1, <2>2 DEF CheckRewardEvent, ProceedTo, EventExists
  <1>5. CASE SaveReward(a)
    <2>1. PICK r \in RewardIds :
             rewards[r] = NoDoc /\ rewards' = [rewards EXCEPT ![r] = adminCall[a].body]
      BY <1>5 DEF SaveReward
    <2>2. Atomic!Answered(a, {201, 500})
      <3>1. adminPc[a] # "done" /\ AnswerWritten(a, 201)
        BY <1>5 DEF SaveReward
      <3>2. QED
        BY <3>1, AnswersFirst
    <2>3. /\ adminCall[a].body \in RewardDocs
          /\ adminCall[a].body.eventId \in EventIds
          /\ EventExists(adminCall[a].body.eventId)
      BY <1>0, <1>5, NewRewardType
         DEF SaveReward, CatalogTypeOK, PendingRewardsBelongToEvents, CreateRewardDto
    <2>4. Atomic!Named(adminCall[a].body.eventId)
      BY <2>3, CatalogAssumption DEF EventExists, Atomic!Named, Maybe
    <2>5. Atomic!StoreReward(r)
      BY <1>5, <2>1, <2>3, <2>4 DEF SaveReward, Atomic!StoreReward
    <2>6. QED
      BY <2>2, <2>5 DEF Atomic!AtomicNext
  <1>6. CASE StartRewardUpdate(a)
    <2>1. PICK r \in RewardIds, body \in RewardPatches :
             \/ ~NamesEvent(body) /\ WriteRewardUpdate(a, r, body)
             \/ ProceedTo(a, "updateReward", [reward |-> r, body |-> body])
             \/ /\ NamesEvent(body) /\ ~EventExists(body.eventId)
                /\ Answer(a, 404) /\ UNCHANGED <<events, rewards>>
      BY <1>6 DEF StartRewardUpdate
    <2>2. /\ adminPc[a] # "done" /\ body \in UpdateRewardDto
          /\ NamesEvent(body) => body.eventId \in EventIds
      BY <1>6, CatalogAssumption DEF StartRewardUpdate, UpdateRewardDto, NamesEvent, Maybe, Nullable
    <2>3. CASE ~NamesEvent(body) /\ WriteRewardUpdate(a, r, body)
      BY <2>2, <2>3, WriteRewardUpdateAtomic
    <2>4. CASE ProceedTo(a, "updateReward", [reward |-> r, body |-> body])
      BY <2>4 DEF ProceedTo
    <2>5. CASE /\ NamesEvent(body) /\ ~EventExists(body.eventId)
               /\ Answer(a, 404) /\ UNCHANGED <<events, rewards>>
      BY <1>1, <2>2, <2>5 DEF EventExists
    <2>6. QED
      BY <2>1, <2>3, <2>4, <2>5
  <1>7. CASE FinishRewardUpdate(a)
    <2>1. /\ adminCall[a].reward \in RewardIds
          /\ adminCall[a].body \in UpdateRewardDto
          /\ EventExists(adminCall[a].body.eventId)
      BY <1>0, <1>7 DEF FinishRewardUpdate, CatalogTypeOK, PendingRewardsBelongToEvents
    <2>2. QED
      BY <1>7, <2>1, WriteRewardUpdateAtomic DEF FinishRewardUpdate
  <1>8. CASE CatalogDbError(a)
    BY <1>8, AnswersFirst DEF CatalogDbError, Atomic!AtomicNext, Atomic!Answered
  <1>9. QED
    BY <1>2, <1>3, <1>4, <1>5, <1>6, <1>7, <1>8 DEF CatalogStep

\* The handlers, which await a lookup and write in a later step among those of the
\* others, restarts and errors, implement calls that take effect at one moment.
THEOREM CatalogIsAtomic == CatalogSpec => ImplementsAtomicCatalog
  <1>1. CatalogInit => Atomic!AtomicInit
    BY CatalogInitType DEF CatalogInit, CatalogTypeOK, Atomic!AtomicInit
  <1>2. AtomicInv /\ [CatalogNext \/ CatalogCrash]_catalogVars =>
           [Atomic!AtomicNext]_<<events, rewards, adminReply>>
    BY CallIsAtomic DEF CatalogNext, CatalogCrash, catalogVars
  <1>3. QED
    BY <1>1, <1>2, AtomicInvAlways, PTL
       DEF CatalogSpec, ImplementsAtomicCatalog, Atomic!AtomicSpec, Atomic!atomicVars

=============================================================================
