----------------------- MODULE RewardClaimHistoryProofs -----------------------
(***************************************************************************)
(* Theorems about RewardClaimHistory: the duplicate check, the version of  *)
(* the event a claim is decided on, and the contents it records.           *)
(***************************************************************************)
EXTENDS RewardClaimHistory, RewardClaimProofs

HistoryTypes ==
    /\ heldOnArrival \in [ClaimRequests -> BOOLEAN]
    /\ activeSeen \in [ClaimRequests -> SUBSET EventDocs]
    /\ rewardSeen \in [ClaimRequests -> SUBSET RewardDocs]
    /\ closedSeen \in [ClaimRequests -> BOOLEAN]

\* A request that arrived at a key already taken has not got past the check
\* for existing claims, and will find the key still taken.
Barred(q) ==
    heldOnArrival[q] => /\ pc[q] \notin {"idle"} \cup WriteSteps
                        /\ Held(target[q])
                        /\ ~Live(q)

\* A request that is watched has recorded what it can read now.
Recorded(q) ==
    Watching(q) => ActiveNow(q) \subseteq activeSeen[q] /\ RewardNow(q) \subseteq rewardSeen[q]

\* A watched request for what is not to be had, or one told so, has recorded it.
ClosedRecorded(q) == (Watching(q) /\ ~OpenNow(q)) \/ response[q] = 404 => closedSeen[q]

\* What a request has read is among what it could have read, and decides.
ReadWasSeen(q) ==
    /\ pc[q] \in {"findReward", "findExisting"} \cup WriteSteps => eventRead[q] \in activeSeen[q]
    /\ pc[q] \in {"findExisting"} \cup WriteSteps =>
          /\ rewardRead[q] \in rewardSeen[q]
          /\ rewardRead[q].eventId = target[q].event
    /\ pc[q] = "saveRejected" => ~ConditionMet(eventRead[q])
    /\ pc[q] = "saveApproved" => ConditionMet(eventRead[q])

\* The reads a stored claim rests on.
Founded(q) ==
    claims[q] # NoDoc => /\ eventRead[q] \in activeSeen[q]
                         /\ rewardRead[q] \in rewardSeen[q]
                         /\ rewardRead[q].eventId = target[q].event
                         /\ rewardRead[q].details = claims[q].details
                         /\ ConditionMet(eventRead[q]) <=> Live(q)

HistoryInv ==
    /\ ClaimInv
    /\ HistoryTypes
    /\ \A q \in ClaimRequests :
          Barred(q) /\ Recorded(q) /\ ReadWasSeen(q) /\ Founded(q) /\ ClosedRecorded(q)

-----------------------------------------------------------------------------
(* How a step moves one request and its history.                           *)

\* The histories have their types after a step.
LEMMA HistoryTyped ==
  ASSUME HistoryInv, HistoryNext
  PROVE  HistoryTypes'
  <1> USE DEF HistoryInv
  <1>1. ClaimInv'
    BY ClaimInvStep DEF HistoryNext
  <1>2. ASSUME NEW q \in ClaimRequests, Watching(q)'
        PROVE  ActiveNow(q)' \subseteq EventDocs /\ RewardNow(q)' \subseteq RewardDocs
    <2>1. target'[q] \in Keys
      BY <1>1, <1>2 DEF ClaimInv, Progress, Watching, ReadSteps
    <2>2. /\ events'[target'[q].event] \in EventDocs \cup {NoDoc}
          /\ rewards'[target'[q].reward] \in RewardDocs \cup {NoDoc}
      BY <1>1, <2>1 DEF ClaimInv, TypeOK, CatalogTypeOK, Keys
    <2>3. QED
      BY <2>2 DEF ActiveNow, RewardNow, ActiveAt
  <1>3. heldOnArrival' \in [ClaimRequests -> BOOLEAN]
    <2>1. \A key : Held(key) \in BOOLEAN
      BY DEF Held
    <2>2. QED
      BY <2>1 DEF HistoryNext, Observe, HistoryTypes
  <1>4. activeSeen' \in [ClaimRequests -> SUBSET EventDocs]
    BY <1>2 DEF HistoryNext, Observe, HistoryTypes
  <1>5. rewardSeen' \in [ClaimRequests -> SUBSET RewardDocs]
    BY <1>2 DEF HistoryNext, Observe, HistoryTypes
  <1>6. closedSeen' \in [ClaimRequests -> BOOLEAN]
    BY DEF HistoryNext, Observe, HistoryTypes
  <1>7. QED
    BY <1>3, <1>4, <1>5, <1>6 DEF HistoryTypes

\* Histories grow, and take in what a watched request can read.
LEMMA HistoryGrows ==
  ASSUME HistoryInv, HistoryNext, NEW r \in ClaimRequests
  PROVE  /\ activeSeen[r] \subseteq activeSeen'[r]
         /\ rewardSeen[r] \subseteq rewardSeen'[r]
         /\ Recorded(r)'
  BY DEF HistoryNext, Observe, Recorded

\* A step that is not a step of r changes nothing of r, but that a restart may
\* cut it off.
LEMMA NotItsStep ==
  ASSUME ClaimInv, Next, NEW r \in ClaimRequests, ~RequestStep(r)
  PROVE  /\ target'[r] = target[r]
         /\ sampled'[r] = sampled[r]
         /\ eventRead'[r] = eventRead[r]
         /\ rewardRead'[r] = rewardRead[r]
         /\ response'[r] = response[r]
         /\ claims'[r] = claims[r]
         /\ pc'[r] = pc[r] \/ (pc[r] # "idle" /\ pc'[r] = "lost")
  <1>1. ASSUME NEW q \in ClaimRequests \ {r}, RequestStep(q)
        PROVE  /\ target'[r] = target[r]
               /\ sampled'[r] = sampled[r]
               /\ eventRead'[r] = eventRead[r]
               /\ rewardRead'[r] = rewardRead[r]
               /\ response'[r] = response[r]
               /\ claims'[r] = claims[r]
               /\ pc'[r] = pc[r]
    BY <1>1, OthersUntouched DEF ClaimInv
  <1>2. CASE Crash
    BY <1>2 DEF Crash, InFlight, ReadSteps, WriteSteps, ClaimInv, TypeOK
  <1>3. CASE Tick \/ OperatorStep
    BY <1>3 DEF Tick, OperatorStep, claimVars, requestVars
  <1>4. QED
    BY <1>1, <1>2, <1>3 DEF Next

-----------------------------------------------------------------------------
(* The invariant is inductive.                                             *)

\* A barred request stays barred: it cannot pass the check while its key is
\* taken, and a taken key stays taken.
LEMMA BarredStays ==
  ASSUME HistoryInv, HistoryNext, NEW r \in ClaimRequests
  PROVE  Barred(r)'
  <1> USE DEF HistoryInv
  <1>0. Next /\ [Next]_vars
    BY DEF HistoryNext
  <1> SUFFICES ASSUME heldOnArrival'[r]
               PROVE  /\ pc'[r] \notin {"idle"} \cup WriteSteps
                      /\ \E q \in ClaimRequests : Live(q)' /\ claims'[q].key = target'[r]
                      /\ ~Live(r)'
    BY DEF Barred, Held
  <1>1. CASE pc[r] = "idle" /\ pc'[r] # "idle"
    <2>1. Submit(r)
      <3>1. RequestStep(r)
        BY <1>0, <1>1, NotItsStep
      <3>2. QED
        BY <1>1, <3>1 DEF RequestStep, ClaimStep, FindActiveEvent, FindReward,
           FindExistingClaim, SaveRejected, SaveApproved, SavePaid, Reply, ReadFails,
           WriteFails, ReadSteps, WriteSteps
    <2>2. Held(target'[r]) /\ claims' = claims /\ claims[r] = NoDoc
      BY <1>1, <2>1 DEF HistoryNext, Observe, Submit, ClaimInv, Progress
    <2>3. pc'[r] = "findActiveEvent"
      BY <2>1 DEF Submit, GoTo, ClaimInv, TypeOK
    <2>4. \E q \in ClaimRequests : Live(q)' /\ claims'[q].key = target'[r]
      BY <2>2 DEF Held, Live
    <2>5. QED
      BY <2>2, <2>3, <2>4 DEF WriteSteps, Live
  <1>2. CASE ~(pc[r] = "idle" /\ pc'[r] # "idle")
    <2>1. heldOnArrival[r] /\ Barred(r)
      BY <1>2 DEF HistoryNext, Observe, HistoryTypes
    <2>2. pc[r] \notin {"idle"} \cup WriteSteps /\ Held(target[r]) /\ ~Live(r)
      BY <2>1 DEF Barred
    <2>3. \E q \in ClaimRequests : Live(q)' /\ claims'[q].key = target[r]
      BY <1>0, <2>2, LiveStays DEF Held
    <2>4. CASE ~RequestStep(r)
      <3>1. /\ target'[r] = target[r] /\ claims'[r] = claims[r]
            /\ pc'[r] \notin {"idle"} \cup WriteSteps
        BY <1>0, <2>2, <2>4, NotItsStep DEF WriteSteps
      <3>2. QED
        BY <2>2, <2>3, <3>1 DEF Live
    <2>5. CASE RequestStep(r)
      <3>1. claims' = claims
        BY <2>2, <2>5, RequestWrites DEF Writes, WriteSteps, ClaimInv
      <3>2. target'[r] = target[r] /\ pc'[r] \notin {"idle"} \cup WriteSteps
        BY <2>2, <2>5 DEF RequestStep, ClaimStep, Submit, FindActiveEvent, FindReward,
           FindExistingClaim, SaveRejected, SaveApproved, SavePaid, Reply, ReadFails,
           WriteFails, GoTo, RespondWith, ReadSteps, WriteSteps, ClaimInv, TypeOK
      <3>3. QED
        BY <2>2, <2>3, <3>1, <3>2 DEF Live
    <2>6. QED
      BY <2>4, <2>5
  <1>3. QED
    BY <1>1, <1>2

\* What a request has read stays among what it could have read.
LEMMA ReadStaysSeen ==
  ASSUME HistoryInv, HistoryNext, NEW r \in ClaimRequests
  PROVE  ReadWasSeen(r)'
  <1> USE DEF HistoryInv
  <1>0. Next
    BY DEF HistoryNext
  <1>1. activeSeen[r] \subseteq activeSeen'[r] /\ rewardSeen[r] \subseteq rewardSeen'[r]
    BY HistoryGrows
  <1>2. CASE ~RequestStep(r)
    BY <1>0, <1>1, <1>2, NotItsStep DEF ReadWasSeen, WriteSteps, ConditionMet
  <1>3. CASE RequestStep(r)
    <2> USE DEF GoTo, RespondWith, ReadSteps, WriteSteps, ClaimInv, TypeOK, ReadWasSeen
    <2>1. CASE Submit(r)
      BY <2>1 DEF Submit
    <2>2. CASE FindActiveEvent(r)
      <3>1. events[target[r].event] \in ActiveNow(r) <=> ActiveAt(events[target[r].event], sampled[r])
        BY DEF ActiveNow
      <3>2. ActiveNow(r) \subseteq activeSeen[r]
        BY <2>2 DEF FindActiveEvent, Recorded, Watching
      <3>3. QED
        BY <1>1, <2>2, <3>1, <3>2 DEF FindActiveEvent
    <2>3. CASE FindReward(r)
      <3>1. rewards[target[r].reward] # NoDoc => rewards[target[r].reward] \in rewardSeen[r]
        BY <2>3 DEF FindReward, Recorded, Watching, RewardNow
      <3>2. QED
        BY <1>1, <2>3, <3>1 DEF FindReward
    <2>4. CASE FindExistingClaim(r)
      BY <1>1, <2>4 DEF FindExistingClaim, ConditionMet
    <2>5. CASE SaveRejected(r)
      BY <2>5 DEF SaveRejected
    <2>6. CASE SaveApproved(r)
      BY <1>1, <2>6 DEF SaveApproved
    <2>7. CASE SavePaid(r)
      BY <2>7 DEF SavePaid
    <2>8. CASE Reply(r)
      BY <2>8 DEF Reply
    <2>9. CASE ReadFails(r)
      BY <2>9 DEF ReadFails
    <2>10. CASE WriteFails(r)
      BY <2>10 DEF WriteFails
    <2>11. QED
      BY <1>3, <2>1, <2>2, <2>3, <2>4, <2>5, <2>6, <2>7, <2>8, <2>9, <2>10
         DEF RequestStep, ClaimStep
  <1>4. QED
    BY <1>2, <1>3

\* A stored claim stays founded on what its request read.
LEMMA FoundedStays ==
  ASSUME HistoryInv, HistoryNext, NEW r \in ClaimRequests
  PROVE  Founded(r)'
  <1> USE DEF HistoryInv
  <1>0. Next /\ [Next]_vars
    BY DEF HistoryNext
  <1>1. activeSeen[r] \subseteq activeSeen'[r] /\ rewardSeen[r] \subseteq rewardSeen'[r]
    BY HistoryGrows
  <1>2. CASE ~RequestStep(r)
    BY <1>0, <1>1, <1>2, NotItsStep DEF Founded, ConditionMet, Live
  <1>3. CASE RequestStep(r) /\ UNCHANGED claims
    <2>1. CASE claims[r] = NoDoc
      BY <1>3, <2>1 DEF Founded
    <2>2. CASE claims[r] # NoDoc
      <3>1. target'[r] = target[r] /\ eventRead'[r] = eventRead[r] /\ rewardRead'[r] = rewardRead[r]
        BY <1>3, <2>2 DEF RequestStep, ClaimStep, Submit, FindActiveEvent, FindReward,
           FindExistingClaim, SaveRejected, SaveApproved, SavePaid, Reply, ReadFails,
           WriteFails, ReadSteps, ClaimInv, Progress
      <3>2. QED
        BY <1>1, <1>3, <3>1 DEF Founded, ConditionMet, Live
    <2>3. QED
      BY <2>1, <2>2
  <1>4. CASE RequestStep(r) /\ Writes(r)
    <2>1. /\ target'[r] = target[r] /\ eventRead'[r] = eventRead[r]
          /\ rewardRead'[r] = rewardRead[r]
      BY <1>4 DEF Writes, RequestStep, ClaimStep, Submit, FindActiveEvent, FindReward,
         FindExistingClaim, SaveRejected, SaveApproved, SavePaid, Reply, ReadFails,
         WriteFails, ReadSteps
    <2>2. claims'[r] \in ClaimDocs /\ claims'[r] # NoDoc
      BY <1>4, WritesTyped, ClaimAssumption
    <2>3. /\ eventRead[r] \in activeSeen[r]
          /\ rewardRead[r] \in rewardSeen[r]
          /\ rewardRead[r].eventId = target[r].event
      BY <1>4 DEF Writes, ReadWasSeen, WriteSteps
    <2>4. rewardRead[r].details = claims'[r].details /\ (ConditionMet(eventRead[r]) <=> Live(r)')
      <3>1. CASE pc[r] = "saveRejected"
        <4>1. claims'[r] = NewClaim(r, "REJECTED") /\ claims'[r].status = "REJECTED"
          BY <1>4, <3>1, WritesTyped DEF Writes, ClaimInv, TypeOK
        <4>2. QED
          BY <3>1, <4>1 DEF ReadWasSeen, NewClaim, Live, Uncounted
      <3>2. CASE pc[r] = "saveApproved"
        <4>1. claims'[r] = NewClaim(r, "APPROVED") /\ claims'[r].status = "APPROVED"
          BY <1>4, <3>2, WritesTyped DEF Writes, ClaimInv, TypeOK
        <4>2. QED
          BY <2>2, <3>2, <4>1 DEF ReadWasSeen, NewClaim, Live, Uncounted
      <3>3. CASE pc[r] = "savePaid"
        <4>1. claims[r] # NoDoc /\ claims[r] \in ClaimDocs /\ Live(r)
          BY <3>3 DEF ClaimInv, Progress, ApprovedUnpaid, TypeOK, Live, Uncounted
        <4>2. claims'[r] = PaidClaim(claims[r])
          BY <1>4, <3>3 DEF Writes, ClaimInv, TypeOK
        <4>3. claims'[r].details = claims[r].details /\ Live(r)'
          BY <2>2, <4>1, <4>2, PaidClaimType DEF Live, Uncounted
        <4>4. QED
          BY <4>1, <4>3 DEF Founded
      <3>4. QED
        BY <1>4, <3>1, <3>2, <3>3 DEF Writes
    <2>5. QED
      BY <1>1, <2>1, <2>3, <2>4 DEF Founded, ConditionMet
  <1>5. QED
    BY <1>2, <1>3, <1>4, RequestWrites DEF ClaimInv

\* An event that is open with its reward is active, and its reward belongs to it.
LEMMA OpenIsActive ==
  ASSUME ClaimInv, NEW q \in ClaimRequests, target[q] \in Keys, sampled[q] \in Dates
  PROVE  OpenNow(q) <=> /\ ActiveAt(events[target[q].event], sampled[q])
                        /\ rewards[target[q].reward] # NoDoc
                        /\ rewards[target[q].reward].eventId = target[q].event
  <1>1. events[target[q].event] \in EventDocs \cup {NoDoc} /\ sampled[q] \in Nat
    BY CatalogAssumption DEF ClaimInv, TypeOK, CatalogTypeOK, Keys
  <1>2. events[target[q].event] # NoDoc => /\ events[target[q].event].startDate \in Nat
                                           /\ events[target[q].event].endDate \in Nat
    BY <1>1, CatalogAssumption DEF EventDocs
  <1>3. QED
    BY <1>1, <1>2 DEF OpenNow, ActiveAt

\* What is not to be had is recorded as it is seen, and "not found" is answered
\* of nothing else.
LEMMA ClosedStays ==
  ASSUME HistoryInv, HistoryNext, NEW r \in ClaimRequests
  PROVE  ClosedRecorded(r)'
  <1> USE DEF HistoryInv
  <1>0. Next /\ [Next]_vars
    BY DEF HistoryNext
  <1>1. (Watching(r) /\ ~OpenNow(r))' => closedSeen'[r]
    BY DEF HistoryNext, Observe
  <1>2. closedSeen[r] => closedSeen'[r]
    BY DEF HistoryNext, Observe
  <1>3. response'[r] = 404 => response[r] = 404 \/ (Watching(r) /\ ~OpenNow(r))
    <2>1. CASE ~RequestStep(r)
      BY <1>0, <2>1, NotItsStep
    <2>2. CASE RequestStep(r)
      <3> USE DEF GoTo, RespondWith, ClaimInv, TypeOK
      <3>1. CASE FindActiveEvent(r)
        <4>1. target[r] \in Keys /\ sampled[r] \in Dates /\ Watching(r)
          BY <3>1 DEF FindActiveEvent, Progress, Watching, ReadSteps
        <4>2. QED
          BY <3>1, <4>1, OpenIsActive DEF FindActiveEvent
      <3>2. CASE FindReward(r)
        <4>1. target[r] \in Keys /\ sampled[r] \in Dates /\ Watching(r)
          BY <3>2 DEF FindReward, Progress, Watching, ReadSteps
        <4>2. QED
          BY <3>2, <4>1, OpenIsActive DEF FindReward
      <3>3. CASE ~FindActiveEvent(r) /\ ~FindReward(r)
        BY <2>2, <3>3 DEF RequestStep, ClaimStep, Submit, FindExistingClaim, SaveRejected,
           SaveApproved, SavePaid, Reply, ReadFails, WriteFails
      <3>4. QED
        BY <3>1, <3>2, <3>3
    <2>3. QED
      BY <2>1, <2>2
  <1>4. QED
    BY <1>1, <1>2, <1>3 DEF ClosedRecorded

LEMMA HistoryInvAlways == HistorySpec => []HistoryInv
  <1>1. HistoryInitial => HistoryInv
    <2> SUFFICES ASSUME HistoryInitial PROVE HistoryInv
      OBVIOUS
    <2>1. ClaimInv
      BY ClaimInvInit DEF HistoryInitial
    <2>2. \A q \in ClaimRequests : /\ pc[q] = "idle" /\ claims[q] = NoDoc /\ response[q] = 0
                                   /\ heldOnArrival[q] = FALSE
      BY DEF HistoryInitial, Init, HistoryInit
    <2>3. HistoryTypes
      BY DEF HistoryInitial, HistoryInit, HistoryTypes
    <2>4. QED
      BY <2>1, <2>2, <2>3 DEF HistoryInv, Barred, Recorded, Watching, ReadWasSeen, Founded,
         ClosedRecorded, ReadSteps, WriteSteps
  <1>2. HistoryInv /\ HistoryNext => HistoryInv'
    <2>1. HistoryInv /\ HistoryNext => ClaimInv'
      BY ClaimInvStep DEF HistoryInv, HistoryNext
    <2>2. QED
      BY <2>1, HistoryTyped, HistoryGrows, BarredStays, ReadStaysSeen, FoundedStays,
         ClosedStays DEF HistoryInv
  <1>3. HistoryInv /\ UNCHANGED allVars => HistoryInv'
    <2> SUFFICES ASSUME HistoryInv, UNCHANGED allVars PROVE HistoryInv'
      OBVIOUS
    <2>1. ClaimInv'
      BY ClaimInvStep DEF HistoryInv, allVars
    <2>2. QED
      BY <2>1 DEF allVars, historyVars, vars, catalogVars, claimVars, HistoryInv, HistoryTypes,
         Barred, Held, Recorded, Watching, ActiveNow, ActiveAt, RewardNow, ReadWasSeen,
         Founded, ConditionMet, Live, ClosedRecorded, OpenNow
  <1>4. QED
    BY <1>1, <1>2, <1>3, PTL DEF HistorySpec

-----------------------------------------------------------------------------
(* The theorems.                                                           *)

\* The histories and what they are histories of have their types.
THEOREM HistoryTypeCorrect == HistorySpec => []HistoryTypeOK
  <1>1. HistoryInv => HistoryTypeOK
    BY DEF HistoryInv, ClaimInv, HistoryTypes, HistoryTypeOK
  <1>2. QED
    BY <1>1, HistoryInvAlways, PTL

\* "Not found" is answered only of an event that at some moment of the request was
\* not active, had lost the reward, or had a period without the instant of arrival.
THEOREM NotFoundReasoned == HistorySpec => []NotFoundHasReason
  <1>1. HistoryInv => NotFoundHasReason
    BY DEF HistoryInv, ClosedRecorded, NotFoundHasReason
  <1>2. QED
    BY <1>1, HistoryInvAlways, PTL

\* A request that arrives while a claim on its key is live never gets one, through
\* restarts and database errors.
THEOREM NeverGrantedAgain == HistorySpec => []NoGrantAfterGrant
  <1>1. HistoryInv => NoGrantAfterGrant
    BY DEF HistoryInv, Barred, NoGrantAfterGrant
  <1>2. QED
    BY <1>1, HistoryInvAlways, PTL

\* Every claim is decided on one version of its event: one that stood in the database
\* at a moment of the request and was active at the instant of arrival, however time
\* passes and operators change the event meanwhile.
THEOREM OneVersionDecides == HistorySpec => []DecidedOnOneVersion
  <1>1. HistoryInv => DecidedOnOneVersion
    BY DEF HistoryInv, Founded, DecidedOnOneVersion
  <1>2. QED
    BY <1>1, HistoryInvAlways, PTL

\* Every claim records contents its reward had at a moment of the request at
\* which it belonged to the claimed event.
THEOREM RewardOfEventRecorded == HistorySpec => []RecordsRewardOfEvent
  <1>1. HistoryInv => RecordsRewardOfEvent
    BY DEF HistoryInv, ClaimInv, Stored, Founded, RecordsRewardOfEvent
  <1>2. QED
    BY <1>1, HistoryInvAlways, PTL

=============================================================================
