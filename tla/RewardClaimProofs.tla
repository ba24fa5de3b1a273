-------------------------- MODULE RewardClaimProofs --------------------------
(***************************************************************************)
(* Theorems about RewardClaim: its types, the truth of its answers, and    *)
(* the ledger it implements.  They share one inductive invariant.          *)
(***************************************************************************)
EXTENDS RewardClaim, EventCatalogProofs

-----------------------------------------------------------------------------
(* The inductive invariant.                                                *)

\* What request q knows at each step of createClaim, and what it has stored.
Progress(q) ==
    /\ pc[q] # "idle" => target[q] \in Keys /\ sampled[q] \in Dates
    /\ pc[q] = "findReward" => eventRead[q] \in EventDocs
    /\ pc[q] \in {"findExisting"} \cup WriteSteps =>
          eventRead[q] \in EventDocs /\ rewardRead[q] \in RewardDocs
    /\ pc[q] \in {"idle", "saveRejected", "saveApproved"} \cup ReadSteps => claims[q] = NoDoc
    /\ pc[q] = "savePaid" => ApprovedUnpaid(q)
    /\ pc[q] \notin {"reply", "done", "lost"} => response[q] = 0

\* A stored claim is about its request's key and has one of three statuses.
Stored(q) ==
    claims[q] # NoDoc => /\ claims[q].key = target[q]
                         /\ claims[q].status \in {"APPROVED", "PAID", "REJECTED"}

ClaimInv ==
    /\ TypeOK
    /\ \A q \in ClaimRequests : Progress(q) /\ Stored(q)

-----------------------------------------------------------------------------
(* Lemmas on the documents.                                                *)

\* A new claim of a request that has read its reward is a document.
LEMMA NewClaimType ==
  ASSUME NEW q \in ClaimRequests, target[q] \in Keys, rewardRead[q] \in RewardDocs,
         NEW status \in {"APPROVED", "REJECTED"}
  PROVE  /\ NewClaim(q, status) \in ClaimDocs
         /\ NewClaim(q, status).key = target[q]
         /\ NewClaim(q, status).status = status
  BY DEF NewClaim, ClaimDocs, ClaimStatus, RewardDocs

\* Paying an approved document changes its status only, as far as keys go.
LEMMA PaidClaimType ==
  ASSUME NEW doc \in ClaimDocs
  PROVE  /\ PaidClaim(doc) \in ClaimDocs
         /\ PaidClaim(doc).key = doc.key
         /\ PaidClaim(doc).status = "PAID"
         /\ PaidClaim(doc).details = doc.details
         /\ PaidClaim(doc).processed
  BY DEF PaidClaim, ClaimDocs, ClaimStatus

-----------------------------------------------------------------------------
(* How a step may change the claims.  Every step of a request leaves them  *)
(* alone or writes one document, and these are the writes.                 *)

\* q inserts a rejected claim, or an approved one, or pays.
Writes(q) ==
    \/ /\ pc[q] = "saveRejected"
       /\ claims' = [claims EXCEPT ![q] = NewClaim(q, "REJECTED")]
    \/ /\ pc[q] = "saveApproved"
       /\ claims' = [claims EXCEPT ![q] = NewClaim(q, "APPROVED")]
    \/ /\ pc[q] = "savePaid"
       /\ claims' = [claims EXCEPT ![q] = PaidClaim(claims[q])]

\* A request step that changes the claims is one of these writes.
LEMMA RequestWrites ==
  ASSUME TypeOK, NEW q \in ClaimRequests, RequestStep(q)
  PROVE  UNCHANGED claims \/ Writes(q)
  <1>1. CASE WriteFails(q)
    <2>1. CASE pc[q] = "saveRejected"
      BY <1>1, <2>1 DEF WriteFails, Written, Writes
    <2>2. CASE pc[q] = "saveApproved"
      BY <1>1, <2>2 DEF WriteFails, Written, Writes
    <2>3. CASE pc[q] = "savePaid"
      BY <1>1, <2>3 DEF WriteFails, Written, Writes
    <2>4. QED
      BY <1>1, <2>1, <2>2, <2>3 DEF WriteFails, WriteSteps
  <1>2. CASE ~WriteFails(q)
    BY <1>2 DEF RequestStep, Submit, ClaimStep, FindActiveEvent, FindReward, FindExistingClaim,
       SaveRejected, SaveApproved, SavePaid, Reply, ReadFails, Writes
  <1>3. QED
    BY <1>1, <1>2

\* A step that is not a request's leaves the claims alone.
LEMMA OtherStepsKeepClaims ==
  ASSUME Crash \/ Tick \/ OperatorStep \/ UNCHANGED vars
  PROVE  UNCHANGED <<claims, target>>
  BY DEF Crash, Tick, OperatorStep, vars, claimVars, requestVars

-----------------------------------------------------------------------------
(* The invariant is inductive.                                             *)

\* A step of request q leaves the catalogue and the clock alone, and
\* everything the other requests own.
LEMMA OthersUntouched ==
  ASSUME TypeOK, NEW q \in ClaimRequests, RequestStep(q)
  PROVE  /\ UNCHANGED <<catalogVars, now, crashes>>
         /\ \A r \in ClaimRequests \ {q} :
               /\ pc'[r] = pc[r]
               /\ target'[r] = target[r]
               /\ sampled'[r] = sampled[r]
               /\ eventRead'[r] = eventRead[r]
               /\ rewardRead'[r] = rewardRead[r]
               /\ response'[r] = response[r]
               /\ claims'[r] = claims[r]
  <1> USE DEF GoTo, RespondWith, Outside, TypeOK
  <1>1. CASE Submit(q)
    BY <1>1 DEF Submit
  <1>2. CASE FindActiveEvent(q)
    BY <1>2 DEF FindActiveEvent
  <1>3. CASE FindReward(q)
    BY <1>3 DEF FindReward
  <1>4. CASE FindExistingClaim(q)
    BY <1>4 DEF FindExistingClaim
  <1>5. CASE SaveRejected(q)
    BY <1>5 DEF SaveRejected
  <1>6. CASE SaveApproved(q)
    BY <1>6 DEF SaveApproved
  <1>7. CASE SavePaid(q)
    BY <1>7 DEF SavePaid
  <1>8. CASE Reply(q)
    BY <1>8 DEF Reply
  <1>9. CASE ReadFails(q)
    BY <1>9 DEF ReadFails
  <1>10. CASE WriteFails(q)
    BY <1>10 DEF WriteFails
  <1>11. QED
    BY <1>1, <1>2, <1>3, <1>4, <1>5, <1>6, <1>7, <1>8, <1>9, <1>10
       DEF RequestStep, ClaimStep

\* The claims stay documents, and each request's stays about its key, whatever
\* one request writes.
LEMMA WritesTyped ==
  ASSUME ClaimInv, NEW q \in ClaimRequests, Writes(q)
  PROVE  /\ claims' \in [ClaimRequests -> ClaimDocs \cup {NoDoc}]
         /\ claims'[q] \in ClaimDocs
         /\ claims'[q].key = target[q]
         /\ claims'[q].status = CASE pc[q] = "saveRejected" -> "REJECTED"
                                  [] pc[q] = "saveApproved" -> "APPROVED"
                                  [] pc[q] = "savePaid" -> "PAID"
  <1> USE DEF ClaimInv, TypeOK
  <1>1. CASE pc[q] = "saveRejected"
    <2>1. target[q] \in Keys /\ rewardRead[q] \in RewardDocs
      BY <1>1 DEF Progress, WriteSteps
    <2>2. QED
      BY <1>1, <2>1, NewClaimType DEF Writes
  <1>2. CASE pc[q] = "saveApproved"
    <2>1. target[q] \in Keys /\ rewardRead[q] \in RewardDocs
      BY <1>2 DEF Progress, WriteSteps
    <2>2. QED
      BY <1>2, <2>1, NewClaimType DEF Writes
  <1>3. CASE pc[q] = "savePaid"
    <2>1. claims[q] \in ClaimDocs /\ claims[q].key = target[q]
      BY <1>3 DEF Progress, ApprovedUnpaid, Stored
    <2>2. QED
      BY <1>3, <2>1, PaidClaimType DEF Writes
  <1>4. QED
    BY <1>1, <1>2, <1>3 DEF Writes

\* Every step of a request keeps the types.
LEMMA RequestTypes ==
  ASSUME ClaimInv, NEW q \in ClaimRequests, RequestStep(q)
  PROVE  TypeOK'
  <1> USE DEF ClaimInv
  <1>1. CatalogTypeOK' /\ now' \in Dates /\ crashes' = crashes
    BY OthersUntouched DEF TypeOK, CatalogTypeOK, catalogVars
  <1>2. claims' \in [ClaimRequests -> ClaimDocs \cup {NoDoc}]
    BY RequestWrites, WritesTyped DEF TypeOK
  <1>3. /\ pc' \in [ClaimRequests -> {"idle", "reply", "done", "lost"} \cup ReadSteps \cup WriteSteps]
        /\ target' \in [ClaimRequests -> Keys \cup {Undefined}]
        /\ sampled' \in [ClaimRequests -> Maybe(Dates)]
        /\ eventRead' \in [ClaimRequests -> EventDocs \cup {NoDoc}]
        /\ rewardRead' \in [ClaimRequests -> RewardDocs \cup {NoDoc}]
        /\ response' \in [ClaimRequests -> {0, 201, 400, 404, 409, 500}]
        /\ dbFaults' \in 0..MaxDbFaults
    <2> USE DEF GoTo, RespondWith, TypeOK, ReadSteps, WriteSteps
    <2>1. CASE Submit(q)
      BY <2>1 DEF Submit, Maybe
    <2>2. CASE FindActiveEvent(q)
      <3>1. target[q] \in Keys
        BY <2>2 DEF FindActiveEvent, Progress
      <3>2. events[target[q].event] \in EventDocs \cup {NoDoc}
        BY <3>1 DEF Keys, CatalogTypeOK
      <3>3. QED
        BY <2>2, <3>2 DEF FindActiveEvent
    <2>3. CASE FindReward(q)
      <3>1. target[q] \in Keys
        BY <2>3 DEF FindReward, Progress
      <3>2. rewards[target[q].reward] \in RewardDocs \cup {NoDoc}
        BY <3>1 DEF Keys, CatalogTypeOK
      <3>3. QED
        BY <2>3, <3>2 DEF FindReward
    <2>4. CASE FindExistingClaim(q)
      BY <2>4 DEF FindExistingClaim
    <2>5. CASE SaveRejected(q)
      BY <2>5 DEF SaveRejected
    <2>6. CASE SaveApproved(q)
      BY <2>6 DEF SaveApproved
    <2>7. CASE SavePaid(q)
      BY <2>7 DEF SavePaid
    <2>8. CASE Reply(q)
      BY <2>8 DEF Reply
    <2>9. CASE ReadFails(q)
      BY <2>9, ClaimAssumption DEF ReadFails
    <2>10. CASE WriteFails(q)
      BY <2>10, ClaimAssumption DEF WriteFails
    <2>11. QED
      BY <2>1, <2>2, <2>3, <2>4, <2>5, <2>6, <2>7, <2>8, <2>9, <2>10
         DEF RequestStep, ClaimStep
  <1>4. QED
    BY <1>1, <1>2, <1>3 DEF TypeOK

\* Every step of a request keeps what it and the others know and have stored.
LEMMA RequestProgress ==
  ASSUME ClaimInv, NEW q \in ClaimRequests, RequestStep(q), NEW r \in ClaimRequests
  PROVE  (Progress(r) /\ Stored(r))'
  <1> USE DEF ClaimInv
  <1>1. CASE r # q
    BY <1>1, OthersUntouched DEF Progress, Stored, ApprovedUnpaid
  <1>2. CASE r = q
    <2> SUFFICES Progress(q)' /\ Stored(q)'
      BY <1>2
    <2> USE DEF GoTo, RespondWith, TypeOK, ReadSteps, WriteSteps
    <2>1. CASE Submit(q)
      BY <2>1 DEF Submit, Progress, Stored, ApprovedUnpaid
    <2>2. CASE FindActiveEvent(q)
      <3>1. target[q] \in Keys /\ claims[q] = NoDoc
        BY <2>2 DEF FindActiveEvent, Progress
      <3>2. events[target[q].event] \in EventDocs \cup {NoDoc}
        BY <3>1 DEF Keys, CatalogTypeOK
      <3>3. QED
        BY <2>2, <3>1, <3>2 DEF FindActiveEvent, ActiveAt, Progress, Stored, ApprovedUnpaid
    <2>3. CASE FindReward(q)
      <3>1. target[q] \in Keys /\ claims[q] = NoDoc /\ eventRead[q] \in EventDocs
        BY <2>3 DEF FindReward, Progress
      <3>2. rewards[target[q].reward] \in RewardDocs \cup {NoDoc}
        BY <3>1 DEF Keys, CatalogTypeOK
      <3>3. QED
        BY <2>3, <3>1, <3>2 DEF FindReward, Progress, Stored, ApprovedUnpaid
    <2>4. CASE FindExistingClaim(q)
      BY <2>4 DEF FindExistingClaim, Progress, Stored, ApprovedUnpaid
    <2>5. CASE SaveRejected(q)
      <3>1. Writes(q) /\ pc[q] = "saveRejected"
        BY <2>5 DEF SaveRejected, Writes
      <3>2. QED
        BY <2>5, <3>1, WritesTyped DEF SaveRejected, Progress, Stored, ApprovedUnpaid
    <2>6. CASE SaveApproved(q)
      <3>1. Writes(q) /\ pc[q] = "saveApproved"
        BY <2>6 DEF SaveApproved, Writes
      <3>2. claims'[q] # NoDoc /\ claims'[q].status = "APPROVED" /\ claims'[q].key = target[q]
        BY <3>1, WritesTyped, ClaimAssumption
      <3>3. QED
        BY <2>6, <3>1, <3>2 DEF SaveApproved, Progress, Stored, ApprovedUnpaid
    <2>7. CASE SavePaid(q)
      <3>1. Writes(q) /\ pc[q] = "savePaid"
        BY <2>7 DEF SavePaid, Writes
      <3>2. QED
        BY <2>7, <3>1, WritesTyped DEF SavePaid, Progress, Stored, ApprovedUnpaid
    <2>8. CASE Reply(q)
      BY <2>8 DEF Reply, Progress, Stored, ApprovedUnpaid
    <2>9. CASE ReadFails(q)
      BY <2>9 DEF ReadFails, Progress, Stored, ApprovedUnpaid
    <2>10. CASE WriteFails(q)
      <3>1. /\ pc'[q] = "reply" /\ target'[q] = target[q] /\ sampled'[q] = sampled[q]
            /\ target[q] \in Keys /\ sampled[q] \in Dates
        BY <2>10 DEF WriteFails, Progress
      <3>2. Stored(q)'
        <4>1. CASE UNCHANGED claims
          BY <3>1, <4>1 DEF Stored
        <4>2. CASE Writes(q)
          BY <3>1, <4>2, WritesTyped DEF Writes, Stored
        <4>3. QED
          BY <4>1, <4>2, RequestWrites
      <3>3. QED
        BY <3>1, <3>2 DEF Progress
    <2>11. QED
      BY <2>1, <2>2, <2>3, <2>4, <2>5, <2>6, <2>7, <2>8, <2>9, <2>10
         DEF RequestStep, ClaimStep
  <1>3. QED
    BY <1>1, <1>2

\* A restart, time and the operators keep the invariant.
LEMMA OtherStepsKeepInv ==
  ASSUME ClaimInv, Crash \/ Tick \/ OperatorStep \/ UNCHANGED vars
  PROVE  ClaimInv'
  <1> USE DEF ClaimInv
  <1>1. CASE Crash
    <2>1. CatalogTypeOK'
      BY <1>1, CatalogCrashType DEF Crash, TypeOK
    <2>2. TypeOK'
      BY <1>1, <2>1, ClaimAssumption DEF Crash, TypeOK
    <2>3. ASSUME NEW q \in ClaimRequests
          PROVE  (Progress(q) /\ Stored(q))'
      BY <1>1 DEF Crash, Progress, Stored, ApprovedUnpaid, TypeOK, InFlight,
         ReadSteps, WriteSteps
    <2>4. QED
      BY <2>2, <2>3
  <1>2. CASE Tick
    BY <1>2 DEF Tick, TypeOK, CatalogTypeOK, catalogVars, requestVars, Progress, Stored,
       ApprovedUnpaid
  <1>3. CASE OperatorStep
    <2>1. CatalogTypeOK'
      BY <1>3, CatalogNextType DEF OperatorStep, TypeOK
    <2>2. QED
      BY <1>3, <2>1 DEF OperatorStep, claimVars, TypeOK, Progress, Stored, ApprovedUnpaid
  <1>4. CASE UNCHANGED vars
    BY <1>4 DEF vars, catalogVars, claimVars, TypeOK, CatalogTypeOK, Progress, Stored,
       ApprovedUnpaid
  <1>5. QED
    BY <1>1, <1>2, <1>3, <1>4

\* The invariant holds initially.
LEMMA ClaimInvInit == Init => ClaimInv
  <1> SUFFICES ASSUME Init PROVE ClaimInv
    OBVIOUS
  <1>1. CatalogTypeOK
    BY CatalogInitType DEF Init
  <1>2. TypeOK
    BY <1>1, ClaimAssumption DEF Init, TypeOK, Maybe
  <1>3. QED
    BY <1>2 DEF Init, ClaimInv, Progress, Stored, ApprovedUnpaid, ReadSteps, WriteSteps

\* Every step keeps it.
LEMMA ClaimInvStep == ClaimInv /\ [Next]_vars => ClaimInv'
  <1> SUFFICES ASSUME ClaimInv, [Next]_vars PROVE ClaimInv'
    OBVIOUS
  <1>1. ASSUME NEW q \in ClaimRequests, RequestStep(q)
        PROVE  ClaimInv'
    BY <1>1, RequestTypes, RequestProgress DEF ClaimInv
  <1>2. QED
    BY <1>1, OtherStepsKeepInv DEF Next

LEMMA ClaimInvAlways == Spec => []ClaimInv
  BY ClaimInvInit, ClaimInvStep, PTL DEF Spec

-----------------------------------------------------------------------------
(* The theorems.                                                           *)

\* The collections and the requests always have the types their schemas declare.
THEOREM TypeCorrect == Spec => []TypeOK
  <1>1. ClaimInv => TypeOK
    BY DEF ClaimInv
  <1>2. QED
    BY <1>1, ClaimInvAlways, PTL

-----------------------------------------------------------------------------
(* What happens to a stored claim.                                         *)

\* A step changes a stored claim only from approved to paid.
LEMMA StepAdvances ==
  ASSUME ClaimInv, [Next]_vars, NEW r \in ClaimRequests,
         claims[r] # NoDoc, claims'[r] # claims[r]
  PROVE  /\ claims[r].status = "APPROVED"
         /\ claims'[r] = PaidClaim(claims[r])
  <1> USE DEF ClaimInv
  <1>1. PICK q \in ClaimRequests : RequestStep(q)
    BY OtherStepsKeepClaims DEF Next
  <1>2. r = q
    BY <1>1, OthersUntouched
  <1>3. Writes(r)
    BY <1>1, <1>2, RequestWrites
  <1>4. pc[r] = "savePaid"
    BY <1>3 DEF Writes, Progress
  <1>5. QED
    BY <1>3, <1>4 DEF Writes, Progress, ApprovedUnpaid, TypeOK

\* A live claim stays live, on its key, with its contents.
LEMMA LiveStays ==
  ASSUME ClaimInv, [Next]_vars, NEW r \in ClaimRequests, Live(r)
  PROVE  /\ Live(r)'
         /\ claims'[r].key = claims[r].key
         /\ claims'[r].details = claims[r].details
         /\ claims'[r].status = claims[r].status \/ claims'[r].status = "PAID"
  <1>1. CASE claims'[r] = claims[r]
    BY <1>1 DEF Live
  <1>2. CASE claims'[r] # claims[r]
    <2>1. claims[r] \in ClaimDocs
      BY DEF Live, ClaimInv, TypeOK
    <2>2. claims'[r] = PaidClaim(claims[r])
      BY <1>2, StepAdvances DEF Live
    <2>3. PaidClaim(claims[r]) # NoDoc
      BY <2>1, PaidClaimType, ClaimAssumption
    <2>4. QED
      BY <2>1, <2>2, <2>3, PaidClaimType DEF Live, Uncounted
  <1>3. QED
    BY <1>1, <1>2

\* A key that is taken stays taken.
LEMMA HeldStays ==
  ASSUME ClaimInv, [Next]_vars, NEW key, Held(key)
  PROVE  Held(key)'
  BY LiveStays DEF Held

\* What a stored claim says never changes, and only approved claims change.
THEOREM ClaimsAdvance == Spec => ClaimsOnlyAdvance
  <1>1. ClaimInv /\ [Next]_vars =>
           [\A q \in ClaimRequests : claims[q] # NoDoc /\ claims'[q] # claims[q] =>
               /\ claims[q].status = "APPROVED"
               /\ claims'[q] = PaidClaim(claims[q])]_vars
    BY StepAdvances
  <1>2. QED
    BY <1>1, ClaimInvAlways, PTL DEF Spec, ClaimsOnlyAdvance

-----------------------------------------------------------------------------
(* The answers.                                                            *)

\* What the status q was answered with says of the collection.
AnswerTrue(q) ==
    pc[q] \in {"reply", "done"} =>
        /\ response[q] \in {201, 400, 404, 409, 500}
        /\ response[q] = 201 => /\ claims[q] # NoDoc
                                /\ claims[q].status = "PAID"
                                /\ claims[q].processed
        /\ response[q] = 400 => /\ claims[q] # NoDoc
                                /\ claims[q].status = "REJECTED"
                                /\ claims[q].processed
        /\ response[q] = 404 => claims[q] = NoDoc
        /\ response[q] = 409 => claims[q] = NoDoc /\ Held(target[q])

\* An approved claim is being paid or its caller knows of a failure.
Accounted(q) == ApprovedUnpaid(q) => pc[q] = "savePaid" \/ Failed(q)

\* An answer that is true stays true, and an accounted claim stays accounted for,
\* as long as its request does not move.
LEMMA AnswerStays ==
  ASSUME ClaimInv, [Next]_vars, NEW r \in ClaimRequests, AnswerTrue(r), Accounted(r),
         claims'[r] = claims[r], target'[r] = target[r], response'[r] = response[r],
         \/ pc'[r] = pc[r]
         \/ pc[r] = "reply" /\ pc'[r] = "done"
         \/ pc'[r] = "lost"
  PROVE  (AnswerTrue(r) /\ Accounted(r))'
  <1>1. Held(target[r]) => Held(target[r])'
    BY HeldStays
  <1>2. Held(target[r])' <=> \E q \in ClaimRequests : Live(q)' /\ claims'[q].key = target'[r]
    BY DEF Held
  <1>3. Held(target[r]) => \E q \in ClaimRequests : Live(q)' /\ claims'[q].key = target'[r]
    BY <1>1, <1>2
  <1>4. AnswerTrue(r)'
    BY <1>3 DEF AnswerTrue, Held
  <1>5. Accounted(r)'
    BY DEF Accounted, ApprovedUnpaid, Failed
  <1>6. QED
    BY <1>4, <1>5

\* The step a request takes answers truly and accounts for its claim.
LEMMA RequestAnswers ==
  ASSUME ClaimInv, NEW q \in ClaimRequests, RequestStep(q), AnswerTrue(q), Accounted(q)
  PROVE  (AnswerTrue(q) /\ Accounted(q))'
  <1> USE DEF ClaimInv
  <1>0. [Next]_vars
    BY DEF Next
  <1> USE DEF GoTo, RespondWith, TypeOK
  <1>1. CASE Submit(q)
    BY <1>1 DEF Submit, AnswerTrue, Accounted, ApprovedUnpaid, Progress
  <1>2. CASE FindActiveEvent(q)
    BY <1>2 DEF FindActiveEvent, AnswerTrue, Accounted, ApprovedUnpaid, Progress, ReadSteps
  <1>3. CASE FindReward(q)
    BY <1>3 DEF FindReward, AnswerTrue, Accounted, ApprovedUnpaid, Progress, ReadSteps
  <1>4. CASE FindExistingClaim(q)
    <2>1. claims'[q] = NoDoc
      BY <1>4 DEF FindExistingClaim, Progress, ReadSteps
    <2>2. CASE Held(target[q])
      <3>1. \E p \in ClaimRequests : Live(p)' /\ claims'[p].key = target'[q]
        BY <1>4, <2>2 DEF FindExistingClaim, Held, Live
      <3>2. QED
        BY <1>4, <2>1, <2>2, <3>1
           DEF FindExistingClaim, AnswerTrue, Accounted, ApprovedUnpaid, Held
    <2>3. CASE ~Held(target[q])
      BY <1>4, <2>1, <2>3 DEF FindExistingClaim, AnswerTrue, Accounted, ApprovedUnpaid
    <2>4. QED
      BY <2>2, <2>3
  <1>5. CASE SaveRejected(q)
    <2>1. target[q] \in Keys /\ rewardRead[q] \in RewardDocs
      BY <1>5 DEF SaveRejected, Progress, WriteSteps
    <2>2. NewClaim(q, "REJECTED") \in ClaimDocs /\ NewClaim(q, "REJECTED").processed
      BY <2>1, NewClaimType DEF NewClaim
    <2>3. claims'[q] = NewClaim(q, "REJECTED") /\ claims'[q] # NoDoc
      BY <1>5, <2>2, ClaimAssumption DEF SaveRejected
    <2>4. claims'[q].status = "REJECTED"
      BY <2>1, <2>3, NewClaimType
    <2>5. QED
      BY <1>5, <2>2, <2>3, <2>4 DEF SaveRejected, AnswerTrue, Accounted, ApprovedUnpaid
  <1>6. CASE SaveApproved(q)
    BY <1>6 DEF SaveApproved, AnswerTrue, Accounted
  <1>7. CASE SavePaid(q)
    <2>1. claims[q] \in ClaimDocs
      BY <1>7 DEF SavePaid, Progress, ApprovedUnpaid
    <2>2. claims'[q] = PaidClaim(claims[q]) /\ claims'[q] \in ClaimDocs
      BY <1>7, <2>1, PaidClaimType DEF SavePaid
    <2>3. QED
      BY <1>7, <2>1, <2>2, PaidClaimType, ClaimAssumption
         DEF SavePaid, AnswerTrue, Accounted, ApprovedUnpaid
  <1>8. CASE Reply(q)
    <2>1. /\ claims'[q] = claims[q] /\ target'[q] = target[q] /\ response'[q] = response[q]
          /\ pc[q] = "reply" /\ pc'[q] = "done"
      BY <1>8 DEF Reply
    <2>2. QED
      BY <1>0, <2>1, AnswerStays
  <1>9. CASE ReadFails(q)
    BY <1>9 DEF ReadFails, AnswerTrue, Accounted, ApprovedUnpaid, Progress
  <1>10. CASE WriteFails(q)
    BY <1>10 DEF WriteFails, AnswerTrue, Accounted, Failed
  <1>11. QED
    BY <1>1, <1>2, <1>3, <1>4, <1>5, <1>6, <1>7, <1>8, <1>9, <1>10
       DEF RequestStep, ClaimStep

\* Every step keeps all answers true and all claims accounted for.
LEMMA AnswersStep ==
  ASSUME ClaimInv, [Next]_vars, \A r \in ClaimRequests : AnswerTrue(r) /\ Accounted(r)
  PROVE  \A r \in ClaimRequests : (AnswerTrue(r) /\ Accounted(r))'
  <1> SUFFICES ASSUME NEW r \in ClaimRequests
               PROVE  (AnswerTrue(r) /\ Accounted(r))'
    OBVIOUS
  <1>1. ASSUME NEW q \in ClaimRequests, RequestStep(q)
        PROVE  (AnswerTrue(r) /\ Accounted(r))'
    <2>1. CASE r = q
      BY <1>1, <2>1, RequestAnswers
    <2>2. CASE r # q
      <3>1. /\ claims'[r] = claims[r] /\ target'[r] = target[r]
            /\ response'[r] = response[r] /\ pc'[r] = pc[r]
        BY <1>1, <2>2, OthersUntouched DEF ClaimInv
      <3>2. QED
        BY <3>1, AnswerStays
    <2>3. QED
      BY <2>1, <2>2
  <1>2. CASE Crash \/ Tick \/ OperatorStep \/ UNCHANGED vars
    <2>1. /\ claims'[r] = claims[r] /\ target'[r] = target[r]
          /\ response'[r] = response[r]
          /\ pc'[r] = pc[r] \/ pc'[r] = "lost"
      BY <1>2 DEF Crash, Tick, OperatorStep, vars, claimVars, requestVars
    <2>2. QED
      BY <2>1, AnswerStays
  <1>3. QED
    BY <1>1, <1>2 DEF Next

\* A request that has left its start keeps its target, and one that is answered
\* its answer.
LEMMA AnsweredStays ==
  ASSUME ClaimInv, [Next]_vars, NEW q \in ClaimRequests, pc[q] # "idle" \/ pc'[q] = "idle"
  PROVE  /\ pc[q] = "idle" <=> pc'[q] = "idle"
         /\ target'[q] = target[q]
         /\ pc[q] = "done" => pc'[q] = "done" /\ response'[q] = response[q]
  <1>0. TypeOK
    BY DEF ClaimInv
  <1>1. ASSUME NEW r \in ClaimRequests, RequestStep(r), r # q
        PROVE  pc'[q] = pc[q] /\ target'[q] = target[q] /\ response'[q] = response[q]
    BY <1>0, <1>1, OthersUntouched
  <1>2. CASE RequestStep(q)
    BY <1>0, <1>2 DEF RequestStep, Submit, ClaimStep, FindActiveEvent, FindReward,
       FindExistingClaim, SaveRejected, SaveApproved, SavePaid, Reply, ReadFails, WriteFails,
       ReadSteps, WriteSteps, GoTo, RespondWith, TypeOK
  <1>3. CASE Crash
    BY <1>0, <1>3 DEF Crash, InFlight, ReadSteps, WriteSteps, TypeOK
  <1>4. CASE Tick \/ OperatorStep \/ UNCHANGED vars
    BY <1>4 DEF Tick, OperatorStep, vars, claimVars, requestVars
  <1>5. QED
    BY <1>1, <1>2, <1>3, <1>4 DEF Next

AnswerInv == ClaimInv /\ \A q \in ClaimRequests : AnswerTrue(q) /\ Accounted(q)

LEMMA AnswerInvAlways == Spec => []AnswerInv
  <1>1. Init => AnswerInv
    BY ClaimInvInit DEF Init, AnswerInv, AnswerTrue, Accounted, ApprovedUnpaid
  <1>2. AnswerInv /\ [Next]_vars => AnswerInv'
    BY ClaimInvStep, AnswersStep DEF AnswerInv
  <1>3. QED
    BY <1>1, <1>2, PTL DEF Spec

\* The status a user is answered with is true of the collection, and stays true.
THEOREM AnswersAreTrue == Spec => []AnswerMatchesClaims
  <1>1. AnswerInv => AnswerMatchesClaims
    BY DEF AnswerInv, AnswerTrue, AnswerMatchesClaims
  <1>2. QED
    BY <1>1, AnswerInvAlways, PTL

\* A claim left approved belongs to a request that is paying it, that died with
\* the server, or that answered 500.
THEOREM ApprovedAccounted == Spec => []ApprovedIsAccountedFor
  <1>1. AnswerInv => ApprovedIsAccountedFor
    BY DEF AnswerInv, Accounted, ApprovedIsAccountedFor
  <1>2. QED
    BY <1>1, AnswerInvAlways, PTL

-----------------------------------------------------------------------------
(* Errors.                                                                 *)

\* An error q was answered with has a reason.
Explained(q) ==
    response[q] = 500 =>
       \/ dbFaults > 0
       \/ rewardRead[q] # NoDoc /\ rewardRead[q].eventId = Null
       \/ eventRead[q] # NoDoc /\ eventRead[q].condition = Null

\* The number of database errors only grows.
LEMMA FaultsGrow == ASSUME ClaimInv, [Next]_vars PROVE dbFaults' \in Nat /\ dbFaults' >= dbFaults
  <1>1. dbFaults \in Nat
    BY ClaimAssumption DEF ClaimInv, TypeOK
  <1>2. ASSUME NEW q \in ClaimRequests, RequestStep(q)
        PROVE  dbFaults' = dbFaults \/ dbFaults' = dbFaults + 1
    BY <1>2 DEF RequestStep, ClaimStep, Submit, FindActiveEvent, FindReward,
       FindExistingClaim, SaveRejected, SaveApproved, SavePaid, Reply, ReadFails, WriteFails
  <1>3. CASE Crash \/ Tick \/ OperatorStep \/ UNCHANGED vars
    BY <1>1, <1>3 DEF Crash, Tick, OperatorStep, vars, claimVars
  <1>4. QED
    BY <1>1, <1>2, <1>3 DEF Next

\* A step of a request gives an error only for a reason.
LEMMA RequestExplained ==
  ASSUME ClaimInv, NEW q \in ClaimRequests, RequestStep(q), Explained(q)
  PROVE  Explained(q)'
  <1> USE DEF Explained, GoTo, RespondWith, ClaimInv, TypeOK
  <1>0. dbFaults \in Nat
    BY ClaimAssumption
  <1>1. CASE Submit(q)
    BY <1>1 DEF Submit
  <1>2. CASE FindActiveEvent(q)
    BY <1>2 DEF FindActiveEvent, Progress
  <1>3. CASE FindReward(q)
    BY <1>3 DEF FindReward, Progress
  <1>4. CASE FindExistingClaim(q)
    <2>1. eventRead[q] \in EventDocs /\ eventRead[q] # NoDoc
      BY <1>4, CatalogAssumption DEF FindExistingClaim, Progress
    <2>2. QED
      BY <1>4, <2>1 DEF FindExistingClaim
  <1>5. CASE SaveRejected(q)
    BY <1>5 DEF SaveRejected
  <1>6. CASE SaveApproved(q)
    BY <1>6 DEF SaveApproved
  <1>7. CASE SavePaid(q)
    BY <1>7 DEF SavePaid
  <1>8. CASE Reply(q)
    BY <1>8 DEF Reply
  <1>9. CASE ReadFails(q)
    BY <1>0, <1>9 DEF ReadFails
  <1>10. CASE WriteFails(q)
    BY <1>0, <1>10 DEF WriteFails
  <1>11. QED
    BY <1>1, <1>2, <1>3, <1>4, <1>5, <1>6, <1>7, <1>8, <1>9, <1>10
       DEF RequestStep, ClaimStep

\* A claim is answered 500 only for a database error or for a null an operator
\* has left in the catalogue.
THEOREM ErrorsExplained == Spec => []ErrorsAreExplained
  <1> DEFINE Inv == ClaimInv /\ \A q \in ClaimRequests : Explained(q)
  <1>1. Init => Inv
    BY ClaimInvInit DEF Init, Explained
  <1>2. Inv /\ [Next]_vars => Inv'
    <2> SUFFICES ASSUME Inv, [Next]_vars, NEW r \in ClaimRequests
                 PROVE  Explained(r)'
      BY ClaimInvStep
    <2>1. dbFaults > 0 => dbFaults' > 0
      BY FaultsGrow, ClaimAssumption DEF ClaimInv, TypeOK
    <2>2. CASE RequestStep(r)
      BY <2>2, RequestExplained
    <2>3. ASSUME NEW q \in ClaimRequests, q # r, RequestStep(q)
          PROVE  Explained(r)'
      BY <2>1, <2>3, OthersUntouched DEF ClaimInv, Explained
    <2>4. CASE Crash
      BY <2>1, <2>4 DEF Crash, Explained, InFlight, ClaimInv, TypeOK
    <2>5. CASE Tick \/ OperatorStep \/ UNCHANGED vars
      BY <2>1, <2>5 DEF Tick, OperatorStep, vars, claimVars, requestVars, Explained
    <2>6. QED
      BY <2>2, <2>3, <2>4, <2>5 DEF Next
  <1>3. Inv => ErrorsAreExplained
    BY DEF Explained, ErrorsAreExplained
  <1>4. QED
    BY <1>1, <1>2, <1>3, PTL DEF Spec

-----------------------------------------------------------------------------
(* What claims refer to.                                                   *)

\* What q has found in the catalogue, and what its claim refers to, is there.
Grounded(q) ==
    /\ pc[q] \in {"findReward", "findExisting"} \cup WriteSteps => EventExists(target[q].event)
    /\ pc[q] \in {"findExisting"} \cup WriteSteps => rewards[target[q].reward] # NoDoc
    /\ claims[q] # NoDoc => /\ EventExists(target[q].event)
                            /\ rewards[target[q].reward] # NoDoc

\* No document leaves the catalogue.
LEMMA CatalogueStays ==
  ASSUME ClaimInv, [Next]_vars, NEW e \in EventIds, NEW r \in RewardIds
  PROVE  /\ EventExists(e) => EventExists(e)'
         /\ rewards[r] # NoDoc => rewards'[r] # NoDoc
  <1>1. ASSUME NEW q \in ClaimRequests, RequestStep(q) PROVE UNCHANGED <<events, rewards>>
    BY <1>1, OthersUntouched DEF ClaimInv, catalogVars
  <1>2. CASE Tick \/ UNCHANGED vars
    BY <1>2 DEF Tick, vars, catalogVars, EventExists
  <1>3. CASE CatalogNext \/ CatalogCrash
    <2>1. EventExists(e) => EventExists(e)'
      BY <1>3, EventsStay DEF EventExists, ClaimInv, TypeOK
    <2>2. rewards[r] # NoDoc => rewards'[r] # NoDoc
      BY <1>3, RewardsStay DEF ClaimInv, TypeOK
    <2>3. QED
      BY <2>1, <2>2
  <1>4. QED
    BY <1>1, <1>2, <1>3 DEF Next, Crash, OperatorStep, EventExists

\* A request writes claims on what it has found only.
LEMMA RequestGrounded ==
  ASSUME ClaimInv, NEW q \in ClaimRequests, RequestStep(q), Grounded(q)
  PROVE  Grounded(q)'
  <1> USE DEF GoTo, RespondWith, ClaimInv, TypeOK, Grounded, WriteSteps
  <1>0. UNCHANGED <<events, rewards>>
    BY OthersUntouched DEF catalogVars
  <1>1. CASE Submit(q)
    BY <1>1 DEF Submit, Progress
  <1>2. CASE FindActiveEvent(q)
    BY <1>0, <1>2 DEF FindActiveEvent, ActiveAt, EventExists
  <1>3. CASE FindReward(q)
    BY <1>0, <1>3 DEF FindReward, EventExists
  <1>4. CASE FindExistingClaim(q)
    BY <1>0, <1>4 DEF FindExistingClaim, EventExists
  <1>5. CASE SaveRejected(q) \/ SaveApproved(q) \/ SavePaid(q)
    BY <1>0, <1>5 DEF SaveRejected, SaveApproved, SavePaid, EventExists
  <1>6. CASE Reply(q)
    BY <1>0, <1>6 DEF Reply, EventExists
  <1>7. CASE ReadFails(q)
    BY <1>0, <1>7 DEF ReadFails, EventExists
  <1>8. CASE WriteFails(q)
    BY <1>0, <1>8 DEF WriteFails, EventExists
  <1>9. QED
    BY <1>1, <1>2, <1>3, <1>4, <1>5, <1>6, <1>7, <1>8 DEF RequestStep, ClaimStep

\* Every claim is about an event and a reward that exist.
THEOREM ClaimsRefer == Spec => []ClaimsReferToCatalogue
  <1> DEFINE Inv == ClaimInv /\ \A q \in ClaimRequests : Grounded(q)
  <1>1. Init => Inv
    BY ClaimInvInit DEF Init, Grounded, WriteSteps
  <1>2. Inv /\ [Next]_vars => Inv'
    <2> SUFFICES ASSUME Inv, [Next]_vars, NEW r \in ClaimRequests
                 PROVE  Grounded(r)'
      BY ClaimInvStep
    <2>2. (pc[r] # "idle" \/ claims[r] # NoDoc) => target[r] \in Keys
      BY DEF ClaimInv, Progress
    <2>3. CASE RequestStep(r)
      BY <2>3, RequestGrounded
    <2>4. ASSUME /\ target'[r] = target[r] /\ claims'[r] = claims[r]
                 /\ pc'[r] = pc[r] \/ pc'[r] = "lost"
          PROVE  Grounded(r)'
      <3>1. CASE pc[r] = "idle" /\ claims[r] = NoDoc
        BY <2>4, <3>1 DEF Grounded, WriteSteps
      <3>2. CASE target[r] \in Keys
        <4>1. target[r].event \in EventIds /\ target[r].reward \in RewardIds
          BY <3>2 DEF Keys
        <4>2. /\ events[target[r].event] # NoDoc => events'[target[r].event] # NoDoc
              /\ rewards[target[r].reward] # NoDoc => rewards'[target[r].reward] # NoDoc
          BY <4>1, CatalogueStays DEF EventExists
        <4>3. QED
          BY <2>4, <4>2 DEF Grounded, WriteSteps, EventExists
      <3>3. QED
        BY <2>2, <3>1, <3>2
    <2>5. ASSUME NEW q \in ClaimRequests, q # r, RequestStep(q)
          PROVE  Grounded(r)'
      BY <2>4, <2>5, OthersUntouched DEF ClaimInv
    <2>6. CASE Crash \/ Tick \/ OperatorStep \/ UNCHANGED vars
      BY <2>4, <2>6 DEF Crash, Tick, OperatorStep, vars, claimVars, requestVars
    <2>7. QED
      BY <2>3, <2>5, <2>6 DEF Next
  <1>3. Inv => ClaimsReferToCatalogue
    BY DEF Grounded, ClaimInv, Stored, ClaimsReferToCatalogue
  <1>4. QED
    BY <1>1, <1>2, <1>3, PTL DEF Spec

-----------------------------------------------------------------------------
(* The ledger.                                                             *)

\* Of what the ledger is made of, only q's part may change.
OnlyOf(q) ==
    \A r \in ClaimRequests \ {q} : /\ pc'[r] = pc[r]
                                   /\ target'[r] = target[r]
                                   /\ response'[r] = response[r]
                                   /\ claims'[r] = claims[r]

\* How the four sets of the ledger follow one request.
LEMMA ConsideredFollows ==
  ASSUME NEW q \in ClaimRequests, OnlyOf(q)
  PROVE  /\ pc[q] # "saveApproved" /\ pc'[q] # "saveApproved" => Considered' = Considered
         /\ pc[q] # "saveApproved" /\ pc'[q] = "saveApproved" =>
               Considered' = Considered \cup {<<q, target'[q]>>}
         /\ pc[q] = "saveApproved" /\ pc'[q] # "saveApproved" =>
               Considered' = Considered \ {<<q, target[q]>>}
  <1>1. Considered' = {<<r, target'[r]>> : r \in {s \in ClaimRequests : pc'[s] = "saveApproved"}}
    BY DEF Considered
  <1>2. QED
    BY <1>1 DEF Considered, OnlyOf

LEMMA GrantedFollows ==
  ASSUME NEW q \in ClaimRequests, OnlyOf(q)
  PROVE  /\ (Live(q) <=> Live(q)') /\ (Live(q) => GrantOf(q)' = GrantOf(q)) => Granted' = Granted
         /\ ~Live(q) /\ Live(q)' => Granted' = Granted \cup {GrantOf(q)'}
  <1>1. Granted' = {GrantOf(r)' : r \in {s \in ClaimRequests : Live(s)'}}
    BY DEF Granted
  <1>2. \A r \in ClaimRequests \ {q} : GrantOf(r)' = GrantOf(r) /\ (Live(r)' <=> Live(r))
    BY DEF GrantOf, Live, OnlyOf
  <1>3. QED
    BY <1>1, <1>2 DEF Granted

LEMMA PaidFollows ==
  ASSUME NEW q \in ClaimRequests, OnlyOf(q), ~(Live(q) /\ claims[q].status = "PAID")
  PROVE  /\ ~(Live(q)' /\ claims'[q].status = "PAID") => Paid' = Paid
         /\ Live(q)' /\ claims'[q].status = "PAID" => Paid' = Paid \cup {GrantOf(q)'}
  <1>1. Paid' = {GrantOf(r)' : r \in {s \in ClaimRequests : Live(s)' /\ claims'[s].status = "PAID"}}
    BY DEF Paid
  <1>2. \A r \in ClaimRequests \ {q} : /\ GrantOf(r)' = GrantOf(r)
                                       /\ Live(r)' <=> Live(r)
                                       /\ claims'[r] = claims[r]
    BY DEF GrantOf, Live, OnlyOf
  <1>3. QED
    BY <1>1, <1>2 DEF Paid

LEMMA AbandonedFollows ==
  ASSUME NEW q \in ClaimRequests, OnlyOf(q), ~(ApprovedUnpaid(q) /\ Failed(q))
  PROVE  /\ ~(ApprovedUnpaid(q) /\ Failed(q))' => Abandoned' = Abandoned
         /\ (ApprovedUnpaid(q) /\ Failed(q))' => Abandoned' = Abandoned \cup {GrantOf(q)'}
  <1>1. Abandoned' = {GrantOf(r)' : r \in {s \in ClaimRequests : (ApprovedUnpaid(s) /\ Failed(s))'}}
    BY DEF Abandoned
  <1>2. \A r \in ClaimRequests \ {q} :
           /\ GrantOf(r)' = GrantOf(r)
           /\ (ApprovedUnpaid(r) /\ Failed(r))' <=> ApprovedUnpaid(r) /\ Failed(r)
    BY DEF GrantOf, ApprovedUnpaid, Failed, OnlyOf
  <1>3. QED
    BY <1>1, <1>2 DEF Abandoned

\* A step of a request whose claim the ledger does not know, neither considered nor
\* granted before it or after it, leaves the ledger alone.
LEMMA UnknownStutters ==
  ASSUME NEW q \in ClaimRequests, OnlyOf(q),
         pc[q] # "saveApproved", pc'[q] # "saveApproved",
         claims[q] = NoDoc \/ claims[q].status = "REJECTED",
         claims'[q] = NoDoc \/ claims'[q].status = "REJECTED"
  PROVE  UNCHANGED <<Considered, Granted, Paid, Abandoned>>
  <1>1. ~Live(q) /\ ~Live(q)' /\ ~ApprovedUnpaid(q) /\ ~ApprovedUnpaid(q)'
    BY DEF Live, Uncounted, ApprovedUnpaid
  <1>2. QED
    BY <1>1, ConsideredFollows, GrantedFollows, PaidFollows, AbandonedFollows

\* A claim that has passed the duplicate check is considered for a key without a grant.
LEMMA CheckConsiders ==
  ASSUME ClaimInv, NEW q \in ClaimRequests, OnlyOf(q), FindExistingClaim(q),
         pc'[q] = "saveApproved"
  PROVE  Ledger!Consider(q, target[q]) /\ target[q] \in Keys
  <1> USE DEF ClaimInv, TypeOK
  <1>1. /\ pc[q] = "findExisting" /\ claims[q] = NoDoc /\ target[q] \in Keys
        /\ claims' = claims /\ target' = target
    BY DEF FindExistingClaim, Progress, ReadSteps
  <1>2. ~Held(target[q])
    BY DEF FindExistingClaim, RespondWith
  <1>3. \A g \in Granted : g[1] # q /\ g[2] # target[q]
    BY <1>1, <1>2 DEF Granted, GrantOf, Held, Live
  <1>4. \A o \in Considered : o[1] # q
    BY <1>1 DEF Considered
  <1>5. Considered' = Considered \cup {<<q, target[q]>>}
    BY <1>1, ConsideredFollows
  <1>6. ~Live(q) /\ ~Live(q)' /\ ~ApprovedUnpaid(q) /\ ~ApprovedUnpaid(q)'
    BY <1>1 DEF Live, ApprovedUnpaid
  <1>7. UNCHANGED <<Granted, Paid, Abandoned>>
    BY <1>6, GrantedFollows, PaidFollows, AbandonedFollows
  <1>8. QED
    BY <1>1, <1>3, <1>4, <1>5, <1>7 DEF Ledger!Consider

\* A save of an approved claim grants what was considered, and abandons it when the
\* save reports an error.
LEMMA ApprovalGrants ==
  ASSUME ClaimInv, NEW q \in ClaimRequests, OnlyOf(q), Writes(q), pc[q] = "saveApproved",
         pc'[q] # "saveApproved", target'[q] = target[q]
  PROVE  Ledger!Grant(<<q, target[q], claims'[q].details>>)
            /\ <<q, target[q], claims'[q].details>> \in Ledger!LedgerGrants
  <1> DEFINE new == <<q, target[q], claims'[q].details>>
  <1> USE DEF ClaimInv
  <1>1. claims[q] = NoDoc /\ target[q] \in Keys
    BY DEF Progress
  <1>2. claims'[q] \in ClaimDocs /\ claims'[q].key = target[q] /\ claims'[q].status = "APPROVED"
    BY WritesTyped
  <1>3. claims'[q] # NoDoc
    BY <1>2, ClaimAssumption
  <1>4. ~Live(q) /\ Live(q)' /\ ~ApprovedUnpaid(q) /\ GrantOf(q)' = new
    BY <1>1, <1>2, <1>3 DEF Live, Uncounted, ApprovedUnpaid, GrantOf
  <1>5. Granted' = Granted \cup {new} /\ Considered' = Considered \ {<<q, target[q]>>}
    BY <1>4, GrantedFollows, ConsideredFollows
  <1>6. Paid' = Paid
    BY <1>2, <1>4, PaidFollows
  <1>7. Abandoned' \in {Abandoned, Abandoned \cup {new}}
    BY <1>4, AbandonedFollows
  <1>8. <<q, target[q]>> \in Considered /\ \A g \in Granted : g[1] # q
    BY <1>4 DEF Considered, Granted, GrantOf
  <1>9. new \in Ledger!LedgerGrants
    BY <1>1, <1>2 DEF Ledger!LedgerGrants, ClaimDocs
  <1>10. QED
    BY <1>5, <1>6, <1>7, <1>8, <1>9 DEF Ledger!Grant

\* A claim at its second save is a grant that is neither paid nor abandoned.
LEMMA SecondSaveIsOpen ==
  ASSUME ClaimInv, NEW q \in ClaimRequests, pc[q] = "savePaid"
  PROVE  /\ Live(q) /\ ApprovedUnpaid(q) /\ ~Failed(q)
         /\ GrantOf(q) \in Granted /\ GrantOf(q) \notin Paid /\ GrantOf(q) \notin Abandoned
         /\ GrantOf(q) \in Ledger!LedgerGrants
  <1>1. claims[q] \in ClaimDocs /\ Live(q) /\ ApprovedUnpaid(q) /\ ~Failed(q)
    BY DEF ClaimInv, Progress, ApprovedUnpaid, TypeOK, Live, Uncounted, Failed
  <1>2. GrantOf(q) \in Granted
    BY <1>1 DEF Granted
  <1>3. \A p \in ClaimRequests : GrantOf(p) = GrantOf(q) => p = q
    BY DEF GrantOf
  <1>4. GrantOf(q) \notin Paid /\ GrantOf(q) \notin Abandoned
    BY <1>1, <1>3 DEF Paid, Abandoned, ApprovedUnpaid
  <1>5. GrantOf(q) \in Ledger!LedgerGrants
    BY <1>1 DEF GrantOf, ClaimDocs, Ledger!LedgerGrants
  <1>6. QED
    BY <1>1, <1>2, <1>4, <1>5

\* The second save pays the grant.
LEMMA PaymentPays ==
  ASSUME ClaimInv, NEW q \in ClaimRequests, OnlyOf(q), Writes(q), pc[q] = "savePaid",
         pc'[q] # "saveApproved"
  PROVE  Ledger!Pay(GrantOf(q)) /\ GrantOf(q) \in Ledger!LedgerGrants
  <1> USE DEF ClaimInv
  <1>1. claims[q] \in ClaimDocs /\ claims[q].status = "APPROVED" /\ Live(q)
    BY DEF Progress, ApprovedUnpaid, TypeOK, Live, Uncounted
  <1>2. claims'[q] = PaidClaim(claims[q])
    BY DEF Writes, TypeOK
  <1>3. Live(q)' /\ claims'[q].status = "PAID" /\ GrantOf(q)' = GrantOf(q) /\ ~ApprovedUnpaid(q)'
    BY <1>1, <1>2, PaidClaimType, ClaimAssumption DEF Live, Uncounted, GrantOf, ApprovedUnpaid
  <1>4. Considered' = Considered /\ Granted' = Granted
    BY <1>1, <1>3, ConsideredFollows, GrantedFollows
  <1>5. Paid' = Paid \cup {GrantOf(q)}
    BY <1>1, <1>3, PaidFollows
  <1>6. Abandoned' = Abandoned
    BY <1>3, SecondSaveIsOpen, AbandonedFollows
  <1>7. QED
    BY <1>4, <1>5, <1>6, SecondSaveIsOpen DEF Ledger!Pay

\* A save that fails without its write gives up what was considered or granted.
LEMMA FailureGivesUp ==
  ASSUME ClaimInv, NEW q \in ClaimRequests, OnlyOf(q), WriteFails(q), UNCHANGED claims
  PROVE  [Ledger!LedgerNext]_<<Considered, Granted, Paid, Abandoned>>
  <1> USE DEF ClaimInv, TypeOK
  <1>1. /\ pc[q] \in WriteSteps /\ pc'[q] = "reply" /\ target' = target
        /\ claims' = claims /\ response'[q] = 500
    BY DEF WriteFails, RespondWith
  <1>2. CASE pc[q] = "saveRejected"
    BY <1>1, <1>2, UnknownStutters DEF Progress
  <1>3. CASE pc[q] = "saveApproved"
    <2>1. claims[q] = NoDoc /\ claims'[q] = NoDoc
      BY <1>1, <1>3 DEF Progress
    <2>2. ~Live(q) /\ ~Live(q)' /\ ~ApprovedUnpaid(q) /\ ~ApprovedUnpaid(q)'
      BY <2>1 DEF Live, ApprovedUnpaid
    <2>3. Considered' = Considered \ {<<q, target[q]>>}
      BY <1>1, <1>3, ConsideredFollows
    <2>4. UNCHANGED <<Granted, Paid, Abandoned>>
      BY <2>2, GrantedFollows, PaidFollows, AbandonedFollows
    <2>5. <<q, target[q]>> \in Considered
      BY <1>3 DEF Considered
    <2>6. Ledger!GiveUpOn({<<q, target[q]>>}, {})
      BY <2>3, <2>4 DEF Ledger!GiveUpOn
    <2>7. {<<q, target[q]>>} \in SUBSET Considered /\ {} \in SUBSET (Granted \ Paid)
      BY <2>5
    <2>8. QED
      BY <2>6, <2>7 DEF Ledger!LedgerNext
  <1>4. CASE pc[q] = "savePaid"
    <2>1. Live(q) /\ ApprovedUnpaid(q) /\ ~Failed(q) /\ GrantOf(q) \in Granted \ Paid
      BY <1>4, SecondSaveIsOpen
    <2>2. /\ Live(q)' /\ ApprovedUnpaid(q)' /\ Failed(q)' /\ GrantOf(q)' = GrantOf(q)
          /\ claims[q].status = "APPROVED" /\ claims'[q].status = "APPROVED"
      BY <1>1, <2>1 DEF Live, ApprovedUnpaid, Failed, GrantOf
    <2>3. Considered' = Considered /\ Granted' = Granted
      BY <1>1, <1>4, <2>1, <2>2, ConsideredFollows, GrantedFollows
    <2>4. Paid' = Paid
      BY <2>2, PaidFollows
    <2>5. Abandoned' = Abandoned \cup {GrantOf(q)}
      BY <2>1, <2>2, AbandonedFollows
    <2>6. Ledger!GiveUpOn({}, {GrantOf(q)})
      BY <2>3, <2>4, <2>5 DEF Ledger!GiveUpOn
    <2>7. {} \in SUBSET Considered /\ {GrantOf(q)} \in SUBSET (Granted \ Paid)
      BY <2>1
    <2>8. QED
      BY <2>6, <2>7 DEF Ledger!LedgerNext
  <1>5. QED
    BY <1>1, <1>2, <1>3, <1>4 DEF WriteSteps

\* A restart gives up everything that is considered, and every grant whose second
\* save was under way.
LEMMA CrashGivesUp ==
  ASSUME ClaimInv, Crash
  PROVE  [Ledger!LedgerNext]_<<Considered, Granted, Paid, Abandoned>>
  <1> DEFINE cut == {GrantOf(q) : q \in {r \in ClaimRequests : ApprovedUnpaid(r) /\ InFlight(r)}}
  <1> USE DEF ClaimInv, TypeOK
  <1>1. /\ claims' = claims /\ target' = target /\ response' = response
        /\ pc' = [q \in ClaimRequests |-> IF InFlight(q) THEN "lost" ELSE pc[q]]
    BY DEF Crash
  <1>2. Granted' = Granted /\ Paid' = Paid
    BY <1>1 DEF Granted, Paid, GrantOf, Live
  <1>3. Considered' = {}
    BY <1>1 DEF Considered, InFlight, WriteSteps
  <1>4. \A r \in ClaimRequests : /\ GrantOf(r)' = GrantOf(r)
                                 /\ ApprovedUnpaid(r)' <=> ApprovedUnpaid(r)
                                 /\ Failed(r)' <=> Failed(r) \/ InFlight(r)
    BY <1>1 DEF GrantOf, ApprovedUnpaid, Failed
  <1>5. Abandoned' = Abandoned \cup cut
    <2>1. Abandoned' = {GrantOf(r)' : r \in {s \in ClaimRequests : ApprovedUnpaid(s)' /\ Failed(s)'}}
      BY DEF Abandoned
    <2>2. QED
      BY <1>4, <2>1 DEF Abandoned
  <1>6. cut \in SUBSET (Granted \ Paid)
    <2> SUFFICES ASSUME NEW q \in ClaimRequests, ApprovedUnpaid(q)
                 PROVE  GrantOf(q) \in Granted /\ GrantOf(q) \notin Paid
      OBVIOUS
    <2>1. Live(q)
      BY DEF ApprovedUnpaid, Live, Uncounted
    <2>2. \A p \in ClaimRequests : GrantOf(p) = GrantOf(q) => p = q
      BY DEF GrantOf
    <2>3. QED
      BY <2>1, <2>2 DEF Granted, Paid, ApprovedUnpaid
  <1>7. Ledger!GiveUpOn(Considered, cut)
    BY <1>2, <1>3, <1>5 DEF Ledger!GiveUpOn
  <1>8. QED
    BY <1>6, <1>7 DEF Ledger!LedgerNext

\* Every step of a request is a step of the ledger, or none.
LEMMA RequestLedger ==
  ASSUME ClaimInv, NEW q \in ClaimRequests, RequestStep(q)
  PROVE  [Ledger!LedgerNext]_<<Considered, Granted, Paid, Abandoned>>
  <1> USE DEF ClaimInv, TypeOK
  <1>0. OnlyOf(q)
    BY OthersUntouched DEF OnlyOf
  <1>1. CASE Submit(q) \/ FindActiveEvent(q) \/ FindReward(q) \/ ReadFails(q)
    <2>1. /\ pc[q] \in {"idle"} \cup ReadSteps /\ pc'[q] # "saveApproved"
          /\ claims[q] = NoDoc /\ claims'[q] = NoDoc
      BY <1>1 DEF Submit, FindActiveEvent, FindReward, ReadFails, Progress, GoTo, RespondWith,
         ReadSteps
    <2>2. QED
      BY <1>0, <2>1, UnknownStutters DEF ReadSteps
  <1>2. CASE FindExistingClaim(q)
    <2>1. CASE pc'[q] = "saveApproved"
      BY <1>0, <1>2, <2>1, CheckConsiders DEF Ledger!LedgerNext
    <2>2. CASE pc'[q] # "saveApproved"
      <3>1. pc[q] = "findExisting" /\ claims[q] = NoDoc /\ claims'[q] = NoDoc
        BY <1>2 DEF FindExistingClaim, Progress, ReadSteps
      <3>2. QED
        BY <1>0, <2>2, <3>1, UnknownStutters
    <2>3. QED
      BY <2>1, <2>2
  <1>3. CASE Reply(q)
    <2>1. /\ pc[q] = "reply" /\ pc'[q] = "done" /\ response'[q] = response[q]
          /\ claims' = claims /\ target' = target
      BY <1>3 DEF Reply
    <2>2. \A r \in ClaimRequests : /\ GrantOf(r)' = GrantOf(r)
                                   /\ Live(r)' <=> Live(r)
                                   /\ ApprovedUnpaid(r)' <=> ApprovedUnpaid(r)
                                   /\ Failed(r)' <=> Failed(r)
                                   /\ (pc[r] = "saveApproved")' <=> pc[r] = "saveApproved"
      BY <1>0, <2>1 DEF GrantOf, Live, ApprovedUnpaid, Failed, OnlyOf
    <2>3. Considered' = Considered
      BY <1>0, <2>1, ConsideredFollows
    <2>4. Granted' = Granted /\ Paid' = Paid
      BY <2>1 DEF Granted, Paid, GrantOf, Live
    <2>5. Abandoned' = Abandoned
      <3>1. Abandoned' = {GrantOf(r)' : r \in {s \in ClaimRequests : ApprovedUnpaid(s)' /\ Failed(s)'}}
        BY DEF Abandoned
      <3>2. QED
        BY <2>2, <3>1 DEF Abandoned
    <2>6. QED
      BY <2>3, <2>4, <2>5
  <1>4. CASE Writes(q) /\ pc'[q] # "saveApproved" /\ target'[q] = target[q]
    <2>1. CASE pc[q] = "saveRejected"
      <3>1. claims[q] = NoDoc /\ claims'[q].status = "REJECTED"
        BY <1>4, <2>1, WritesTyped DEF Progress
      <3>2. QED
        BY <1>0, <1>4, <2>1, <3>1, UnknownStutters
    <2>2. CASE pc[q] = "saveApproved"
      BY <1>0, <1>4, <2>2, ApprovalGrants DEF Ledger!LedgerNext
    <2>3. CASE pc[q] = "savePaid"
      BY <1>0, <1>4, <2>3, PaymentPays DEF Ledger!LedgerNext
    <2>4. QED
      BY <1>4, <2>1, <2>2, <2>3 DEF Writes
  <1>5. CASE SaveRejected(q) \/ SaveApproved(q) \/ SavePaid(q)
    <2>1. Writes(q) /\ pc'[q] # "saveApproved" /\ target'[q] = target[q]
      BY <1>5 DEF SaveRejected, SaveApproved, SavePaid, Writes, GoTo, RespondWith
    <2>2. QED
      BY <1>4, <2>1
  <1>6. CASE WriteFails(q)
    <2>1. pc'[q] = "reply" /\ target'[q] = target[q]
      BY <1>6 DEF WriteFails, RespondWith
    <2>2. CASE Writes(q)
      BY <1>4, <2>1, <2>2
    <2>3. CASE UNCHANGED claims
      BY <1>0, <1>6, <2>3, FailureGivesUp
    <2>4. QED
      BY <2>2, <2>3, RequestWrites
  <1>7. QED
    BY <1>1, <1>2, <1>3, <1>5, <1>6 DEF RequestStep, ClaimStep

\* Every step of the claims is a step of the ledger, or none.
LEMMA LedgerStep ==
  ASSUME ClaimInv, [Next]_vars
  PROVE  [Ledger!LedgerNext]_<<Considered, Granted, Paid, Abandoned>>
  <1>1. CASE Tick \/ OperatorStep \/ UNCHANGED vars
    <2>1. UNCHANGED <<claims, pc, target, response>>
      BY <1>1 DEF Tick, OperatorStep, vars, claimVars, requestVars
    <2>2. QED
      BY <2>1 DEF Considered, Granted, Paid, Abandoned, GrantOf, Live, ApprovedUnpaid, Failed
  <1>2. QED
    BY <1>1, RequestLedger, CrashGivesUp DEF Next

\* The claims implement the ledger, whatever fails or restarts and with no index on
\* the collection: contents stay as granted, nothing is paid twice, a grant whose
\* request has failed is never paid, and a key is granted again only to requests that
\* had passed the duplicate check before its first grant.
THEOREM ClaimsImplementLedger == Spec => ImplementsLedger
  <1>1. Init => Ledger!LedgerInit
    BY DEF Init, Ledger!LedgerInit, Considered, Granted, Paid, Abandoned, Live, ApprovedUnpaid
  <1>2. ClaimInv /\ [Next]_vars => [Ledger!LedgerNext]_<<Considered, Granted, Paid, Abandoned>>
    BY LedgerStep
  <1>3. QED
    BY <1>1, <1>2, ClaimInvAlways, PTL
       DEF Spec, ImplementsLedger, Ledger!LedgerSpec, Ledger!ledgerVars

-----------------------------------------------------------------------------
(* The catalogue under the claims.                                         *)

\* The catalogue of a server that takes claims is the catalogue the operators
\* maintain: a claim reads it, and a restart interrupts its calls.
THEOREM ClaimsKeepCatalogue == Spec => CatalogSpec
  <1>1. ClaimInv /\ [Next]_vars => [CatalogNext \/ CatalogCrash]_catalogVars
    <2> SUFFICES ASSUME ClaimInv, [Next]_vars
                 PROVE  CatalogNext \/ CatalogCrash \/ UNCHANGED catalogVars
      OBVIOUS
    <2>1. ASSUME NEW q \in ClaimRequests, RequestStep(q) PROVE UNCHANGED catalogVars
      BY <2>1, OthersUntouched DEF ClaimInv
    <2>2. CASE Crash \/ OperatorStep
      BY <2>2 DEF Crash, OperatorStep
    <2>3. CASE Tick \/ UNCHANGED vars
      BY <2>3 DEF Tick, vars
    <2>4. QED
      BY <2>1, <2>2, <2>3 DEF Next
  <1>2. Init => CatalogInit
    BY DEF Init
  <1>3. QED
    BY <1>1, <1>2, ClaimInvAlways, PTL DEF Spec, CatalogSpec

\* So the refinement of the catalogue holds of the whole server, too.
THEOREM ClaimsKeepCatalogueAtomic == Spec => ImplementsAtomicCatalog
  BY ClaimsKeepCatalogue, CatalogIsAtomic, PTL

=============================================================================
