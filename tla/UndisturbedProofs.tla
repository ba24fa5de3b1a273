--------------------------- MODULE UndisturbedProofs ---------------------------
(***************************************************************************)
(* Theorems about the requests of RewardClaim on their way: that no step   *)
(* takes one back, and what becomes of them where nothing fails and        *)
(* nothing restarts.  They are the safety that the liveness properties of  *)
(* RewardClaim rest on.                                                    *)
(***************************************************************************)
EXTENDS RewardClaimProofs

(* The way of a request.                                                   *)

\* How far a request at a step is from its end.
StepsLeft(step) ==
    CASE step = "idle" -> 7
      [] step = "findActiveEvent" -> 6
      [] step = "findReward" -> 5
      [] step = "findExisting" -> 4
      [] step \in {"saveRejected", "saveApproved"} -> 3
      [] step = "savePaid" -> 2
      [] step = "reply" -> 1
      [] OTHER -> 0

\* A step of q takes it nearer to its end.
LEMMA OwnStepAdvances ==
  ASSUME ClaimInv, NEW q \in ClaimRequests, RequestStep(q)
  PROVE  StepsLeft(pc'[q]) < StepsLeft(pc[q])
  <1> USE DEF StepsLeft, GoTo, RespondWith, ClaimInv, TypeOK
  <1>1. CASE Submit(q)
    BY <1>1 DEF Submit
  <1>2. CASE FindActiveEvent(q)
    BY <1>2 DEF FindActiveEvent
  <1>3. CASE FindReward(q)
    BY <1>3 DEF FindReward
  <1>4. CASE FindExistingClaim(q)
    BY <1>4 DEF FindExistingClaim
  <1>5. CASE SaveRejected(q)
    BY <1>5 DEF SaveRejected
  <1>6. CASE SaveApproved(q)
    BY <1>6 DEF SaveApproved
  <1>7. CASE SavePaid(q)
    BY <1>7 DEF SavePaid
  <1>8. CASE Reply(q)
    BY <1>8 DEF Reply
  <1>9. CASE ReadFails(q)
    BY <1>9 DEF ReadFails, ReadSteps
  <1>10. CASE WriteFails(q)
    BY <1>10 DEF WriteFails, WriteSteps
  <1>11. QED
    BY <1>1, <1>2, <1>3, <1>4, <1>5, <1>6, <1>7, <1>8, <1>9, <1>10
       DEF RequestStep, ClaimStep

\* No step, of whomever, takes a request back, and each step of its own brings it
\* nearer to its end: createClaim gets through in at most six, on every path, the
\* thrown ones included, so that a handler which keeps running comes to its answer.
THEOREM RequestsOnlyAdvance ==
  Spec => [][\A q \in ClaimRequests : /\ pc'[q] # pc[q] => StepsLeft(pc'[q]) < StepsLeft(pc[q])
                                      /\ ClaimStep(q) => pc'[q] # pc[q]]_vars
  <1>1. ASSUME ClaimInv, [Next]_vars, NEW q \in ClaimRequests
        PROVE  /\ pc'[q] # pc[q] => StepsLeft(pc'[q]) < StepsLeft(pc[q])
               /\ ClaimStep(q) => pc'[q] # pc[q]
    <2>1. ClaimStep(q) => pc'[q] # pc[q]
      BY <1>1, OwnStepAdvances DEF RequestStep, StepsLeft
    <2>2. CASE RequestStep(q)
      BY <1>1, <2>1, <2>2, OwnStepAdvances
    <2>3. ASSUME NEW r \in ClaimRequests, r # q, RequestStep(r)
          PROVE  pc'[q] = pc[q]
      BY <1>1, <2>3, OthersUntouched DEF ClaimInv
    <2>4. CASE Crash
      <3>1. pc'[q] = IF InFlight(q) THEN "lost" ELSE pc[q]
        BY <2>4 DEF Crash
      <3>2. StepsLeft("lost") = 0
        BY DEF StepsLeft
      <3>3. InFlight(q) => StepsLeft(pc[q]) \in 1..6
        BY DEF InFlight, ReadSteps, WriteSteps, StepsLeft
      <3>4. pc'[q] # pc[q] => InFlight(q) /\ pc'[q] = "lost"
        BY <3>1
      <3>5. pc'[q] # pc[q] => StepsLeft(pc'[q]) = 0
        BY <3>2, <3>4
      <3>6. QED
        BY <2>1, <3>3, <3>4, <3>5
    <2>5. CASE Tick \/ OperatorStep \/ UNCHANGED vars
      BY <2>1, <2>5 DEF Tick, OperatorStep, vars, claimVars, requestVars
    <2>6. QED
      BY <1>1, <2>1, <2>2, <2>3, <2>4, <2>5 DEF Next
  <1>2. ClaimInv /\ [Next]_vars =>
           [\A q \in ClaimRequests : /\ pc'[q] # pc[q] => StepsLeft(pc'[q]) < StepsLeft(pc[q])
                                     /\ ClaimStep(q) => pc'[q] # pc[q]]_vars
    BY <1>1
  <1>3. QED
    BY <1>2, ClaimInvAlways, PTL DEF Spec

-----------------------------------------------------------------------------
(* Where nothing fails or restarts.                                        *)

\* A step of an undisturbed server is a step of a server.
LEMMA UndisturbedStep == [UndisturbedNext]_vars => [Next]_vars
  BY DEF UndisturbedNext, Next, RequestStep

\* An undisturbed behaviour is one of RewardClaim.
LEMMA UndisturbedIsOrdinary == UndisturbedSpec => Spec
  BY UndisturbedStep, PTL DEF UndisturbedSpec, Spec

\* Nothing has failed, restarted or been cut off, and an error has left no claim.
Calm(q) ==
    /\ pc[q] # "lost"
    /\ response[q] # 0 => pc[q] \in {"reply", "done"}
    /\ response[q] = 500 => claims[q] = NoDoc

CalmInv ==
    /\ AnswerInv
    /\ dbFaults = 0
    /\ \A q \in ClaimRequests : Calm(q)

\* A request's own step that answers with an error has stored nothing.
LEMMA OwnStepCalm ==
  ASSUME CalmInv, NEW q \in ClaimRequests, Submit(q) \/ ClaimStep(q)
  PROVE  Calm(q)' /\ dbFaults' = 0
  <1> USE DEF CalmInv, AnswerInv, ClaimInv, TypeOK, Calm, GoTo, RespondWith
  <1>1. CASE Submit(q)
    BY <1>1 DEF Submit
  <1>2. CASE FindActiveEvent(q)
    BY <1>2 DEF FindActiveEvent
  <1>3. CASE FindReward(q)
    BY <1>3 DEF FindReward, Progress, ReadSteps
  <1>4. CASE FindExistingClaim(q)
    BY <1>4 DEF FindExistingClaim, Progress, ReadSteps
  <1>5. CASE SaveRejected(q)
    BY <1>5 DEF SaveRejected
  <1>6. CASE SaveApproved(q)
    BY <1>6 DEF SaveApproved
  <1>7. CASE SavePaid(q)
    BY <1>7 DEF SavePaid
  <1>8. CASE Reply(q)
    BY <1>8 DEF Reply
  <1>9. QED
    BY <1>1, <1>2, <1>3, <1>4, <1>5, <1>6, <1>7, <1>8 DEF ClaimStep

\* Every undisturbed step keeps the calm.
LEMMA CalmStep == CalmInv /\ [UndisturbedNext]_vars => CalmInv'
  <1> SUFFICES ASSUME CalmInv, [UndisturbedNext]_vars PROVE CalmInv'
    OBVIOUS
  <1>0. ClaimInv /\ AnswerInv /\ [Next]_vars
    BY UndisturbedStep DEF CalmInv, AnswerInv
  <1>1. AnswerInv'
    BY <1>0, ClaimInvStep, AnswersStep DEF AnswerInv
  <1>2. ASSUME NEW q \in ClaimRequests, Submit(q) \/ ClaimStep(q)
        PROVE  dbFaults' = 0 /\ \A r \in ClaimRequests : Calm(r)'
    <2>1. dbFaults' = 0 /\ Calm(q)'
      BY <1>2, OwnStepCalm
    <2>2. ASSUME NEW r \in ClaimRequests, r # q PROVE Calm(r)'
      BY <1>0, <1>2, <2>2, OthersUntouched DEF CalmInv, ClaimInv, RequestStep, Calm
    <2>3. QED
      BY <2>1, <2>2
  <1>3. CASE Tick \/ OperatorStep \/ UNCHANGED vars
    BY <1>1, <1>3 DEF Tick, OperatorStep, vars, claimVars, requestVars, CalmInv, Calm
  <1>4. QED
    BY <1>1, <1>2, <1>3 DEF UndisturbedNext, CalmInv

LEMMA CalmAlways == UndisturbedSpec => []CalmInv
  <1>1. Init => AnswerInv
    BY ClaimInvInit DEF Init, AnswerInv, AnswerTrue, Accounted, ApprovedUnpaid
  <1>2. Init => CalmInv
    BY <1>1 DEF Init, CalmInv, Calm
  <1>3. QED
    BY <1>2, CalmStep, PTL DEF UndisturbedSpec

\* A claim that is approved and not paid is one its request is about to pay.
ApprovedIsBeingPaid == \A q \in ClaimRequests : ApprovedUnpaid(q) => pc[q] = "savePaid"

\* Where nothing fails or restarts, no claim is ever left approved: what
\* ApprovedIsPaid adds is that the last save is made.
THEOREM ApprovedAwaitsPayment == UndisturbedSpec => []ApprovedIsBeingPaid
  <1>1. CalmInv => ApprovedIsBeingPaid
    BY DEF CalmInv, AnswerInv, Calm, Accounted, Failed, ApprovedUnpaid, ApprovedIsBeingPaid
  <1>2. QED
    BY <1>1, CalmAlways, PTL

\* An error is due to a null in the catalogue, and leaves the key free.
ErrorsAreNulls ==
    \A q \in ClaimRequests : response[q] = 500 =>
        /\ claims[q] = NoDoc
        /\ \/ rewardRead[q] # NoDoc /\ rewardRead[q].eventId = Null
           \/ eventRead[q] # NoDoc /\ eventRead[q].condition = Null

\* Where nothing fails or restarts, a user who is answered 500 has no claim: the
\* overlap of requests alone, on one key or on several, makes no such answer.
THEOREM ErrorsLeaveNothing == UndisturbedSpec => []ErrorsAreNulls
  <1>1. CalmInv /\ ErrorsAreExplained => ErrorsAreNulls
    BY DEF CalmInv, Calm, ErrorsAreExplained, ErrorsAreNulls
  <1>2. QED
    BY <1>1, CalmAlways, UndisturbedIsOrdinary, ErrorsExplained, PTL

\* Where nothing fails or restarts, the ledger of the claims abandons no grant: one
\* that is not paid is being paid.
THEOREM UndisturbedLedger ==
  UndisturbedSpec => /\ ImplementsLedger
                     /\ [](/\ Abandoned = {}
                           /\ \A g \in Granted \ Paid :
                                 \E q \in ClaimRequests : g = GrantOf(q) /\ pc[q] = "savePaid")
  <1>1. CalmInv => \A g \in Granted \ Paid :
                      \E q \in ClaimRequests : g = GrantOf(q) /\ pc[q] = "savePaid"
    <2> SUFFICES ASSUME CalmInv, NEW q \in ClaimRequests, Live(q), GrantOf(q) \notin Paid
                 PROVE  pc[q] = "savePaid"
      BY DEF Granted
    <2>1. claims[q] # NoDoc /\ claims[q].status # "PAID" /\ claims[q].status # "REJECTED"
      BY DEF Live, Uncounted, Paid
    <2>2. ApprovedUnpaid(q)
      BY <2>1 DEF CalmInv, AnswerInv, ClaimInv, Stored, ApprovedUnpaid
    <2>3. QED
      BY <2>2 DEF CalmInv, AnswerInv, Calm, Accounted, Failed, ApprovedUnpaid
  <1>2. CalmInv => Abandoned = {}
    BY DEF CalmInv, Calm, Abandoned, ApprovedUnpaid, Failed
  <1>3. QED
    BY <1>1, <1>2, CalmAlways, UndisturbedIsOrdinary, ClaimsImplementLedger, PTL

=============================================================================
