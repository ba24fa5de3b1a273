----------------------------- MODULE RewardClaim -----------------------------
(***************************************************************************)
(* POST /reward-claims of event-server: RewardClaimService.createClaim over *)
(* the reward-claims collection, while operators change the catalogue,     *)
(* time passes, the database fails now and then and the server restarts.   *)
(*                                                                         *)
(* Every await of createClaim is a point where other requests run, so each *)
(* stretch between two awaits is one action, named for the database call   *)
(* it gets the result of.  A claim document is identified with the request *)
(* that inserted it: a request inserts at most one.                        *)
(*                                                                         *)
(* The collection has no index that takes part in this.  The unique one    *)
(* reward-claim.schema.ts declares has a partial filter with $ne, which    *)
(* MongoDB refuses; Mongoose creates it in the background, nobody reads the *)
(* error, and the server runs without it.                                  *)
(***************************************************************************)
EXTENDS EventCatalog

CONSTANTS Users,           \* the ids of the users that claim
          ClaimRequests,   \* the POST /reward-claims calls of a behaviour
          MaxCrashes,      \* bound: restarts of the server
          MaxDbFaults      \* bound: database calls that report an error

VARIABLES now,          \* the clock of the server
          claims,       \* the reward-claims collection, by inserting request
          pc,           \* where each request is in createClaim
          target,       \* the user, event and reward a request is about
          sampled,      \* the instant it looks for an active event at
          eventRead,    \* the event document it read
          rewardRead,   \* the reward document it read
          response,     \* the HTTP status it has settled on
          crashes, dbFaults   \* how many of each so far

requestVars == <<pc, target, sampled, eventRead, rewardRead, response>>
claimVars == <<now, claims, pc, target, sampled, eventRead, rewardRead, response,
               crashes, dbFaults>>
vars == <<catalogVars, claimVars>>

-----------------------------------------------------------------------------
(* Documents.                                                              *)

ClaimStatus == {"PENDING", "APPROVED", "REJECTED", "PAID", "PAID_FAILED", "CANCELLED"}

Keys == [user : Users, event : EventIds, reward : RewardIds]

\* processedAt and claimedRewardDetails are kept as whether the claim has been
\* processed and which contents of the reward it recorded.
ClaimDocs == [key : Keys, status : ClaimStatus, details : Nullable(Details),
              processed : BOOLEAN]

ASSUME ClaimAssumption ==
    /\ MaxCrashes \in Nat
    /\ MaxDbFaults \in Nat
    /\ NoDoc \notin ClaimDocs
    /\ Undefined \notin Keys

\* The statuses that leave a key free, by the query createClaim makes.
Uncounted == {"REJECTED", "CANCELLED", "PAID_FAILED"}

\* q's document counts against another claim on its key.
Live(q) == claims[q] # NoDoc /\ claims[q].status \notin Uncounted

Held(key) == \E q \in ClaimRequests : Live(q) /\ claims[q].key = key

\* new this.rewardClaimModel(...) for q.
NewClaim(q, status) ==
    [key |-> target[q], status |-> status, details |-> rewardRead[q].details,
     processed |-> status = "REJECTED"]

\* What the second save makes of the approved document.
PaidClaim(doc) == [doc EXCEPT !.status = "PAID", !.processed = TRUE]

-----------------------------------------------------------------------------
ReadSteps == {"findActiveEvent", "findReward", "findExisting"}
WriteSteps == {"saveRejected", "saveApproved", "savePaid"}
InFlight(q) == pc[q] \in ReadSteps \cup WriteSteps \cup {"reply"}

Init ==
    /\ CatalogInit
    /\ now \in Dates
    /\ claims = [q \in ClaimRequests |-> NoDoc]
    /\ pc = [q \in ClaimRequests |-> "idle"]
    /\ target = [q \in ClaimRequests |-> Undefined]
    /\ sampled = [q \in ClaimRequests |-> Undefined]
    /\ eventRead = [q \in ClaimRequests |-> NoDoc]
    /\ rewardRead = [q \in ClaimRequests |-> NoDoc]
    /\ response = [q \in ClaimRequests |-> 0]
    /\ crashes = 0
    /\ dbFaults = 0

GoTo(q, step) == pc' = [pc EXCEPT ![q] = step] /\ UNCHANGED response

\* The handler returns or throws; the status is on its way to the caller.
RespondWith(q, status) ==
    /\ pc' = [pc EXCEPT ![q] = "reply"]
    /\ response' = [response EXCEPT ![q] = status]

\* What no request step changes.
Outside == <<catalogVars, now, crashes>>

-----------------------------------------------------------------------------
(* Slips a later change could make in createClaim.  No action uses them: the *)
(* checks put each in the place of the action it varies, to see that some   *)
(* property notices.                                                       *)

\* FindActiveEvent with no answer for an event that is not active.
FindActiveEventOrHang(q) ==
    /\ pc[q] = "findActiveEvent"
    /\ ActiveAt(events[target[q].event], sampled[q])
    /\ eventRead' = [eventRead EXCEPT ![q] = events[target[q].event]]
    /\ GoTo(q, "findReward")
    /\ UNCHANGED <<Outside, claims, target, sampled, rewardRead, dbFaults>>

\* FindActiveEvent whose answer is used without a look whether there is one.
FindActiveEventUnchecked(q) ==
    /\ pc[q] = "findActiveEvent"
    /\ LET doc == events[target[q].event]
       IN  \/ /\ ActiveAt(doc, sampled[q])
              /\ eventRead' = [eventRead EXCEPT ![q] = doc]
              /\ GoTo(q, "findReward")
           \/ /\ ~ActiveAt(doc, sampled[q])
              /\ RespondWith(q, 500)
              /\ UNCHANGED eventRead
    /\ UNCHANGED <<Outside, claims, target, sampled, rewardRead, dbFaults>>

\* FindReward without comparing the reward's event.
FindRewardOfAnyEvent(q) ==
    /\ pc[q] = "findReward"
    /\ rewards[target[q].reward] # NoDoc
    /\ rewardRead' = [rewardRead EXCEPT ![q] = rewards[target[q].reward]]
    /\ GoTo(q, "findExisting")
    /\ UNCHANGED <<Outside, claims, target, sampled, eventRead, dbFaults>>

\* FindExistingClaim that looks for paid claims only.
FindPaidClaim(q) ==
    /\ pc[q] = "findExisting"
    /\ IF \E p \in ClaimRequests : Live(p) /\ claims[p].status = "PAID" /\ claims[p].key = target[q]
       THEN RespondWith(q, 409)
       ELSE GoTo(q, IF ConditionMet(eventRead[q]) THEN "saveApproved" ELSE "saveRejected")
    /\ UNCHANGED <<Outside, claims, target, sampled, eventRead, rewardRead, dbFaults>>

\* FindExistingClaim that tests the condition of the event as it is by then.
FindExistingClaimRereads(q) ==
    /\ pc[q] = "findExisting"
    /\ IF Held(target[q])
       THEN RespondWith(q, 409)
       ELSE GoTo(q, IF ConditionMet(events[target[q].event]) THEN "saveApproved" ELSE "saveRejected")
    /\ UNCHANGED <<Outside, claims, target, sampled, eventRead, rewardRead, dbFaults>>

\* SaveApproved that returns the approved claim without paying it.
SaveApprovedOnly(q) ==
    /\ pc[q] = "saveApproved"
    /\ claims' = [claims EXCEPT ![q] = NewClaim(q, "APPROVED")]
    /\ RespondWith(q, 201)
    /\ UNCHANGED <<Outside, target, sampled, eventRead, rewardRead, dbFaults>>

\* WriteFails whose catch removes the claim that was not paid.
WriteFailsRemoving(q) ==
    /\ pc[q] \in WriteSteps
    /\ dbFaults < MaxDbFaults
    /\ dbFaults' = dbFaults + 1
    /\ claims' = [claims EXCEPT ![q] = NoDoc]
    /\ RespondWith(q, 500)
    /\ UNCHANGED <<Outside, target, sampled, eventRead, rewardRead>>

\* WriteFails whose catch marks the claim with the status the README has for it.
WriteFailsMarking(q) ==
    /\ pc[q] = "savePaid"
    /\ dbFaults < MaxDbFaults
    /\ dbFaults' = dbFaults + 1
    /\ claims' = [claims EXCEPT ![q].status = "FAILED"]
    /\ RespondWith(q, 500)
    /\ UNCHANGED <<Outside, target, sampled, eventRead, rewardRead>>

\* SavePaid that records the reward afresh.
SavePaidResnapshots(q) ==
    /\ pc[q] = "savePaid"
    /\ claims' = [claims EXCEPT ![q] =
                     [PaidClaim(claims[q]) EXCEPT !.details = rewards[target[q].reward].details]]
    /\ RespondWith(q, 201)
    /\ UNCHANGED <<Outside, target, sampled, eventRead, rewardRead, dbFaults>>

\* SavePaid that does not wait for its save.
SavePaidUnawaited(q) ==
    /\ pc[q] = "savePaid"
    /\ UNCHANGED claims \/ claims' = [claims EXCEPT ![q] = PaidClaim(claims[q])]
    /\ RespondWith(q, 201)
    /\ UNCHANGED <<Outside, target, sampled, eventRead, rewardRead, dbFaults>>

-----------------------------------------------------------------------------
(* One request.                                                            *)

\* A user asks; the ids are well formed, since the DTO and the token are.  Up to
\* its first await createClaim takes the instant it will look for an active event
\* at: the query may be answered much later.
Submit(q) ==
    /\ pc[q] = "idle"
    /\ \E key \in Keys : target' = [target EXCEPT ![q] = key]
    /\ sampled' = [sampled EXCEPT ![q] = now]
    /\ GoTo(q, "findActiveEvent")
    /\ UNCHANGED <<Outside, claims, eventRead, rewardRead, dbFaults>>

\* The event as it is when the database answers, for the instant sampled before.
FindActiveEvent(q) ==
    /\ pc[q] = "findActiveEvent"
    /\ LET doc == events[target[q].event]
       IN  \/ /\ ActiveAt(doc, sampled[q])
              /\ eventRead' = [eventRead EXCEPT ![q] = doc]
              /\ GoTo(q, "findReward")
           \/ /\ ~ActiveAt(doc, sampled[q])
              /\ RespondWith(q, 404)
              /\ UNCHANGED eventRead
    /\ UNCHANGED <<Outside, claims, target, sampled, rewardRead, dbFaults>>

\* findOne answers 404 for no reward; comparing the event of one whose eventId
\* is null throws.
FindReward(q) ==
    /\ pc[q] = "findReward"
    /\ rewardRead' = [rewardRead EXCEPT ![q] = rewards[target[q].reward]]
    /\ LET doc == rewards[target[q].reward]
       IN  \/ doc = NoDoc /\ RespondWith(q, 404)
           \/ doc # NoDoc /\ doc.eventId = Null /\ RespondWith(q, 500)
           \/ /\ doc # NoDoc
              /\ doc.eventId \notin {Null, target[q].event}
              /\ RespondWith(q, 404)
           \/ /\ doc # NoDoc
              /\ doc.eventId = target[q].event
              /\ GoTo(q, "findExisting")
    /\ UNCHANGED <<Outside, claims, target, sampled, eventRead, dbFaults>>

\* The query for a live claim, then checkEventCondition on the event read
\* earlier, which calls nothing, and throws when the condition is null.
FindExistingClaim(q) ==
    /\ pc[q] = "findExisting"
    /\ \/ Held(target[q]) /\ RespondWith(q, 409)
       \/ /\ ~Held(target[q])
          /\ eventRead[q].condition = Null
          /\ RespondWith(q, 500)
       \/ /\ ~Held(target[q])
          /\ eventRead[q].condition # Null
          /\ GoTo(q, IF ConditionMet(eventRead[q]) THEN "saveApproved" ELSE "saveRejected")
    /\ UNCHANGED <<Outside, claims, target, sampled, eventRead, rewardRead, dbFaults>>

SaveRejected(q) ==
    /\ pc[q] = "saveRejected"
    /\ claims' = [claims EXCEPT ![q] = NewClaim(q, "REJECTED")]
    /\ RespondWith(q, 400)
    /\ UNCHANGED <<Outside, target, sampled, eventRead, rewardRead, dbFaults>>

\* Without the index no insertion meets E11000, so the branch of the catch for it
\* is never taken.
SaveApproved(q) ==
    /\ pc[q] = "saveApproved"
    /\ claims' = [claims EXCEPT ![q] = NewClaim(q, "APPROVED")]
    /\ GoTo(q, "savePaid")
    /\ UNCHANGED <<Outside, target, sampled, eventRead, rewardRead, dbFaults>>

SavePaid(q) ==
    /\ pc[q] = "savePaid"
    /\ claims' = [claims EXCEPT ![q] = PaidClaim(claims[q])]
    /\ RespondWith(q, 201)
    /\ UNCHANGED <<Outside, target, sampled, eventRead, rewardRead, dbFaults>>

\* The response leaves the server.
Reply(q) ==
    /\ pc[q] = "reply"
    /\ pc' = [pc EXCEPT ![q] = "done"]
    /\ UNCHANGED <<Outside, claims, target, sampled, eventRead, rewardRead, response, dbFaults>>

ClaimStep(q) ==
    \/ FindActiveEvent(q)
    \/ FindReward(q)
    \/ FindExistingClaim(q)
    \/ SaveRejected(q)
    \/ SaveApproved(q)
    \/ SavePaid(q)
    \/ Reply(q)

-----------------------------------------------------------------------------
(* What goes wrong around a request.                                       *)

\* A query rejects: nothing catches it, and the framework answers 500.
ReadFails(q) ==
    /\ pc[q] \in ReadSteps
    /\ dbFaults < MaxDbFaults
    /\ dbFaults' = dbFaults + 1
    /\ RespondWith(q, 500)
    /\ UNCHANGED <<Outside, claims, target, sampled, eventRead, rewardRead>>

\* The document a save that reports an error leaves behind when the database
\* had carried it out before the connection broke.
Written(q) ==
    CASE pc[q] = "saveRejected" -> NewClaim(q, "REJECTED")
      [] pc[q] = "saveApproved" -> NewClaim(q, "APPROVED")
      [] pc[q] = "savePaid" -> PaidClaim(claims[q])

\* A save rejects, with its write done or not: the catch, or the framework for
\* the rejected claim, answers 500.
WriteFails(q) ==
    /\ pc[q] \in WriteSteps
    /\ dbFaults < MaxDbFaults
    /\ dbFaults' = dbFaults + 1
    /\ \/ claims' = [claims EXCEPT ![q] = Written(q)]
       \/ UNCHANGED claims
    /\ RespondWith(q, 500)
    /\ UNCHANGED <<Outside, target, sampled, eventRead, rewardRead>>

\* The server restarts: callers in flight get no answer.
Crash ==
    /\ crashes < MaxCrashes
    /\ crashes' = crashes + 1
    /\ CatalogCrash
    /\ pc' = [q \in ClaimRequests |-> IF InFlight(q) THEN "lost" ELSE pc[q]]
    /\ UNCHANGED <<now, claims, target, sampled, eventRead, rewardRead, response, dbFaults>>

Tick ==
    /\ \E t \in Dates : t > now /\ now' = t
    /\ UNCHANGED <<catalogVars, claims, requestVars, crashes, dbFaults>>

OperatorStep == CatalogNext /\ UNCHANGED claimVars

\* Everything that happens to a request.
RequestStep(q) == Submit(q) \/ ClaimStep(q) \/ ReadFails(q) \/ WriteFails(q)

Next ==
    \/ \E q \in ClaimRequests : RequestStep(q)
    \/ Crash
    \/ Tick
    \/ OperatorStep

Spec == Init /\ [][Next]_vars

\* Node runs every continuation whose await has settled, and the driver settles
\* every call.  Nobody has to send a request, and nothing has to go wrong.
Fairness == \A q \in ClaimRequests : WF_vars(ClaimStep(q))

FairSpec == Spec /\ Fairness

\* The same where nothing fails or restarts.
UndisturbedNext ==
    \/ \E q \in ClaimRequests : Submit(q) \/ ClaimStep(q)
    \/ Tick
    \/ OperatorStep

UndisturbedSpec == Init /\ [][UndisturbedNext]_vars /\ Fairness

-----------------------------------------------------------------------------
(* Properties.                                                             *)

\* The collections hold what their schemas allow, and a request has read what
\* the step it is at works on.
TypeOK ==
    /\ CatalogTypeOK
    /\ now \in Dates
    /\ claims \in [ClaimRequests -> ClaimDocs \cup {NoDoc}]
    /\ pc \in [ClaimRequests -> {"idle", "reply", "done", "lost"} \cup ReadSteps \cup WriteSteps]
    /\ target \in [ClaimRequests -> Keys \cup {Undefined}]
    /\ sampled \in [ClaimRequests -> Maybe(Dates)]
    /\ eventRead \in [ClaimRequests -> EventDocs \cup {NoDoc}]
    /\ rewardRead \in [ClaimRequests -> RewardDocs \cup {NoDoc}]
    /\ response \in [ClaimRequests -> {0, 201, 400, 404, 409, 500}]
    /\ crashes \in 0..MaxCrashes
    /\ dbFaults \in 0..MaxDbFaults

\* No two live claims on one user, event and reward: "prevents duplicate
\* requests of a user for the same event and reward", the index's comment says.
NoDuplicateClaims ==
    \A p, q \in ClaimRequests :
        Live(p) /\ Live(q) /\ claims[p].key = claims[q].key => p = q

\* The status a request was answered with is true of the collection, and stays
\* true: 201 for a paid claim, 400 for a rejected one, 404 for no claim, 409 for
\* no claim because another request's claim on the key is live.
AnswerMatchesClaims ==
    \A q \in ClaimRequests : pc[q] \in {"reply", "done"} =>
        CASE response[q] = 201 -> /\ claims[q] # NoDoc
                                  /\ claims[q].status = "PAID"
                                  /\ claims[q].processed
          [] response[q] = 400 -> /\ claims[q] # NoDoc
                                  /\ claims[q].status = "REJECTED"
                                  /\ claims[q].processed
          [] response[q] = 404 -> claims[q] = NoDoc
          [] response[q] = 409 -> claims[q] = NoDoc /\ Held(target[q])
          [] OTHER -> response[q] = 500

\* q's claim is approved and not paid.
ApprovedUnpaid(q) == claims[q] # NoDoc /\ claims[q].status = "APPROVED"

\* The caller cannot believe that q succeeded.
Failed(q) == pc[q] = "lost" \/ response[q] = 500

\* A claim is left approved and unpaid only by a request that is about to pay
\* it, that died, or that told its caller of an error.
ApprovedIsAccountedFor ==
    \A q \in ClaimRequests : ApprovedUnpaid(q) => pc[q] = "savePaid" \/ Failed(q)

\* A claim is answered 500 only when the database failed or an operator has set
\* to null what the claim needs: whatever operators and other claims do between
\* its reads, createClaim knows what to answer.
ErrorsAreExplained ==
    \A q \in ClaimRequests : response[q] = 500 =>
        \/ dbFaults > 0
        \/ rewardRead[q] # NoDoc /\ rewardRead[q].eventId = Null
        \/ eventRead[q] # NoDoc /\ eventRead[q].condition = Null

\* Every claim is about an event and a reward that exist: the listings of claims
\* find what they refer to.
ClaimsReferToCatalogue ==
    \A q \in ClaimRequests : claims[q] # NoDoc =>
        EventExists(claims[q].key.event) /\ rewards[claims[q].key.reward] # NoDoc

\* What a claim says of who claimed what, and of the reward's contents, is fixed
\* when it is inserted; only approved claims change, and only to paid.
ClaimsOnlyAdvance ==
    [][\A q \in ClaimRequests : claims[q] # NoDoc /\ claims'[q] # claims[q] =>
          /\ claims[q].status = "APPROVED"
          /\ claims'[q] = PaidClaim(claims[q])]_vars

\* Every request gets to its end: answered, or cut off by a restart.
EveryRequestEnds ==
    \A q \in ClaimRequests : InFlight(q) ~> pc[q] \in {"done", "lost"}

\* An approved claim does not stay approved in silence.
ApprovedSettles ==
    \A q \in ClaimRequests : ApprovedUnpaid(q) ~> (~ApprovedUnpaid(q) \/ Failed(q))

\* "APPROVED, then at once PAID", as the README describes step 5 of a claim.
ApprovedIsPaid == \A q \in ClaimRequests : ApprovedUnpaid(q) ~> ~ApprovedUnpaid(q)

-----------------------------------------------------------------------------
(* The claims as a ledger of grants.                                       *)

GrantOf(q) == <<q, claims[q].key, claims[q].details>>
Granted == {GrantOf(q) : q \in {r \in ClaimRequests : Live(r)}}
Paid == {GrantOf(q) : q \in {r \in ClaimRequests : Live(r) /\ claims[r].status = "PAID"}}

\* The claims that have passed the duplicate check and are about to be granted.
Considered == {<<q, target[q]>> : q \in {r \in ClaimRequests : pc[r] = "saveApproved"}}

\* The grants whose request is over without having paid them.
Abandoned == {GrantOf(q) : q \in {r \in ClaimRequests : ApprovedUnpaid(r) /\ Failed(r)}}

Ledger == INSTANCE ClaimLedger WITH LedgerClaims <- ClaimRequests,
                                    LedgerKeys <- Keys, LedgerDetails <- Nullable(Details),
                                    considered <- Considered, granted <- Granted,
                                    paid <- Paid, abandoned <- Abandoned

\* The collection is a ledger, whatever fails or restarts: contents stay, nothing
\* is paid twice or after its request has failed, and a key is granted again only
\* to requests that passed the duplicate check before it was granted first.
ImplementsLedger == Ledger!LedgerSpec

\* What passed the check is decided, and a grant is paid unless its request dies.
ImplementsFairLedger == Ledger!LedgerFairSpec

=============================================================================
