------------------------- MODULE RewardClaimHistory -------------------------
(***************************************************************************)
(* RewardClaim with history variables, for the promises of POST             *)
(* /reward-claims that compare a claim with earlier states: what a request *)
(* found on arrival, and what it could have read while it was processed.   *)
(***************************************************************************)
EXTENDS RewardClaim

VARIABLES heldOnArrival,   \* a claim on the key was live when q was submitted
          activeSeen,      \* the documents q's event had since then that are active on arrival
          rewardSeen,      \* the documents q's reward had since then
          closedSeen       \* what q asks for was not to be had at some moment

historyVars == <<heldOnArrival, activeSeen, rewardSeen, closedSeen>>
allVars == <<vars, historyVars>>

HistoryInit ==
    /\ heldOnArrival = [q \in ClaimRequests |-> FALSE]
    /\ activeSeen = [q \in ClaimRequests |-> {}]
    /\ rewardSeen = [q \in ClaimRequests |-> {}]
    /\ closedSeen = [q \in ClaimRequests |-> FALSE]

\* A request watches until its claim is decided.
Watching(q) == pc[q] \in ReadSteps

\* What q's target looks like in this state: the event where it is active at the
\* instant q arrived, which is the one createClaim asks for, and the reward.
ActiveNow(q) == {d \in {events[target[q].event]} : ActiveAt(d, sampled[q])}
RewardNow(q) == {rewards[target[q].reward]} \ {NoDoc}

\* q's event, as it is in this state, takes claims at the instant q arrived, from
\* its first instant to its last, and has the reward.
OpenNow(q) ==
    LET event == events[target[q].event]
        reward == rewards[target[q].reward]
    IN  /\ event # NoDoc /\ reward # NoDoc
        /\ event.status = "ACTIVE" /\ event.isActive = TRUE
        /\ sampled[q] \in event.startDate..event.endDate
        /\ reward.eventId = target[q].event

\* The history after a step: a request that is watched after it adds what it
\* could read then; one that has just arrived starts afresh.
Observe ==
    /\ heldOnArrival' = [q \in ClaimRequests |->
          IF pc[q] = "idle" /\ pc'[q] # "idle" THEN Held(target'[q]) ELSE heldOnArrival[q]]
    /\ activeSeen' = [q \in ClaimRequests |->
          IF Watching(q)' THEN activeSeen[q] \cup ActiveNow(q)' ELSE activeSeen[q]]
    /\ rewardSeen' = [q \in ClaimRequests |->
          IF Watching(q)' THEN rewardSeen[q] \cup RewardNow(q)' ELSE rewardSeen[q]]
    /\ closedSeen' = [q \in ClaimRequests |->
          closedSeen[q] \/ (Watching(q)' /\ ~OpenNow(q)')]

HistoryInitial == Init /\ HistoryInit
HistoryNext == Next /\ Observe
HistorySpec == HistoryInitial /\ [][HistoryNext]_allVars

-----------------------------------------------------------------------------
(* Properties.                                                             *)

HistoryTypeOK ==
    /\ TypeOK
    /\ heldOnArrival \in [ClaimRequests -> BOOLEAN]
    /\ activeSeen \in [ClaimRequests -> SUBSET EventDocs]
    /\ rewardSeen \in [ClaimRequests -> SUBSET RewardDocs]
    /\ closedSeen \in [ClaimRequests -> BOOLEAN]

\* The duplicate check of createClaim does its work for requests that do not
\* overlap, though no index backs it: a request that arrives while a claim on its user,
\* event and reward is live never gets a live claim itself, whatever fails or
\* restarts in between.
NoGrantAfterGrant == \A q \in ClaimRequests : heldOnArrival[q] => ~Live(q)

\* A claim is decided on one version of its event, which stood in the database at
\* some moment of the request: that version was active at the instant of arrival,
\* and its condition was met (a granted claim) or not met (a rejected one).  The
\* instant, the rest of the event and the condition are taken in three steps, with
\* time passing and operators changing the event between them.
DecidedOnOneVersion ==
    \A q \in ClaimRequests : claims[q] # NoDoc =>
        \E doc \in activeSeen[q] : ConditionMet(doc) <=> Live(q)

\* A user is told "not found" only of what some moment of the request did not offer
\* at the instant of arrival: an event that is active, has its reward and has that
\* instant in its period, the ends included, throughout the request is never
\* denied, however late its queries are answered.
NotFoundHasReason == \A q \in ClaimRequests : response[q] = 404 => closedSeen[q]

\* The contents a claim records are those its reward had at one moment of the
\* request at which the reward belonged to the claimed event.
RecordsRewardOfEvent ==
    \A q \in ClaimRequests : claims[q] # NoDoc =>
        \E doc \in rewardSeen[q] : /\ doc.eventId = claims[q].key.event
                                   /\ doc.details = claims[q].details

=============================================================================
