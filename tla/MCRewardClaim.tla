---------------------------- MODULE MCRewardClaim ----------------------------
(***************************************************************************)
(* RewardClaim on small instances.                                         *)
(***************************************************************************)
EXTENDS RewardClaim, TLC

CONSTANTS e1, e2, r1, small, large

MCDates == 1..2
MCParams == {"none", "given"}

LoginStreak == [type |-> "loginStreak", params |-> "none"]
Other == [type |-> "other", params |-> "given"]

OpenEvent == [status |-> "ACTIVE", isActive |-> TRUE, startDate |-> 1,
              endDate |-> 1, condition |-> LoginStreak]

\* An event that starts on the last day and whose condition nobody meets.
LateEvent == [OpenEvent EXCEPT !.startDate = 2, !.endDate = 2, !.condition = Other]

NoChange == [status |-> Undefined, isActive |-> Undefined, startDate |-> Undefined,
             endDate |-> Undefined, condition |-> Undefined]

\* Operators create an event, close one, prolong one and change its condition.
MCCreateBodies == {[OpenEvent EXCEPT !.status = Undefined, !.isActive = Undefined]}
MCUpdateBodies == {[NoChange EXCEPT !.status = "ENDED"],
                   [NoChange EXCEPT !.isActive = FALSE, !.condition = Other],
                   [NoChange EXCEPT !.isActive = TRUE, !.condition = LoginStreak],
                   [NoChange EXCEPT !.endDate = 2],
                   [NoChange EXCEPT !.condition = Null]}

MCRewardBodies == {[eventId |-> e1, details |-> small]}
MCRewardPatches == {[eventId |-> e2, details |-> Undefined],
                    [eventId |-> Undefined, details |-> large],
                    [eventId |-> Null, details |-> Undefined],
                    [eventId |-> e1, details |-> large]}

TwoEvents == [e \in EventIds |-> IF e = e1 THEN OpenEvent
                                 ELSE IF e = e2 THEN LateEvent ELSE NoDoc]
TwoRewards == [r \in RewardIds |-> [eventId |-> IF r = r1 THEN e1 ELSE e2,
                                    details |-> small]]

RequestSymmetry == Permutations(ClaimRequests)

=============================================================================
