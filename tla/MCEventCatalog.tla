--------------------------- MODULE MCEventCatalog ---------------------------
(***************************************************************************)
(* EventCatalog on a small instance: two events and two rewards, four      *)
(* operator calls, starting from an empty database.                        *)
(***************************************************************************)
EXTENDS EventCatalog, TLC

CONSTANTS e1, e2, small, large

MCDates == {1}
MCParams == {"none", "given"}

Streak == [type |-> "loginStreak", params |-> "given"]

NoChange == [status |-> Undefined, isActive |-> Undefined, startDate |-> Undefined,
             endDate |-> Undefined, condition |-> Undefined]

MCCreateBodies == {[status |-> Undefined, isActive |-> Undefined, startDate |-> 1,
                    endDate |-> 1, condition |-> Streak]}
MCUpdateBodies == {[NoChange EXCEPT !.status = "ENDED"],
                   [NoChange EXCEPT !.condition = Streak],
                   [NoChange EXCEPT !.status = Null, !.startDate = Null, !.condition = Null]}
MCRewardBodies == {[eventId |-> e, details |-> small] : e \in EventIds}
MCRewardPatches == {[eventId |-> e, details |-> large] : e \in EventIds \cup {Undefined, Null}}

NoEvents == [e \in EventIds |-> NoDoc]
NoRewards == [r \in RewardIds |-> NoDoc]

Symmetry == Permutations(AdminRequests) \cup Permutations(RewardIds)
                \cup Permutations(EventIds)

=============================================================================
