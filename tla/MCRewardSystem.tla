--------------------------- MODULE MCRewardSystem ---------------------------
(***************************************************************************)
(* RewardSystem on the instances of MCRewardClaim.                         *)
(***************************************************************************)
EXTENDS MCRewardClaim, RewardSystem

CONSTANTS q1, q2, u1

\* Everybody wants the same; the second request repeats the first.
MCWanted == [q \in ClaimRequests |-> [user |-> u1, event |-> e1, reward |-> r1]]
MCPrevious == [q \in ClaimRequests |-> IF q = q2 THEN q1 ELSE Undefined]

=============================================================================
