------------------------ MODULE MCRewardClaimHistory ------------------------
(***************************************************************************)
(* RewardClaimHistory on the instances of MCRewardClaim.                   *)
(***************************************************************************)
EXTENDS MCRewardClaim, RewardClaimHistory
=============================================================================
