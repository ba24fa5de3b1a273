SPECIFICATION SystemSpec
CONSTANTS
    e1 = e1
    e2 = e2
    r1 = r1
    q1 = q1
    q2 = q2
    u1 = u1
    small = small
    large = large
    EventIds = {e1, e2}
    RewardIds = {r1}
    AdminRequests = {}
    Users = {u1}
    ClaimRequests = {q1, q2}
    Undefined = Undefined
    Null = Null
    NoDoc = NoDoc
    NoParams = "none"
    Details = {small, large}
    Dates <- MCDates
    Params <- MCParams
    CreateBodies <- MCCreateBodies
    UpdateBodies <- MCUpdateBodies
    RewardBodies <- MCRewardBodies
    RewardPatches <- MCRewardPatches
    InitialEvents <- TwoEvents
    InitialRewards <- TwoRewards
    MaxCrashes = 0
    MaxDbFaults = 0
    MaxGateRestarts = 0
    Wanted <- MCWanted
    Previous <- MCPrevious
INVARIANTS
    NoDuplicateClaims
CHECK_DEADLOCK FALSE
