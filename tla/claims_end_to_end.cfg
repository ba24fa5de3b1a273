SPECIFICATION SystemFairSpec
CONSTANTS
    e1 = e1
    e2 = e2
    r1 = r1
    q1 = q1
    q2 = q2
    u1 = u1
    small = small
    large = large
    EventIds = {e1, e2}
    RewardIds = {r1}
    AdminRequests = {}
    Users = {u1}
    ClaimRequests = {q1, q2}
    Undefined = Undefined
    Null = Null
    NoDoc = NoDoc
    NoParams = "none"
    Details = {small, large}
    Dates <- MCDates
    Params <- MCParams
    CreateBodies <- MCCreateBodies
    UpdateBodies <- MCUpdateBodies
    RewardBodies <- MCRewardBodies
    RewardPatches <- MCRewardPatches
    InitialEvents <- TwoEvents
    InitialRewards <- TwoRewards
    MaxCrashes = 1
    MaxDbFaults = 1
    MaxGateRestarts = 1
    Wanted <- MCWanted
    Previous <- MCPrevious
INVARIANTS
    SystemTypeOK
    ToldIsTrue
    TwiceOnlyAfterTimeout
PROPERTIES
    ImplementsGateway
    EveryAskEnds
    ImplementsFairLedger
    EveryRequestEnds
    ApprovedSettles
CHECK_DEADLOCK FALSE
