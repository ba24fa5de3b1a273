SPECIFICATION QuerySpec
CONSTANTS
    e1 = e1
    e2 = e2
    r1 = r1
    small = small
    large = large
    EventIds = {e1, e2}
    RewardIds = {r1, r2}
    AdminRequests = {}
    Users = {u1}
    ClaimRequests = {q1, q2}
    Listings = {l1}
    Filters <- MCFilters
    Undefined = Undefined
    Null = Null
    NoDoc = NoDoc
    NoParams = "none"
    Details = {small, large}
    Dates <- MCDates
    Params <- MCParams
    CreateBodies <- MCCreateBodies
    UpdateBodies <- MCUpdateBodies
    RewardBodies <- MCRewardBodies
    RewardPatches <- MCRewardPatches
    InitialEvents <- TwoEvents
    InitialRewards <- TwoRewards
    MaxCrashes = 1
    MaxDbFaults = 1
SYMMETRY RequestSymmetry
INVARIANTS
    AnswerMatchesClaims
    ApprovedIsAccountedFor
    QueryTypeOK
    ToldIsListed
    ListedStaysTrue
CHECK_DEADLOCK FALSE
