SPECIFICATION CatalogSpec
CONSTANTS
    e1 = e1
    e2 = e2
    small = small
    large = large
    EventIds = {e1, e2}
    RewardIds = {r1, r2}
    AdminRequests = {a1, a2, a3, a4}
    Undefined = Undefined
    Null = Null
    NoDoc = NoDoc
    NoParams = "none"
    Details = {small, large}
    Dates <- MCDates
    Params <- MCParams
    CreateBodies <- MCCreateBodies
    UpdateBodies <- MCUpdateBodies
    RewardBodies <- MCRewardBodies
    RewardPatches <- MCRewardPatches
    InitialEvents <- NoEvents
    InitialRewards <- NoRewards
SYMMETRY Symmetry
INVARIANTS
    ConditionParamsKept
CHECK_DEADLOCK FALSE
