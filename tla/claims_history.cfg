SPECIFICATION HistorySpec
CONSTANTS
    e1 = e1
    e2 = e2
    r1 = r1
    small = small
    large = large
    EventIds = {e1, e2}
    RewardIds = {r1}
    AdminRequests = {a1}
    Users = {u1}
    ClaimRequests = {q1, q2}
    Undefined = Undefined
    Null = Null
    NoDoc = NoDoc
    NoParams = "none"
    Details = {small, large}
    Dates <- MCDates
    Params <- MCParams
    CreateBodies <- MCCreateBodies
    UpdateBodies <- MCUpdateBodies
    RewardBodies <- MCRewardBodies
    RewardPatches <- MCRewardPatches
    InitialEvents <- TwoEvents
    InitialRewards <- TwoRewards
    MaxCrashes = 1
    MaxDbFaults = 1
SYMMETRY RequestSymmetry
INVARIANTS
    HistoryTypeOK
    NoGrantAfterGrant
    DecidedOnOneVersion
    RecordsRewardOfEvent
    NotFoundHasReason
    ClaimsReferToCatalogue
    ErrorsAreExplained
PROPERTIES
    ImplementsLedger
    ClaimsOnlyAdvance
CHECK_DEADLOCK FALSE
