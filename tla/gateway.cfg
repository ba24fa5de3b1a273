SPECIFICATION GatewayFairSpec
CONSTANTS
    Calls <- AllCalls
    RoleSets <- MCRoleSets
    GatewayRequests = {q1}
    MaxRestarts = 1
INVARIANTS
    GatewayTypeOK
    OneAnswer
    SuccessIsCarriedOut
    CarriedOutForARole
    ForwardedForARole
    RefusedWithReason
PROPERTIES
    EveryForwardedCallEnds
CHECK_DEADLOCK FALSE
