SPECIFICATION GatewaySpec
CONSTANTS
    Calls <- AllCalls
    RoleSets <- MCRoleSets
    GatewayRequests = {q1}
    MaxRestarts = 0
INVARIANTS
    DocumentedRolesAreForwarded
CHECK_DEADLOCK FALSE
