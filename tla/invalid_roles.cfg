SPECIFICATION AuthSpec
CONSTANTS
    AccountIds = {1, 2, 3, 4}
    AuthRequests = {q1, q2, q3}
    NoList = NoList
    NotAString = NotAString
    NoUser = NoUser
    Spellings <- MCSpellings
    LowerCase <- MCLowerCase
    RegisterBodies <- MCRegisterBodies
    RoleBodies <- MCRoleBodies
    LoginBodies <- MCLoginBodies
    Lookups <- MCLookups
    MaxRestarts = 0
    MaxFaults = 0
SYMMETRY CallSymmetry
INVARIANTS
    InvalidRolesAreBadRequest
CHECK_DEADLOCK FALSE
