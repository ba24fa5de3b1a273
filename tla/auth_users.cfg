SPECIFICATION AuthFairSpec
CONSTANTS
    AccountIds = {1, 2, 3, 4}
    AuthRequests = {q1, q2, q3}
    NoList = NoList
    NotAString = NotAString
    NoUser = NoUser
    Spellings <- MCSpellings
    LowerCase <- MCLowerCase
    RegisterBodies <- MCRegisterBodies
    RoleBodies <- MCRoleBodies
    LoginBodies <- MCLoginBodies
    Lookups <- MCLookups
    MaxRestarts = 1
    MaxFaults = 1
INVARIANTS
    AuthTypeOK
    OneAccountPerName
    DefaultAccountsExist
    AnswersMatchUsers
    FailuresAreExplained
PROPERTIES
    NoRolesOverwrittenUnread
    EveryCallEnds
    ServerComesUp
CHECK_DEADLOCK FALSE
