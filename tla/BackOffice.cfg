\* Accounts, sessions, product photos and the enquiry inbox, one at a time.
SPECIFICATION PartSpec
CONSTANTS
    q1 = q1
    q2 = q2
    ann = ann  bob = bob  cat = cat  b1 = b1  b2 = b2
    Users <- MCUsers
    Branches <- MCBranches
    Seed <- MCSeed
    AccountRequests = {q1, q2}
    MaxRequests = 3
    Requests = {q1, q2}
    MaxFailures = 2
    MaxSessions = 3
    PhotoRequests = {q1, q2}
    Keys = {k1, k2}
    MaxImages = 2
    Staff = {q1, q2}
    Statuses = {new, contacted}
    New = new
SYMMETRY Alike
INVARIANTS
    AccountsTypeOK
    ManagersHaveBranches
    OrderlyChangesAreSafe
    TrailKnowsEveryChange
    OldSessionsAreEnding
    OneSuccessor
    OnlyEscapedSurvive
    LockCountsMisses
    PicturesExist
    TilesInOrder
    FlagTellsWhoWasTold
    WorkIsRemembered
PROPERTIES
    NobodyRemovesThemselves
    NoPictureIsLost
CHECK_DEADLOCK FALSE
