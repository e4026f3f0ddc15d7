\* Opening hours, the daily report, the way to a branch and one-time codes, one at a time.
SPECIFICATION PartSpec
CONSTANTS
    b1 = b1
    b2 = b2
    b3 = b3
    b4 = b4
    q1 = q1
    q2 = q2
    home = home
    centre = centre
    Admin = Admin
    Null = Null
    NoCap = NoCap
    NoLeg = NoLeg
    NoRow = NoRow
    Nothing = Nothing
    Day = 8
    Week = 3
    LastInstant = 40
    MaxOrders = 2
    Zones <- MCZones
    Settings <- MCSettings
    Branches <- MCBranches
    Amounts <- MCAmounts
    Requests = {q1, q2}
    Shops = {b1, b2, b3, b4}
    SearchRadius = 10
    MaxCandidates = 2
    MaxSpan = 2
    RulesRevision = 1
    PointDays = 2
    LegDays = 2
    LastDay = 3
    Shop <- MCShop
    Worlds <- MCWorlds
    OtpRequests = {q1, q2}
    Cap = 2
    Hour = 5
    Cooldown = 1
    TTL = 3
    MaxAttempts = 2
    LastTick = 3
    MaxChallenges = 3
SYMMETRY Alike
INVARIANTS
    HoursAgree
    DaysAddUp
    DoorstepsOnly
    QuickestInReach
    InboxIsSpared
    UndeliveredCostsNothing
    OneTokenPerCode
CHECK_DEADLOCK FALSE
