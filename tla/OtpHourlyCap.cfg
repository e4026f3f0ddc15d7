\* How many codes reach one address within an hour.
SPECIFICATION OtpSpec
CONSTANTS
    OtpRequests = {q1, q2}
    Cap = 2
    Hour = 5
    Cooldown = 1
    TTL = 3
    MaxAttempts = 2
    LastTick = 3
    MaxChallenges = 3
INVARIANT HourlyCapHolds
CHECK_DEADLOCK FALSE
