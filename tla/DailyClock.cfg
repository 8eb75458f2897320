SPECIFICATION FairSpec
CONSTANTS
    Offers = {o1}
    MaxAge = 3
    RateLimitMaxAge = 2
    MaxAttempts = 4
    Faults = FALSE
PROPERTIES
    DeferralEnds
