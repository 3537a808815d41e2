SPECIFICATION FairSpec
CONSTANTS
    Booking <- MCBooking
    Jalan <- MCJalan
    Own <- MCOwn
    Kiraku <- MCKiraku
    Comparable <- MCComparable
    TierOf <- MCTierOf
    BookingCap = 4
    JalanCap = 3
    Slots = 2
    Deadline = 4
    Oldest = 6
    Horizon = 5
    ShortEnd = 1
    MidEnd = 5
    Dense = 3
    Lead = 4
    OwnLead = 5
    Near = 1
    Mid = 2
    Week = 12
    Interesting <- MCInteresting
    Winter <- MCWinter
    Score <- MCScore
    WinterLane = TRUE
    ActiveRefresh = FALSE
    FirstAges <- MCFirstAges
    FirstOnSale <- MCFirstOnSale
    Never = Never
    MaxChanges = 1
    MaxFailures = 1
    MaxLost = 0
INVARIANTS TypeOK FullPlans OverridesOnce
PROPERTY NobodyStarves
