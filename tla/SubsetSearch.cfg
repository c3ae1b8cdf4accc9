SPECIFICATION Spec
CONSTANTS
    MatchWindowDays = 3
    AmountHorizonDays = 30
    ToleranceDivisor = 200
    GroupWindowDays = 14
    GroupMemberCap = 20
    MaxMoney = 9
    Amounts <- SmallAmounts
    Targets <- SmallTargets
    MaxCandidates = 5
INVARIANT
    FindsTheFirstTwo
