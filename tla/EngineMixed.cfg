SPECIFICATION FairSpec
CONSTANTS
    MatchWindowDays = 3
    AmountHorizonDays = 30
    ToleranceDivisor = 200
    GroupWindowDays = 14
    GroupMemberCap = 3
    MaxMoney = 6000
    Inputs <- AnyBooks
INVARIANTS
    NeverRefusesItsResult
    LateSplitWhole
    SubtotalsFit
PROPERTIES
    Terminates
    NothingTakenBack
