SPECIFICATION Spec
CONSTANTS
    MatchWindowDays = 3
    AmountHorizonDays = 30
    ToleranceDivisor = 200
    GroupWindowDays = 14
    GroupMemberCap = 3
    MaxMoney = 100000
    Inputs <- PairAndGroupBooks
INVARIANTS
    TypeOK
    Partition
    NoRivalLeft
    OnlyFit
    PairsAgree
    ExactFirst
    OpenFitsAreReviewed
    NoElimination
    OnlyOrderSet
