SPECIFICATION BSpec
CONSTANTS
    MatchWindowDays = 3
    AmountHorizonDays = 30
    ToleranceDivisor = 200
    GroupWindowDays = 14
    GroupMemberCap = 20
    MaxMoney = 100000000
    Inputs = {}
    Sellers = {7}
    GroupSellers = 1
    Budgets <- TwoSlotsOrTwoGroups
    Amounts = {1001, 2002}
    Days = {0, 29}
    Shifts = {0, 3}
    Delays = {4, 10}
    FeeRates = {800}
    CutRates = {4995, 5000}
    Portions = {500}
    GroupSizes = {2, 4}
    GroupDays = {0, 19}
    Offsets = {4}
INVARIANTS
    NeverAnError
    InjectionsDetected
    NothingUnexplained
    IntendedAreMatched
    RowsKeptApart
