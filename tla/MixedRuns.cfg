SPECIFICATION Spec
CONSTANTS
    order = order
    payout = payout
    line = line
    r1 = r1
    r2 = r2
    r3 = r3
    server = server
    cli = cli
    Rows <- Book
    Outcome <- EngineOutcome
    Files <- Reports
    Runs = {r1, r2, r3}
    Home <- ServerAndCommand
    Lingers = FALSE
SYMMETRY ServerRequests
CHECK_DEADLOCK FALSE
INVARIANTS
    ResultIsWhole
