SPECIFICATION UpgradeFairSpec
CONSTANTS
    order = order
    payout = payout
    line = line
    r1 = r1
    r2 = r2
    r3 = r3
    server = server
    cli = cli
    serve = serve
    ingest = ingest
    Rows <- Book
    Outcome <- EngineOutcome
    Files <- Reports
    Runs = {r1, r3}
    Home <- ServerAndCommand
    Lingers = TRUE
    Starters = {serve, ingest}
    Needs <- AfterServe
    Recent <- NewEntries
CHECK_DEADLOCK FALSE
INVARIANTS
    NoDoubleMatch
    NoOrphans
    SchemaIsOfOneVersion
    OnlyUnmigratedIsRefused
PROPERTIES
    StartersEnd
