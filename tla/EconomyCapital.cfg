\* Capital: two players, two companies, rounds, deposits, dividends, one
\* reusable job, raises, offers and acquisitions, from a Friday into the weekend.
SPECIFICATION Spec
CONSTANTS
    Users = {1, 2}
    Companies = {A, B}
    State = State
    StartingPool = 20
    Savings <- FourEach
    Accredited = {2}
    BaseFee = 1
    FeeMultiplier = 4
    FoundingShares = 6
    GrantPct = 50
    MinVest = 2
    Grace = 3
    Productivity = 4
    Accreditation = 1
    MaxInt = 40
    StateWages = {}
    Wages = {2}
    Grants <- WithGrant
    RaisePcts = {900}
    Raises <- QuarterForThree
    Tickets = {2}
    Deposits = {2}
    Dividends = {1}
    Prices = {1, 2}
    Prints = {}
    Rates = {50}
    Bonuses = {}
    Sentiments = {100}
    FirstDay = 4
    LastDay = 5
    MaxJobs = 1
SYMMETRY Tickers
INVARIANTS
    TypeOK
    Conserved
    CapTableExact
    RetiredLeavesNothing
    NobodyEmploysThemselves
    OffersLive
    RoundWithinTerms
PROPERTIES
    NeverBelowBook
    AttendanceHonored
CHECK_DEADLOCK FALSE
