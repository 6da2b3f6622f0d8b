\* Jobs and closes: two players, one company, a state job, from a Wednesday
\* over three closes and the weekend.
SPECIFICATION Spec
CONSTANTS
    Users = {1, 2}
    Companies = {A}
    State = State
    StartingPool = 20
    Savings <- TwoEach
    Accredited = {}
    BaseFee = 1
    FeeMultiplier = 4
    FoundingShares = 50
    GrantPct = 10
    MinVest = 2
    Grace = 3
    Productivity = 4
    Accreditation = 1
    MaxInt = 100
    StateWages = {4}
    Wages = {2}
    Grants <- WithLongGrant
    RaisePcts = {}
    Raises = {}
    Tickets = {}
    Deposits = {1}
    Dividends = {}
    Prices = {}
    Prints = {}
    Rates = {30}
    Bonuses = {15}
    Sentiments = {100}
    FirstDay = 2
    LastDay = 6
    MaxJobs = 1
INVARIANTS
    TypeOK
    Conserved
    RetiredLeavesNothing
    OneJobEach
    GrantsOnSchedule
PROPERTIES
    PaidStaffMeansSurvival
CHECK_DEADLOCK FALSE
