SPECIFICATION Spec
CONSTANTS
    Users = {1, 2, 3}
    Companies = {A}
    State = State
    StartingPool = 30
    Savings <- TwoEach
    Accredited = {}
    BaseFee = 1
    FeeMultiplier = 4
    FoundingShares = 30
    GrantPct = 10
    MinVest = 2
    Grace = 3
    Productivity = 4
    Accreditation = 1
    MaxInt = 32
    StateWages = {}
    Wages = {2}
    Grants <- WithGrant
    RaisePcts = {}
    Raises = {}
    Tickets = {}
    Deposits = {}
    Dividends = {}
    Prices = {}
    Prints = {}
    Rates = {15}
    Bonuses = {}
    Sentiments = {100}
    FirstDay = 0
    LastDay = 3
    MaxJobs = 1
INVARIANT VestingStorable
CHECK_DEADLOCK FALSE
