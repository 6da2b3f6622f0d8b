\* Two conversations at once over one close, with prints and event
\* multipliers, and a second posting for after a bankruptcy.
SPECIFICATION TalkSpec
CONSTANTS
    Users = {1, 2}
    Companies = {A}
    State = State
    Chats = {t1, t2}
    AnyCompany = AnyCompany
    StartingPool = 14
    Savings <- FirstHasTwo
    Accredited = {}
    BaseFee = 1
    FeeMultiplier = 4
    FoundingShares = 30
    GrantPct = 10
    MinVest = 2
    Grace = 1
    Productivity = 5
    Accreditation = 0
    MaxInt = 30
    StateWages = {3}
    Wages = {2}
    Grants <- WithoutGrant
    RaisePcts = {}
    Raises = {}
    Tickets = {}
    Deposits = {}
    Dividends = {}
    Prices = {}
    Prints = {8}
    Rates = {50}
    Bonuses = {}
    Sentiments = {40, 100}
    FirstDay = 0
    LastDay = 1
    MaxJobs = 2
SYMMETRY Interchangeable
INVARIANT IndexIsSupplyRatio
PROPERTIES
    ActsAsEconomy
    NamedQuit
CHECK_DEADLOCK FALSE
