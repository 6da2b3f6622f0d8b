SPECIFICATION Spec
CONSTANTS
    Guilds = {g1}
    Players = {p1}
    Cmds = {c1}
    Modes <- BothModes
    Westward = FALSE
    FirstDay <- Sunday
    LastDay = 2
    MaxCalls = 4
    MaxCrashes = 1
SYMMETRY Interchangeable
INVARIANT WeekRolledOnce
