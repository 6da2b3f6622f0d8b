\* Restarts that change GAME_TIME_MODE or move GAME_TIMEZONE west.
SPECIFICATION Spec
CONSTANTS
    Guilds = {g1}
    Players = {p1}
    Cmds = {c1}
    Modes <- BothModes
    Westward = TRUE
    FirstDay <- Sunday
    LastDay = 1
    MaxCalls = 3
    MaxCrashes = 2
INVARIANT AttendanceNeverInvented
PROPERTIES
    QuotedDatesFinal
    ClosesInOrder
