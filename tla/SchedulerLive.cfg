\* Liveness in calendar mode: two guilds, one command, one crash; any
\* transaction may fail any finite number of times.
SPECIFICATION FairSpec
CONSTANTS
    Guilds = {g1, g2}
    Players = {}
    Cmds = {c1}
    Modes <- CalendarOnly
    Westward = FALSE
    FirstDay <- Sunday
    LastDay = 0
    MaxCalls = 2
    MaxCrashes = 1
PROPERTIES
    EventuallyCurrent
    CommandsFinish
