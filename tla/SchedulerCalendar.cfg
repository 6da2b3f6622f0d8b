\* Calendar mode, one guild, one player, two commands in flight, one crash,
\* from a Friday to the Monday after.
SPECIFICATION Spec
CONSTANTS
    Guilds = {g1}
    Players = {p1}
    Cmds = {c1, c2}
    Modes <- CalendarOnly
    Westward = FALSE
    FirstDay <- Friday
    LastDay = 0
    MaxCalls = 3
    MaxCrashes = 1
SYMMETRY Interchangeable
INVARIANTS
    TypeOK
    NoDateSkipped
    CursorNotAhead
    ReadyMeansCaughtUp
    NoActionOnStaleDay
