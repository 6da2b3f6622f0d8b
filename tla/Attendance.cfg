\* Six dates from a Thursday over the weekend, with milestones at two and
\* three days, one rewind and one use of $reminders.
SPECIFICATION Spec
CONSTANTS
    Milestones = {2, 3}
    FirstDay <- Thursday
    LastDay = 1
    MaxRewinds = 1
    MaxSwitches = 1
INVARIANTS
    TypeOK
    StreakEarned
    MilestonesOnce
    RemindedOncePerDay
