\* One commit, three snapshots, so that both tools list and delete backups taken
\* here, and perhaps a backup from another host.
SPECIFICATION Spec
CONSTANTS
    Keep <- OneAndTwo
    MaxAge = 1
    MaxCommits = 1
    MaxCopies = 3
INVARIANTS
    RestoredExactly
    HealthyMeansServing
PROPERTIES
    NothingLostUnsaved
    UpKeepsCommits
    NewestKept
