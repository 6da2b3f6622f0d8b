----------------------------- MODULE Operations -----------------------------
(***************************************************************************)
(* One deployment on its host: the bot's process with its heartbeat, the   *)
(* SQLite files it writes, the backup job and a restore (bot.py,           *)
(* health.py, ops.py, db.py, scripts/pipeline.sh).                         *)
(*                                                                         *)
(* The database is the set of commits in its main file and its -wal file.  *)
(* Both the bot and a restore hold the lease, an flock the kernel drops    *)
(* with its process; a backup takes none.  Any process may be killed at    *)
(* any point.  What SQLite does on its own is external: a commit goes to   *)
(* the -wal file, a checkpoint moves it to the main file, and so does the  *)
(* last connection to a main file that was not replaced, when it closes.   *)
(***************************************************************************)
EXTENDS Integers, FiniteSets

CONSTANTS
    Keep,         \* retention of a backup by the timer, and of one by a restore
    MaxAge,       \* seconds, in ticks, after which a heartbeat is stale
    MaxCommits,   \* bound: commits
    MaxCopies     \* bound: snapshots taken

Tools == {"timer", "restore"}
Connected == Tools \cup {"bot"}

ASSUME OperationsAssumption ==
    /\ Keep \in [Tools -> Nat \ {0}]
    /\ MaxAge \in Nat /\ MaxCommits \in Nat /\ MaxCopies \in Nat

VARIABLES
    bot,      \* "down", "starting", "up", "failing", "closing", or "unannounced",
              \* which is closing without a word in the health file
    lease,    \* who holds <database>.lock: "nobody", "bot" or "restore"
    exists,   \* is there a main file?
    main,     \* the commits in the main file
    wal,      \* the commits in the -wal file
    ghost,    \* the commits in a -wal file unlinked under an old connection
    commits,  \* how many commits there have been
    pc,       \* where each tool is
    handle,   \* a connection: "none", "open", "old": the -wal file it reads was
              \* unlinked, "moved": the main file it reads was replaced
    temp,     \* its .backup- file
    backups,  \* the backup directory; stamp orders the files by mtime
    copies,   \* how many snapshots there have been
    doomed,   \* the backups each tool listed as expired and did not yet delete
    since,    \* history: the snapshot of the last restore that took one while
              \* nobody had an unlinked -wal file open
    staged,   \* the .restore- file
    wanted,   \* the backup file to restore
    ready,    \* bot.is_ready()
    beat,     \* the heartbeat: "sleeping", or waiting for its database session
    seen,     \* ready, as the heartbeat read it before the session
    health,   \* the age of the health file, if it says ready and names a live
              \* process, and else Stale
    idle      \* history: ticks since the bot last finished a session, if it did

files  == <<exists, main, wal, ghost, commits>>
saving == <<temp, backups, copies, doomed, since>>
pulse  == <<ready, beat, seen, health, idle>>
vars   == <<bot, lease, files, pc, handle, saving, staged, wanted, pulse>>

Stale == MaxAge + 1

NoCopy == [stamp |-> 0, holds |-> {}]

\* A backup brought over from another host.
Fetched == [stamp |-> 0, holds |-> {0}]

Init ==
    /\ bot = "down" /\ lease = "nobody"
    /\ exists = FALSE /\ main = {} /\ wal = {} /\ ghost = {} /\ commits = 0
    /\ pc = [t \in Tools |-> "idle"]
    /\ handle = [c \in Connected |-> "none"]
    /\ temp = [t \in Tools |-> NoCopy]
    /\ backups \in {{}, {Fetched}} /\ copies = 0
    /\ doomed = [t \in Tools |-> {}] /\ since = 0
    /\ staged = {} /\ wanted = NoCopy
    /\ ready = FALSE /\ beat = "sleeping" /\ seen = FALSE
    /\ health = Stale /\ idle = Stale

\* What a new connection to the database sees.
Live == main \cup wal

\* No other connection to the current main file.
Alone(c) == \A o \in Connected \ {c} : handle[o] \in {"none", "moved"}

\* A -wal file that was unlinked is gone with its last connection.
GhostWithout(c) ==
    IF \E o \in Connected \ {c} : handle[o] = "old" THEN ghost ELSE {}

\* c closes its connection: the last one moves the commits of the -wal file it
\* has open to the main file, and deletes the -wal file.
Disconnect(c) ==
    /\ IF Alone(c) /\ handle[c] \in {"open", "old"}
       THEN main' = main \cup (IF handle[c] = "open" THEN wal ELSE ghost) /\ wal' = {}
       ELSE UNCHANGED <<main, wal>>
    /\ ghost' = GhostWithout(c)

----------------------------------------------------------------------------
\* The bot.

\* setup_hook: the lease or nothing, then create_all.  Assumed: whoever has a
\* -wal file open that a restore unlinked before it failed ends before that.
Start ==
    /\ bot = "down" /\ lease = "nobody"
    /\ \A c \in Connected : handle[c] # "old"
    /\ bot' = "starting" /\ lease' = "bot"
    /\ exists' = TRUE
    /\ handle' = [handle EXCEPT !["bot"] = "open"]
    /\ UNCHANGED <<main, wal, ghost, commits, pc, saving, staged, wanted, pulse>>

\* The catch-up is done and the heartbeat task runs; Discord comes later.
SetUp ==
    /\ bot = "starting"
    /\ bot' = "up"
    /\ UNCHANGED <<lease, files, pc, handle, saving, staged, wanted, pulse>>

\* setup_hook gives up the lease before anybody closes the connections.
SetUpFails ==
    /\ bot = "starting"
    /\ bot' = "failing" /\ lease' = "nobody"
    /\ UNCHANGED <<files, pc, handle, saving, staged, wanted, pulse>>

GetReady ==
    /\ bot = "up" /\ ~ready
    /\ ready' = TRUE
    /\ UNCHANGED <<bot, lease, files, pc, handle, saving, staged, wanted, beat, seen, health, idle>>

\* A session, of a command, a sweep or the catch-up; also one under way while
\* the bot closes.
Commit ==
    /\ lease = "bot"
    /\ commits < MaxCommits
    /\ commits' = commits + 1
    /\ wal' = wal \cup {commits'}
    /\ idle' = 0
    /\ UNCHANGED <<bot, lease, exists, main, ghost, pc, handle, saving, staged, wanted,
                   ready, beat, seen, health>>

Checkpoint ==
    /\ lease = "bot"
    /\ main' = Live /\ wal' = {}
    /\ UNCHANGED <<bot, lease, exists, ghost, commits, pc, handle, saving, staged, wanted, pulse>>

\* close() cancels the heartbeat before it writes that the bot is not ready;
\* an error of that write is only logged.
Close ==
    /\ bot \in {"starting", "up", "failing"}
    /\ beat' = "sleeping" /\ seen' = FALSE
    /\ \/ bot' = "closing" /\ health' = Stale
       \/ bot' = "unannounced" /\ UNCHANGED health
    /\ UNCHANGED <<lease, files, pc, handle, saving, staged, wanted, ready, idle>>

\* super().close(): the gateway is closed, and the client no longer ready.
LogOut ==
    /\ bot \in {"closing", "unannounced"} /\ ready
    /\ ready' = FALSE
    /\ UNCHANGED <<bot, lease, files, pc, handle, saving, staged, wanted, beat, seen,
                   health, idle>>

\* That, or disposing of the engine, raises: the lease is given up all the same,
\* and the connections stay open for as long as the process.
CloseFails ==
    /\ bot \in {"closing", "unannounced"} /\ lease = "bot"
    /\ lease' = "nobody"
    /\ UNCHANGED <<bot, files, pc, handle, saving, staged, wanted, pulse>>

\* The process is gone, and with it its lease, if it still had one, and its word:
\* check_health asks for the process that the health file names.
Gone ==
    /\ bot' = "down"
    /\ lease' = IF lease = "bot" THEN "nobody" ELSE lease
    /\ handle' = [handle EXCEPT !["bot"] = "none"]
    /\ ready' = FALSE /\ beat' = "sleeping" /\ seen' = FALSE
    /\ health' = Stale /\ idle' = Stale
    /\ UNCHANGED <<exists, commits, pc, saving, staged, wanted>>

\* The engine is disposed of, after the client was closed unless that failed.
Stop ==
    /\ bot \in {"closing", "unannounced"}
    /\ ready => lease # "bot"
    /\ Disconnect("bot")
    /\ Gone

Crash ==
    /\ bot # "down"
    /\ ghost' = GhostWithout("bot")
    /\ Gone
    /\ UNCHANGED <<main, wal>>

----------------------------------------------------------------------------
\* The heartbeat (health.py) and who reads it (check_health).

BeatAsks ==
    /\ bot = "up" /\ beat = "sleeping"
    /\ beat' = "asked" /\ seen' = ready
    /\ UNCHANGED <<bot, lease, files, pc, handle, saving, staged, wanted, ready, health, idle>>

Beats(session) ==
    /\ bot = "up" /\ beat = "asked"
    /\ beat' = "sleeping" /\ seen' = FALSE
    /\ health' = IF seen THEN 0 ELSE Stale
    /\ idle' = IF session THEN 0 ELSE idle
    /\ UNCHANGED <<bot, lease, files, pc, handle, saving, staged, wanted, ready>>

\* Changed form: the file is written whether the session was granted or not.
BeatWrites_Blind == Beats(FALSE)

\* Its database session is over: the file gets a new time stamp.
BeatWrites == Beats(TRUE)

\* The session or the write failed: logged, and tried again.
BeatFails ==
    /\ beat = "asked"
    /\ beat' = "sleeping" /\ seen' = FALSE
    /\ UNCHANGED <<bot, lease, files, pc, handle, saving, staged, wanted, ready, health, idle>>

Older(age) == IF age = Stale THEN Stale ELSE age + 1

Tick ==
    /\ health' = Older(health) /\ idle' = Older(idle)
    /\ UNCHANGED <<bot, lease, files, pc, handle, saving, staged, wanted, ready, beat, seen>>

\* check_health raises nothing.
Healthy == health <= MaxAge /\ exists

----------------------------------------------------------------------------
\* backup_database, by the timer or, before it replaces anything, by a restore.

MayCopy(t) == pc[t] = IF t = "timer" THEN "idle" ELSE "staged"

\* The backup API copies one coherent state, also of a database in use.
Copy(t) ==
    /\ MayCopy(t) /\ exists
    /\ copies < MaxCopies
    /\ copies' = copies + 1
    /\ since' = IF t = "restore" /\ (\A c \in Connected : handle[c] # "old")
                THEN copies' ELSE since
    /\ temp' = [temp EXCEPT ![t] = [stamp |-> copies', holds |-> Live]]
    /\ handle' = [handle EXCEPT ![t] = "open"]
    /\ pc' = [pc EXCEPT ![t] = "copied"]
    /\ UNCHANGED <<bot, lease, files, backups, doomed, staged, wanted, pulse>>

\* Checked, and moved to its name in the directory.
Save(t) ==
    /\ pc[t] = "copied"
    /\ backups' = backups \cup {temp[t]}
    /\ temp' = [temp EXCEPT ![t] = NoCopy]
    /\ pc' = [pc EXCEPT ![t] = "saved"]
    /\ UNCHANGED <<bot, lease, files, handle, copies, doomed, since, staged, wanted, pulse>>

\* Changed form: retention keeps the oldest files.
Expired_Newest(keep) ==
    {b \in backups : Cardinality({c \in backups : c.stamp < b.stamp}) >= keep}

\* Every backup but the newest `keep`.
Expired(keep) ==
    {b \in backups : Cardinality({c \in backups : c.stamp > b.stamp}) >= keep}

\* Retention lists the directory, newest first ...
List(t) ==
    /\ pc[t] = "saved"
    /\ doomed' = [doomed EXCEPT ![t] = Expired(Keep[t])]
    /\ pc' = [pc EXCEPT ![t] = "pruning"]
    /\ UNCHANGED <<bot, lease, files, handle, temp, backups, copies, since, staged, wanted, pulse>>

\* ... and deletes in that order what is beyond the newest: file by file, while
\* the other tool saves, lists and deletes.  A file that is gone is an error.
Unlink(t) ==
    /\ pc[t] = "pruning"
    /\ \E b \in doomed[t] \cap backups :
        /\ \A c \in doomed[t] : c.stamp <= b.stamp
        /\ backups' = backups \ {b}
        /\ doomed' = [doomed EXCEPT ![t] = @ \ {b}]
    /\ UNCHANGED <<bot, lease, files, pc, handle, temp, copies, since, staged, wanted, pulse>>

\* The function returns and its connections close.
Return(t) ==
    /\ pc[t] = "pruning" /\ doomed[t] = {}
    /\ Disconnect(t)
    /\ handle' = [handle EXCEPT ![t] = "none"]
    /\ pc' = [pc EXCEPT ![t] = IF t = "timer" THEN "idle" ELSE "safe"]
    /\ UNCHANGED <<bot, lease, exists, commits, saving, staged, wanted, pulse>>

----------------------------------------------------------------------------
\* restore_database

\* Changed form: nothing keeps the bot out.
LeaseForRestore_None == UNCHANGED lease

LeaseForRestore == lease = "nobody" /\ lease' = "restore"

RestoreBegins(b) ==
    /\ pc["restore"] = "idle"
    /\ LeaseForRestore
    /\ wanted' = b
    /\ pc' = [pc EXCEPT !["restore"] = "leased"]
    /\ UNCHANGED <<bot, files, handle, saving, staged, pulse>>

\* The backup is copied before retention may delete it.
Stage ==
    /\ pc["restore"] = "leased"
    /\ wanted \in backups
    /\ staged' = wanted.holds
    /\ pc' = [pc EXCEPT !["restore"] = "staged"]
    /\ UNCHANGED <<bot, lease, files, handle, saving, wanted, pulse>>

\* Changed form: the database that is replaced is not saved first.
NeedsNoBackup_Ever == TRUE

NeedsNoBackup == ~exists

SkipCopy ==
    /\ pc["restore"] = "staged"
    /\ NeedsNoBackup
    /\ pc' = [pc EXCEPT !["restore"] = "safe"]
    /\ UNCHANGED <<bot, lease, files, handle, saving, staged, wanted, pulse>>

\* Changed form: the old -wal file stays beside the new main file.
UnlinkedWal_Kept == UNCHANGED <<wal, ghost, handle>>

\* Whoever has the -wal file open goes on reading it.
UnlinkedWal ==
    LET reads == {c \in Connected : handle[c] = "open"}
    IN  /\ wal' = {}
        /\ ghost' = IF reads = {} THEN ghost ELSE wal
        /\ handle' = [c \in Connected |-> IF c \in reads THEN "old" ELSE handle[c]]

UnlinkWal ==
    /\ pc["restore"] = "safe"
    /\ UnlinkedWal
    /\ pc' = [pc EXCEPT !["restore"] = "unlinked"]
    /\ UNCHANGED <<bot, lease, exists, main, commits, saving, staged, wanted, pulse>>

ReplaceMain ==
    /\ pc["restore"] = "unlinked"
    /\ exists' = TRUE /\ main' = staged /\ ghost' = {}
    /\ handle' = [c \in Connected |-> IF handle[c] = "none" THEN "none" ELSE "moved"]
    /\ pc' = [pc EXCEPT !["restore"] = "replaced"]
    /\ UNCHANGED <<bot, lease, wal, commits, saving, staged, wanted, pulse>>

\* What is left of a tool that ended: a restore gives up its lease.
Ends(t) ==
    /\ pc' = [pc EXCEPT ![t] = "idle"]
    /\ handle' = [handle EXCEPT ![t] = "none"]
    /\ temp' = [temp EXCEPT ![t] = NoCopy]
    /\ doomed' = [doomed EXCEPT ![t] = {}]
    /\ IF t = "restore"
       THEN /\ lease' = IF lease = "restore" THEN "nobody" ELSE lease
            /\ staged' = {} /\ wanted' = NoCopy
       ELSE UNCHANGED <<lease, staged, wanted>>
    /\ UNCHANGED <<bot, exists, commits, backups, copies, since, pulse>>

RestoreEnds ==
    /\ pc["restore"] = "replaced"
    /\ Ends("restore")
    /\ UNCHANGED <<main, wal, ghost>>

\* An error: a failed check, a file deleted by somebody else, a full disk.
Fail(t) ==
    /\ pc[t] # "idle"
    /\ Disconnect(t)
    /\ Ends(t)

\* Killed; its temporary files stay, which nothing here reads.
Killed(t) ==
    /\ pc[t] # "idle"
    /\ Ends(t)
    /\ ghost' = GhostWithout(t)
    /\ UNCHANGED <<main, wal>>

----------------------------------------------------------------------------
BotStep ==
    \/ Start
    \/ SetUp
    \/ SetUpFails
    \/ GetReady
    \/ Commit
    \/ Checkpoint
    \/ Close
    \/ LogOut
    \/ CloseFails
    \/ Stop
    \/ Crash
    \/ BeatAsks
    \/ BeatWrites
    \/ BeatFails

ToolStep(t) ==
    \/ Copy(t)
    \/ Save(t)
    \/ List(t)
    \/ Unlink(t)
    \/ Return(t)
    \/ Fail(t)
    \/ Killed(t)

RestoreStep ==
    \/ \E b \in backups : RestoreBegins(b)
    \/ Stage
    \/ SkipCopy
    \/ UnlinkWal
    \/ ReplaceMain
    \/ RestoreEnds

Next == BotStep \/ Tick \/ (\E t \in Tools : ToolStep(t)) \/ RestoreStep

Spec == Init /\ [][Next]_vars

----------------------------------------------------------------------------
(***************************************************************************)
(* Properties.                                                             *)
(***************************************************************************)

Saved == UNION {b.holds : b \in backups}

\* How many backups retention keeps, whoever applies it.
Fewest == IF Keep["timer"] < Keep["restore"] THEN Keep["timer"] ELSE Keep["restore"]

\* Whatever is restored, killed or pruned, no step takes a commit out of the
\* database that is not in a backup by then (ops.py restore_database), unless so
\* many backups were begun since the restore's own, or since that of an earlier
\* one whose -wal file somebody still has open, that retention may delete it.
NothingLostUnsaved ==
    [][copies - since < Fewest => Live \ Live' \subseteq Saved']_vars

\* While the bot holds the lease, and so may write, its database only grows:
\* no restore replaces the files under it (health.py acquire_database_lease).
UpKeepsCommits ==
    [][lease = "bot" /\ bot' # "down" => Live \subseteq Live']_vars

\* A restore that succeeds leaves just what the chosen backup held, though the
\* bot had crashed, and a backup kept its -wal file alive (ops.py:188-194).
RestoredExactly ==
    pc["restore"] = "replaced" => exists /\ Live = wanted.holds

\* No backup is deleted but one that leaves as many newer ones as retention is to
\* keep, also when two processes save, list and delete at the same time, so that
\* each deletes by a list the other has overtaken (ops.py:131-133).
NewestKept ==
    [][\A b \in backups \ backups' :
        Cardinality({c \in backups' : c.stamp > b.stamp}) >= Fewest]_vars

\* A bot reported healthy has finished a database session within the age
\* allowed, so one that hangs is found out, and is logged in (is_ready, which
\* does not notice a gateway lost later), or is closing and could not say so.
\* One that said it is closing is never reported healthy again (README.md:110).
HealthyMeansServing ==
    Healthy => /\ idle <= MaxAge /\ bot # "closing"
               /\ ready \/ bot = "unannounced"
=============================================================================
