-------------------------- MODULE OperationsProofs --------------------------
(***************************************************************************)
(* Proofs about Operations: what the lease, the heartbeat, the backups and *)
(* their retention promise, for any number of commits and snapshots and    *)
(* any age at which a heartbeat is stale.                                  *)
(***************************************************************************)
EXTENDS Operations, FiniteSetTheorems, TLAPS

Handles == {"none", "open", "old", "moved"}
Places == {"idle", "copied", "saved", "pruning", "leased", "staged", "safe", "unlinked",
           "replaced"}

\* A restore holds the lease from its first step to its last; the bot has the
\* database open as long as it has the lease.
LeaseInv ==
    /\ pc \in [Tools -> Places] /\ handle \in [Connected -> Handles]
    /\ pc["restore"] # "idle" => lease = "restore"
    /\ lease = "bot" => handle["bot"] = "open" /\ bot # "down"
    /\ bot \in {"starting", "up"} => lease = "bot"

\* From the staging on the restore has what it was asked for; from the removal
\* of the -wal file on there is none, and nobody keeps an old one past the
\* replacement of the main file.
RestoreInv ==
    /\ pc["restore"] \notin {"idle", "leased"} => staged = wanted.holds
    /\ pc["restore"] \in {"unlinked", "replaced"} => wal = {}
    /\ pc["restore"] = "replaced" =>
        /\ exists /\ main = wanted.holds
        /\ \A c \in Connected : handle[c] # "old"

\* Who there is.
Roles == "bot" \in Connected /\ "timer" \in Tools /\ "restore" \in Tools
         /\ Tools \subseteq Connected /\ "bot" \notin Tools
         /\ \A t \in Tools : t \in {"timer", "restore"}

\* The bot is not one of the tools, and these are two.
LEMMA RolesHold == Roles
BY DEF Roles, Connected, Tools

\* A connection that closes leaves the files alone while the bot has its own
\* open, never brings a removed -wal file back, and leaves the main file of a
\* finished restore as it is.
LEMMA DisconnectKeeps ==
    ASSUME LeaseInv, RestoreInv, NEW c \in Connected, Disconnect(c)
    PROVE  /\ lease = "bot" /\ c # "bot" => UNCHANGED <<main, wal>>
           /\ pc["restore"] \in {"unlinked", "replaced"} => wal' = {}
           /\ pc["restore"] = "replaced" => main' = main
<1> USE RolesHold DEF Roles
<1>1. ASSUME lease = "bot", c # "bot" PROVE UNCHANGED <<main, wal>>
  BY <1>1 DEF Disconnect, Alone, LeaseInv
<1>2. ASSUME pc["restore"] \in {"unlinked", "replaced"} PROVE wal' = {}
  BY <1>2 DEF Disconnect, RestoreInv
<1>3. ASSUME pc["restore"] = "replaced" PROVE main' = main
  BY <1>3 DEF Disconnect, RestoreInv, LeaseInv
<1> QED
  BY <1>1, <1>2, <1>3

\* What a step may do to the files, the lease and the restore.
Grows == lease = "bot" /\ bot' # "down" => Live \subseteq Live'

\* Every step keeps lease and restore consistent, and under a live bot the
\* database only grows.
LEMMA StepRestores ==
    ASSUME LeaseInv, RestoreInv, Next
    PROVE  LeaseInv' /\ RestoreInv' /\ Grows
<1> USE RolesHold DEF Roles, LeaseInv, RestoreInv, Grows, Live
<1>1. CASE Start
  BY <1>1 DEF Start, files, saving, pulse, Handles
<1>2. CASE SetUp \/ SetUpFails \/ GetReady
  BY <1>2 DEF SetUp, SetUpFails, GetReady, files, saving, pulse
<1>3. CASE Commit \/ Checkpoint
  BY <1>3 DEF Commit, Checkpoint, files, saving, pulse, Live
<1>4. CASE Close \/ LogOut \/ CloseFails
  BY <1>4 DEF Close, LogOut, CloseFails, files, saving, pulse
<1>5. CASE Stop
  BY <1>5, DisconnectKeeps DEF Stop, Gone, Handles, saving
<1>6. CASE Crash
  BY <1>6 DEF Crash, Gone, Handles, saving
<1>7. CASE BeatAsks \/ BeatWrites \/ BeatFails \/ Tick
  BY <1>7 DEF BeatAsks, BeatWrites, Beats, BeatFails, Tick, files, saving
<1>8. ASSUME NEW t \in Tools, Copy(t) PROVE LeaseInv' /\ RestoreInv' /\ Grows
  BY <1>8 DEF Copy, MayCopy, files, pulse, Handles, Places
<1>9. ASSUME NEW t \in Tools, Save(t) PROVE LeaseInv' /\ RestoreInv' /\ Grows
  BY <1>9 DEF Save, files, pulse, Handles, Places
<1>10. ASSUME NEW t \in Tools, List(t) \/ Unlink(t) PROVE LeaseInv' /\ RestoreInv' /\ Grows
  BY <1>10 DEF List, Unlink, files, pulse, Handles, Places
<1>18. ASSUME NEW t \in Tools, Return(t) PROVE LeaseInv' /\ RestoreInv' /\ Grows
  BY <1>18, DisconnectKeeps DEF Return, pulse, Handles, Places
<1>11. ASSUME NEW t \in Tools, Fail(t) PROVE LeaseInv' /\ RestoreInv' /\ Grows
  BY <1>11, DisconnectKeeps DEF Fail, Ends, pulse, Handles, Places
<1>12. ASSUME NEW t \in Tools, Killed(t) PROVE LeaseInv' /\ RestoreInv' /\ Grows
  BY <1>12 DEF Killed, Ends, pulse, Handles, Places
<1>13. ASSUME NEW b, RestoreBegins(b) PROVE LeaseInv' /\ RestoreInv' /\ Grows
  BY <1>13 DEF RestoreBegins, LeaseForRestore, files, saving, pulse, Places
<1>14. CASE Stage \/ SkipCopy
  BY <1>14 DEF Stage, SkipCopy, files, saving, pulse, Places
<1>15. CASE UnlinkWal
  BY <1>15 DEF UnlinkWal, UnlinkedWal, saving, pulse, Places, Handles
<1>16. CASE ReplaceMain
  BY <1>16 DEF ReplaceMain, saving, pulse, Places, Handles
<1>17. CASE RestoreEnds
  BY <1>17 DEF RestoreEnds, Ends, pulse, Places, Handles
<1> QED
  BY <1>1, <1>2, <1>3, <1>4, <1>5, <1>6, <1>7, <1>8, <1>9, <1>10, <1>11, <1>12,
     <1>13, <1>14, <1>15, <1>16, <1>17, <1>18
  DEF Next, BotStep, ToolStep, RestoreStep

\* Lease and restore are consistent in every state.
LEMMA RestoreInvariant == Spec => [](LeaseInv /\ RestoreInv)
<1>1. Init => LeaseInv /\ RestoreInv
  BY RolesHold DEF Roles, Init, LeaseInv, RestoreInv, Places, Handles
<1>2. LeaseInv /\ RestoreInv /\ [Next]_vars => (LeaseInv /\ RestoreInv)'
  BY StepRestores DEF vars, files, saving, LeaseInv, RestoreInv
<1> QED
  BY <1>1, <1>2, PTL DEF Spec

\* A restore that gets to its end leaves what was chosen, whatever crashed
\* before it and whoever had the old files open.
THEOREM RestoresExactly == Spec => []RestoredExactly
<1>1. LeaseInv /\ RestoreInv => RestoredExactly
  BY DEF RestoreInv, RestoredExactly, Live
<1> QED
  BY <1>1, RestoreInvariant, PTL

\* Nothing that runs beside the bot takes a commit from it.
THEOREM BotKeepsCommits == Spec => UpKeepsCommits
<1>1. LeaseInv /\ RestoreInv /\ [Next]_vars => [Grows]_vars
  BY StepRestores
<1> QED
  BY <1>1, RestoreInvariant, PTL DEF Spec, UpKeepsCommits, Grows

----------------------------------------------------------------------------
\* The heartbeat.

\* A health file that a check would believe tells the truth, or was left by a bot
\* that could not take it back, and is as young as the session it was written
\* after.
HealthInv ==
    /\ health \in 0 .. Stale /\ idle \in 0 .. Stale
    /\ ready \in BOOLEAN /\ seen \in BOOLEAN
    /\ bot \notin {"up", "unannounced"} => health = Stale
    /\ bot \in {"down", "starting", "failing"} => ~ready
    /\ seen => ready /\ bot = "up"
    /\ health <= MaxAge => idle <= health /\ (ready \/ bot = "unannounced")

\* Ageing keeps ages in their range and in order.
LEMMA OlderType == \A age \in 0 .. Stale :
    /\ Older(age) \in 0 .. Stale
    /\ Older(age) <= MaxAge => age <= MaxAge
    /\ \A other \in 0 .. Stale : other <= age => Older(other) <= Older(age)
BY OperationsAssumption DEF Older, Stale

\* No step makes the heartbeat file claim what was not so when it was begun.
LEMMA StepBeats ==
    ASSUME HealthInv, Next
    PROVE  HealthInv'
<1> USE OperationsAssumption
<1>0. 0 \in 0 .. Stale /\ Stale \in 0 .. Stale /\ ~(Stale <= MaxAge)
  BY DEF Stale
<1>1. CASE Start \/ SetUp \/ SetUpFails \/ CloseFails
  BY <1>0, <1>1 DEF Start, SetUp, SetUpFails, CloseFails, pulse, HealthInv
<1>2. CASE GetReady
  <2>1. /\ bot = "up" /\ bot' = bot /\ ready' = TRUE
        /\ seen' = seen /\ health' = health /\ idle' = idle
    BY <1>2, Zenon DEF GetReady
  <2>2. bot' \notin {"down", "starting", "failing"}
    BY <2>1
  <2> QED
    BY <2>1, <2>2, Zenon DEF HealthInv
<1>12. CASE LogOut
  <2>1. /\ bot \in {"closing", "unannounced"} /\ bot' = bot /\ ready' = FALSE
        /\ seen' = seen /\ health' = health /\ idle' = idle
    BY <1>12, Zenon DEF LogOut
  <2>2. ~seen /\ (bot = "unannounced" \/ health = Stale)
    BY <2>1 DEF HealthInv
  <2> QED
    BY <1>0, <2>1, <2>2, Zenon DEF HealthInv
<1>3. CASE Commit \/ Checkpoint
  <2>1. /\ UNCHANGED <<bot, ready, seen, health>> /\ idle' \in {0, idle}
    BY <1>3 DEF Commit, Checkpoint, pulse
  <2>2. idle' \in 0 .. Stale /\ (idle <= health => idle' <= health)
    BY <1>0, <2>1 DEF HealthInv
  <2> QED
    BY <2>1, <2>2 DEF HealthInv
<1>4. CASE Close
  BY <1>0, <1>4 DEF Close, HealthInv
<1>5. CASE Stop \/ Crash
  BY <1>0, <1>5 DEF Stop, Crash, Gone, HealthInv
<1>6. CASE BeatAsks
  <2>1. /\ bot = "up" /\ seen' = ready /\ ready' = ready
        /\ bot' = bot /\ health' = health /\ idle' = idle
    BY <1>6, Zenon DEF BeatAsks
  <2> QED
    BY <2>1, Zenon DEF HealthInv
<1>7. CASE BeatWrites
  <2>1. /\ health' = (IF seen THEN 0 ELSE Stale) /\ bot = "up" /\ bot' = bot
        /\ ready' = ready /\ seen' = FALSE /\ idle' = 0
    BY <1>7 DEF BeatWrites, Beats
  <2>2. health' \in 0 .. Stale /\ idle' \in 0 .. Stale /\ (health' <= MaxAge => seen)
    BY <1>0, <2>1
  <2>3. idle' <= health'
    BY <2>1, <2>2
  <2> QED
    BY <2>1, <2>2, <2>3, Zenon DEF HealthInv
<1>11. CASE BeatFails
  <2>1. /\ seen' = FALSE /\ ready' = ready
        /\ bot' = bot /\ health' = health /\ idle' = idle
    BY <1>11, Zenon DEF BeatFails
  <2> QED
    BY <2>1, Zenon DEF HealthInv
<1>8. CASE Tick
  <2>1. /\ health' = Older(health) /\ idle' = Older(idle)
        /\ UNCHANGED <<bot, ready, seen>>
    BY <1>8 DEF Tick
  <2>2. /\ health' \in 0 .. Stale /\ idle' \in 0 .. Stale
        /\ health' <= MaxAge => health <= MaxAge
        /\ idle <= health => idle' <= health'
    BY <2>1, OlderType DEF HealthInv
  <2>3. health = Stale => health' = Stale
    BY <2>1 DEF Older
  <2> QED
    BY <2>1, <2>2, <2>3, Zenon DEF HealthInv
<1>9. ASSUME NEW t \in Tools, ToolStep(t) PROVE HealthInv'
  BY <1>9 DEF ToolStep, Copy, Save, List, Unlink, Return, Fail, Killed, Ends, pulse,
              HealthInv
<1>10. CASE RestoreStep
  BY <1>10 DEF RestoreStep, RestoreBegins, Stage, SkipCopy, UnlinkWal, ReplaceMain,
               RestoreEnds, Ends, pulse, HealthInv
<1> QED
  BY <1>1, <1>2, <1>3, <1>4, <1>5, <1>6, <1>7, <1>8, <1>9, <1>10, <1>11,
     <1>12
  DEF Next, BotStep

\* A healthy report is one of a bot that has lately finished a session, and is
\* logged in or could not say that it closes, however it starts, hangs or dies.
THEOREM HealthyServes == Spec => []HealthyMeansServing
<1>1. Init => HealthInv
  <2>1. 0 \in 0 .. Stale /\ Stale \in 0 .. Stale /\ ~(Stale <= MaxAge)
    BY OperationsAssumption DEF Stale
  <2> SUFFICES ASSUME Init PROVE HealthInv
    OBVIOUS
  <2>2. bot = "down" /\ ready = FALSE /\ seen = FALSE /\ health = Stale /\ idle = Stale
    BY DEF Init
  <2> QED
    BY <2>1, <2>2, Zenon DEF HealthInv
<1>2. HealthInv /\ [Next]_vars => HealthInv'
  <2>1. ASSUME HealthInv, UNCHANGED vars PROVE HealthInv'
    BY <2>1 DEF vars, pulse, HealthInv
  <2> QED
    BY <2>1, StepBeats
<1>3. HealthInv => HealthyMeansServing
  BY OperationsAssumption DEF HealthInv, HealthyMeansServing, Healthy, Stale
<1> QED
  BY <1>1, <1>2, <1>3, PTL DEF Spec

----------------------------------------------------------------------------
\* Retention.

\* Snapshots are numbered in the order they are taken, each saved once, and that
\* of a restore is not older than the one which is remembered.
CopyInv ==
    /\ pc \in [Tools -> Places] /\ DOMAIN temp = Tools
    /\ copies \in 0 .. MaxCopies /\ since \in 0 .. copies
    /\ \A b \in backups : b.stamp \in 0 .. copies
    /\ \A b, c \in backups : b.stamp > 0 /\ b.stamp = c.stamp => b = c
    /\ \A t \in Tools : pc[t] = "copied" =>
        /\ temp[t].stamp \in 1 .. copies
        /\ \A b \in backups : b.stamp # temp[t].stamp
        /\ t = "restore" => since <= temp[t].stamp
    /\ \A t, u \in Tools : pc[t] = "copied" /\ pc[u] = "copied" /\ t # u =>
        temp[t].stamp # temp[u].stamp

\* A tool that ends keeps the numbering.
LEMMA EndsCopies ==
    ASSUME CopyInv, NEW t \in Tools, Ends(t)
    PROVE  CopyInv'
BY DEF CopyInv, Ends, Places

\* Every step keeps stamps within what was copied, and unlike one another.
LEMMA StepCopies == CopyInv /\ [Next]_vars => CopyInv'
<1> SUFFICES ASSUME CopyInv, [Next]_vars PROVE CopyInv'
  OBVIOUS
<1> USE OperationsAssumption, RolesHold DEF Roles
<1>1. ASSUME NEW t \in Tools, Copy(t) PROVE CopyInv'
  <2>1. /\ copies' = copies + 1 /\ copies' \in 0 .. MaxCopies /\ backups' = backups
        /\ since' = since \/ since' = copies'
        /\ pc' \in [Tools -> Places] /\ DOMAIN temp' = Tools
        /\ \A u \in Tools : u # t => pc'[u] = pc[u] /\ temp'[u] = temp[u]
        /\ temp'[t].stamp = copies'
    BY <1>1 DEF Copy, CopyInv, Places
  <2>2. pc["restore"] = "copied" => since' = since
    BY <1>1 DEF Copy, MayCopy
  <2> QED
    BY <2>1, <2>2 DEF CopyInv
<1>2. ASSUME NEW t \in Tools, Save(t) PROVE CopyInv'
  <2>1. /\ copies' = copies /\ backups' = backups \cup {temp[t]} /\ pc[t] = "copied"
        /\ since' = since
        /\ pc' \in [Tools -> Places] /\ DOMAIN temp' = Tools
        /\ \A u \in Tools : u # t => pc'[u] = pc[u] /\ temp'[u] = temp[u]
        /\ pc'[t] = "saved"
    BY <1>2 DEF Save, CopyInv, Places
  <2> QED
    BY <2>1 DEF CopyInv
<1>3. ASSUME NEW t \in Tools, List(t) \/ Unlink(t) \/ Return(t) PROVE CopyInv'
  <2>1. /\ backups' \subseteq backups /\ UNCHANGED <<copies, temp, since>>
        /\ pc' \in [Tools -> Places]
        /\ \A u \in Tools : pc'[u] = "copied" => pc[u] = "copied"
    BY <1>3 DEF List, Unlink, Return, saving, CopyInv, Places
  <2> QED
    BY <2>1 DEF CopyInv
<1>4. ASSUME NEW t \in Tools, Fail(t) \/ Killed(t) PROVE CopyInv'
  BY <1>4, EndsCopies DEF Fail, Killed
<1>5. CASE RestoreStep
  <2>1. CASE RestoreEnds
    BY <2>1, EndsCopies DEF RestoreEnds
  <2>2. CASE ~RestoreEnds
    <3>1. /\ UNCHANGED saving
          /\ \E place \in Places \ {"copied"} : pc' = [pc EXCEPT !["restore"] = place]
      BY <1>5, <2>2
      DEF RestoreStep, RestoreBegins, Stage, SkipCopy, UnlinkWal, ReplaceMain, Places
    <3> QED
      BY <3>1 DEF saving, CopyInv
  <2> QED
    BY <2>1, <2>2
<1>6. CASE BotStep \/ Tick \/ UNCHANGED vars
  <2>1. UNCHANGED <<pc, saving>>
    BY <1>6
    DEF BotStep, Start, SetUp, SetUpFails, GetReady, Commit, Checkpoint, Close, LogOut,
        CloseFails, Stop, Crash, Gone, BeatAsks, BeatWrites, Beats, BeatFails, Tick, vars
  <2> QED
    BY <2>1 DEF saving, CopyInv
<1> QED
  BY <1>1, <1>2, <1>3, <1>4, <1>5, <1>6 DEF Next, ToolStep

\* The backups of a directory that are newer than b.
Newer(b, dir) == {c \in dir : c.stamp > b.stamp}

\* The stamps of a directory are among n snapshots, and the later ones differ.
Numbered(dir, n) ==
    /\ \A c \in dir : c.stamp \in 0 .. n
    /\ \A c, d \in dir : c.stamp > 0 /\ c.stamp = d.stamp => c = d

\* The newer backups carry different numbers, all of them later than b's.
LEMMA NewerCount ==
    ASSUME NEW dir, NEW n \in Nat, Numbered(dir, n), NEW b, b.stamp \in 0 .. n
    PROVE  /\ IsFiniteSet(Newer(b, dir)) /\ Cardinality(Newer(b, dir)) \in Nat
           /\ Cardinality(Newer(b, dir)) + b.stamp <= n
<1> DEFINE S == Newer(b, dir)
           T == (b.stamp + 1) .. n
           f == [c \in S |-> c.stamp]
<1>1. f \in Injection(S, T)
  <2>1. \A c \in S : c.stamp \in T
    BY DEF Newer, Numbered
  <2>2. f \in [S -> T]
    BY <2>1
  <2>3. \A c, d \in S : f[c] = f[d] => c = d
    BY DEF Numbered, Newer
  <2> QED
    BY <2>2, <2>3 DEF Injection, IsInjective
<1>2. IsFiniteSet(T) /\ Cardinality(T) = n - b.stamp
  <2>1. b.stamp + 1 \in Int /\ n \in Int
    OBVIOUS
  <2>2. IsFiniteSet((b.stamp + 1) .. n)
        /\ Cardinality((b.stamp + 1) .. n)
            = (IF b.stamp + 1 > n THEN 0 ELSE n - (b.stamp + 1) + 1)
    BY <2>1, FS_Interval, Zenon
  <2> QED
    BY <2>2
<1>3. IsFiniteSet(S) /\ Cardinality(S) <= Cardinality(T)
  <2> HIDE DEF S, T, f
  <2> QED
    BY <1>1, <1>2, FS_Injection
<1>4. Cardinality(S) \in Nat
  BY <1>3, FS_CardinalityType
<1> QED
  BY <1>2, <1>3, <1>4

\* So many newer ones there still are where none of them is taken away.
LEMMA NewerGrows ==
    ASSUME NEW dir, NEW more, NEW n \in Nat, NEW m \in Nat, n <= m,
           Numbered(dir, n), Numbered(more, m), NEW b, b.stamp \in 0 .. n,
           NEW k \in Nat, Cardinality(Newer(b, dir)) >= k,
           Newer(b, dir) \subseteq Newer(b, more)
    PROVE  Cardinality(Newer(b, more)) >= k
<1>1. Cardinality(Newer(b, dir)) \in Nat
  BY NewerCount
<1>2. b.stamp \in 0 .. m
  OBVIOUS
<1>3. IsFiniteSet(Newer(b, more)) /\ Cardinality(Newer(b, more)) \in Nat
  BY <1>2, NewerCount
<1>4. Cardinality(Newer(b, dir)) <= Cardinality(Newer(b, more))
  BY <1>3, FS_Subset
<1> QED
  BY <1>1, <1>3, <1>4

\* A backup on a list of expired ones has as many newer ones as retention is to
\* keep, and so it is older than that many snapshots, however old the list is.
DoomedInv ==
    /\ DOMAIN doomed = Tools
    /\ \A t \in Tools : \A b \in doomed[t] :
        /\ b.stamp \in 0 .. copies /\ b.stamp + Fewest <= copies
        /\ Cardinality(Newer(b, backups)) >= Fewest

\* Retention keeps one backup at least, and no tool keeps fewer.
LEMMA FewestType == Fewest \in Nat \ {0} /\ \A t \in Tools : Fewest <= Keep[t]
BY OperationsAssumption DEF Fewest, Tools

\* The directory is numbered.
LEMMA DirNumbered == CopyInv => copies \in Nat /\ Numbered(backups, copies)
BY OperationsAssumption DEF CopyInv, Numbered

\* What a step does to the directory and to the lists, if anything.
LEMMA StepSaving ==
    ASSUME [Next]_vars
    PROVE  \/ UNCHANGED <<backups, copies, doomed, since>>
           \/ \E t \in Tools : \/ Copy(t) \/ Save(t) \/ List(t) \/ Unlink(t)
                               \/ Ends(t)
BY DEF Next, BotStep, Start, SetUp, SetUpFails, GetReady, Commit, Checkpoint, Close,
       LogOut, CloseFails, Stop, Crash, Gone, BeatAsks, BeatWrites, Beats, BeatFails, Tick,
       ToolStep, Return, Fail, Killed, RestoreStep, RestoreBegins, Stage, SkipCopy,
       UnlinkWal, ReplaceMain, RestoreEnds, vars, saving, Tools

\* Every step keeps the lists to what is older than that many backups, a step
\* that deletes too, for it takes away what has as many newer ones itself.
LEMMA StepDooms ==
    ASSUME CopyInv, CopyInv', DoomedInv, [Next]_vars
    PROVE  DoomedInv'
<1> USE FewestType
<1>0. /\ copies \in Nat /\ Numbered(backups, copies)
      /\ copies' \in Nat /\ Numbered(backups', copies')
  <2>1. CopyInv' => copies' \in Nat /\ Numbered(backups', copies')
    BY OperationsAssumption DEF CopyInv, Numbered
  <2> QED
    BY <2>1, DirNumbered
<1>1. ASSUME copies <= copies', DOMAIN doomed' = Tools,
             NEW t \in Tools, NEW b \in doomed[t],
             Newer(b, backups) \subseteq Newer(b, backups')
      PROVE  /\ b.stamp \in 0 .. copies' /\ b.stamp + Fewest <= copies'
             /\ Cardinality(Newer(b, backups')) >= Fewest
  <2>1. /\ b.stamp \in 0 .. copies /\ b.stamp + Fewest <= copies
        /\ Cardinality(Newer(b, backups)) >= Fewest
    BY DEF DoomedInv
  <2>2. Cardinality(Newer(b, backups')) >= Fewest
    BY <1>0, <1>1, <2>1, NewerGrows
  <2> QED
    BY <1>0, <1>1, <2>1, <2>2
<1>2. ASSUME copies <= copies', DOMAIN doomed' = Tools, backups \subseteq backups',
             \A t \in Tools : doomed'[t] \subseteq doomed[t]
      PROVE  DoomedInv'
  <2>1. \A b : Newer(b, backups) \subseteq Newer(b, backups')
    BY <1>2 DEF Newer
  <2> QED
    BY <1>1, <1>2, <2>1 DEF DoomedInv, Fewest
<1>3. CASE UNCHANGED <<backups, copies, doomed, since>>
  BY <1>0, <1>2, <1>3 DEF DoomedInv
<1>4. ASSUME NEW t \in Tools, Copy(t) \/ Save(t) \/ Ends(t) PROVE DoomedInv'
  <2>1. /\ copies' \in {copies, copies + 1} /\ backups \subseteq backups'
        /\ doomed' = doomed \/ doomed' = [doomed EXCEPT ![t] = {}]
    BY <1>4 DEF Copy, Save, Ends
  <2> QED
    BY <1>0, <1>2, <2>1 DEF DoomedInv
<1>5. ASSUME NEW t \in Tools, List(t) PROVE DoomedInv'
  <2>1. /\ UNCHANGED <<backups, copies>>
        /\ doomed' = [doomed EXCEPT ![t] = Expired(Keep[t])]
    BY <1>5 DEF List
  <2>2. ASSUME NEW b \in Expired(Keep[t])
        PROVE  /\ b.stamp \in 0 .. copies /\ b.stamp + Fewest <= copies
               /\ Cardinality(Newer(b, backups)) >= Fewest
    <3>1. b.stamp \in 0 .. copies /\ Cardinality(Newer(b, backups)) >= Keep[t]
      BY <1>0 DEF Expired, Newer, Numbered
    <3>2. /\ Cardinality(Newer(b, backups)) \in Nat
          /\ Cardinality(Newer(b, backups)) + b.stamp <= copies
      BY <1>0, <3>1, NewerCount
    <3>3. Keep[t] \in Nat /\ Fewest <= Keep[t]
      BY OperationsAssumption
    <3> QED
      BY <1>0, <3>1, <3>2, <3>3
  <2>3. DOMAIN doomed' = Tools
        /\ \A u \in Tools : doomed'[u] = IF u = t THEN Expired(Keep[t]) ELSE doomed[u]
    BY <2>1 DEF DoomedInv
  <2>4. ASSUME NEW u \in Tools, NEW b \in doomed'[u]
        PROVE  /\ b.stamp \in 0 .. copies' /\ b.stamp + Fewest <= copies'
               /\ Cardinality(Newer(b, backups')) >= Fewest
    BY <2>1, <2>2, <2>3, <2>4 DEF DoomedInv
  <2> QED
    BY <2>3, <2>4 DEF DoomedInv, Fewest
<1>6. ASSUME NEW t \in Tools, Unlink(t) PROVE DoomedInv'
  <2>1. PICK d \in doomed[t] \cap backups :
            /\ backups' = backups \ {d} /\ copies' = copies
            /\ doomed' = [doomed EXCEPT ![t] = @ \ {d}]
    BY <1>6 DEF Unlink
  <2>2. DOMAIN doomed' = Tools /\ \A u \in Tools : doomed'[u] \subseteq doomed[u]
    BY <2>1 DEF DoomedInv
  <2>3. /\ d.stamp \in 0 .. copies /\ d.stamp + Fewest <= copies
        /\ Cardinality(Newer(d, backups)) >= Fewest
    BY <2>1 DEF DoomedInv
  <2>4. ASSUME NEW u \in Tools, NEW b \in doomed[u]
        PROVE  /\ b.stamp \in 0 .. copies' /\ b.stamp + Fewest <= copies'
               /\ Cardinality(Newer(b, backups')) >= Fewest
    <3>1. b.stamp \in 0 .. copies /\ b.stamp + Fewest <= copies
      BY DEF DoomedInv
    <3>2. CASE d.stamp > b.stamp
      <4>1. Newer(d, backups) = Newer(d, backups')
        BY <2>1, <2>3 DEF Newer
      <4>2. Cardinality(Newer(d, backups')) >= Fewest
        BY <2>3, <4>1
      <4>3. Newer(d, backups') \subseteq Newer(b, backups')
        BY <1>0, <2>1, <2>3, <3>1, <3>2 DEF Newer, Numbered
      <4>4. IsFiniteSet(Newer(b, backups')) /\ Cardinality(Newer(b, backups')) \in Nat
        BY <1>0, <2>1, <3>1, NewerCount
      <4>5. Cardinality(Newer(d, backups')) <= Cardinality(Newer(b, backups'))
        BY <4>3, <4>4, FS_Subset
      <4>6. Cardinality(Newer(d, backups')) \in Nat
        BY <1>0, <2>1, <2>3, NewerCount
      <4> QED
        BY <2>1, <3>1, <4>2, <4>4, <4>5, <4>6
    <3>3. CASE ~(d.stamp > b.stamp)
      <4>1. Newer(b, backups) \subseteq Newer(b, backups')
        BY <2>1, <3>3 DEF Newer
      <4>2. copies <= copies'
        BY <1>0, <2>1
      <4> QED
        BY <1>1, <2>2, <4>1, <4>2
    <3> QED
      BY <3>2, <3>3
  <2> QED
    BY <2>2, <2>4 DEF DoomedInv, Fewest
<1> QED
  BY <1>3, <1>4, <1>5, <1>6, StepSaving

\* Backups of this host have different stamps in every state, and the lists of
\* expired ones are right, also when they are old.
LEMMA CopyInvariant == Spec => [](CopyInv /\ DoomedInv)
<1>1. Init => CopyInv /\ DoomedInv
  <2> SUFFICES ASSUME Init PROVE CopyInv /\ DoomedInv
    OBVIOUS
  <2>1. /\ pc = [t \in Tools |-> "idle"] /\ temp = [t \in Tools |-> NoCopy] /\ copies = 0
        /\ \A b \in backups : b = Fetched
        /\ doomed = [t \in Tools |-> {}] /\ since = 0
    BY DEF Init
  <2>2. Fetched.stamp = 0
    BY DEF Fetched
  <2>3. CopyInv
    BY <2>1, <2>2, OperationsAssumption DEF CopyInv, Places
  <2> QED
    BY <2>1, <2>3 DEF DoomedInv
<1>2. CopyInv /\ DoomedInv /\ [Next]_vars => (CopyInv /\ DoomedInv)'
  BY StepCopies, StepDooms
<1> QED
  BY <1>1, <1>2, PTL DEF Spec

\* Only retention deletes a backup, and it leaves as many newer ones as it is to
\* keep, whichever two processes save, list and delete at the same time.
THEOREM KeepsNewest == Spec => NewestKept
<1> DEFINE Kept == \A b \in backups \ backups' :
                       Cardinality({c \in backups' : c.stamp > b.stamp}) >= Fewest
<1>1. CopyInv /\ DoomedInv /\ [Next]_vars => Kept
  <2> SUFFICES ASSUME CopyInv, DoomedInv, [Next]_vars, NEW b \in backups \ backups'
               PROVE  Cardinality({c \in backups' : c.stamp > b.stamp}) >= Fewest
    OBVIOUS
  <2>1. PICK t \in Tools : Unlink(t)
    BY StepSaving DEF Copy, Save, List, Ends
  <2>2. b \in doomed[t] /\ backups' = backups \ {b}
    BY <2>1 DEF Unlink
  <2>3. {c \in backups' : c.stamp > b.stamp} = Newer(b, backups)
    <3>1. b.stamp \in Int
      BY <2>2 DEF DoomedInv
    <3> QED
      BY <2>2, <3>1 DEF Newer
  <2> QED
    BY <2>2, <2>3 DEF DoomedInv
<1>2. CopyInv /\ DoomedInv /\ [Next]_vars => [Kept]_vars
  BY <1>1
<1> QED
  BY <1>2, CopyInvariant, PTL DEF Spec, NewestKept

----------------------------------------------------------------------------
\* What a restore takes away is in a backup.

\* Fewer backups were begun since the one that is remembered than retention
\* keeps.  Beyond that commits may be lost: while a bot without the lease has an
\* unlinked -wal file open, newer backups without its commits drive the restore's
\* own backup out, the bot moves them to the main file as it closes, and another
\* restore replaces that.
Window == copies - since < Fewest

\* The commits in the backups since then.
Own == UNION {b.holds : b \in {c \in backups : c.stamp >= since}}

\* Somebody has a -wal file open that is unlinked.
HasOld == \E c \in Connected : handle[c] = "old"

\* The commits an old connection may bring back are saved, and so is the
\* database from the restore's own backup to the replacement.
SafeInv ==
    /\ ~exists => main = {} /\ wal = {} /\ \A c \in Connected : handle[c] = "none"
    /\ HasOld => wal = {} /\ lease # "bot" /\ ghost \subseteq Own
    /\ pc["restore"] = "copied" => Live \subseteq temp["restore"].holds \cup Own
    /\ pc["restore"] \in {"saved", "pruning", "safe", "unlinked"} => Live \subseteq Own

\* Nothing so young is on a list, so no step takes a commit out of these backups.
LEMMA OwnGrows ==
    ASSUME Window, CopyInv, DoomedInv, [Next]_vars, since' = since
    PROVE  Own \subseteq Own'
<1>1. ASSUME NEW b \in backups, b.stamp >= since PROVE b \in backups'
  <2>1. ASSUME NEW t \in Tools, b \in doomed[t] PROVE FALSE
    <3>1. b.stamp \in Nat /\ b.stamp + Fewest <= copies
      BY <2>1 DEF DoomedInv
    <3>2. copies \in Nat /\ since \in Nat /\ Fewest \in Nat
      BY OperationsAssumption, FewestType DEF CopyInv
    <3> QED
      BY <1>1, <3>1, <3>2 DEF Window
  <2> QED
    BY <2>1, StepSaving DEF Copy, Save, List, Unlink, Ends
<1> QED
  BY <1>1 DEF Own

\* A connection that closes takes nothing away, and brings back what is saved.
LEMMA DisconnectSaves ==
    ASSUME SafeInv, LeaseInv, NEW c \in Connected, Disconnect(c),
           handle' = [handle EXCEPT ![c] = "none"]
    PROVE  /\ Live \subseteq Live' /\ Live' \subseteq Live \cup Own
           /\ ~exists => main' = {} /\ wal' = {}
           /\ wal' = wal \/ wal' = {}
           /\ HasOld' => HasOld /\ ghost' = ghost /\ (wal = {} => wal' = {})
<1>1. HasOld' => /\ HasOld /\ \E o \in Connected \ {c} : handle[o] = "old"
  BY DEF HasOld, LeaseInv
<1>2. HasOld' => ghost' = ghost
  BY <1>1 DEF Disconnect, GhostWithout
<1>3. CASE Alone(c) /\ handle[c] = "open"
  <2>1. main' = main \cup wal /\ wal' = {}
    BY <1>3 DEF Disconnect
  <2>2. exists
    BY <1>3 DEF SafeInv
  <2> QED
    BY <1>1, <1>2, <2>1, <2>2 DEF Live
<1>4. CASE Alone(c) /\ handle[c] = "old"
  <2>1. main' = main \cup ghost /\ wal' = {} /\ HasOld
    BY <1>4 DEF Disconnect, HasOld
  <2>2. wal = {} /\ ghost \subseteq Own /\ exists
    BY <1>4, <2>1 DEF SafeInv
  <2> QED
    BY <1>1, <1>2, <2>1, <2>2 DEF Live
<1>5. CASE ~(Alone(c) /\ handle[c] \in {"open", "old"})
  <2>1. main' = main /\ wal' = wal
    BY <1>5 DEF Disconnect
  <2> QED
    BY <1>1, <1>2, <2>1 DEF Live, SafeInv
<1> QED
  BY <1>3, <1>4, <1>5

\* A tool whose connection closes keeps what is saved.
LEMMA ToolEndsSaves ==
    ASSUME CopyInv, SafeInv, LeaseInv, NEW t \in Tools, Own \subseteq Own',
           Disconnect(t), handle' = [handle EXCEPT ![t] = "none"],
           lease' = lease \/ lease' = "nobody",
           UNCHANGED exists,
           pc' \in [Tools -> Places],
           \A u \in Tools : u # t => pc'[u] = pc[u] /\ temp'[u] = temp[u],
           \/ pc'[t] = "idle"
           \/ pc[t] = "pruning" /\ pc'[t] = "safe"
    PROVE  SafeInv' /\ Live \subseteq Live'
<1> USE RolesHold DEF Roles
<1>0. /\ Live \subseteq Live' /\ Live' \subseteq Live \cup Own
      /\ ~exists => main' = {} /\ wal' = {}
      /\ wal' = wal \/ wal' = {}
      /\ HasOld' => HasOld /\ ghost' = ghost /\ (wal = {} => wal' = {})
  BY DisconnectSaves
<1>1. (~exists => main = {} /\ wal = {} /\ \A c \in Connected : handle[c] = "none")'
  BY <1>0 DEF SafeInv, LeaseInv
<1>2. (HasOld => wal = {} /\ lease # "bot" /\ ghost \subseteq Own)'
  BY <1>0 DEF SafeInv
<1>3. (pc["restore"] = "copied" => Live \subseteq temp["restore"].holds \cup Own)'
  BY <1>0 DEF SafeInv
<1>4. (pc["restore"] \in {"saved", "pruning", "safe", "unlinked"} => Live \subseteq Own)'
  BY <1>0 DEF SafeInv
<1> QED
  BY <1>0, <1>1, <1>2, <1>3, <1>4 DEF SafeInv

\* While retention keeps them, no step loses what none of these backups holds.
LEMMA StepSaves ==
    ASSUME Window, CopyInv, DoomedInv, LeaseInv, RestoreInv, SafeInv, [Next]_vars,
           since' = since
    PROVE  SafeInv' /\ Live \ Live' \subseteq Own'
<1> DEFINE Goal == SafeInv' /\ Live \ Live' \subseteq Own'
<1> USE RolesHold DEF Roles
<1>0. Own \subseteq Own'
  BY OwnGrows
<1>1. CASE Start
  <2>1. /\ main' = main /\ wal' = wal /\ ghost' = ghost /\ exists' /\ ~HasOld
        /\ handle' = [handle EXCEPT !["bot"] = "open"] /\ pc' = pc
        /\ pc["restore"] = "idle"
    BY <1>1 DEF Start, HasOld, LeaseInv
  <2>2. ~HasOld'
    BY <2>1 DEF HasOld, LeaseInv
  <2> QED
    BY <2>1, <2>2 DEF SafeInv, Live
<1>2. CASE Commit \/ Checkpoint
  <2>1. /\ UNCHANGED <<exists, handle, pc, ghost>> /\ lease = "bot" /\ exists
        /\ pc["restore"] = "idle" /\ Live \subseteq Live'
    BY <1>2 DEF Commit, Checkpoint, LeaseInv, SafeInv, Live
  <2>2. ~HasOld'
    BY <2>1 DEF HasOld, SafeInv
  <2> QED
    BY <2>1, <2>2 DEF SafeInv
<1>3. CASE Stop
  <2>1. /\ Disconnect("bot") /\ handle' = [handle EXCEPT !["bot"] = "none"]
        /\ lease' # "bot" /\ UNCHANGED <<exists, pc, saving>>
    BY <1>3 DEF Stop, Gone
  <2>2. /\ Live \subseteq Live' /\ Live' \subseteq Live \cup Own
        /\ ~exists => main' = {} /\ wal' = {}
        /\ HasOld' => HasOld /\ ghost' = ghost /\ (wal = {} => wal' = {})
    BY <2>1, DisconnectSaves
  <2>3. (~exists => main = {} /\ wal = {} /\ \A c \in Connected : handle[c] = "none")'
    BY <2>1, <2>2 DEF SafeInv, LeaseInv
  <2>4. Own' = Own
    BY <2>1 DEF Own, saving
  <2> QED
    BY <2>1, <2>2, <2>3, <2>4 DEF SafeInv, saving
<1>4. CASE Crash
  <2>1. /\ handle' = [handle EXCEPT !["bot"] = "none"] /\ ghost' = GhostWithout("bot")
        /\ lease' # "bot" /\ UNCHANGED <<main, wal, exists, pc, saving>>
    BY <1>4 DEF Crash, Gone
  <2>2. HasOld' => HasOld /\ ghost' = ghost
    BY <2>1 DEF HasOld, GhostWithout, LeaseInv
  <2> QED
    BY <1>0, <2>1, <2>2 DEF SafeInv, Live, LeaseInv, saving
<1>5. CASE \/ SetUp \/ SetUpFails \/ GetReady \/ Close \/ LogOut \/ CloseFails
           \/ BeatAsks \/ BeatWrites \/ BeatFails \/ Tick \/ UNCHANGED vars
  <2>1. UNCHANGED <<files, handle, pc, saving>> /\ (lease' = lease \/ lease' = "nobody")
    BY <1>5
    DEF SetUp, SetUpFails, GetReady, Close, LogOut, CloseFails, BeatAsks, BeatWrites, Beats,
        BeatFails, Tick, vars
  <2>2. (HasOld' <=> HasOld) /\ Live' = Live /\ Own' = Own
    BY <2>1 DEF HasOld, Live, Own, files, saving
  <2> QED
    BY <2>1, <2>2 DEF SafeInv, files, saving
<1>6. ASSUME NEW t \in Tools, Copy(t) PROVE Goal
  <2>1. /\ UNCHANGED files /\ exists /\ handle' = [handle EXCEPT ![t] = "open"]
        /\ UNCHANGED lease
        /\ \A u \in Tools : u # t => pc'[u] = pc[u] /\ temp'[u] = temp[u]
        /\ pc'[t] = "copied" /\ temp'[t].holds = Live
    BY <1>6 DEF Copy, CopyInv
  <2>2. (HasOld' => HasOld) /\ Live' = Live
    BY <2>1 DEF HasOld, Live, files, LeaseInv
  <2> QED
    BY <1>0, <2>1, <2>2 DEF SafeInv, files
<1>7. ASSUME NEW t \in Tools, Save(t) PROVE Goal
  <2>1. /\ UNCHANGED <<files, handle, lease>>
        /\ \A u \in Tools : u # t => pc'[u] = pc[u] /\ temp'[u] = temp[u]
        /\ pc[t] = "copied" /\ pc'[t] = "saved" /\ backups' = backups \cup {temp[t]}
    BY <1>7 DEF Save, CopyInv
  <2>2. (HasOld' <=> HasOld) /\ Live' = Live
    BY <2>1 DEF HasOld, Live, files
  <2>3. t = "restore" => temp[t].holds \subseteq Own'
    <3>1. t = "restore" => temp[t].stamp >= since
      BY <2>1, OperationsAssumption DEF CopyInv
    <3> QED
      BY <2>1, <3>1 DEF Own
  <2> QED
    BY <1>0, <2>1, <2>2, <2>3 DEF SafeInv, files
<1>16. ASSUME NEW t \in Tools, List(t) \/ Unlink(t) PROVE Goal
  <2>1. /\ UNCHANGED <<files, handle, temp, lease>>
        /\ pc["restore"] \in {"saved", "pruning"} \/ pc'["restore"] = pc["restore"]
        /\ pc'["restore"] \in {pc["restore"], "pruning"}
    BY <1>16 DEF List, Unlink, CopyInv
  <2>2. (HasOld' <=> HasOld) /\ Live' = Live
    BY <2>1 DEF HasOld, Live, files
  <2> QED
    BY <1>0, <2>1, <2>2 DEF SafeInv, files
<1>8. ASSUME NEW t \in Tools, Return(t) PROVE Goal
  <2>1. /\ Disconnect(t) /\ handle' = [handle EXCEPT ![t] = "none"]
        /\ UNCHANGED <<lease, exists, temp>> /\ pc[t] = "pruning"
        /\ pc' \in [Tools -> Places]
        /\ \A u \in Tools : u # t => pc'[u] = pc[u]
        /\ pc'[t] \in {"idle", "safe"}
    BY <1>8 DEF Return, saving, CopyInv, Places
  <2>2. t \in Connected
    OBVIOUS
  <2> QED
    BY <1>0, <2>1, <2>2, ToolEndsSaves
<1>9. ASSUME NEW t \in Tools, Ends(t)
      PROVE  /\ handle' = [handle EXCEPT ![t] = "none"]
             /\ UNCHANGED exists /\ (lease' = lease \/ lease' = "nobody")
             /\ pc' \in [Tools -> Places] /\ pc'[t] = "idle"
             /\ \A u \in Tools : u # t => pc'[u] = pc[u] /\ temp'[u] = temp[u]
  BY <1>9 DEF Ends, CopyInv, Places
<1>10. ASSUME NEW t \in Tools, Fail(t) PROVE Goal
  <2>1. Disconnect(t) /\ Ends(t)
    BY <1>10 DEF Fail
  <2> QED
    BY <1>0, <1>9, <2>1, ToolEndsSaves
<1>11. ASSUME NEW t \in Tools, Ends(t), UNCHANGED <<main, wal>>,
              ghost' = ghost \/ ghost' = GhostWithout(t)
       PROVE  Goal
  <2>1. HasOld' => HasOld /\ ghost' = ghost
    BY <1>9, <1>11 DEF HasOld, GhostWithout, LeaseInv
  <2>2. (~exists => main = {} /\ wal = {} /\ \A c \in Connected : handle[c] = "none")'
    BY <1>9, <1>11 DEF SafeInv, LeaseInv
  <2>3. Live' = Live
    BY <1>11 DEF Live
  <2> QED
    BY <1>0, <1>9, <1>11, <2>1, <2>2, <2>3 DEF SafeInv
<1>12. CASE \E b \in backups : RestoreBegins(b)
  <2>1. /\ UNCHANGED <<files, handle>> /\ lease' # "bot" /\ pc'["restore"] = "leased"
    BY <1>12 DEF RestoreBegins, LeaseForRestore, CopyInv
  <2>2. (HasOld' <=> HasOld) /\ Live' = Live
    BY <2>1 DEF HasOld, Live, files
  <2> QED
    BY <1>0, <2>1, <2>2 DEF SafeInv, files
<1>13. CASE Stage \/ SkipCopy
  <2>1. /\ UNCHANGED <<files, handle, lease>>
        /\ pc'["restore"] = "staged" \/ (pc'["restore"] = "safe" /\ ~exists)
    BY <1>13 DEF Stage, SkipCopy, NeedsNoBackup, CopyInv
  <2>2. (HasOld' <=> HasOld) /\ Live' = Live
    BY <2>1 DEF HasOld, Live, files
  <2> QED
    BY <1>0, <2>1, <2>2 DEF SafeInv, files, Live
<1>14. CASE UnlinkWal
  <2>1. /\ pc["restore"] = "safe" /\ pc'["restore"] = "unlinked" /\ wal' = {}
        /\ UNCHANGED <<lease, exists, main>> /\ lease = "restore"
        /\ Live \subseteq Own
    BY <1>14 DEF UnlinkWal, UnlinkedWal, CopyInv, LeaseInv, SafeInv
  <2>2. CASE \A c \in Connected : handle[c] # "open"
    <3>1. ghost' = ghost /\ \A c \in Connected : handle'[c] = handle[c]
      BY <1>14, <2>2 DEF UnlinkWal, UnlinkedWal
    <3> QED
      BY <1>0, <2>1, <3>1 DEF SafeInv, Live, HasOld
  <2>3. CASE \E c \in Connected : handle[c] = "open"
    <3>1. ghost' = wal /\ exists
      BY <1>14, <2>3 DEF UnlinkWal, UnlinkedWal, SafeInv
    <3> QED
      BY <1>0, <2>1, <3>1 DEF SafeInv, Live
  <2> QED
    BY <2>2, <2>3
<1>15. CASE ReplaceMain
  <2>1. /\ pc["restore"] = "unlinked" /\ pc'["restore"] = "replaced" /\ exists'
        /\ Live \subseteq Own
    BY <1>15 DEF ReplaceMain, CopyInv, SafeInv
  <2>2. ~HasOld'
    BY <1>15 DEF ReplaceMain, HasOld
  <2> QED
    BY <1>0, <2>1, <2>2 DEF SafeInv
<1> QED
  BY <1>1, <1>2, <1>3, <1>4, <1>5, <1>6, <1>7, <1>8, <1>10, <1>11, <1>12, <1>13,
     <1>14, <1>15, <1>16
  DEF Next, BotStep, ToolStep, RestoreStep, Killed, RestoreEnds

\* Only a restore's own backup moves the window, while nobody has an unlinked
\* -wal file open: it holds the whole database then, whatever was deleted before.
LEMMA WindowMoves ==
    ASSUME CopyInv, CopyInv', LeaseInv, [Next]_vars
    PROVE  \/ since' = since /\ (Window' => Window)
           \/ SafeInv' /\ Live' = Live
<1>0. /\ copies \in Nat /\ since \in Nat /\ copies' \in Nat /\ Fewest \in Nat
      /\ Fewest' = Fewest
  BY OperationsAssumption, FewestType DEF CopyInv, Fewest
<1>1. CASE since' = since
  <2>1. copies' \in {copies, copies + 1}
    BY StepSaving DEF Copy, Save, List, Unlink, Ends
  <2>2. Window' => copies' - since < Fewest
    BY <1>0, <1>1 DEF Window
  <2>3. \A a, b, e, k \in Nat : b \in {a, a + 1} /\ b - e < k => a - e < k
    OBVIOUS
  <2>4. copies' - since < Fewest => copies - since < Fewest
    BY <1>0, <2>1, <2>3, Zenon
  <2> QED
    BY <1>1, <2>2, <2>4 DEF Window
<1>2. CASE since' # since
  <2>1. Copy("restore") /\ ~HasOld
    BY <1>2, StepSaving DEF Copy, Save, List, Unlink, Ends, HasOld
  <2>2. /\ UNCHANGED files /\ exists /\ handle' = [handle EXCEPT !["restore"] = "open"]
        /\ pc'["restore"] = "copied" /\ temp'["restore"].holds = Live
    BY <2>1, RolesHold DEF Roles, Copy, CopyInv
  <2>3. ~HasOld' /\ Live' = Live
    BY <2>1, <2>2, RolesHold DEF Roles, HasOld, Live, files, LeaseInv
  <2> QED
    BY <2>2, <2>3 DEF SafeInv, files
<1> QED
  BY <1>1, <1>2

\* As long as retention keeps as many backups as were begun since the restore's
\* own, no step takes a commit out of the database that is not in a backup by
\* then, whoever is killed, fails, or still has old files open.
THEOREM NothingLost == Spec => NothingLostUnsaved
<1> DEFINE Kept == copies - since < Fewest => Live \ Live' \subseteq Saved'
           Safe == Window => SafeInv
<1>1. Init => Safe
  <2> SUFFICES ASSUME Init PROVE SafeInv
    OBVIOUS
  <2>1. /\ \A c \in Connected : handle[c] = "none"
        /\ \A t \in Tools : pc[t] = "idle"
        /\ main = {} /\ wal = {} /\ ghost = {} /\ lease = "nobody"
    BY DEF Init
  <2>2. ~HasOld /\ Live = {}
    BY <2>1 DEF HasOld, Live
  <2> QED
    BY <2>1, <2>2, RolesHold DEF Roles, SafeInv
<1>2. CopyInv /\ DoomedInv /\ LeaseInv /\ RestoreInv /\ Safe /\ [Next]_vars
      => Safe' /\ [Kept]_vars
  <2> SUFFICES ASSUME CopyInv, DoomedInv, LeaseInv, RestoreInv, Safe, [Next]_vars
               PROVE  Safe' /\ Kept
    OBVIOUS
  <2>1. Own' \subseteq Saved'
    BY DEF Own, Saved
  <2>2. Window /\ since' = since => SafeInv' /\ Live \ Live' \subseteq Own'
    BY StepSaves
  <2>3. \/ since' = since /\ (Window' => Window)
        \/ SafeInv' /\ Live' = Live
    BY StepCopies, WindowMoves
  <2> QED
    BY <2>1, <2>2, <2>3 DEF Window
<1> QED
  BY <1>1, <1>2, CopyInvariant, RestoreInvariant, PTL DEF Spec, NothingLostUnsaved
=============================================================================
