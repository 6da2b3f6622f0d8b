----------------------------- MODULE Scheduler -----------------------------
(***************************************************************************)
(* The calendar of every guild and everything that moves it: the process   *)
(* start-up, the midnight and catch-up sweeps, the hook that runs before   *)
(* each command, and the commands themselves (scheduler.py, bot.py,        *)
(* db.py, tick.py, services/economy.py, services/employment.py).           *)
(*                                                                         *)
(* Every database transaction runs under one process-wide FIFO lock, so a  *)
(* transaction is one action, and the processes interleave only between    *)
(* transactions.  queue is the lock: its head holds it, the rest wait.     *)
(*                                                                         *)
(* Money is left out: of a settlement, this module keeps which dates it    *)
(* closes, whose attendance it pays and which closing quotes it records.   *)
(***************************************************************************)
EXTENDS GameDay, Sequences

CONSTANTS
    Guilds,     \* Discord servers
    Players,    \* employed members who may clock in
    Cmds,       \* command invocations that may be in flight at once
    Modes,      \* values GAME_TIME_MODE takes, at each start
    Westward,   \* may GAME_TIMEZONE move west between two starts?
    FirstDay,   \* local dates are FirstDay .. LastDay
    LastDay,
    MaxCalls,   \* bound: commands invoked
    MaxCrashes  \* bound: process crashes

Sweeps == {"tick", "catchup"}
Sweepers == Sweeps \cup {"startup"}
Procs == Sweepers \cup Cmds
Days == FirstDay .. LastDay
Weeks == {WeekMonday(d) : d \in Days}   \* a week is named by its Monday

ASSUME SchedulerAssumption ==
    /\ FirstDay \in Int /\ LastDay \in Int /\ FirstDay <= LastDay
    /\ Modes # {} /\ Modes \subseteq {"calendar", "accelerated"}
    /\ Westward \in BOOLEAN
    /\ MaxCalls \in Nat /\ MaxCrashes \in Nat
    /\ Cmds \cap Sweepers = {}
    /\ Guilds # {}

VARIABLES
    today,      \* the local date of the configured timezone
    mode,       \* "calendar" or "accelerated"
    alive,      \* "down", "starting" (setup_hook) or "up"
    startedOn,  \* history: the local date of the last start
    queue,      \* the transaction lock: holder first, then its waiters
    pc,         \* where each process is
    at,         \* the guild a process is working for
    target,     \* the date it computed before it asked for the lock
    todo,       \* the guilds a sweep has still to visit
    guilds,     \* guilds with a ServerState row
    cursor,     \* ServerState.game_day: the open date
    private,    \* does the guild have an active private company?
    quoted,     \* the dates of the guild's market_closes rows
    clocked,    \* Employment.clocked_in
    settled,    \* history: how often each date was closed
    wages,      \* history: payments of attendance, per player
    paidOn,     \* history: dates whose attendance was paid, per player
    clockins,   \* history: attendance recorded, per player
    rolled,     \* history: how often each week's events were rolled
    calls, crashes

process  == <<queue, pc, at, target, todo>>
calendar == <<guilds, cursor, private, quoted, clocked>>
history  == <<settled, wages, paidOn, clockins, rolled>>
clock    == <<today, mode, alive, startedOn>>
bounds   == <<calls, crashes>>
vars     == <<process, calendar, history, clock, bounds>>

AnyGuild == CHOOSE g \in Guilds : TRUE

ClockOK ==
    /\ today \in Days
    /\ mode \in Modes
    /\ alive \in {"down", "starting", "up"}
    /\ startedOn \in Days
    /\ calls \in 0 .. MaxCalls
    /\ crashes \in 0 .. MaxCrashes

ProcessOK ==
    /\ queue \in Seq(Procs)
    /\ pc \in [Procs -> {"idle", "list", "next", "boot", "sync", "act"}]
    /\ at \in [Procs -> Guilds]
    /\ target \in [Procs -> Days]
    /\ todo \in [Sweepers -> SUBSET Guilds]

CalendarOK ==
    /\ guilds \subseteq Guilds
    /\ cursor \in [Guilds -> Days]
    /\ private \in [Guilds -> BOOLEAN]
    /\ quoted \in [Guilds -> SUBSET Days]
    /\ clocked \in [Guilds -> SUBSET Players]

HistoryOK ==
    /\ settled \in [Guilds -> [Days -> Nat]]
    /\ wages \in [Guilds -> [Players -> Nat]]
    /\ paidOn \in [Guilds -> [Players -> SUBSET Days]]
    /\ clockins \in [Guilds -> [Players -> Nat]]
    /\ rolled \in [Guilds -> [Weeks -> Nat]]

\* Every variable has its type; in particular the open date of a guild stays
\* within the local dates the configured clock has shown.
TypeOK == ClockOK /\ ProcessOK /\ CalendarOK /\ HistoryOK

Init ==
    /\ today = FirstDay
    /\ mode \in Modes
    /\ alive = "down"
    /\ startedOn = FirstDay
    /\ queue = <<>>
    /\ pc = [p \in Procs |-> "idle"]
    /\ at = [p \in Procs |-> AnyGuild]
    /\ target = [p \in Procs |-> FirstDay]
    /\ todo = [s \in Sweepers |-> {}]
    /\ guilds = {}
    /\ cursor = [g \in Guilds |-> FirstDay]
    /\ private = [g \in Guilds |-> FALSE]
    /\ quoted = [g \in Guilds |-> {}]
    /\ clocked = [g \in Guilds |-> {}]
    /\ settled = [g \in Guilds |-> [d \in Days |-> 0]]
    /\ wages = [g \in Guilds |-> [p \in Players |-> 0]]
    /\ paidOn = [g \in Guilds |-> [p \in Players |-> {}]]
    /\ clockins = [g \in Guilds |-> [p \in Players |-> 0]]
    /\ rolled = [g \in Guilds |-> [w \in Weeks |-> 0]]
    /\ calls = 0
    /\ crashes = 0

\* The locals of process p when it has nothing in progress.
Unset(p) ==
    /\ pc' = [pc EXCEPT ![p] = "idle"]
    /\ at' = [at EXCEPT ![p] = AnyGuild]
    /\ target' = [target EXCEPT ![p] = FirstDay]

\* Changed form: the date of a zone east of the configured one.
LocalDate_OtherZone == today + 1

\* gameday.local_date
LocalDate == today

----------------------------------------------------------------------------
\* The transaction lock.

Holds(p) == queue # <<>> /\ Head(queue) = p

Acquire(p) == queue' = Append(queue, p)

Release(p) == Holds(p) /\ queue' = Tail(queue)

\* The next transaction of the same process queues behind those waiting.
Reacquire(p) == Holds(p) /\ queue' = Append(Tail(queue), p)

----------------------------------------------------------------------------
\* Settlement: one transaction closes the dates cursor[g] .. t-1 in order.

\* Changed form: a catch-up closes only the last missed date.
Closing_LastOnly(g, t) == IF cursor[g] < t THEN {t - 1} ELSE {}

Closing(g, t) == cursor[g] .. (t - 1)

\* Attendance is paid on the first date only: it ends with everyone clocked
\* out, and on a closed date attendance is cleared unpaid.
PaidBy(g, t) ==
    IF cursor[g] < t /\ IsBusinessDay(cursor[g]) THEN clocked[g] ELSE {}

\* Changed form: a settled date leaves attendance recorded.
ClockedAfter_Kept(g, t) == clocked[g]

\* Every settled date, business date or not, ends with everyone clocked out.
ClockedAfter(g, t) == IF cursor[g] < t THEN {} ELSE clocked[g]

\* The Mondays that open while the cursor advances.
Opened(g, t) == {d \in (cursor[g] + 1) .. t : IsMonday(d)}

\* A company is only bankrupted on a business date with attendance to pay,
\* so only on the first one; without the last private company no quotes.
MayBankrupt(g, t) == private[g] /\ PaidBy(g, t) # {}

Quotes(g, t) == {d \in Closing(g, t) : IsBusinessDay(d)}

Plus1(f, S) == [d \in DOMAIN f |-> IF d \in S THEN f[d] + 1 ELSE f[d]]

SettleThrough(g, t) ==
    \E bankrupt \in BOOLEAN :
        /\ bankrupt => MayBankrupt(g, t)
        /\ cursor' = [cursor EXCEPT ![g] = t]
        /\ private' = [private EXCEPT ![g] = @ /\ ~bankrupt]
        /\ quoted' = [quoted EXCEPT ![g] =
                        IF private'[g] THEN @ \cup Quotes(g, t) ELSE @]
        /\ clocked' = [clocked EXCEPT ![g] = ClockedAfter(g, t)]
        /\ settled' = [settled EXCEPT ![g] = Plus1(@, Closing(g, t))]
        /\ wages' = [wages EXCEPT ![g] = Plus1(@, PaidBy(g, t))]
        /\ paidOn' = [paidOn EXCEPT ![g] =
                        [p \in Players |-> IF p \in PaidBy(g, t)
                                           THEN @[p] \cup {cursor[g]} ELSE @[p]]]
        /\ rolled' = [rolled EXCEPT ![g] = Plus1(@, Opened(g, t))]
        /\ UNCHANGED <<guilds, clockins>>

\* Changed form: a quote of the target date itself does not count.
SettledAtOrAfter_After(g, t) == \E d \in quoted[g] : d > t

\* A date the guild already closed with quotes lies at or after t.
SettledAtOrAfter(g, t) == \E d \in quoted[g] : d >= t

\* Changed form: back to the date before.
SnapBack_TooFar(g, t) ==
    /\ cursor' = [cursor EXCEPT ![g] = t - 1]
    /\ UNCHANGED <<guilds, private, quoted, clocked, history>>

\* Move the cursor back to t and settle nothing; attendance stays recorded.
SnapBack(g, t) ==
    /\ cursor' = [cursor EXCEPT ![g] = t]
    /\ UNCHANGED <<guilds, private, quoted, clocked, history>>

\* synchronize_guild; it is called in calendar mode only.
Synchronize(g, t) ==
    \/ /\ g \notin guilds
       /\ UNCHANGED <<calendar, history>>
    \/ /\ g \in guilds /\ cursor[g] > t /\ SettledAtOrAfter(g, t)
       /\ UNCHANGED <<calendar, history>>
    \/ /\ g \in guilds /\ cursor[g] > t /\ ~SettledAtOrAfter(g, t)
       /\ SnapBack(g, t)
    \/ /\ g \in guilds /\ cursor[g] <= t
       /\ SettleThrough(g, t)

\* run_one and $forcetick: one date, whatever the local date is.
TickOne(g) ==
    \/ /\ g \notin guilds
       /\ UNCHANGED <<calendar, history>>
    \/ /\ g \in guilds /\ cursor[g] < LastDay
       /\ SettleThrough(g, cursor[g] + 1)

----------------------------------------------------------------------------
\* The process: start-up, crash, local midnight.

\* setup_hook up to the sweep; in accelerated mode there is nothing to do.
Restart ==
    /\ alive = "down"
    /\ mode' \in Modes
    /\ today' \in {today} \cup (IF Westward THEN {today - 1} \cap Days ELSE {})
    /\ startedOn' = today'
    /\ IF mode' = "calendar"
       THEN /\ alive' = "starting"
            /\ pc' = [pc EXCEPT !["startup"] = "list"]
            /\ Acquire("startup")
       ELSE /\ alive' = "up"
            /\ UNCHANGED <<pc, queue>>
    /\ UNCHANGED <<at, target, todo, calendar, history, bounds>>

\* Committed rows survive; locks, sweeps and commands in flight do not.
Vanish ==
    /\ alive' = "down"
    /\ queue' = <<>>
    /\ pc' = [p \in Procs |-> "idle"]
    /\ at' = [p \in Procs |-> AnyGuild]
    /\ target' = [p \in Procs |-> FirstDay]
    /\ todo' = [s \in Sweepers |-> {}]
    /\ UNCHANGED <<calendar, history, today, mode, startedOn, calls>>

Crash ==
    /\ alive # "down"
    /\ crashes < MaxCrashes
    /\ crashes' = crashes + 1
    /\ Vanish

\* The close job runs at once, or is dropped: one is still running, or the
\* event loop was too busy to start it within the job's grace time.
Midnight ==
    /\ today < LastDay
    /\ today' = today + 1
    /\ \/ UNCHANGED process
       \/ /\ alive = "up" /\ mode = "calendar" /\ pc["tick"] = "idle"
          /\ pc' = [pc EXCEPT !["tick"] = "list"]
          /\ Acquire("tick")
          /\ UNCHANGED <<at, target, todo>>
    /\ UNCHANGED <<mode, alive, startedOn, calendar, history, bounds>>

----------------------------------------------------------------------------
\* Sweeps: tick_all_guilds, and catch_up_all_guilds at start-up.

\* Changed form: no catch-up job, only the midnight trigger.
SweepStart_AcceleratedOnly(s) ==
    /\ alive = "up"
    /\ s = "tick" /\ mode = "accelerated"
    /\ pc[s] = "idle"
    /\ pc' = [pc EXCEPT ![s] = "list"]
    /\ Acquire(s)
    /\ UNCHANGED <<at, target, todo, calendar, history, clock, bounds>>

\* The job of an interval trigger: the 60 s catch-up, or accelerated ticks.
SweepStart(s) ==
    /\ alive = "up"
    /\ s = IF mode = "calendar" THEN "catchup" ELSE "tick"
    /\ pc[s] = "idle"
    /\ pc' = [pc EXCEPT ![s] = "list"]
    /\ Acquire(s)
    /\ UNCHANGED <<at, target, todo, calendar, history, clock, bounds>>

SweepList(s) ==
    /\ pc[s] = "list"
    /\ Release(s)
    /\ todo' = [todo EXCEPT ![s] = guilds]
    /\ pc' = [pc EXCEPT ![s] = "next"]
    /\ UNCHANGED <<at, target, calendar, history, clock, bounds>>

\* The local date is read here, before the lock is granted.
SweepNext(s) ==
    /\ pc[s] = "next"
    /\ \E g \in todo[s] :
        /\ at' = [at EXCEPT ![s] = g]
        /\ todo' = [todo EXCEPT ![s] = @ \ {g}]
    /\ target' = [target EXCEPT ![s] = LocalDate]
    /\ pc' = [pc EXCEPT ![s] = "sync"]
    /\ Acquire(s)
    /\ UNCHANGED <<calendar, history, clock, bounds>>

SweepDone(s) ==
    /\ pc[s] = "next"
    /\ todo[s] = {}
    /\ Unset(s)
    /\ alive' = IF s = "startup" THEN "up" ELSE alive
    /\ UNCHANGED <<queue, todo, calendar, history, today, mode, startedOn, bounds>>

SweepSync(s) ==
    /\ pc[s] = "sync"
    /\ Release(s)
    /\ IF mode = "calendar" THEN Synchronize(at[s], target[s]) ELSE TickOne(at[s])
    /\ pc' = [pc EXCEPT ![s] = "next"]
    /\ UNCHANGED <<at, target, todo, clock, bounds>>

\* Changed form: start-up logs a failed settlement and carries on.
SweepFail_Lenient(s) ==
    /\ pc[s] \in {"list", "sync"}
    /\ Release(s)
    /\ pc' = [pc EXCEPT ![s] = "next"]
    /\ UNCHANGED <<at, target, todo, calendar, history, clock, bounds>>

\* Changed form: a failed transaction of a sweep keeps the lock.
SweepFail_KeepsLock(s) ==
    /\ pc[s] \in {"list", "sync"}
    /\ Holds(s)
    /\ pc' = [pc EXCEPT ![s] = "next"]
    /\ UNCHANGED <<queue, at, target, todo, calendar, history, clock, bounds>>

\* The transaction raises and rolls back.  A periodic sweep logs it and goes
\* on with the next guild; start-up lets it abort the process.
SweepFail(s) ==
    /\ pc[s] \in {"list", "sync"}
    /\ Holds(s)
    /\ IF s = "startup"
       THEN Vanish
       ELSE /\ Release(s)
            /\ pc' = [pc EXCEPT ![s] = IF @ = "sync" THEN "next" ELSE "idle"]
            /\ UNCHANGED <<at, target, todo, calendar, history, clock, calls>>
    /\ UNCHANGED crashes

----------------------------------------------------------------------------
\* Commands: before_invoke_hook, then the command's own transaction.

\* The hook reads the local date once, before its two transactions.
Arrive(c) ==
    /\ alive = "up"
    /\ pc[c] = "idle"
    /\ calls < MaxCalls
    /\ calls' = calls + 1
    /\ \E g \in Guilds : at' = [at EXCEPT ![c] = g]
    /\ target' = [target EXCEPT ![c] = LocalDate]
    /\ pc' = [pc EXCEPT ![c] = "boot"]
    /\ Acquire(c)
    /\ UNCHANGED <<todo, calendar, history, clock, crashes>>

\* A guild first seen on a weekend has no date left to roll events for.
FirstRoll(g, d) ==
    rolled' = IF IsBusinessDay(d)
              THEN [rolled EXCEPT ![g] = Plus1(@, {WeekMonday(d)})] ELSE rolled

\* ensure_bootstrapped
Bootstrap(g, d) ==
    IF g \in guilds
    THEN UNCHANGED <<calendar, history>>
    ELSE /\ guilds' = guilds \cup {g}
         /\ cursor' = [cursor EXCEPT ![g] = d]
         /\ FirstRoll(g, d)
         /\ UNCHANGED <<private, quoted, clocked, settled, wages, paidOn, clockins>>

\* Changed form: the hook does not synchronize the calendar.
Boot_NoSync(c) ==
    /\ pc[c] = "boot"
    /\ Reacquire(c)
    /\ Bootstrap(at[c], target[c])
    /\ pc' = [pc EXCEPT ![c] = "act"]
    /\ UNCHANGED <<at, target, todo, clock, bounds>>

Boot(c) ==
    /\ pc[c] = "boot"
    /\ Reacquire(c)
    /\ Bootstrap(at[c], target[c])
    /\ pc' = [pc EXCEPT ![c] = IF mode = "calendar" THEN "sync" ELSE "act"]
    /\ UNCHANGED <<at, target, todo, clock, bounds>>

CmdSync(c) ==
    /\ pc[c] = "sync"
    /\ Reacquire(c)
    /\ Synchronize(at[c], target[c])
    /\ pc' = [pc EXCEPT ![c] = "act"]
    /\ UNCHANGED <<at, target, todo, clock, bounds>>

Returns(c) ==
    /\ pc[c] = "act"
    /\ Release(c)
    /\ Unset(c)
    /\ UNCHANGED <<todo, clock, bounds>>

ClockIn(c) ==
    LET g == at[c] IN
    /\ Returns(c)
    /\ IsBusinessDay(cursor[g])
    /\ \E p \in Players \ clocked[g] :
        /\ clocked' = [clocked EXCEPT ![g] = @ \cup {p}]
        /\ clockins' = [clockins EXCEPT ![g][p] = @ + 1]
    /\ UNCHANGED <<guilds, cursor, private, quoted, settled, wages, paidOn, rolled>>

ClockOut(c) ==
    LET g == at[c] IN
    /\ Returns(c)
    /\ \E p \in clocked[g] : clocked' = [clocked EXCEPT ![g] = @ \ {p}]
    /\ UNCHANGED <<guilds, cursor, private, quoted, history>>

Found(c) ==
    /\ Returns(c)
    /\ private' = [private EXCEPT ![at[c]] = TRUE]
    /\ UNCHANGED <<guilds, cursor, quoted, clocked, history>>

SetDay(c) ==
    LET g == at[c] IN
    /\ mode = "accelerated"
    /\ Returns(c)
    /\ \E i \in 0 .. 6 :
        /\ DateForWeekday(cursor[g], i) \in Days
        /\ cursor' = [cursor EXCEPT ![g] = DateForWeekday(@, i)]
    /\ UNCHANGED <<guilds, private, quoted, clocked, history>>

ForceTick(c) ==
    /\ mode = "accelerated"
    /\ Returns(c)
    /\ TickOne(at[c])

\* A command that moves nothing here, a GameError, or a failed transaction.
CmdEnd(c) ==
    /\ pc[c] \in {"boot", "sync", "act"}
    /\ Release(c)
    /\ Unset(c)
    /\ UNCHANGED <<todo, calendar, history, clock, bounds>>

----------------------------------------------------------------------------
SweepStep(s) ==
    \/ SweepStart(s)
    \/ SweepList(s)
    \/ SweepNext(s)
    \/ SweepDone(s)
    \/ SweepSync(s)
    \/ SweepFail(s)

CmdStep(c) ==
    \/ Arrive(c)
    \/ Boot(c)
    \/ CmdSync(c)
    \/ ClockIn(c)
    \/ ClockOut(c)
    \/ Found(c)
    \/ SetDay(c)
    \/ ForceTick(c)
    \/ CmdEnd(c)

Next ==
    \/ Restart
    \/ Crash
    \/ Midnight
    \/ \E s \in Sweepers : SweepStep(s)
    \/ \E c \in Cmds : CmdStep(c)

Spec == Init /\ [][Next]_vars

(***************************************************************************)
(* Fairness.  Whoever holds the lock ends its transaction, so every step   *)
(* of a queued process is weakly fair; the interval trigger keeps starting *)
(* the catch-up sweep and systemd keeps restarting the process.  A         *)
(* transaction may fail again and again: that it does not fail for ever is *)
(* the strong fairness of SweepList and SweepSync.  Nothing is assumed of  *)
(* the midnight job, of commands arriving, or of a crash.                  *)
(***************************************************************************)
SyncOf(s, g) == at[s] = g /\ SweepSync(s)

Fairness ==
    /\ WF_vars(Restart)
    /\ \A s \in Sweepers :
        /\ WF_vars(SweepList(s) \/ SweepSync(s) \/ SweepFail(s))
        /\ WF_vars(SweepNext(s) \/ SweepDone(s))
    /\ WF_vars(SweepStart("catchup"))
    /\ \A s \in {"startup", "catchup"} :
        /\ SF_vars(SweepList(s))
        /\ \A g \in Guilds : SF_vars(SyncOf(s, g))
    /\ \A c \in Cmds : WF_vars(CmdStep(c) /\ pc[c] # "idle")

FairSpec == Spec /\ Fairness

----------------------------------------------------------------------------
(***************************************************************************)
(* Properties.                                                             *)
(***************************************************************************)

\* A date with a closing quote is behind the open date, whatever start-ups,
\* timezone moves, mode switches and stale targets do to the cursor: it is
\* what makes a market_closes row proof that its date is over
\* (scheduler.py:186-214).
QuotedDatesBehindCursor ==
    \A g \in Guilds : \A d \in quoted[g] : d < cursor[g]

\* No step closes a date that has a closing quote again, so its quote is
\* final, its vesting day counted once and its attendance not paid again.
QuotedDatesFinal ==
    [][\A g \in Guilds : \A d \in quoted[g] :
        settled'[g][d] = settled[g][d] /\ d \in quoted'[g]]_vars

\* Attendance is paid at most once for each time it was recorded: neither a
\* catch-up over many dates nor a cursor that moves back and forth invents
\* any (DESIGN.md:47, tick.py _clock_out_all).
AttendanceNeverInvented ==
    \A g \in Guilds : \A p \in Players :
        wages[g][p] + (IF p \in clocked[g] THEN 1 ELSE 0) <= clockins[g][p]

\* In calendar mode no date is skipped: between the first date a guild
\* closed and its open date every date was closed, outages included.
NoDateSkipped ==
    \A g \in Guilds : \A d \in Days :
        (d < cursor[g] /\ \E e \in Days : e <= d /\ settled[g][e] > 0)
            => settled[g][d] > 0

\* In calendar mode the open date never runs ahead of the local date, so no
\* date is closed before it is over.
CursorNotAhead == \A g \in guilds : cursor[g] <= today

\* Once the bot is ready after a start in calendar mode, every guild it knew
\* has no date left open from before that start (setup_hook: readiness waits
\* for it).  Commands and sweeps see only guilds caught up to some date that
\* was today since the last start.
ReadyMeansCaughtUp ==
    mode = "calendar" /\ alive = "up" => \A g \in guilds : cursor[g] >= startedOn

\* A command never acts on a date before the local date at which it arrived,
\* although other commands in flight with an older date may move the cursor
\* back between its hook and its own transaction's turn (bot.py:109-111).
\* It holds because the lock is handed on in order of arrival.
NoActionOnStaleDay ==
    \A c \in Cmds :
        pc[c] = "act" /\ Holds(c) /\ mode = "calendar"
            => cursor[at[c]] >= target[c]

\* Every guild is finally open on the local date and stays there, however
\* many sweeps were dropped, failed or were cut off by a crash.
EventuallyCurrent ==
    \A g \in Guilds : <>[](g \in guilds => cursor[g] = today)

\* No command waits for ever: the lock is handed on in order, even past
\* failing sweeps.
CommandsFinish == \A c \in Cmds : pc[c] # "idle" ~> pc[c] = "idle"

----------------------------------------------------------------------------
\* The abstract calendar, of which a date is final once it has a quote.
Calendar == INSTANCE OpenDates WITH
    Dates <- Days, date <- cursor, closed <- settled, final <- quoted

\* Whatever process moves a guild's cursor, it closes the dates it passes
\* once and in order, or else corrects the calendar without closing any and
\* without reopening a date that has a quote (scheduler.py synchronize_guild
\* and run_one, $setday, $forcetick, bootstrap).
ClosesInOrder == Calendar!Spec

----------------------------------------------------------------------------
(***************************************************************************)
(* What the documentation says and the code does not do.                   *)
(***************************************************************************)

\* scheduler.py:4-5 and README.md:161: catch-up never pays a date twice.
DatePaidOnce ==
    \A g \in Guilds : \A p \in Players :
        wages[g][p] = Cardinality(paidOn[g][p])

\* DESIGN.md:55: weekly rolling must not duplicate on restarts.
WeekRolledOnce == \A g \in Guilds : \A w \in Weeks : rolled[g][w] <= 1
=============================================================================
