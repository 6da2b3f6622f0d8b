# Tendies in TLA+

Tendies is a Discord bot that runs one simulated economy per server (guild):
players take jobs, clock in, found companies, raise money, buy each other's
companies, and once a day a *close* pays wages and produces revenue. This
directory holds its specifications: modules checked by TLC and theorems about
them proved by TLAPS. Paths below are relative to `src/tendies/`
unless they begin with `DESIGN.md` or `README.md` (the repository's own).

## The system

| Part | State it keeps | Operations | What makes it correct |
|---|---|---|---|
| `scheduler.py`, `bot.py`, `db.py` | per guild `game_day`; APScheduler jobs; one process-wide FIFO transaction lock | start-up catch-up, midnight and 60 s sweeps, the hook before each command, `synchronize_guild` | each date is closed once, in order, not before it is over; a settled date stays settled; no command works on a stale date; every guild gets to today |
| `gameday.py` | none | weekdays, weeks, business-day arithmetic | pure |
| `tick.py` | whole guild | `run_tick`: vest, produce, recession cut, payrolls, bankruptcy, clock-out, quotes, advance | money is conserved, nobody is overdrawn, grants vest on schedule |
| `money.py` | pool, wallets, treasuries, ledger | taxes, largest-remainder splits, transfers, prints | no unit appears or disappears |
| `lifecycle.py`, `lookups.py` | companies and what hangs on them | winding up, cap tables, ownership checks | a dissolved company leaves nothing behind |
| `services/companies.py`, `services/employment.py` | companies, jobs, applications, employments, grants, profiles | found, post, apply, hire, fire, quit, promote, clock in and out | one job each, never at one's own company; attendance is honoured |
| `services/investment.py` | rounds, holdings | open, invest, close, deposit, dividend | shares match what was paid; cap table equals share count |
| `services/acquisitions.py` | offers | offer, accept, decline | re-checked at acceptance; never below book value |
| `services/economy.py`, `events.py`, `valuation.py` | `ServerState`, weekly events, closing quotes | bootstrap, print, tax rate, weekly roll, quotes, statistics | a week is rolled once; quotes are final |
| streaks and reminders (`services/employment.py`, `scheduler.py`, `cogs/player.py`) | `PlayerProfile` | streak and milestones at clock-in, the opt-in question, reminder job | milestones once, at most one ping per date |
| `ops.py`, `health.py` | files | lease, backup, restore, heartbeat | never two writers; nothing is replaced that is not saved; healthy means serving |
| `cogs/`, `discordutil.py`, presentation | open conversations, in memory | parse, ask, confirm, render | a confirmed action still fits when it runs |

**How they interact.** Everything runs in one asyncio process. Whatever touches
the database does so in `Database.session`, one transaction under one
`asyncio.Lock` that is granted in order of arrival, so transactions are
atomic and processes interleave *between* them. A command takes three: bootstrap
of the guild and calendar synchronization (both by the hook, with a date read
once before them), then its own. Sweeps take one to list the guilds and one per
guild, with the date read before the lock is asked for. A crash loses what is
queued and keeps what has committed.

**What is hard.** The date a process works with is older than the transaction
that uses it. The cursor `game_day` can move backwards (snap-back after an
accelerated playtest, a westward timezone move, a stale date), and only closing
quotes tell which dates are settled. Offers, applications and funding rounds are
checked twice because everything they refer to moves in between. Divisions,
recession cuts, partial tranches and vesting must not lose or mint a unit.
Reminders are marked before they are sent. Conversations read in one transaction
and act minutes later in another. A restore replaces files that a crash left in
the middle of a checkpoint while a backup may be reading them. `PROJECT.json` lists these
hazards with the lines where they bite and the properties aimed at them.

## Modules

**`GameDay`** is `gameday.py` with integers for dates; date 0 is a Monday.

**`Scheduler`** is the calendar of all guilds and every process that moves it.
`queue` is the lock. A process is at `pc`, works for guild `at`, and holds the
`target` it read before it queued. One action is one transaction: `SweepList`,
`SweepSync`, `Boot`, `CmdSync`, then the command itself (`ClockIn`, `ClockOut`,
`Found`, `SetDay`, `ForceTick`, or `CmdEnd` for everything that touches nothing
here, for errors and for failures). `SettleThrough` is the loop of
`synchronize_guild`: one transaction over several dates. `Midnight` moves the
clock and starts the midnight job or drops it (still running, or misfired).
`SweepFail` is a transaction that rolls back: periodic sweeps go on, start-up
aborts. Of a settlement the module keeps which dates were closed, whose
attendance was paid and which dates have closing quotes. `settled`, `wages`,
`paidOn`, `clockins`, `rolled`, `startedOn` are history.

**`OpenDates`** is what the calendar promises, without processes, clocks or
restarts: each guild has one open date; it is closed together with all dates up to
the next open one, which may make some of them final; it may otherwise be moved, but
never onto or before a final date. `Scheduler` implements it (`ClosesInOrder`) with
`cursor` for the open date and the dates that have closing quotes as final.

**`Money`** is the arithmetic: tax, `ProrataSplit` (largest remainder), vesting and
tranche targets, the recession cut. Money and shares are whole numbers, rates
whole percents. A product the code computes in floats may come out one lower than
the exact floor (`FloatFloor`). `MCMoney` walks through all small inputs.

**`Economy`** is one guild: one action per command of the services, and the
whole close in `TickOpen` (business date) or `TickClosed` (weekend). A command
that raises rolls back and is no action. Choices:

- `Init` is a guild some days old, so that wallets hold savings and some players
  qualify as investors; from a fresh guild that takes days of work per player.
- When a close happens is `Scheduler`'s subject; here it may happen any time.
- `income` is the trailing income capped at the threshold; the 30-day window never
  slides within the few days of a run. Streak bonuses may come at any clock-in
  (`Attendance` says when they do). Event multipliers are arbitrary.
- Ties in a state payroll fall to the older employment row; the model allows any
  order. Private ties fall to the smaller user id, as in the code.
- The ledger and closing quotes are left out; the inflation index is in `Commands`.
- `Next` is `DirectStep`, what takes one transaction and no conversation, and
  `AskedStep`, what its author is asked about first.
- `MaxInt` plays `MAX_INT64`.

**`Attendance`** is one player's profile: streak, milestones, the question of the
first clock-in that waits up to a minute while other commands run, `$reminders`,
and the reminder job split where it commits: `Remind` marks, `Ping` sends, and a
crash may come between. The calendar may move back; jobs come and go.

**`Commands`** puts the commands that converse on top of `Economy`. `$print` and
`$quit` show a preview and wait for a confirmation, `$postjob` asks for the fields
(twice, if they are malformed) and a description. `chat` is where each open
conversation is and what it remembers; between its steps anything may happen, and
an answer, a refusal and a timeout may come at any point. The action at the end is
`Economy`'s own, so `ActsAsEconomy` (`Economy`'s `Spec`, with `chat` and `index`
hidden) says that nothing is done on the strength of an old check alone. The
inflation index is a fraction here, a float in the code.

**`Operations`** is one deployment on its host. The database is the set of commits
in its main file and in its `-wal` file; both the bot and a restore take the lease,
a backup does not. A backup is `Copy`, `Save`, retention, `Return`; a restore is `Stage`, the
same for the pre-restore backup, then `UnlinkWal` and `ReplaceMain`; each
may fail or be killed between any two. Retention is `List`, which sorts the
directory and remembers what is beyond the newest (`doomed`), and one `Unlink` per
file, between which the other tool may save, list and delete; a file that is gone
by then is an error (`Fail`). What SQLite does on its own is external:
a checkpoint at any time, and one by the last connection that closes, unless the
main file was replaced under it (SQLite compares the inode). A connection whose
`-wal` file is unlinked goes on reading it (`handle` = `"old"`, `ghost`). The heartbeat
reads `is_ready`, waits for a database session, and writes; `Healthy` is what
`check_health` accepts. `health` is the age of a file that says ready and names a
live process, and `Stale` for any other file, for `check_health` refuses those
whatever their age. `bot.close()` is `Close` (cancel the heartbeat, write not ready,
or fail to: `"unannounced"`), `LogOut` (`super().close()` clears `is_ready`),
`Stop` (dispose of the engine, give up the lease, end), with `CloseFails` for an
exception in either, which gives up the lease with the connections still open. Processes die; the disk keeps what was written.

**`SchedulerProofs`**, **`EconomyProofs`**, **`CommandsProofs`**,
**`OperationsProofs`**, **`AttendanceProofs`** and **`MCMoneyProofs`** prove theorems about
the modules they are named after. **`MoneyProofs`** is the lemmas about sums, splits and
roundings that the others need, and **`EconomyLedger`** what `Economy` promises of money
and shares. `MCScheduler`, `MCEconomy`,
`MCAttendance`, `MCCommands` and `MCOperations` give values to constants. `Foo_Bar` definitions, commented
"Changed form", are variants of `Foo` as a bug would have it: with `Foo`
replaced by one, TLC finds the property violated, which shows that the property
depends on that piece of the code. No specification uses them.

## Runs

| Run | Asks | Bounds |
|---|---|---|
| `scheduler_calendar` | no date skipped or closed early; no stale command; ready means caught up | 1 guild, 2 concurrent commands out of 3, 1 crash, Friday to Monday |
| `scheduler_restarts` | settled dates stay settled, attendance is not invented, and `OpenDates` is implemented, when restarts switch the clock mode or move the zone west | 1 guild, 1 command at a time out of 3, 2 crashes, Sunday to Tuesday |
| `scheduler_live` | every guild gets to today and stays; every command ends | 2 guilds, 1 command, 1 crash, unboundedly many failures |
| `economy_labor` | employment, vesting, streak bonuses, short payrolls, bankruptcy | 2 players, 1 company, 1 posting, Wednesday to Sunday |
| `economy_capital` | rounds, dividends, a raise, offers, acquisitions | 2 players, 2 companies, 1 posting, Friday into the weekend |
| `commands` | what is asked, answered late, asked twice or cut off, with prints, recession and events | 2 conversations, 2 players, 1 company, 2 postings, one close |
| `attendance` | streaks, milestones, reminders | 6 dates with a weekend, 1 rewind, 1 use of `$reminders` |
| `money` | splits and recession cuts | 3 holders, 13 units, 6 shares each |
| `operations` | restores, backups, crashes, heartbeat | 1 commit, 3 snapshots and perhaps a backup from another host, retention of 1 by the timer and 2 by a restore, heartbeats stale after 1 tick |

Three more runs check what a document says and end in a counterexample (next
section). Why the bounds are enough: guilds share nothing but the lock, so one
guild with two commands and the sweeps has every pair of orders there is, and the
second guild matters only to liveness (a sweep that must get past a failing guild).
Bankruptcy needs as many closes as `Grace` (3) and there are three; a grant needs
a period that does not divide it (5 shares over 3 days); competing offers need two
companies and an inherited posting needs an applicant who owns the acquirer, hence
two players. Two conversations are enough for one to overtake the other, and either
may be the same command of the same player; with the one company of this run only a
bankruptcy comes between a `$postjob` question and its posting, and what a dilution or an
acquisition does there is left to the theorem `Implements`. Three snapshots are the
pre-restore backup and two by the timer, or of an earlier restore that failed,
before or after it; with a retention of 1 and 2 each tool deletes backups taken
here by the other, and by lists the other has overtaken. The properties of `Operations`
speak of each commit by itself and no step compares commits, so one is enough,
next to the one in the backup from another host.

The bounds are `FirstDay`, `LastDay`, `MaxCalls`, `MaxCrashes`,
`MaxJobs`, `MaxRewinds`, `MaxSwitches`, `MaxCommits`, `MaxCopies` and the sets of amounts. Deadlock is
checked in the calendar, attendance and operations runs; the economy stops at `LastDay` when
nobody can afford anything, and `MCMoney` stops at its largest amount.

**Fairness** (liveness run only). The holder of the lock ends its transaction
(no transaction waits for anything but the database), so each step of a queued
process is weakly fair; the interval trigger keeps starting the catch-up job, and systemd
keeps restarting the process. A transaction may fail any number of times but not
for ever, which is strong fairness of `SweepList` and of `SweepSync` for each
guild. Nothing is assumed of the midnight job, of commands, or of crashes.

## Where code and documents disagree

- `scheduler_paid_once`: in a guild without closing quotes, a command that read
  the date before midnight moves the cursor back onto the date a sweep has just closed; players
  clock in again and the date is paid twice (`scheduler.py:4-5`, `README.md:161`
  say it cannot). With a private company the newest quote prevents it, which is
  what `QuotedDatesFinal` proves.
- `scheduler_week_rolled`: a snap-back over a Monday makes the next opening roll
  that week's events a second time (`DESIGN.md:55`).
- `economy_vesting`: `_vest_grants` mints without the overflow check that
  `money.py:39-40` asks for and that every other mint has. The close is then
  refused, and its retries too.

Not run as such: `README.md:32` and `DESIGN.md:45` promise that a start ahead of
today snaps back, and leave out that the code declines when a quote is of today or
later. The code is right to: `QuotedDatesFinal` rests on it.

`NothingLostUnsaved` has a condition, `copies - since < Fewest`: fewer backups were begun since
the restore's own than retention keeps (`since` is a history variable no action
reads). Beyond that, the pre-restore backup may be deleted before the restore is
done, and without the condition TLC finds commits lost in 18 steps: a bot whose
start failed still has the database open; the restore saves and unlinks its
`-wal` file; the timer, with a retention of 1, saves what is left and deletes the
restore's backup; the bot moves the commits to the main file as it closes; the
restore replaces that. With the default of 30, one a day, this takes a month
between two steps of a restore; `TENDIES_BACKUP_KEEP=1` is allowed.

Assumed of the environment in `Operations`: a write begun before the lease is given up
does not outlive it, and a backup that still reads an unlinked `-wal` file
ends before the bot starts again. `README.md:130` stops the bot and the poll timer for
a restore, but not the backup timer, so the two may overlap and the model lets them.

## What is proved

Every safety property of the passing runs is a theorem; what a run shows on a small
instance holds for all values of the constants that satisfy the module's assumptions.

### `SchedulerProofs`

From `SchedulerAssumption` (non-empty set of guilds, commands named differently from
sweeps, `FirstDay <= LastDay`, any modes, timezone moves, and bounds):

- `TypeCorrect`: `Spec => []TypeOK`. The one part that is not bookkeeping is that
  cursor and targets stay within the dates there have been, through settlement,
  snap-back, single ticks and `$setday`.
- `QuotedBehind`: `Spec => []QuotedDatesBehindCursor`. Invariant `QuoteInv` is
  this property together with "a guild that has no row yet has no quotes",
  without which bootstrapping would not preserve it. All steps of all processes
  are first reduced to five ways to move the calendar of one guild
  (`CursorMoves`, lemma `StepMoves`); the snap-back is the only
  one that lowers the cursor and its guard is just what the invariant needs.
- `QuotesFinal`: `Spec => QuotedDatesFinal`, an action property, from the same
  reduction: settlement closes dates from the cursor on, and quotes lie behind it.
- `Refines`: `Spec => ClosesInOrder`, `Scheduler` implements `OpenDates`. Under
  `TypeOK` and `QuoteInv` each of the five moves of the calendar is a `Close`
  (settlement and single ticks), a `Correct` (snap-back, `$setday`, bootstrap:
  lemmas `SettleCloses`, `MoveCorrects`) or a stutter. That the correction keeps
  clear of final dates is again the guard on the snap-back.
- `AttendancePaidOnce`: `Spec => []AttendanceNeverInvented`, inductive by itself
  once types are known; the steps reduce to `AttendanceMoves`.
- `ActsOnCurrentDay`: `Spec => []NoActionOnStaleDay`. It rests on the order of the lock. `LineInv`
  says that the queue holds exactly the processes that are waiting, each once;
  joining last and leaving first are lemmas about who is before whom
  (`JoinsLast`, `LeavesFirst`, `RejoinsLast`). `DateInv` orders the dates they carry: a command
  past its hook stands before a guild that has got to its date (`CaughtUp`), and
  whoever is before it in the line and still to synchronize brings a date no earlier
  (`InOrder`, which must also order the hook's first transaction to be inductive).
- `NotAhead`: `Spec => []CursorNotAhead`, if `Modes = {"calendar"}` and the zone does not move
  west: no process has a date later than today (`TargetsSeen`). Both hypotheses are needed:
  an accelerated playtest runs ahead on purpose, and a start in a zone further west
  finds the cursor ahead. A deployment sets both once, in its environment.
- `NoneSkipped`: `Spec => []NoDateSkipped`, if `Modes = {"calendar"}`, wherever the zone moves
  (`SettledInv`: a guild without a row has closed nothing). In accelerated mode `$setday`
  may jump.
- `ReadyIsCaughtUp`: `Spec => []ReadyMeansCaughtUp`. `StartInv`: while the process starts, its sweep
  alone runs, and a guild that is behind is one the sweep has still to settle.
  `DateInv` is needed after that: nothing moves a guild back before the start.

### `MoneyProofs` and `MCMoneyProofs`

Totals are folds over finite sets. The library's induction on finite sets
takes the predicate as a parameter, which the installed provers cannot
instantiate; lemma `Induct` puts a set of subsets in its place, and gets it from
the well-foundedness of strict inclusion. `SumOver` is then shown to be a sum in any
order (`SumMore`), additive, monotone and exchangeable (`SumSwap`), which the ledger needs
throughout. From `MCMoneyAssumption` (finitely many holders, natural numbers):

- `SplitsAreExact`: what the floors leave over is at most a nuggy for each
  holder with a remainder (`Leftovers`), and ranking by remainder, size and
  key is a strict order, so just as many are picked (`Ranking`, `LeftoversGiven`).
- `SplitsAreFair`: nobody is a nuggy away from the quota (`SplitNear`), and of
  two quotas with the same floor the larger has the larger remainder (`SplitOrdered`).
- `RevenueIsCapped`: floors of the shares of a cap do not exceed it, whichever way the
  floats fall, because `FloatFloor` errs downwards (`RevenueCapped`).

### `EconomyProofs` and `EconomyLedger`

From `EconomyAssumption`: `State` is not a company, players and
companies are finitely many, amounts and rates are numbers in their ranges, grants
are offered unvested, savings come out of the starting pool, a company is
founded with at least one share and no more than `MaxInt`, as the code's constants and its parsers
(`money.py`, `config.py`) have it. One conjunct is a fact of arithmetic that the provers
do not know: powers of the fee multiplier are natural.

- `OneJob`, `OwnersElsewhere` and `VestsOnSchedule`: `OneJobEach`,
  `NobodyEmploysThemselves` and `GrantsOnSchedule` are invariants. `StaffInv` adds to
  them that two rows never name the same player and that every employer but the
  State is active: without the latter a company could be founded with staff already
  in place. All steps are first reduced to six ways to change the table
  (`StaffMoves`).
- `OffersStayLive`: `Spec => []OffersLive`, by `OfferInv` and the reduction `OfferMoves`:
  every step that retires a company removes the offers that name it.
- `NobodyLosesADay`: `Spec => AttendanceHonored`, from `StaffInv` and `StaffMoves`: a row
  is removed before the close only if it is not clocked in.
- `AccountsHold`, `MoneyConserved`, `CapTablesExact`, `RoundsWithinTerms`, `WoundUp`:
  `TypeOK`, `Conserved`, `CapTableExact`, `RoundWithinTerms` and `RetiredLeavesNothing` are
  invariants. They are proved together, as `BooksOK` (lemma `BooksBalance`), for
  each needs others: that an invested tranche overdraws nobody and mints no
  more than is storable needs the terms of its round, that a merger leaves no holder needs the cap
  table, that a wound up company gets nothing back needs the offers and rows to be consistent. The close is
  taken apart stage by stage (revenue, payroll, bankruptcy, vesting: `TheClose`).
- `AboveBook`: `Spec => NeverBelowBook`. The price is re-checked against
  the treasury in the transaction that absorbs it.
- `PaidStaffSurvives`: `Spec => PaidStaffMeansSurvival`. A treasury that cannot pay all wages pays
  somebody at least a nuggy less (`SomebodyShort`), and the net pay grows with the gross (`NetGrows`).
  The property speaks of what the wage less a nuggy would leave
  after tax, because the tax is rounded down and may hide that nuggy.

### `CommandsProofs`

From `EconomyAssumption` and `CommandsAssumption`:

- `Implements`: `TalkSpec => ActsAsEconomy`, so the invariants of `Economy` hold
  under the conversations. `ChatInv` says that an amount, a wage or a
  grant remembered over a wait is still one that may be asked for.
- `QuitsTheJobNamed`: `TalkSpec => NamedQuit`.
- `IndexTrue`: `TalkSpec => []IndexIsSupplyRatio`: no action but a print changes the supply,
  and a print computes the index from the supply of its own transaction.

### `OperationsProofs`

From `OperationsAssumption`:

- `RestoresExactly` and `BotKeepsCommits`: `Spec => []RestoredExactly` and
  `Spec => UpKeepsCommits`. `LeaseInv` says who holds the lease when, `RestoreInv` what a
  restore has got done; the point is that a connection which outlives the removal
  of its `-wal` file must not write to the file that replaces the main one.
- `HealthyServes`: `Spec => []HealthyMeansServing`. `HealthInv` says that a file which
  `check_health` would believe is true, or was left by a bot that could not
  take it back before it logged out, and is never younger than the session
  it was written after. Logged in is what `is_ready` says: neither the code nor
  the theorem notices a gateway that is lost later.
- `KeepsNewest`: `Spec => NewestKept`. `CopyInv`: no two backups of this host have the same
  stamp, saved or about to be. `DoomedInv`: what is on a list of expired backups has
  `Fewest` newer ones in the directory as it is now, however old the list. A step that
  deletes keeps this for all the others, because what it deletes has as many
  newer ones of its own.
- `NothingLost`: `Spec => NothingLostUnsaved`, for any retention and any number of backups
  taken and deleted before. `DoomedInv` also says that what is on a list is older
  than the last `Fewest` snapshots; so within the window no backup begun since the
  restore's own is deleted (`OwnGrows`). `SafeInv`: from that backup
  to the replacement a restore finds nothing in the database that these
  backups lack, and what an old connection may bring back from an unlinked
  `-wal` file is in them as well. The window closes as backups are begun, and
  opens again only with the next restore's own backup, which holds the whole
  database (`WindowMoves`).

### `AttendanceProofs`

From `AttendanceAssumption`:

- `RemindsOnce`: `Spec => []RemindedOncePerDay`. `PingInv`: no date after the marked one
  has had a ping, and a ping still to be sent has not been sent.
- `StreaksAreEarned`: `Spec => []StreakEarned`. `StreakInv` is the property with the
  types of what it speaks about; the work is in the lemmas on business days, which
  number them (`Index`, `Nth`) so that stepping back n of them is subtraction.
- `MilestonesEarnedOnce`: `Spec => []MilestonesOnce`, from `StreakInv` and `ClaimInv` (what is claimed is
  the highest milestone paid, `MilestonesAscend`): a milestone paid was earned
  when it was paid, and attendance is not taken back.
- `RecordTypes`: `Spec => []TypeOK`.

### What TLC alone checks

Liveness (`EventuallyCurrent`, `CommandsFinish`), which is out of the prover's reach;
that each action can happen at all, and the three counterexamples. Beyond the
window of `NothingLostUnsaved` commits can be lost, as said above.

## Plan

1. `Events` and `Valuation`: weekly roll, admin events replacing and clamping,
   closing quotes with their prices.
2. `$hire` by letter: the letter is resolved against the applicants pending when the
   command runs, not against the list the owner was shown.
3. Proofs: types and properties of what 1. adds.

Not modelled: chat parsing and replies, texts and formatting, read-only
statistics (net worth, leaderboard, `$stats`), Discord itself, power loss (of SQLite only its files and what it does with
them at a close, in `Operations`; elsewhere a transaction is atomic and durable),
release stamps and the deployment scripts. The table of
components in `PROJECT.json` gives the reason for each.
