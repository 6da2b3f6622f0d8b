----------------------------- MODULE Attendance -----------------------------
(***************************************************************************)
(* One player's attendance record: the clock-in streak with its one-time   *)
(* milestones, the opt-in question of the first clock-in, and the reminder *)
(* pings (services/employment.py, scheduler.py, cogs/player.py).  Players  *)
(* do not share any of this, so one is enough.  Jobs and the calendar      *)
(* change as Economy and Scheduler let them; whether the pool covers a     *)
(* bonus is left open.                                                     *)
(***************************************************************************)
EXTENDS GameDay, Sequences

CONSTANTS
    Milestones,         \* config.STREAK_MILESTONES, the days only
    FirstDay, LastDay,  \* bound: dates are FirstDay .. LastDay
    MaxRewinds,         \* bound: times the cursor moves back
    MaxSwitches         \* bound: uses of $reminders

Days == FirstDay .. LastDay
Never == FirstDay - 10      \* no date yet; before every date
Streaks == 0 .. Cardinality(Days)

ASSUME AttendanceAssumption ==
    /\ FirstDay \in Int /\ LastDay \in Int /\ FirstDay <= LastDay
    /\ Milestones \subseteq Nat \ {0}
    /\ MaxRewinds \in Nat /\ MaxSwitches \in Nat

VARIABLES
    day,        \* ServerState.game_day
    employed, clocked,
    streak,     \* PlayerProfile.clockin_streak
    last,       \* PlayerProfile.last_clockin_day
    claimed,    \* PlayerProfile.milestone_claimed
    optIn,      \* PlayerProfile.reminder_opt_in
    prompted,   \* PlayerProfile.reminder_prompted
    reminded,   \* PlayerProfile.last_reminded_day
    asking,     \* is a clock-in waiting for the answer to its question?
    sending,    \* the date a committed reminder sweep has still to ping for
    attended,   \* history: dates clocked in on
    paid,       \* history: milestones paid
    pings,      \* history: pings sent, by the date they are for
    rewinds, switches

job      == <<employed, clocked>>
progress == <<streak, last, claimed>>
choice   == <<optIn, prompted, asking>>
reminder == <<reminded, sending, pings>>
history  == <<attended, paid>>
bounds   == <<rewinds, switches>>
vars     == <<day, job, progress, choice, reminder, history, bounds>>

\* A player who has just been hired and never clocked in.
Init ==
    /\ day = FirstDay
    /\ employed = TRUE /\ clocked = FALSE
    /\ streak = 0 /\ last = Never /\ claimed = 0
    /\ optIn = FALSE /\ prompted = FALSE /\ asking = FALSE
    /\ reminded = Never /\ sending = Never
    /\ attended = {} /\ paid = <<>>
    /\ pings = [d \in Days |-> 0]
    /\ rewinds = 0 /\ switches = 0

----------------------------------------------------------------------------
\* The calendar and the job, as far as they concern the player.

\* A close, of a business date or not.
Close ==
    /\ day < LastDay
    /\ day' = NextDay(day)
    /\ clocked' = FALSE
    /\ UNCHANGED <<employed, progress, choice, reminder, history, bounds>>

\* The snap-back of synchronize_guild; $setday forwards is left to Scheduler.
Rewind ==
    /\ rewinds < MaxRewinds
    /\ rewinds' = rewinds + 1
    /\ \E d \in FirstDay .. (day - 1) : day' = d
    /\ UNCHANGED <<job, progress, choice, reminder, history, switches>>

\* Hired, fired, quit, or the employer wound up; a profile outlives its jobs.
\* None of these ends the job of somebody clocked in (Economy).
ChangeJob ==
    /\ ~clocked
    /\ employed' = ~employed
    /\ UNCHANGED <<day, clocked, progress, choice, reminder, history, bounds>>

----------------------------------------------------------------------------
\* $clockin and $clockout.

\* Changed form: clocking in again on the same date counts again.
NextStreak_SameDay ==
    IF last \in {day, BusinessDaysBefore(day, 1)} THEN streak + 1 ELSE 1

NextStreak ==
    CASE last = BusinessDaysBefore(day, 1) -> streak + 1
      [] last = day -> streak
      [] OTHER -> 1

\* The milestones that are reached and not claimed; the first one is tried.
Due(n) == {m \in Milestones : claimed < m /\ m <= n}

\* Changed form: a streak that starts anew earns its milestones anew.
PayMilestone_Anew(n) ==
    \/ /\ UNCHANGED <<claimed, paid>>
    \/ \E m \in Milestones :
        /\ m = n
        /\ claimed' = m
        /\ paid' = Append(paid, m)

\* The pool pays the first milestone due, or cannot cover it and skips it.
PayMilestone(n) ==
    \/ /\ UNCHANGED <<claimed, paid>>
    \/ \E m \in Due(n) :
        /\ \A k \in Due(n) : m <= k
        /\ claimed' = m
        /\ paid' = Append(paid, m)

\* The first clock-in ever asks whether the player wants to be reminded.
Ask ==
    /\ prompted' = TRUE
    /\ asking' = (asking \/ ~prompted)
    /\ UNCHANGED optIn

ClockIn ==
    /\ IsBusinessDay(day)
    /\ employed
    /\ Ask
    /\ clocked' = TRUE
    /\ IF clocked
       THEN UNCHANGED <<progress, history>>
       ELSE /\ streak' = NextStreak
            /\ last' = day
            /\ attended' = attended \cup {day}
            /\ PayMilestone(NextStreak)
    /\ UNCHANGED <<day, employed, reminder, bounds>>

ClockOut ==
    /\ clocked
    /\ clocked' = FALSE
    /\ UNCHANGED <<day, employed, progress, choice, reminder, history, bounds>>

SetReminderOptIn(wanted) ==
    /\ optIn' = wanted
    /\ prompted' = TRUE

\* confirm returns: a reaction or a yes in time, or a no or the timeout.
Answer ==
    /\ asking
    /\ asking' = FALSE
    /\ \E yes \in BOOLEAN : SetReminderOptIn(yes)
    /\ UNCHANGED <<day, job, progress, reminder, history, bounds>>

\* $reminders on or off, while a question may be waiting.
Reminders ==
    /\ switches < MaxSwitches
    /\ switches' = switches + 1
    /\ \E on \in BOOLEAN : SetReminderOptIn(on)
    /\ UNCHANGED <<day, job, progress, asking, reminder, history, rewinds>>

----------------------------------------------------------------------------
\* The reminder job: marks in one transaction, pings after it has committed.

\* Changed form: reminded on this date is no reason not to remind.
DueForReminder_Again ==
    IsBusinessDay(day) /\ employed /\ ~clocked /\ optIn /\ reminded <= day

DueForReminder ==
    IsBusinessDay(day) /\ employed /\ ~clocked /\ optIn /\ reminded < day

Remind ==
    /\ sending = Never
    /\ DueForReminder
    /\ reminded' = day
    /\ sending' = day
    /\ UNCHANGED <<day, job, progress, choice, pings, history, bounds>>

Ping ==
    /\ sending # Never
    /\ pings' = [pings EXCEPT ![sending] = @ + 1]
    /\ sending' = Never
    /\ UNCHANGED <<day, job, progress, choice, reminded, history, bounds>>

\* The send fails or the process crashes; a crash drops the question too.
LosePing ==
    /\ sending # Never
    /\ sending' = Never
    /\ UNCHANGED <<day, job, progress, choice, reminded, pings, history, bounds>>

Crash ==
    /\ asking \/ sending # Never
    /\ asking' = FALSE
    /\ sending' = Never
    /\ UNCHANGED <<day, job, progress, optIn, prompted, reminded, pings, history, bounds>>

Next ==
    \/ Close
    \/ Rewind
    \/ ChangeJob
    \/ ClockIn
    \/ ClockOut
    \/ Answer
    \/ Reminders
    \/ Remind
    \/ Ping
    \/ LosePing
    \/ Crash

Spec == Init /\ [][Next]_vars

----------------------------------------------------------------------------
\* Every variable has its type.
TypeOK ==
    /\ day \in Days
    /\ {employed, clocked, optIn, prompted, asking} \subseteq BOOLEAN
    /\ streak \in Streaks
    /\ {last, reminded, sending} \subseteq Days \cup {Never}
    /\ claimed \in Milestones \cup {0}
    /\ attended \subseteq Days
    /\ paid \in Seq(Milestones)
    /\ pings \in [Days -> Nat]
    /\ rewinds \in 0 .. MaxRewinds /\ switches \in 0 .. MaxSwitches

\* A streak of n stands for n consecutive business dates with a clock-in, the
\* last one at its end: weekends do not break it, and neither clocking out
\* and in again nor a cursor that moves back lengthens it (models.py:92-93).
StreakEarned ==
    \A k \in 0 .. (streak - 1) : BusinessDaysBefore(last, k) \in attended

\* Milestones are paid in ascending order, so each at most once, although one
\* is tried again while the pool is dry and streaks break and grow anew; and
\* none is paid that no run of dates clocked in on has earned (config.py:86).
MilestonesOnce ==
    /\ \A i, j \in DOMAIN paid : i < j => paid[i] < paid[j]
    /\ \A i \in DOMAIN paid : \E d \in attended :
        \A k \in 0 .. (paid[i] - 1) : BusinessDaysBefore(d, k) \in attended

\* At most one ping for a date, whatever crashes, is late or is rewound
\* (DESIGN.md:49, scheduler.py:272-273).
RemindedOncePerDay == \A d \in Days : pings[d] <= 1
=============================================================================
