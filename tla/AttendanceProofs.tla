-------------------------- MODULE AttendanceProofs --------------------------
(***************************************************************************)
(* A player is reminded at most once for a date, a streak counts business  *)
(* days that were all worked, and every milestone is paid once, and only   *)
(* for such a streak.                                                      *)
(***************************************************************************)
EXTENDS Attendance, FiniteSetTheorems, TLAPS

\* A ping that is still to be sent has not been sent, and no date after the
\* marked one has had a ping or is about to get one: the mark is committed
\* before the ping, and only a later date moves it.
PingInv ==
    /\ day \in Days
    /\ reminded \in Int
    /\ sending # Never => sending \in Days /\ sending <= reminded
    /\ pings \in [Days -> Nat]
    /\ \A d \in Days : pings[d] <= 1
    /\ sending # Never => pings[sending] = 0
    /\ \A d \in Days : reminded < d => pings[d] = 0

\* Days are numbers, Never is none of them, and the next one is among them
\* until the last.
LEMMA DaysAre ==
    /\ Days \subseteq Int
    /\ Never \in Int
    /\ Never \notin Days
    /\ FirstDay \in Days
    /\ \A d \in Days : d < LastDay => NextDay(d) \in Days
BY AttendanceAssumption DEF Days, Never, NextDay

\* Whatever the player, the calendar and the job do, neither the mark nor the
\* pings change.
LEMMA OthersKeep ==
    ASSUME PingInv,
           Close \/ Rewind \/ ChangeJob \/ ClockIn \/ ClockOut \/ Answer \/ Reminders
    PROVE  day' \in Days /\ UNCHANGED reminder
<1> USE DEF reminder, PingInv
<1>1. CASE Close
  BY <1>1, DaysAre DEF Close
<1>2. CASE Rewind
  BY <1>2, AttendanceAssumption DEF Rewind, Days
<1>3. CASE ChangeJob \/ ClockIn \/ ClockOut
  BY <1>3 DEF ChangeJob, ClockIn, ClockOut
<1>4. CASE Answer \/ Reminders
  BY <1>4 DEF Answer, Reminders
<1> QED
  BY <1>1, <1>2, <1>3, <1>4

\* No step sends a ping twice, or for a date at or behind the mark.
LEMMA StepPings == PingInv /\ [Next]_vars => PingInv'
<1> SUFFICES ASSUME PingInv, [Next]_vars
             PROVE  PingInv'
  OBVIOUS
<1> USE DaysAre
<1>1. CASE Close \/ Rewind \/ ChangeJob \/ ClockIn \/ ClockOut \/ Answer \/ Reminders
  BY <1>1, OthersKeep DEF PingInv, reminder
<1>2. CASE Remind
  BY <1>2 DEF Remind, DueForReminder, PingInv
<1>3. CASE Ping
  BY <1>3 DEF Ping, PingInv
<1>4. CASE LosePing \/ Crash
  BY <1>4 DEF LosePing, Crash, PingInv
<1>5. CASE UNCHANGED vars
  BY <1>5 DEF vars, reminder, PingInv
<1> QED
  BY <1>1, <1>2, <1>3, <1>4, <1>5 DEF Next

\* At most one ping for a date, for any milestones, dates and bounds, whatever
\* crashes or fails between the mark and the ping and however often the
\* calendar moves back (remind_all_guilds in scheduler.py).
THEOREM RemindsOnce == Spec => []RemindedOncePerDay
<1>1. Init => PingInv
  BY DaysAre DEF Init, PingInv
<1>2. PingInv => RemindedOncePerDay
  BY DEF PingInv, RemindedOncePerDay
<1> QED
  BY <1>1, <1>2, StepPings, PTL DEF Spec

----------------------------------------------------------------------------
\* Milestones.

Ascending == \A i, j \in DOMAIN paid : i < j => paid[i] < paid[j]

\* What is claimed is the highest milestone paid.
ClaimInv ==
    /\ claimed \in Nat
    /\ paid \in Seq(Milestones)
    /\ \A i \in DOMAIN paid : paid[i] <= claimed
    /\ Ascending

\* A clock-in that pays a milestone pays one above those paid before.
LEMMA PaymentAscends ==
    ASSUME ClaimInv, NEW n, PayMilestone(n)
    PROVE  ClaimInv'
<1> USE AttendanceAssumption
<1>1. CASE UNCHANGED <<claimed, paid>>
  BY <1>1 DEF ClaimInv, Ascending
<1>2. ASSUME NEW m \in Due(n), claimed' = m, paid' = Append(paid, m)
      PROVE  ClaimInv'
  <2>1. m \in Milestones /\ m \in Nat /\ claimed < m
    BY DEF Due
  <2>2. paid' \in Seq(Milestones)
    BY <1>2, <2>1 DEF ClaimInv
  <2>3. /\ DOMAIN paid' = 1 .. Len(paid) + 1
        /\ DOMAIN paid = 1 .. Len(paid) /\ Len(paid) \in Nat
        /\ paid'[Len(paid) + 1] = m
        /\ \A i \in DOMAIN paid : paid'[i] = paid[i] /\ paid[i] \in Nat
    <3>1. paid \in Seq(Milestones) /\ DOMAIN paid = 1 .. Len(paid) /\ Len(paid) \in Nat
      BY DEF ClaimInv
    <3>2. \A i \in DOMAIN paid : paid[i] \in Nat
      <4>1. \A i \in DOMAIN paid : paid[i] \in Milestones
        BY <3>1
      <4> QED
        BY <4>1
    <3>3. /\ DOMAIN paid' = 1 .. Len(paid) + 1
          /\ paid'[Len(paid) + 1] = m
          /\ \A i \in DOMAIN paid : paid'[i] = paid[i]
      BY <1>2, <2>1, <3>1
    <3> QED
      BY <3>1, <3>2, <3>3
  <2>4. \A i \in DOMAIN paid' : paid'[i] <= m
    BY <2>1, <2>3 DEF ClaimInv
  <2>5. Ascending'
    BY <2>1, <2>3 DEF ClaimInv, Ascending
  <2> QED
    BY <1>2, <2>1, <2>2, <2>4, <2>5 DEF ClaimInv
<1> QED
  BY <1>1, <1>2 DEF PayMilestone

\* What is claimed stays the highest milestone paid.
LEMMA StepClaims == ClaimInv /\ [Next]_vars => ClaimInv'
<1> SUFFICES ASSUME ClaimInv, [Next]_vars
             PROVE  ClaimInv'
  OBVIOUS
<1>1. CASE ClockIn
  <2>1. CASE clocked
    BY <1>1, <2>1 DEF ClockIn, progress, history, ClaimInv, Ascending
  <2>2. CASE ~clocked
    BY <1>1, <2>2, PaymentAscends DEF ClockIn
  <2> QED
    BY <2>1, <2>2
<1>2. ASSUME ~ClockIn
      PROVE  UNCHANGED <<claimed, paid>>
  BY <1>2 DEF Next, Close, Rewind, ChangeJob, ClockOut, Answer, Reminders, Remind, Ping,
              LosePing, Crash, vars, progress, history
<1> QED
  BY <1>1, <1>2 DEF ClaimInv, Ascending

\* However streaks break and grow anew and the calendar moves back, and
\* whenever the pool is dry, milestones are paid in ascending order: none is
\* paid twice (clock_in in employment.py).
THEOREM MilestonesAscend == Spec => []Ascending
<1>1. Init => ClaimInv
  BY DEF Init, ClaimInv, Ascending
<1>2. ClaimInv => Ascending
  BY DEF ClaimInv
<1> QED
  BY <1>1, <1>2, StepClaims, PTL DEF Spec

----------------------------------------------------------------------------
\* Business days.

\* Which business day of all time d is, and the k-th one.
Index(d) == 5 * (d \div 7) + (d % 7)
Nth(k) == 7 * (k \div 5) + (k % 5)

\* The business days are numbered through.
LEMMA Numbered ==
    /\ \A d \in Int : IsBusinessDay(d) => Index(d) \in Int /\ Nth(Index(d)) = d
    /\ \A k \in Int : Nth(k) \in Int /\ IsBusinessDay(Nth(k)) /\ Index(Nth(k)) = k
BY DEF Index, Nth, IsBusinessDay, Weekday

\* They are numbered in their order.
LEMMA NumberedInOrder ==
    ASSUME NEW d \in Int, NEW e \in Int, IsBusinessDay(d), IsBusinessDay(e)
    PROVE  e < d <=> Index(e) < Index(d)
BY DEF Index, IsBusinessDay, Weekday

\* There are as many of them in between as their numbers say.
LEMMA Between ==
    ASSUME NEW d \in Int, NEW e \in Int, IsBusinessDay(d), IsBusinessDay(e), e <= d
    PROVE  Cardinality({x \in e .. (d - 1) : IsBusinessDay(x)}) = Index(d) - Index(e)
<1> DEFINE S == {x \in e .. (d - 1) : IsBusinessDay(x)}
           T == Index(e) .. (Index(d) - 1)
           f == [x \in S |-> Index(x)]
<1>0. Index(d) \in Int /\ Index(e) \in Int /\ Index(e) <= Index(d)
  <2>1. Index(d) \in Int /\ Index(e) \in Int
    BY Numbered
  <2>2. ~(Index(d) < Index(e))
    BY NumberedInOrder
  <2> QED
    BY <2>1, <2>2
<1>1. ASSUME NEW x \in S PROVE Index(x) \in T /\ x \in Int /\ Nth(Index(x)) = x
  <2>1. x \in Int /\ IsBusinessDay(x) /\ x < d /\ ~(x < e)
    OBVIOUS
  <2>2. Index(x) \in Int /\ Nth(Index(x)) = x
    BY <2>1, Numbered
  <2>3. Index(x) < Index(d) /\ ~(Index(x) < Index(e))
    BY <2>1, NumberedInOrder
  <2> QED
    BY <1>0, <2>1, <2>2, <2>3
<1>2. ASSUME NEW k \in T PROVE Nth(k) \in S /\ Index(Nth(k)) = k
  <2>1. k \in Int /\ Index(e) <= k /\ k < Index(d)
    BY <1>0
  <2>2. Nth(k) \in Int /\ IsBusinessDay(Nth(k)) /\ Index(Nth(k)) = k
    BY <2>1, Numbered
  <2>3. Nth(k) < d /\ ~(Nth(k) < e)
    <3>1. Index(Nth(k)) < Index(d) /\ ~(Index(Nth(k)) < Index(e))
      BY <1>0, <2>1, <2>2
    <3> QED
      BY <2>2, <3>1, NumberedInOrder
  <2> QED
    BY <2>2, <2>3
<1> HIDE DEF S, T
<1>3. f \in Bijection(S, T)
  <2>1. f \in [S -> T]
    BY <1>1
  <2>2. \A x, y \in S : f[x] = f[y] => x = y
    BY <1>1
  <2>3. \A k \in T : \E x \in S : f[x] = k
    BY <1>2
  <2> QED
    BY <2>1, <2>2, <2>3 DEF Bijection, Injection, Surjection, IsInjective
<1>4. IsFiniteSet(T) /\ Cardinality(T) = Index(d) - Index(e)
  <2>0. Index(e) \in Int /\ Index(d) - 1 \in Int
    BY <1>0
  <2>1. /\ IsFiniteSet(Index(e) .. (Index(d) - 1))
        /\ Cardinality(Index(e) .. (Index(d) - 1))
             = (IF Index(e) > Index(d) - 1 THEN 0 ELSE (Index(d) - 1) - Index(e) + 1)
    BY <2>0, FS_Interval, Zenon
  <2> QED
    BY <1>0, <2>1 DEF T
<1>5. IsFiniteSet(S) /\ Cardinality(S) = Cardinality(T)
  <2>1. IsFiniteSet(S)
    <3>1. IsFiniteSet(e .. (d - 1))
      BY FS_Interval
    <3> QED
      BY <3>1, FS_Subset DEF S
  <2>2. ExistsBijection(S, T)
    BY <1>3 DEF ExistsBijection
  <2> QED
    BY <2>1, <2>2, FS_Bijection
<1> QED
  BY <1>4, <1>5 DEF S

\* Counting back from a business day is counting down its number.
LEMMA CountBack ==
    ASSUME NEW d \in Int, IsBusinessDay(d), NEW n \in Nat
    PROVE  /\ BusinessDaysBefore(d, n) = Nth(Index(d) - n)
           /\ BusinessDaysBefore(d, n) \in Int
           /\ IsBusinessDay(BusinessDaysBefore(d, n))
           /\ Index(BusinessDaysBefore(d, n)) = Index(d) - n
<1> DEFINE P(e) == /\ IsBusinessDay(e)
                   /\ Cardinality({x \in e .. (d - 1) : IsBusinessDay(x)}) = n
           b == Nth(Index(d) - n)
<1>1. Index(d) \in Int /\ Nth(Index(d)) = d /\ Index(d) - n \in Int
  BY Numbered
<1>2. b \in Int /\ IsBusinessDay(b) /\ Index(b) = Index(d) - n
  BY <1>1, Numbered
<1>3. CASE n = 0
  BY <1>1, <1>2, <1>3 DEF BusinessDaysBefore
<1>4. CASE n # 0
  <2>1. b < d
    BY <1>1, <1>2, <1>4, NumberedInOrder
  <2>2. b >= d - 2 * n - 2
    BY <1>1, <1>4 DEF Index, Nth, IsBusinessDay, Weekday
  <2>3. b \in (d - 2 * n - 2) .. d /\ P(b)
    <3>1. Cardinality({x \in b .. (d - 1) : IsBusinessDay(x)}) = Index(d) - Index(b)
      BY <1>2, <2>1, Between
    <3> QED
      BY <1>1, <1>2, <2>1, <2>2, <3>1
  <2>4. ASSUME NEW e \in (d - 2 * n - 2) .. d, P(e) PROVE e = b
    <3>1. e \in Int /\ IsBusinessDay(e) /\ e <= d
      BY <2>4
    <3>2. Index(e) \in Int /\ Nth(Index(e)) = e /\ Index(d) - Index(e) = n
      BY <2>4, <3>1, Between, Numbered
    <3> QED
      BY <1>1, <3>2
  <2>5. BusinessDaysBefore(d, n) = CHOOSE e \in (d - 2 * n - 2) .. d : P(e)
    BY <1>4 DEF BusinessDaysBefore
  <2>6. BusinessDaysBefore(d, n) = b
    <3> HIDE DEF P, b
    <3> QED
      BY <2>3, <2>4, <2>5
  <2> QED
    BY <1>2, <2>6
<1> QED
  BY <1>3, <1>4

\* The first business day before an earlier one is counted back to the same
\* days as the earlier one is, one step later.
LEMMA CountFurther ==
    ASSUME NEW d \in Int, IsBusinessDay(d), NEW k \in Nat \ {0}
    PROVE  BusinessDaysBefore(BusinessDaysBefore(d, 1), k - 1) = BusinessDaysBefore(d, k)
<1> DEFINE b == BusinessDaysBefore(d, 1)
<1>1. b \in Int /\ IsBusinessDay(b) /\ Index(b) = Index(d) - 1
  BY CountBack
<1>2. k - 1 \in Nat /\ Index(d) \in Int
  BY Numbered
<1>3. BusinessDaysBefore(b, k - 1) = Nth(Index(b) - (k - 1))
  <2> HIDE DEF b
  <2> QED
    BY <1>1, <1>2, CountBack
<1>4. BusinessDaysBefore(d, k) = Nth(Index(d) - k)
  BY CountBack
<1>5. Index(b) - (k - 1) = Index(d) - k
  BY <1>1, <1>2
<1> QED
  BY <1>3, <1>4, <1>5

----------------------------------------------------------------------------
\* Streaks.

\* The dates on which a streak of n that ends on d was clocked in.
Run(d, n) == \A k \in 0 .. (n - 1) : BusinessDaysBefore(d, k) \in attended

\* The inductive invariant: a streak stands for its run of dates, it ended on
\* a business date, and the player who never clocked in has none.
StreakInv ==
    /\ day \in Days
    /\ attended \subseteq Days
    /\ streak \in Nat
    /\ last \in Days \cup {Never}
    /\ last \in Days => IsBusinessDay(last)
    /\ last = Never => streak = 0
    /\ StreakEarned

\* A clock-in leaves a streak that today's clock-in and the run so far earned.
LEMMA NextStreakEarned ==
    ASSUME StreakInv, IsBusinessDay(day),
           streak' = NextStreak, last' = day, attended' = attended \cup {day}
    PROVE  /\ NextStreak \in Nat
           /\ \A k \in 0 .. (NextStreak - 1) : BusinessDaysBefore(day, k) \in attended'
<1>0. day \in Int /\ streak \in Nat /\ BusinessDaysBefore(day, 0) = day
  BY DaysAre DEF StreakInv, BusinessDaysBefore
<1>1. CASE last = BusinessDaysBefore(day, 1)
  <2>1. NextStreak = streak + 1
    <3>1. BusinessDaysBefore(day, 1) # day
      <4>1. Index(BusinessDaysBefore(day, 1)) = Index(day) - 1 /\ Index(day) \in Int
        BY <1>0, CountBack, Numbered
      <4> QED
        BY <4>1
    <3> QED
      BY <1>1, <3>1 DEF NextStreak
  <2>2. ASSUME NEW k \in 0 .. streak, k # 0 PROVE BusinessDaysBefore(day, k) \in attended
    <3>1. k \in Nat \ {0} /\ k - 1 \in 0 .. (streak - 1)
      BY <1>0, <2>2
    <3>2. BusinessDaysBefore(last, k - 1) = BusinessDaysBefore(day, k)
      BY <1>0, <1>1, <3>1, CountFurther
    <3> QED
      BY <3>1, <3>2 DEF StreakInv, StreakEarned
  <2> QED
    BY <1>0, <2>1, <2>2
<1>2. CASE last # BusinessDaysBefore(day, 1) /\ last = day
  <2>1. NextStreak = streak
    BY <1>2 DEF NextStreak
  <2> QED
    BY <1>0, <1>2, <2>1 DEF StreakInv, StreakEarned
<1>3. CASE last # BusinessDaysBefore(day, 1) /\ last # day
  <2>1. NextStreak = 1
    BY <1>3 DEF NextStreak
  <2> QED
    BY <1>0, <2>1
<1> QED
  BY <1>1, <1>2, <1>3

\* Every step keeps the streak backed by business days that were worked.
LEMMA StepStreaks == StreakInv /\ [Next]_vars => StreakInv'
<1> SUFFICES ASSUME StreakInv, [Next]_vars PROVE StreakInv'
  OBVIOUS
<1>1. CASE ClockIn /\ ~clocked
  <2>1. /\ IsBusinessDay(day) /\ streak' = NextStreak /\ last' = day /\ day' = day
        /\ attended' = attended \cup {day}
    BY <1>1 DEF ClockIn
  <2>2. streak' \in Nat /\ StreakEarned'
    BY <2>1, NextStreakEarned DEF StreakEarned
  <2> QED
    BY <2>1, <2>2, DaysAre DEF StreakInv
<1>2. CASE ~(ClockIn /\ ~clocked)
  <2>1. UNCHANGED <<streak, last, attended>>
    BY <1>2 DEF Next, Close, Rewind, ChangeJob, ClockIn, ClockOut, Answer, Reminders,
                Remind, Ping, LosePing, Crash, vars, progress, history
  <2>2. day' \in Days
    BY DaysAre, AttendanceAssumption
    DEF StreakInv, Next, Close, Rewind, ChangeJob, ClockIn, ClockOut, Answer, Reminders,
        Remind, Ping, LosePing, Crash, vars, Days
  <2> QED
    BY <2>1, <2>2 DEF StreakInv, StreakEarned
<1> QED
  BY <1>1, <1>2

\* Streaks are backed by attendance in every state.
LEMMA StreakInvariant == Spec => []StreakInv
<1>1. Init => StreakInv
  BY DaysAre DEF Init, StreakInv, StreakEarned
<1> QED
  BY <1>1, StepStreaks, PTL DEF Spec

\* A streak of n is n consecutive business dates with a clock-in, whatever
\* dates, weekends, jobs and moves of the calendar lie between the clock-ins
\* (clock_in in employment.py).
THEOREM StreaksAreEarned == Spec => []StreakEarned
<1>1. StreakInv => StreakEarned
  BY DEF StreakInv
<1> QED
  BY <1>1, StreakInvariant, PTL

----------------------------------------------------------------------------
\* Milestones are earned.

Earned == \A i \in DOMAIN paid : \E d \in attended : Run(d, paid[i])

\* Milestones that are paid have been earned by attendance.
LEMMA StepEarned ==
    StreakInv /\ ClaimInv /\ Earned /\ [Next]_vars => Earned'
<1> SUFFICES ASSUME StreakInv, ClaimInv, Earned, [Next]_vars PROVE Earned'
  OBVIOUS
<1>1. CASE ClockIn /\ ~clocked
  <2>1. /\ IsBusinessDay(day) /\ streak' = NextStreak /\ last' = day /\ day' = day
        /\ attended' = attended \cup {day} /\ PayMilestone(NextStreak)
    BY <1>1 DEF ClockIn
  <2>2. ASSUME NEW d, NEW n, Run(d, n) PROVE Run(d, n)'
    BY <2>1, <2>2 DEF Run
  <2>3. CASE UNCHANGED <<claimed, paid>>
    BY <2>1, <2>2, <2>3 DEF Earned
  <2>4. ASSUME NEW m \in Due(NextStreak), paid' = Append(paid, m) PROVE Earned'
    <3>1. /\ DOMAIN paid = 1 .. Len(paid) /\ Len(paid) \in Nat
          /\ DOMAIN paid' = 1 .. Len(paid) + 1
          /\ paid'[Len(paid) + 1] = m
          /\ \A i \in DOMAIN paid : paid'[i] = paid[i]
      BY <2>4 DEF ClaimInv, Due
    <3>2. m \in Nat /\ m <= NextStreak /\ NextStreak \in Nat
      BY <2>1, NextStreakEarned, AttendanceAssumption DEF Due
    <3>3. Run(day, m)'
      <4>1. \A k \in 0 .. (NextStreak - 1) : BusinessDaysBefore(day, k) \in attended'
        BY <2>1, NextStreakEarned
      <4>2. \A k \in 0 .. (m - 1) : BusinessDaysBefore(day, k) \in attended'
        BY <3>2, <4>1
      <4> QED
        BY <2>1, <4>2 DEF Run
    <3> QED
      BY <2>1, <2>2, <3>1, <3>3 DEF Earned
  <2> QED
    BY <2>1, <2>3, <2>4 DEF PayMilestone
<1>2. CASE ~(ClockIn /\ ~clocked)
  <2>1. UNCHANGED <<paid, attended>>
    BY <1>2 DEF Next, Close, Rewind, ChangeJob, ClockIn, ClockOut, Answer, Reminders,
                Remind, Ping, LosePing, Crash, vars, progress, history
  <2> QED
    BY <2>1 DEF Earned, Run
<1> QED
  BY <1>1, <1>2

\* Milestones are paid in ascending order, and none that no run of dates has
\* earned, however often the calendar moves back and the pool is dry.
THEOREM MilestonesEarnedOnce == Spec => []MilestonesOnce
<1>1. Init => Earned /\ ClaimInv
  BY DEF Init, Earned, ClaimInv, Ascending
<1>2. Earned /\ ClaimInv => MilestonesOnce
  BY DEF Earned, Run, ClaimInv, Ascending, MilestonesOnce
<1> QED
  BY <1>1, <1>2, StepEarned, StepClaims, StreakInvariant, PTL DEF Spec

----------------------------------------------------------------------------
\* Type correctness.

\* There are no more dates in a streak than there are dates.
LEMMA StreakBound ==
    ASSUME StreakInv
    PROVE  streak \in Streaks
<1> DEFINE S == 0 .. (streak - 1)
           f == [k \in S |-> BusinessDaysBefore(last, k)]
<1>0. streak \in Nat /\ FirstDay \in Int /\ LastDay \in Int
  BY AttendanceAssumption DEF StreakInv
<1>f. IsFiniteSet(Days) /\ Cardinality(Days) \in Nat
  BY <1>0, FS_Interval, FS_CardinalityType DEF Days
<1>1. CASE streak = 0
  BY <1>1, <1>f DEF Streaks
<1>2. CASE streak # 0
  <2>1. last \in Int /\ IsBusinessDay(last)
    BY <1>2, DaysAre DEF StreakInv
  <2>2. \A k \in S : k \in Nat /\ BusinessDaysBefore(last, k) \in Days
    BY <1>0 DEF StreakInv, StreakEarned
  <2>3. \A k \in S : Index(BusinessDaysBefore(last, k)) = Index(last) - k
    BY <2>1, <2>2, CountBack
  <2>4. Index(last) \in Int
    BY <2>1, Numbered
  <2>5. f \in [S -> Days]
    BY <2>2
  <2>6. \A j, k \in S : f[j] = f[k] => j = k
    <3> SUFFICES ASSUME NEW j \in S, NEW k \in S, f[j] = f[k] PROVE j = k
      OBVIOUS
    <3>1. Index(last) - j = Index(last) - k
      BY <2>3
    <3> QED
      BY <2>2, <2>4, <3>1
  <2>7. f \in Injection(S, Days)
    BY <2>5, <2>6 DEF Injection, IsInjective
  <2>8. Cardinality(S) <= Cardinality(Days)
    BY <1>f, <2>7, FS_Injection
  <2>9. Cardinality(S) = streak
    <3>1. 0 \in Int /\ streak - 1 \in Int /\ ~(0 > streak - 1)
      BY <1>0, <1>2
    <3>2. Cardinality(0 .. (streak - 1)) = (streak - 1) - 0 + 1
      BY <3>1, FS_Interval
    <3> QED
      BY <1>0, <3>2
  <2> QED
    BY <1>0, <1>f, <2>8, <2>9 DEF Streaks
<1> QED
  BY <1>1, <1>2

\* What TypeOK says beyond the streak.
FlagsOK == {employed, clocked, optIn, prompted, asking} \subseteq BOOLEAN

RestOK ==
    /\ {reminded, sending} \subseteq Days \cup {Never}
    /\ claimed \in Milestones \cup {0}
    /\ paid \in Seq(Milestones)
    /\ pings \in [Days -> Nat]
    /\ rewinds \in 0 .. MaxRewinds /\ switches \in 0 .. MaxSwitches

\* The flags and marks of the profile keep their types.
LEMMA StepFlags == FlagsOK /\ [Next]_vars => FlagsOK'
<1> SUFFICES ASSUME FlagsOK, [Next]_vars PROVE FlagsOK'
  OBVIOUS
<1> USE DEF FlagsOK, job, choice
<1>1. CASE Close \/ Rewind \/ ChangeJob
  BY <1>1 DEF Close, Rewind, ChangeJob
<1>2. CASE ClockIn \/ ClockOut
  BY <1>2 DEF ClockIn, Ask, ClockOut
<1>3. CASE Answer \/ Reminders
  BY <1>3 DEF Answer, Reminders, SetReminderOptIn
<1>4. CASE Remind \/ Ping \/ LosePing \/ Crash
  BY <1>4 DEF Remind, Ping, LosePing, Crash
<1>5. CASE UNCHANGED vars
  BY <1>5 DEF vars
<1> QED
  BY <1>1, <1>2, <1>3, <1>4, <1>5 DEF Next

\* Marks, payments, pings and counters keep their types.
LEMMA StepRest == StreakInv /\ ClaimInv /\ RestOK /\ [Next]_vars => RestOK'
<1> SUFFICES ASSUME StreakInv, ClaimInv, RestOK, [Next]_vars PROVE RestOK'
  OBVIOUS
<1> USE AttendanceAssumption DEF RestOK, bounds, progress, history, reminder
<1>1. CASE Close \/ ChangeJob \/ ClockOut \/ Answer
  BY <1>1 DEF Close, ChangeJob, ClockOut, Answer
<1>2. CASE Rewind
  BY <1>2 DEF Rewind
<1>3. CASE Reminders
  BY <1>3 DEF Reminders
<1>4. CASE ClockIn
  <2>1. CASE UNCHANGED <<claimed, paid>>
    BY <1>4, <2>1 DEF ClockIn
  <2>2. ASSUME NEW m \in Milestones, claimed' = m, paid' = Append(paid, m) PROVE RestOK'
    BY <1>4, <2>2 DEF ClockIn
  <2> QED
    BY <1>4, <2>1, <2>2 DEF ClockIn, PayMilestone, Due
<1>5. CASE Remind
  BY <1>5 DEF Remind, StreakInv
<1>6. CASE Ping
  BY <1>6 DEF Ping
<1>7. CASE LosePing \/ Crash
  BY <1>7 DEF LosePing, Crash
<1>8. CASE UNCHANGED vars
  BY <1>8 DEF vars
<1> QED
  BY <1>1, <1>2, <1>3, <1>4, <1>5, <1>6, <1>7, <1>8 DEF Next

\* Every reachable state of every instance is well typed; in particular no
\* streak is longer than the dates there have been.
THEOREM RecordTypes == Spec => []TypeOK
<1>1. Init => FlagsOK /\ RestOK /\ ClaimInv
  <2> SUFFICES ASSUME Init PROVE FlagsOK /\ RestOK /\ ClaimInv
    OBVIOUS
  <2>1. FlagsOK
    BY DEF Init, FlagsOK
  <2>2. RestOK
    BY AttendanceAssumption DEF Init, RestOK
  <2>3. ClaimInv
    BY DEF Init, ClaimInv, Ascending
  <2> QED
    BY <2>1, <2>2, <2>3
<1>2. StreakInv /\ FlagsOK /\ RestOK => TypeOK
  BY StreakBound DEF StreakInv, FlagsOK, RestOK, TypeOK
<1> QED
  BY <1>1, <1>2, StepFlags, StepRest, StepClaims, StreakInvariant, PTL DEF Spec
=============================================================================
