-------------------------- MODULE SchedulerProofs --------------------------
(***************************************************************************)
(* Proofs about Scheduler, for any number of guilds, players and commands  *)
(* and any span of dates.                                                  *)
(***************************************************************************)
EXTENDS Scheduler, TLAPS

----------------------------------------------------------------------------
\* Type correctness.

\* Counting the members of a set once more keeps a table of counters one.
LEMMA Plus1Type ==
    ASSUME NEW S, NEW T, NEW f \in [S -> Nat]
    PROVE  Plus1(f, T) \in [S -> Nat]
BY DEF Plus1

\* A settlement up to a local date leaves well-typed rows and history.
LEMMA SettleType ==
    ASSUME CalendarOK, HistoryOK,
           NEW g \in Guilds, NEW t \in Days, SettleThrough(g, t)
    PROVE  CalendarOK' /\ HistoryOK'
<1> USE SchedulerAssumption DEF CalendarOK, HistoryOK
<1>1. Closing(g, t) \subseteq Days
  BY DEF Closing, Days
<1>2. ClockedAfter(g, t) \subseteq Players
  BY DEF ClockedAfter
<1>3. CalendarOK'
  BY <1>1, <1>2 DEF SettleThrough, Quotes
<1>4. /\ Plus1(settled[g], Closing(g, t)) \in [Days -> Nat]
      /\ Plus1(wages[g], PaidBy(g, t)) \in [Players -> Nat]
      /\ Plus1(rolled[g], Opened(g, t)) \in [Weeks -> Nat]
  BY Plus1Type
<1>5. HistoryOK'
  BY <1>4 DEF SettleThrough
<1> QED
  BY <1>3, <1>5

\* So does synchronize_guild, which settles, snaps back or does nothing.
LEMMA SynchronizeType ==
    ASSUME CalendarOK, HistoryOK,
           NEW g \in Guilds, NEW t \in Days, Synchronize(g, t)
    PROVE  CalendarOK' /\ HistoryOK'
<1>1. CASE UNCHANGED <<calendar, history>>
  BY <1>1 DEF CalendarOK, HistoryOK, calendar, history
<1>2. CASE SnapBack(g, t)
  BY <1>2 DEF SnapBack, CalendarOK, HistoryOK, history
<1>3. CASE SettleThrough(g, t)
  BY <1>3, SettleType
<1> QED
  BY <1>1, <1>2, <1>3 DEF Synchronize

\* So does a single tick.
LEMMA TickOneType ==
    ASSUME CalendarOK, HistoryOK, NEW g \in Guilds, TickOne(g)
    PROVE  CalendarOK' /\ HistoryOK'
<1>1. CASE UNCHANGED <<calendar, history>>
  BY <1>1 DEF CalendarOK, HistoryOK, calendar, history
<1>2. CASE cursor[g] < LastDay /\ SettleThrough(g, cursor[g] + 1)
  <2>1. cursor[g] + 1 \in Days
    BY <1>2, SchedulerAssumption DEF CalendarOK, Days
  <2> QED
    BY <1>2, <2>1, SettleType
<1> QED
  BY <1>1, <1>2 DEF TickOne

\* The lock stays a queue of processes, whoever joins or leaves it.
LEMMA QueueType ==
    ASSUME queue \in Seq(Procs), NEW p \in Procs
    PROVE  /\ Acquire(p) => queue' \in Seq(Procs)
           /\ Release(p) => queue' \in Seq(Procs)
           /\ Reacquire(p) => queue' \in Seq(Procs)
BY DEF Acquire, Release, Reacquire, Holds

\* A process that ends or vanishes leaves well-typed locals behind.
LEMMA UnsetType ==
    ASSUME ProcessOK, NEW p \in Procs, Unset(p)
    PROVE  /\ pc' \in [Procs -> {"idle", "list", "next", "boot", "sync", "act"}]
           /\ at' \in [Procs -> Guilds]
           /\ target' \in [Procs -> Days]
BY SchedulerAssumption DEF Unset, ProcessOK, AnyGuild, Days

\* A crash leaves no process with locals, and the rows as they were.
LEMMA VanishType ==
    ASSUME TypeOK, Vanish, crashes' \in 0 .. MaxCrashes
    PROVE  TypeOK'
<1> USE DEF TypeOK, Vanish
<1>1. ClockOK'
  BY DEF ClockOK
<1>2. ProcessOK'
  BY SchedulerAssumption DEF ProcessOK, AnyGuild, Days
<1>3. CalendarOK' /\ HistoryOK'
  BY DEF CalendarOK, HistoryOK, calendar, history
<1> QED
  BY <1>1, <1>2, <1>3

\* Every step keeps every variable in its type.
LEMMA TypeStep == TypeOK /\ [Next]_vars => TypeOK'
<1> SUFFICES ASSUME TypeOK, [Next]_vars PROVE TypeOK'
  OBVIOUS
<1> USE SchedulerAssumption
<1>0. Sweepers \subseteq Procs /\ Cmds \subseteq Procs
      /\ "tick" \in Sweepers /\ "startup" \in Sweepers
  BY DEF Procs, Sweepers, Sweeps
<1>a. UNCHANGED <<calendar, history>> => CalendarOK' /\ HistoryOK'
  BY DEF TypeOK, CalendarOK, HistoryOK, calendar, history
<1>b. UNCHANGED <<clock, bounds>> => ClockOK'
  BY DEF TypeOK, ClockOK, clock, bounds
<1>1. ASSUME Restart PROVE TypeOK'
  <2>1. ClockOK'
    BY <1>1 DEF Restart, TypeOK, ClockOK, Days, bounds
  <2>2. ProcessOK'
    BY <1>0, <1>1, QueueType DEF Restart, TypeOK, ProcessOK
  <2> QED
    BY <1>1, <1>a, <2>1, <2>2 DEF Restart, TypeOK
<1>2. ASSUME Crash PROVE TypeOK'
  BY <1>2, VanishType DEF Crash, TypeOK, ClockOK
<1>3. ASSUME Midnight PROVE TypeOK'
  <2>1. ClockOK'
    BY <1>3 DEF Midnight, TypeOK, ClockOK, Days, bounds
  <2>2. ProcessOK'
    BY <1>0, <1>3, QueueType DEF Midnight, TypeOK, ProcessOK, process
  <2> QED
    BY <1>3, <1>a, <2>1, <2>2 DEF Midnight, TypeOK
<1>4. ASSUME NEW s \in Sweepers, SweepStep(s) PROVE TypeOK'
  <2> s \in Procs
    BY <1>0
  <2>1. CASE SweepStart(s)
    BY <1>a, <1>b, <2>1, QueueType DEF SweepStart, TypeOK, ProcessOK
  <2>2. CASE SweepList(s)
    BY <1>a, <1>b, <2>2, QueueType DEF SweepList, TypeOK, ProcessOK, CalendarOK
  <2>3. CASE SweepNext(s)
    <3>1. ProcessOK'
      BY <2>3, QueueType DEF SweepNext, TypeOK, ProcessOK, ClockOK, LocalDate
    <3> QED
      BY <1>a, <1>b, <2>3, <3>1 DEF SweepNext, TypeOK
  <2>4. CASE SweepDone(s)
    <3>1. ClockOK'
      BY <2>4 DEF SweepDone, TypeOK, ClockOK, bounds
    <3>2. ProcessOK'
      BY <2>4, UnsetType DEF SweepDone, TypeOK, ProcessOK
    <3> QED
      BY <1>a, <2>4, <3>1, <3>2 DEF SweepDone, TypeOK
  <2>5. CASE SweepSync(s)
    <3>1. at[s] \in Guilds /\ target[s] \in Days
      BY DEF TypeOK, ProcessOK
    <3>2. CalendarOK' /\ HistoryOK'
      BY <2>5, <3>1, SynchronizeType, TickOneType DEF SweepSync, TypeOK
    <3>3. ProcessOK'
      BY <2>5, QueueType DEF SweepSync, TypeOK, ProcessOK
    <3> QED
      BY <1>b, <2>5, <3>2, <3>3 DEF SweepSync, TypeOK
  <2>6. CASE SweepFail(s)
    <3>1. CASE s = "startup"
      BY <2>6, <3>1, VanishType DEF SweepFail, TypeOK, ClockOK
    <3>2. CASE s # "startup"
      <4>1. ProcessOK'
        BY <2>6, <3>2, QueueType DEF SweepFail, TypeOK, ProcessOK
      <4> QED
        BY <1>a, <1>b, <2>6, <3>2, <4>1 DEF SweepFail, TypeOK, bounds
    <3> QED
      BY <3>1, <3>2
  <2> QED
    BY <1>4, <2>1, <2>2, <2>3, <2>4, <2>5, <2>6 DEF SweepStep
<1>5. ASSUME NEW c \in Cmds, CmdStep(c) PROVE TypeOK'
  <2> c \in Procs
    BY <1>0
  <2>0. at[c] \in Guilds /\ target[c] \in Days
    BY DEF TypeOK, ProcessOK
  <2>1. CASE Arrive(c)
    <3>1. ClockOK'
      BY <2>1 DEF Arrive, TypeOK, ClockOK, clock
    <3>2. ProcessOK'
      BY <2>1, QueueType DEF Arrive, TypeOK, ProcessOK, ClockOK, LocalDate
    <3> QED
      BY <1>a, <2>1, <3>1, <3>2 DEF Arrive, TypeOK
  <2>2. CASE Boot(c)
    <3>1. ProcessOK'
      BY <2>2, QueueType DEF Boot, TypeOK, ProcessOK
    <3>2. CalendarOK'
      BY <2>0, <2>2 DEF Boot, Bootstrap, TypeOK, CalendarOK, calendar
    <3>3. HistoryOK'
      <4>1. CASE at[c] \in guilds
        BY <1>a, <2>2, <4>1 DEF Boot, Bootstrap
      <4>2. CASE at[c] \notin guilds
        <5>1. rolled \in [Guilds -> [Weeks -> Nat]]
          BY DEF TypeOK, HistoryOK
        <5>2. Plus1(rolled[at[c]], {WeekMonday(target[c])}) \in [Weeks -> Nat]
          BY <2>0, <5>1, Plus1Type
        <5>3. rolled' \in [Guilds -> [Weeks -> Nat]]
          BY <2>0, <2>2, <4>2, <5>1, <5>2 DEF Boot, Bootstrap, FirstRoll
        <5> QED
          BY <2>2, <4>2, <5>3 DEF Boot, Bootstrap, TypeOK, HistoryOK
      <4> QED
        BY <4>1, <4>2
    <3> QED
      BY <1>b, <2>2, <3>1, <3>2, <3>3 DEF Boot, TypeOK
  <2>3. CASE CmdSync(c)
    <3>1. ProcessOK'
      BY <2>3, QueueType DEF CmdSync, TypeOK, ProcessOK
    <3>2. CalendarOK' /\ HistoryOK'
      BY <2>0, <2>3, SynchronizeType DEF CmdSync, TypeOK
    <3> QED
      BY <1>b, <2>3, <3>1, <3>2 DEF CmdSync, TypeOK
  <2>a. ASSUME Returns(c) PROVE ProcessOK' /\ ClockOK'
    <3>1. ProcessOK'
      BY <2>a, UnsetType, QueueType DEF Returns, TypeOK, ProcessOK
    <3> QED
      BY <1>b, <2>a, <3>1 DEF Returns
  <2>4. CASE ClockIn(c)
    <3>1. CalendarOK' /\ HistoryOK'
      BY <2>0, <2>4 DEF ClockIn, TypeOK, CalendarOK, HistoryOK
    <3> QED
      BY <2>4, <2>a, <3>1 DEF ClockIn, TypeOK
  <2>5. CASE ClockOut(c)
    <3>1. CalendarOK' /\ HistoryOK'
      BY <2>0, <2>5 DEF ClockOut, TypeOK, CalendarOK, HistoryOK, history
    <3> QED
      BY <2>5, <2>a, <3>1 DEF ClockOut, TypeOK
  <2>6. CASE Found(c)
    <3>1. CalendarOK' /\ HistoryOK'
      BY <2>0, <2>6 DEF Found, TypeOK, CalendarOK, HistoryOK, history
    <3> QED
      BY <2>6, <2>a, <3>1 DEF Found, TypeOK
  <2>7. CASE SetDay(c)
    <3>1. CalendarOK' /\ HistoryOK'
      BY <2>0, <2>7 DEF SetDay, TypeOK, CalendarOK, HistoryOK, history
    <3> QED
      BY <2>7, <2>a, <3>1 DEF SetDay, TypeOK
  <2>8. CASE ForceTick(c)
    BY <2>0, <2>8, <2>a, TickOneType DEF ForceTick, TypeOK
  <2>9. CASE CmdEnd(c)
    <3>1. ProcessOK'
      BY <2>9, UnsetType, QueueType DEF CmdEnd, TypeOK, ProcessOK
    <3> QED
      BY <1>a, <1>b, <2>9, <3>1 DEF CmdEnd, TypeOK
  <2> QED
    BY <1>5, <2>1, <2>2, <2>3, <2>4, <2>5, <2>6, <2>7, <2>8, <2>9 DEF CmdStep
<1>6. ASSUME UNCHANGED vars PROVE TypeOK'
  BY <1>6, <1>a, <1>b
  DEF vars, process, calendar, history, clock, bounds, TypeOK, ProcessOK
<1> QED
  BY <1>1, <1>2, <1>3, <1>4, <1>5, <1>6 DEF Next

\* Every reachable state of every instance is well typed.
THEOREM TypeCorrect == Spec => []TypeOK
<1>1. Init => TypeOK
  <2> SUFFICES ASSUME Init PROVE TypeOK
    OBVIOUS
  <2> USE SchedulerAssumption
  <2>1. ClockOK
    BY DEF Init, ClockOK, Days
  <2>2. ProcessOK
    BY DEF Init, ProcessOK, AnyGuild, Days
  <2>3. CalendarOK /\ HistoryOK
    BY DEF Init, CalendarOK, HistoryOK, Days
  <2> QED
    BY <2>1, <2>2, <2>3 DEF TypeOK
<1> QED
  BY <1>1, TypeStep, PTL DEF Spec

----------------------------------------------------------------------------
\* Closing quotes are final.

\* The first use of a guild opens it at d.
Opens(g, d) ==
    /\ g \notin guilds
    /\ guilds' = guilds \cup {g}
    /\ cursor' = [cursor EXCEPT ![g] = d]
    /\ UNCHANGED <<quoted, settled>>

\* $setday moves the open date forward only, and in accelerated mode only.
Skips(g, d) ==
    /\ mode = "accelerated"
    /\ cursor[g] <= d
    /\ cursor' = [cursor EXCEPT ![g] = d]
    /\ UNCHANGED <<guilds, quoted, settled>>

\* Whatever process takes a step, it moves a guild's calendar in one of these
\* ways or not at all.
CursorMoves ==
    \/ UNCHANGED <<guilds, cursor, quoted, settled>>
    \/ \E g \in guilds, t \in Days : cursor[g] <= t /\ SettleThrough(g, t)
    \/ \E g \in guilds, t \in Days :
            cursor[g] > t /\ ~SettledAtOrAfter(g, t) /\ SnapBack(g, t)
    \/ \E g \in Guilds, d \in Days : Opens(g, d)
    \/ \E g \in Guilds, d \in Days : Skips(g, d)

\* Every outcome of synchronize_guild is a cursor move.
LEMMA SynchronizeMoves ==
    ASSUME NEW g \in Guilds, NEW t \in Days, Synchronize(g, t)
    PROVE  CursorMoves
BY DEF Synchronize, CursorMoves, calendar, history

\* A single tick is a cursor move too.
LEMMA TickOneMoves ==
    ASSUME TypeOK, NEW g \in Guilds, TickOne(g)
    PROVE  CursorMoves
<1>1. CASE UNCHANGED <<calendar, history>>
  BY <1>1 DEF CursorMoves, calendar, history
<1>2. CASE g \in guilds /\ cursor[g] < LastDay /\ SettleThrough(g, cursor[g] + 1)
  <2>1. cursor[g] + 1 \in Days /\ cursor[g] <= cursor[g] + 1
    BY <1>2, SchedulerAssumption DEF TypeOK, CalendarOK, Days
  <2> QED
    BY <1>2, <2>1 DEF CursorMoves
<1> QED
  BY <1>1, <1>2 DEF TickOne

\* Every step of the program is a cursor move or leaves all calendars alone.
LEMMA StepMoves ==
    ASSUME TypeOK, [Next]_vars
    PROVE  CursorMoves
<1> USE SchedulerAssumption
<1>0. \A p \in Procs : at[p] \in Guilds /\ target[p] \in Days
  BY DEF TypeOK, ProcessOK
<1>a. UNCHANGED <<calendar, history>> => CursorMoves
  BY DEF CursorMoves, calendar, history
<1>1. ASSUME NEW s \in Sweepers, SweepStep(s) PROVE CursorMoves
  <2>1. CASE SweepSync(s)
    <3>1. at[s] \in Guilds /\ target[s] \in Days
      BY <1>0 DEF Procs
    <3> QED
      BY <2>1, <3>1, SynchronizeMoves, TickOneMoves DEF SweepSync
  <2>2. CASE ~SweepSync(s)
    BY <1>1, <1>a, <2>2
    DEF SweepStep, SweepStart, SweepList, SweepNext, SweepDone, SweepFail, Vanish
  <2> QED
    BY <2>1, <2>2
<1>2. ASSUME NEW c \in Cmds, CmdStep(c) PROVE CursorMoves
  <2>0. at[c] \in Guilds /\ target[c] \in Days
    BY <1>0 DEF Procs
  <2>1. CASE Arrive(c) \/ CmdEnd(c)
    BY <1>a, <2>1 DEF Arrive, CmdEnd
  <2>2. CASE Boot(c)
    <3>1. CASE at[c] \in guilds
      BY <1>a, <2>2, <3>1 DEF Boot, Bootstrap
    <3>2. CASE at[c] \notin guilds
      <4>1. Opens(at[c], target[c])
        BY <2>2, <3>2 DEF Boot, Bootstrap, Opens
      <4> QED
        BY <2>0, <4>1 DEF CursorMoves
    <3> QED
      BY <3>1, <3>2
  <2>3. CASE CmdSync(c)
    BY <2>0, <2>3, SynchronizeMoves DEF CmdSync
  <2>4. CASE ClockIn(c) \/ ClockOut(c) \/ Found(c)
    BY <2>4 DEF ClockIn, ClockOut, Found, CursorMoves, history
  <2>5. CASE SetDay(c)
    <3>1. PICK i \in 0 .. 6 :
            /\ DateForWeekday(cursor[at[c]], i) \in Days
            /\ cursor' = [cursor EXCEPT ![at[c]] = DateForWeekday(@, i)]
      BY <2>5 DEF SetDay
    <3>2. cursor[at[c]] <= DateForWeekday(cursor[at[c]], i)
      BY <2>0 DEF TypeOK, CalendarOK, Days, DateForWeekday, Weekday
    <3>3. Skips(at[c], DateForWeekday(cursor[at[c]], i))
      BY <2>0, <2>5, <3>1, <3>2 DEF SetDay, Skips, TypeOK, CalendarOK, history
    <3> QED
      BY <2>0, <3>1, <3>3 DEF CursorMoves
  <2>6. CASE ForceTick(c)
    BY <2>0, <2>6, TickOneMoves DEF ForceTick
  <2> QED
    BY <1>2, <2>1, <2>2, <2>3, <2>4, <2>5, <2>6 DEF CmdStep
<1>3. CASE Restart \/ Crash \/ Midnight
  BY <1>a, <1>3 DEF Restart, Crash, Midnight, Vanish
<1>4. CASE UNCHANGED vars
  BY <1>4, <1>a DEF vars
<1> QED
  BY <1>1, <1>2, <1>3, <1>4 DEF Next

\* The inductive invariant: a guild that was never used has no quotes yet, so
\* that opening it cannot move its cursor onto one.
QuoteInv ==
    /\ QuotedDatesBehindCursor
    /\ \A g \in Guilds \ guilds : quoted[g] = {}

\* A settlement touches one guild's quotes, and adds only dates it closes.
LEMMA SettleQuotes ==
    ASSUME CalendarOK, NEW g \in Guilds, NEW t \in Days, SettleThrough(g, t)
    PROVE  /\ \A h \in Guilds \ {g} : quoted'[h] = quoted[h]
           /\ quoted[g] \subseteq quoted'[g]
           /\ quoted'[g] \subseteq quoted[g] \cup Closing(g, t)
<1>1. quoted' = [quoted EXCEPT ![g] =
                    IF private'[g] THEN quoted[g] \cup Quotes(g, t) ELSE quoted[g]]
  BY DEF SettleThrough
<1>2. Quotes(g, t) \subseteq Closing(g, t)
  BY DEF Quotes
<1> QED
  BY <1>1, <1>2 DEF CalendarOK

\* No step puts a closing quote at or after the open date of its guild.
LEMMA QuoteStep == TypeOK /\ QuoteInv /\ [Next]_vars => QuoteInv'
<1> SUFFICES ASSUME TypeOK, QuoteInv, [Next]_vars PROVE QuoteInv'
  OBVIOUS
<1> USE SchedulerAssumption DEF QuoteInv, QuotedDatesBehindCursor, TypeOK, CalendarOK
<1>1. CASE UNCHANGED <<guilds, cursor, quoted, settled>>
  BY <1>1
<1>2. ASSUME NEW g \in guilds, NEW t \in Days, cursor[g] <= t, SettleThrough(g, t)
      PROVE  QuoteInv'
  <2>1. /\ cursor' = [cursor EXCEPT ![g] = t]
        /\ guilds' = guilds
        /\ \A h \in Guilds \ {g} : quoted'[h] = quoted[h]
        /\ quoted'[g] \subseteq quoted[g] \cup Closing(g, t)
    BY <1>2, SettleQuotes DEF SettleThrough
  <2>2. \A d \in Closing(g, t) : d < t
    BY DEF Closing, Days
  <2>3. \A d \in quoted[g] : d < t
    BY <1>2 DEF Days
  <2> QED
    BY <2>1, <2>2, <2>3
<1>3. ASSUME NEW g \in guilds, NEW t \in Days, ~SettledAtOrAfter(g, t), SnapBack(g, t)
      PROVE  QuoteInv'
  BY <1>3 DEF SettledAtOrAfter, SnapBack, Days
<1>4. ASSUME NEW g \in Guilds, NEW d \in Days, Opens(g, d)
      PROVE  QuoteInv'
  BY <1>4 DEF Opens
<1>5. ASSUME NEW g \in Guilds, NEW d \in Days, Skips(g, d)
      PROVE  QuoteInv'
  BY <1>5 DEF Skips, Days
<1> QED
  BY <1>1, <1>2, <1>3, <1>4, <1>5, StepMoves DEF CursorMoves

\* Quotes lie behind the open date, and a guild without a row has none.
LEMMA QuoteInvariant == Spec => []QuoteInv
<1>1. Init => QuoteInv
  BY DEF Init, QuoteInv, QuotedDatesBehindCursor
<1> QED
  BY <1>1, QuoteStep, TypeCorrect, PTL DEF Spec

\* In every mode, over restarts, timezone moves and mode switches, each date
\* with a closing quote is behind the guild's open date.
THEOREM QuotedBehind == Spec => []QuotedDatesBehindCursor
<1>1. QuoteInv => QuotedDatesBehindCursor
  BY DEF QuoteInv
<1> QED
  BY <1>1, QuoteInvariant, PTL

\* No step closes a quoted date again or forgets its quote.
THEOREM QuotesFinal == Spec => QuotedDatesFinal
<1> DEFINE Final == \A g \in Guilds : \A d \in quoted[g] :
                      settled'[g][d] = settled[g][d] /\ d \in quoted'[g]
<1>1. TypeOK /\ QuoteInv /\ [Next]_vars => Final
  <2> SUFFICES ASSUME TypeOK, QuoteInv, [Next]_vars PROVE Final
    OBVIOUS
  <2> USE SchedulerAssumption DEF TypeOK, CalendarOK
  <2>1. CASE UNCHANGED <<quoted, settled>>
    BY <2>1
  <2>2. ASSUME NEW g \in guilds, NEW t \in Days, SettleThrough(g, t)
        PROVE  Final
    <3>1. /\ settled' = [settled EXCEPT ![g] = Plus1(settled[g], Closing(g, t))]
          /\ \A h \in Guilds \ {g} : quoted'[h] = quoted[h]
          /\ quoted[g] \subseteq quoted'[g]
      BY <2>2, SettleQuotes DEF SettleThrough
    <3>2. \A d \in quoted[g] : d \in Days /\ d \notin Closing(g, t)
      BY DEF QuoteInv, QuotedDatesBehindCursor, Closing, Days
    <3>3. \A d \in quoted[g] : Plus1(settled[g], Closing(g, t))[d] = settled[g][d]
      BY <3>2 DEF Plus1, HistoryOK
    <3> QED
      BY <3>1, <3>3 DEF HistoryOK
  <2> QED
    BY <2>1, <2>2, StepMoves DEF CursorMoves, SnapBack, Opens, Skips, history
<1>2. TypeOK /\ QuoteInv /\ [Next]_vars => [Final]_vars
  BY <1>1
<1> QED
  BY <1>2, QuoteInvariant, TypeCorrect, PTL DEF Spec, QuotedDatesFinal

----------------------------------------------------------------------------
\* Scheduler implements OpenDates.

\* A settlement is a Close of the abstract calendar: it closes the dates from
\* the cursor on, each once more, and quotes only some of them.
LEMMA SettleCloses ==
    ASSUME TypeOK, NEW g \in Guilds, NEW t \in Days,
           cursor[g] <= t, SettleThrough(g, t)
    PROVE  Calendar!Close(g, t)
<1> DEFINE dates == cursor[g] .. (t - 1)
<1> USE DEF TypeOK, CalendarOK, HistoryOK
<1>1. Plus1(settled[g], Closing(g, t))
        = [d \in Days |-> IF d \in dates THEN settled[g][d] + 1 ELSE settled[g][d]]
  BY DEF Plus1, Closing
<1>2. settled' = [settled EXCEPT ![g] =
                    [d \in Days |-> IF d \in dates THEN @[d] + 1 ELSE @[d]]]
  BY <1>1 DEF SettleThrough
<1>3. \E quotes \in SUBSET dates : quoted' = [quoted EXCEPT ![g] = @ \cup quotes]
  <2>1. CASE private'[g]
    <3>1. Quotes(g, t) \in SUBSET dates
      BY DEF Quotes, Closing
    <3>2. quoted' = [quoted EXCEPT ![g] = @ \cup Quotes(g, t)]
      BY <2>1 DEF SettleThrough
    <3> QED
      BY <3>1, <3>2
  <2>2. CASE ~private'[g]
    <3>1. {} \in SUBSET dates
      OBVIOUS
    <3>2. quoted' = [quoted EXCEPT ![g] = @ \cup {}]
      BY <2>2 DEF SettleThrough
    <3> QED
      BY <3>1, <3>2
  <2> QED
    BY <2>1, <2>2
<1> QED
  BY <1>2, <1>3 DEF Calendar!Close, SettleThrough

\* Whatever else moves a cursor closes nothing and stays clear of the quotes:
\* the snap-back by its guard, $setday by moving forward, and the first use of
\* a guild because it has no quotes yet.
LEMMA MoveCorrects ==
    ASSUME TypeOK, QuoteInv, NEW g \in Guilds, NEW t \in Days,
           \/ ~SettledAtOrAfter(g, t) /\ SnapBack(g, t)
           \/ Opens(g, t)
           \/ Skips(g, t)
    PROVE  Calendar!Correct(g, t)
<1> USE SchedulerAssumption DEF TypeOK, CalendarOK, Calendar!Correct
<1>0. \A d \in quoted[g] : d \in Int /\ d < cursor[g]
  BY DEF QuoteInv, QuotedDatesBehindCursor, Days
<1>1. CASE ~SettledAtOrAfter(g, t) /\ SnapBack(g, t)
  BY <1>0, <1>1 DEF SettledAtOrAfter, SnapBack, history, Days
<1>2. CASE Opens(g, t)
  BY <1>2 DEF Opens, QuoteInv
<1>3. CASE Skips(g, t)
  BY <1>0, <1>3 DEF Skips, Days
<1> QED
  BY <1>1, <1>2, <1>3

\* Every behaviour of the processes, restarts and clocks is, seen through the
\* cursor, the closed dates and the quotes, one of the abstract calendar.
THEOREM Refines == Spec => ClosesInOrder
<1>1. Init => Calendar!Init
  BY SchedulerAssumption DEF Init, Calendar!Init, Days
<1>2. TypeOK /\ QuoteInv /\ [Next]_vars
        => [Calendar!Next]_<<cursor, settled, quoted>>
  <2> SUFFICES ASSUME TypeOK, QuoteInv, [Next]_vars
               PROVE  [Calendar!Next]_<<cursor, settled, quoted>>
    OBVIOUS
  <2>1. CASE UNCHANGED <<guilds, cursor, quoted, settled>>
    BY <2>1
  <2>2. ASSUME NEW g \in guilds, NEW t \in Days, cursor[g] <= t, SettleThrough(g, t)
        PROVE  Calendar!Next
    <3>1. g \in Guilds
      BY DEF TypeOK, CalendarOK
    <3> QED
      BY <2>2, <3>1, SettleCloses DEF Calendar!Next
  <2>3. ASSUME NEW g \in guilds, NEW t \in Days, ~SettledAtOrAfter(g, t), SnapBack(g, t)
        PROVE  Calendar!Next
    <3>1. g \in Guilds
      BY DEF TypeOK, CalendarOK
    <3> QED
      BY <2>3, <3>1, MoveCorrects DEF Calendar!Next
  <2>4. ASSUME NEW g \in Guilds, NEW d \in Days, Opens(g, d) \/ Skips(g, d)
        PROVE  Calendar!Next
    BY <2>4, MoveCorrects DEF Calendar!Next
  <2> QED
    BY <2>1, <2>2, <2>3, <2>4, StepMoves DEF CursorMoves
<1> QED
  BY <1>1, <1>2, QuoteInvariant, TypeCorrect, PTL DEF Spec, ClosesInOrder, Calendar!Spec

----------------------------------------------------------------------------
\* Attendance.

\* What a step does to one guild's attendance: settle it, add a player who
\* was not clocked in, remove one, or nothing.
AttendanceMoves ==
    \/ UNCHANGED <<clocked, wages, clockins>>
    \/ \E g \in Guilds, t \in Days : SettleThrough(g, t)
    \/ \E c \in Cmds : at[c] \in Guilds /\ (ClockIn(c) \/ ClockOut(c))

\* Attendance and its payments only change by a settlement that pays what is
\* recorded, or by a clock-in or clock-out.
LEMMA StepAttends ==
    ASSUME TypeOK, [Next]_vars
    PROVE  AttendanceMoves
<1> USE SchedulerAssumption
<1>0. \A p \in Procs : at[p] \in Guilds /\ target[p] \in Days
  BY DEF TypeOK, ProcessOK
<1>a. UNCHANGED <<calendar, history>> => AttendanceMoves
  BY DEF AttendanceMoves, calendar, history
<1>b. ASSUME NEW g \in Guilds, NEW t \in Days, Synchronize(g, t)
      PROVE  AttendanceMoves
  BY <1>b DEF Synchronize, SnapBack, AttendanceMoves, calendar, history
<1>c. ASSUME NEW g \in Guilds, TickOne(g) PROVE AttendanceMoves
  <2>1. cursor[g] < LastDay => cursor[g] + 1 \in Days
    BY DEF TypeOK, CalendarOK, Days
  <2> QED
    BY <1>a, <1>c, <2>1 DEF TickOne, AttendanceMoves
<1>1. ASSUME NEW s \in Sweepers, SweepStep(s) PROVE AttendanceMoves
  <2>1. CASE SweepSync(s)
    <3>1. at[s] \in Guilds /\ target[s] \in Days
      BY <1>0 DEF Procs
    <3> QED
      BY <1>b, <1>c, <2>1, <3>1 DEF SweepSync
  <2>2. CASE ~SweepSync(s)
    BY <1>1, <1>a, <2>2
    DEF SweepStep, SweepStart, SweepList, SweepNext, SweepDone, SweepFail, Vanish
  <2> QED
    BY <2>1, <2>2
<1>2. ASSUME NEW c \in Cmds, CmdStep(c) PROVE AttendanceMoves
  <2>0. at[c] \in Guilds /\ target[c] \in Days
    BY <1>0 DEF Procs
  <2>1. CASE Arrive(c) \/ CmdEnd(c)
    BY <1>a, <2>1 DEF Arrive, CmdEnd
  <2>2. CASE Boot(c) \/ Found(c) \/ SetDay(c)
    BY <1>a, <2>2
    DEF Boot, Bootstrap, Found, SetDay, AttendanceMoves, calendar, history
  <2>3. CASE CmdSync(c)
    BY <1>b, <2>0, <2>3 DEF CmdSync
  <2>4. CASE ClockIn(c) \/ ClockOut(c)
    BY <2>0, <2>4 DEF AttendanceMoves
  <2>5. CASE ForceTick(c)
    BY <1>c, <2>0, <2>5 DEF ForceTick
  <2> QED
    BY <1>2, <2>1, <2>2, <2>3, <2>4, <2>5 DEF CmdStep
<1>3. CASE Restart \/ Crash \/ Midnight
  BY <1>a, <1>3 DEF Restart, Crash, Midnight, Vanish
<1>4. CASE UNCHANGED vars
  BY <1>4, <1>a DEF vars
<1> QED
  BY <1>1, <1>2, <1>3, <1>4 DEF Next

\* Attendance pays at most once for each time it was recorded, however many
\* dates a catch-up closes and however the cursor moves.
THEOREM AttendancePaidOnce == Spec => []AttendanceNeverInvented
<1>1. Init => AttendanceNeverInvented
  BY DEF Init, AttendanceNeverInvented
<1>2. TypeOK /\ AttendanceNeverInvented /\ [Next]_vars => AttendanceNeverInvented'
  <2> SUFFICES ASSUME TypeOK, AttendanceNeverInvented, [Next]_vars
               PROVE  AttendanceNeverInvented'
    OBVIOUS
  <2> USE DEF AttendanceNeverInvented, TypeOK, CalendarOK, HistoryOK
  <2>1. CASE UNCHANGED <<clocked, wages, clockins>>
    BY <2>1
  <2>2. ASSUME NEW g \in Guilds, NEW t \in Days, SettleThrough(g, t)
        PROVE  AttendanceNeverInvented'
    <3>1. /\ clocked' = [clocked EXCEPT ![g] = ClockedAfter(g, t)]
          /\ wages' = [wages EXCEPT ![g] = Plus1(wages[g], PaidBy(g, t))]
          /\ clockins' = clockins
      BY <2>2 DEF SettleThrough
    <3>2. ASSUME NEW p \in Players
          PROVE  /\ p \in PaidBy(g, t) => p \in clocked[g] /\ p \notin ClockedAfter(g, t)
                 /\ p \in ClockedAfter(g, t) => p \in clocked[g]
                 /\ Plus1(wages[g], PaidBy(g, t))[p]
                      = IF p \in PaidBy(g, t) THEN wages[g][p] + 1 ELSE wages[g][p]
      BY DEF PaidBy, ClockedAfter, Plus1
    <3> QED
      BY <3>1, <3>2
  <2>3. ASSUME NEW c \in Cmds, at[c] \in Guilds, ClockIn(c)
        PROVE  AttendanceNeverInvented'
    BY <2>3 DEF ClockIn
  <2>4. ASSUME NEW c \in Cmds, at[c] \in Guilds, ClockOut(c)
        PROVE  AttendanceNeverInvented'
    BY <2>4 DEF ClockOut, history
  <2> QED
    BY <2>1, <2>2, <2>3, <2>4, StepAttends DEF AttendanceMoves
<1> QED
  BY <1>1, <1>2, TypeCorrect, PTL DEF Spec

----------------------------------------------------------------------------
\* The line for the transaction lock.

\* Process p holds the lock or waits for it.
Waits(p) == \E i \in 1 .. Len(queue) : queue[i] = p

\* The lock is handed to p before it is handed to q.
Before(p, q) == \E i, j \in 1 .. Len(queue) : i < j /\ queue[i] = p /\ queue[j] = q

\* Who is before another in the line is in the line, and so is the other.
LEMMA BothWait == \A x, y : Before(x, y) => Waits(x) /\ Waits(y)
BY DEF Before, Waits

\* Nobody is in an empty line.
LEMMA EmptyLine ==
    /\ queue = <<>> => \A x, y : ~Waits(x) /\ ~Before(x, y)
    /\ queue' = <<>> => \A x, y : ~Waits(x)' /\ ~Before(x, y)'
BY DEF Waits, Before

\* The line only changes with the queue.
LEMMA SameLine ==
    queue' = queue => \A x, y : /\ Waits(x)' <=> Waits(x)
                                /\ Before(x, y)' <=> Before(x, y)
BY DEF Waits, Before

\* The holder of the lock is before everyone else in the line.
LEMMA HolderFirst ==
    ASSUME queue \in Seq(Procs), NEW p, Holds(p)
    PROVE  Waits(p) /\ \A x : Waits(x) => x = p \/ Before(p, x)
<1>1. Len(queue) \in Nat /\ Len(queue) >= 1 /\ queue[1] = p
  BY DEF Holds
<1>2. Waits(p)
  BY <1>1 DEF Waits
<1>3. ASSUME NEW x, NEW i \in 1 .. Len(queue), queue[i] = x PROVE x = p \/ Before(p, x)
  <2>1. CASE i = 1
    BY <1>1, <1>3, <2>1
  <2>2. CASE i # 1
    <3>1. 1 \in 1 .. Len(queue) /\ 1 < i
      BY <1>1, <2>2
    <3> QED
      BY <1>1, <1>3, <3>1 DEF Before
  <2> QED
    BY <2>1, <2>2
<1> QED
  BY <1>2, <1>3 DEF Waits

\* Who asks for the lock is behind all who wait.
LEMMA JoinsLast ==
    ASSUME queue \in Seq(Procs), NEW p \in Procs, Acquire(p)
    PROVE  /\ \A x : Waits(x)' => Waits(x) \/ x = p
           /\ \A x, y : Before(x, y)' => Before(x, y) \/ (Waits(x) /\ y = p)
<1>1. /\ Len(queue) \in Nat /\ Len(queue') = Len(queue) + 1
      /\ queue'[Len(queue) + 1] = p
      /\ \A i \in 1 .. Len(queue) : queue'[i] = queue[i]
  BY DEF Acquire
<1>2. \A i \in 1 .. Len(queue') : i \in 1 .. Len(queue) \/ i = Len(queue) + 1
  BY <1>1
<1>3. ASSUME NEW x, Waits(x)' PROVE Waits(x) \/ x = p
  BY <1>1, <1>2, <1>3 DEF Waits
<1>4. ASSUME NEW x, NEW y, Before(x, y)' PROVE Before(x, y) \/ (Waits(x) /\ y = p)
  <2>1. PICK i, j \in 1 .. Len(queue') : i < j /\ queue'[i] = x /\ queue'[j] = y
    BY <1>4 DEF Before
  <2>2. i \in 1 .. Len(queue)
    BY <1>1, <2>1
  <2>3. queue[i] = x
    BY <1>1, <2>1, <2>2
  <2>4. CASE j \in 1 .. Len(queue)
    <3>1. queue[j] = y
      BY <1>1, <2>1, <2>4
    <3> QED
      BY <2>1, <2>2, <2>3, <2>4, <3>1 DEF Before
  <2>5. CASE j = Len(queue) + 1
    BY <1>1, <2>1, <2>2, <2>3, <2>5 DEF Waits
  <2> QED
    BY <1>2, <2>4, <2>5
<1> QED
  BY <1>3, <1>4

\* Who gives the lock back leaves the line to those it was before.
LEMMA LeavesFirst ==
    ASSUME queue \in Seq(Procs), NEW p \in Procs, Release(p)
    PROVE  /\ \A x : Waits(x)' => Before(p, x)
           /\ \A x, y : Before(x, y)' => Before(x, y)
<1>1. /\ Len(queue) \in Nat /\ Len(queue) >= 1 /\ queue[1] = p
      /\ Len(queue') = Len(queue) - 1
      /\ \A i \in 1 .. Len(queue') : queue'[i] = queue[i + 1]
  BY DEF Release, Holds
<1>2. \A i \in 1 .. Len(queue') : i + 1 \in 1 .. Len(queue) /\ 1 < i + 1
  BY <1>1
<1>3. ASSUME NEW x, Waits(x)' PROVE Before(p, x)
  <2>1. PICK i \in 1 .. Len(queue') : queue'[i] = x
    BY <1>3 DEF Waits
  <2>2. 1 \in 1 .. Len(queue) /\ i + 1 \in 1 .. Len(queue) /\ 1 < i + 1
        /\ queue[1] = p /\ queue[i + 1] = x
    BY <1>1, <1>2, <2>1
  <2> QED
    BY <2>2 DEF Before
<1>4. ASSUME NEW x, NEW y, Before(x, y)' PROVE Before(x, y)
  <2>1. PICK i, j \in 1 .. Len(queue') : i < j /\ queue'[i] = x /\ queue'[j] = y
    BY <1>4 DEF Before
  <2>2. /\ i + 1 \in 1 .. Len(queue) /\ j + 1 \in 1 .. Len(queue) /\ i + 1 < j + 1
        /\ queue[i + 1] = x /\ queue[j + 1] = y
    BY <1>1, <1>2, <2>1
  <2> QED
    BY <2>2 DEF Before
<1> QED
  BY <1>3, <1>4

\* The holder that asks again is behind all those it was before.
LEMMA RejoinsLast ==
    ASSUME queue \in Seq(Procs), NEW p \in Procs, Reacquire(p)
    PROVE  /\ \A x : Waits(x)' => Waits(x)
           /\ \A x, y : Before(x, y)' =>
                \/ Before(x, y) /\ Before(p, x) /\ Before(p, y)
                \/ Before(p, x) /\ y = p
<1>1. /\ Len(queue) \in Nat /\ Len(queue) >= 1 /\ queue[1] = p
      /\ Len(queue') = Len(queue) /\ queue'[Len(queue)] = p
      /\ \A i \in 1 .. Len(queue) - 1 : queue'[i] = queue[i + 1]
  BY DEF Reacquire, Holds
<1>2. /\ \A i \in 1 .. Len(queue') : i \in 1 .. Len(queue) - 1 \/ i = Len(queue)
      /\ \A i \in 1 .. Len(queue) - 1 : i + 1 \in 1 .. Len(queue) /\ 1 < i + 1
      /\ 1 \in 1 .. Len(queue)
  BY <1>1
<1>3. \A i \in 1 .. Len(queue) - 1 : Before(p, queue'[i])
  BY <1>1, <1>2 DEF Before
<1>4. ASSUME NEW x, Waits(x)' PROVE Waits(x)
  <2>1. PICK i \in 1 .. Len(queue') : queue'[i] = x
    BY <1>4 DEF Waits
  <2> QED
    BY <1>1, <1>2, <2>1 DEF Waits
<1>5. ASSUME NEW x, NEW y, Before(x, y)'
      PROVE  \/ Before(x, y) /\ Before(p, x) /\ Before(p, y)
             \/ Before(p, x) /\ y = p
  <2>1. PICK i, j \in 1 .. Len(queue') : i < j /\ queue'[i] = x /\ queue'[j] = y
    BY <1>5 DEF Before
  <2>2. i \in 1 .. Len(queue) - 1 /\ Before(p, x)
    BY <1>1, <1>2, <1>3, <2>1
  <2>3. CASE j \in 1 .. Len(queue) - 1
    <3>1. /\ i + 1 \in 1 .. Len(queue) /\ j + 1 \in 1 .. Len(queue) /\ i + 1 < j + 1
          /\ queue[i + 1] = x /\ queue[j + 1] = y
      BY <1>1, <1>2, <2>1, <2>2, <2>3
    <3>2. Before(p, y)
      BY <1>3, <2>1, <2>3
    <3> QED
      BY <2>2, <3>1, <3>2 DEF Before
  <2>4. CASE j = Len(queue)
    BY <1>1, <2>1, <2>2, <2>4
  <2> QED
    BY <1>2, <2>3, <2>4
<1> QED
  BY <1>4, <1>5

\* Nobody is twice in the line; a process in it has a transaction to run, and
\* of one between transactions nobody waits; a dead process has neither.
LineInv ==
    /\ \A p \in Procs : ~Before(p, p)
    /\ \A p \in Procs : Waits(p) => pc[p] \in {"list", "boot", "sync", "act"}
    /\ \A s \in Sweepers : pc[s] \in {"idle", "list", "next", "sync"}
    /\ \A c \in Cmds : pc[c] \in {"idle", "boot", "sync", "act"}
    /\ alive = "down" => queue = <<>> /\ \A p \in Procs : pc[p] = "idle"

\* A process that has nothing in line may join it.
LEMMA LineJoins ==
    ASSUME TypeOK, LineInv, NEW p \in Procs, Acquire(p),
           pc[p] \in {"idle", "next"} \/ queue = <<>>
    PROVE  /\ \A x \in Procs : ~Before(x, x)'
           /\ \A x \in Procs : Waits(x)' => Waits(x) \/ x = p
<1>1. queue \in Seq(Procs)
  BY DEF TypeOK, ProcessOK
<1>2. ~Waits(p)
  BY EmptyLine DEF LineInv
<1> QED
  BY <1>1, <1>2, JoinsLast DEF LineInv

\* Who leaves the line is not in it again.
LEMMA LineLeaves ==
    ASSUME TypeOK, LineInv, NEW p \in Procs, Release(p)
    PROVE  /\ \A x \in Procs : ~Before(x, x)'
           /\ \A x \in Procs : Waits(x)' => Waits(x) /\ x # p
           /\ alive # "down"
<1>1. queue \in Seq(Procs)
  BY DEF TypeOK, ProcessOK
<1>2. alive # "down"
  BY DEF LineInv, Release, Holds
<1> QED
  BY <1>1, <1>2, LeavesFirst, BothWait DEF LineInv

\* Nor is the holder that asks again.
LEMMA LineRejoins ==
    ASSUME TypeOK, LineInv, NEW p \in Procs, Reacquire(p)
    PROVE  /\ \A x \in Procs : ~Before(x, x)'
           /\ \A x \in Procs : Waits(x)' => Waits(x)
           /\ alive # "down"
<1>1. queue \in Seq(Procs)
  BY DEF TypeOK, ProcessOK
<1>2. alive # "down"
  BY DEF LineInv, Reacquire, Holds
<1> QED
  BY <1>1, <1>2, RejoinsLast, BothWait DEF LineInv

\* Every step keeps the line a line.
LEMMA LineStep == TypeOK /\ LineInv /\ [Next]_vars => LineInv'
<1> SUFFICES ASSUME TypeOK, LineInv, [Next]_vars PROVE LineInv'
  OBVIOUS
<1> USE SchedulerAssumption
<1>0. /\ Procs = Sweepers \cup Cmds /\ Cmds \cap Sweepers = {}
      /\ "startup" \in Sweepers /\ "tick" \in Sweepers
  BY DEF Procs, Sweepers, Sweeps
<1>t. pc \in [Procs -> {"idle", "list", "next", "boot", "sync", "act"}]
  BY DEF TypeOK, ProcessOK
<1>a. ASSUME Vanish PROVE LineInv'
  <2>1. queue' = <<>> /\ pc' = [p \in Procs |-> "idle"]
    BY <1>a DEF Vanish
  <2> QED
    BY <1>0, <2>1, EmptyLine DEF LineInv
<1>b. queue' = queue => /\ \A x \in Procs : ~Before(x, x)'
                        /\ \A x \in Procs : Waits(x)' => Waits(x)
  BY SameLine DEF LineInv
<1>1. ASSUME Restart PROVE LineInv'
  <2>1. CASE alive' = "starting" /\ Acquire("startup") /\ pc' = [pc EXCEPT !["startup"] = "list"]
    <3>1. queue = <<>>
      BY <1>1 DEF Restart, LineInv
    <3> QED
      BY <1>0, <1>t, <2>1, <3>1, LineJoins, EmptyLine DEF LineInv
  <2>2. CASE alive' = "up" /\ UNCHANGED <<pc, queue>>
    <3>1. pc' = pc /\ queue' = queue /\ alive' # "down"
      BY <2>2
    <3> QED
      BY <1>b, <3>1 DEF LineInv
  <2> QED
    BY <1>1, <2>1, <2>2 DEF Restart
<1>2. ASSUME Crash PROVE LineInv'
  BY <1>2, <1>a DEF Crash
<1>3. ASSUME Midnight PROVE LineInv'
  <2>1. CASE UNCHANGED process
    <3>1. pc' = pc /\ queue' = queue /\ alive' = alive
      BY <1>3, <2>1 DEF Midnight, process
    <3> QED
      BY <1>b, <3>1 DEF LineInv
  <2>2. CASE alive = "up" /\ pc["tick"] = "idle" /\ Acquire("tick")
             /\ pc' = [pc EXCEPT !["tick"] = "list"]
    BY <1>0, <1>t, <1>3, <2>2, LineJoins DEF Midnight, LineInv
  <2> QED
    BY <1>3, <2>1, <2>2 DEF Midnight
<1>4. ASSUME NEW s \in Sweepers, SweepStep(s) PROVE LineInv'
  <2>1. CASE SweepStart(s)
    BY <1>0, <1>t, <2>1, LineJoins DEF SweepStart, LineInv, clock
  <2>2. CASE SweepList(s)
    BY <1>0, <1>t, <2>2, LineLeaves DEF SweepList, LineInv, clock
  <2>3. CASE SweepNext(s)
    BY <1>0, <1>t, <2>3, LineJoins DEF SweepNext, LineInv, clock
  <2>4. CASE SweepDone(s)
    <3>1. /\ queue' = queue /\ alive # "down" /\ alive' # "down" /\ ~Waits(s)
          /\ pc' = [pc EXCEPT ![s] = "idle"]
      BY <1>0, <2>4 DEF SweepDone, Unset, LineInv
    <3>2. \A p \in Procs : pc'[p] = IF p = s THEN "idle" ELSE pc[p]
      BY <1>t, <3>1
    <3> QED
      BY <1>0, <1>b, <3>1, <3>2 DEF LineInv
  <2>5. CASE SweepSync(s)
    BY <1>0, <1>t, <2>5, LineLeaves DEF SweepSync, LineInv, clock
  <2>6. CASE SweepFail(s)
    <3>1. CASE s = "startup"
      BY <1>a, <2>6, <3>1 DEF SweepFail
    <3>2. CASE s # "startup"
      BY <1>0, <1>t, <2>6, <3>2, LineLeaves DEF SweepFail, LineInv, clock
    <3> QED
      BY <3>1, <3>2
  <2> QED
    BY <1>4, <2>1, <2>2, <2>3, <2>4, <2>5, <2>6 DEF SweepStep
<1>5. ASSUME NEW c \in Cmds, CmdStep(c) PROVE LineInv'
  <2>1. CASE Arrive(c)
    BY <1>0, <1>t, <2>1, LineJoins DEF Arrive, LineInv, clock
  <2>2. CASE Boot(c)
    BY <1>0, <1>t, <2>2, LineRejoins DEF Boot, LineInv, clock
  <2>3. CASE CmdSync(c)
    BY <1>0, <1>t, <2>3, LineRejoins DEF CmdSync, LineInv, clock
  <2>4. ASSUME Release(c), Unset(c), alive' = alive PROVE LineInv'
    BY <1>0, <1>t, <2>4, LineLeaves DEF Unset, LineInv
  <2>5. CASE CmdEnd(c)
    BY <2>4, <2>5 DEF CmdEnd, clock
  <2>6. CASE Returns(c)
    BY <2>4, <2>6 DEF Returns, clock
  <2> QED
    BY <1>5, <2>1, <2>2, <2>3, <2>5, <2>6
    DEF CmdStep, ClockIn, ClockOut, Found, SetDay, ForceTick
<1>6. CASE UNCHANGED vars
  <2>1. pc' = pc /\ queue' = queue /\ alive' = alive
    BY <1>6 DEF vars, process, clock
  <2> QED
    BY <1>b, <2>1 DEF LineInv
<1> QED
  BY <1>1, <1>2, <1>3, <1>4, <1>5, <1>6 DEF Next

\* The line is one in every reachable state.
LEMMA LineInvariant == Spec => []LineInv
<1>1. Init => LineInv
  BY EmptyLine DEF Init, LineInv, Procs
<1> QED
  BY <1>1, LineStep, TypeCorrect, PTL DEF Spec

----------------------------------------------------------------------------
\* No command acts on a stale date.

\* In calendar mode the date a process wants to reach was the local date at
\* some time since the last start.
TargetsSeen ==
    \A p \in Procs : Waits(p) /\ pc[p] # "list" => target[p] \in startedOn .. today

\* The guild of a command past its first transaction has a row.
Booted == \A c \in Cmds : Waits(c) /\ pc[c] \in {"sync", "act"} => at[c] \in guilds

\* A command past its hook waits in front of a guild that is open on its date
\* or later.
CaughtUp == \A c \in Cmds : Waits(c) /\ pc[c] = "act" => cursor[at[c]] >= target[c]

\* How the dates of two processes in the line compare.  Commands keep their
\* order of arrival through the first two transactions, and a process about to
\* synchronize is never before a command past its hook with a later date.
Ordered(p, q) ==
    /\ pc[p] = "boot" /\ pc[q] = "boot" => target[p] <= target[q]
    /\ pc[p] = "boot" /\ q \in Cmds /\ pc[q] = "sync" => target[q] <= target[p]
    /\ p \in Cmds /\ pc[p] = "sync" /\ pc[q] = "sync" => target[p] <= target[q]
    /\ pc[p] = "sync" /\ pc[q] = "act" => target[q] <= target[p]

InOrder == \A p, q \in Procs : Before(p, q) => Ordered(p, q)

\* The inductive invariant.  In accelerated mode no date is waited for.
DateInv ==
    /\ startedOn <= today
    /\ mode = "calendar" => TargetsSeen /\ Booted /\ CaughtUp /\ InOrder

\* Both of an ordered pair are in the line after a step, too.
LEMMA BothWaitNext == \A x, y : Before(x, y)' => Waits(x)' /\ Waits(y)'
BY DEF Before, Waits

\* The dates stay in order while processes only leave the line, provided no
\* guild is moved back past a command that waits to act.
LEMMA DatesStay ==
    ASSUME TypeOK, DateInv, mode' = mode, startedOn' = startedOn,
           today' \in Int, today <= today', guilds \subseteq guilds',
           \A x \in Procs : Waits(x)' =>
                /\ Waits(x) /\ pc'[x] = pc[x]
                /\ at'[x] = at[x] /\ target'[x] = target[x],
           \A x, y \in Procs : Before(x, y)' => Before(x, y),
           mode = "calendar" => \A c \in Cmds :
                Waits(c)' /\ pc[c] = "act" => cursor'[at[c]] >= target[c]
    PROVE  DateInv'
<1>1. today \in Int /\ startedOn \in Int /\ \A x \in Procs : target[x] \in Int
  BY SchedulerAssumption DEF TypeOK, ClockOK, ProcessOK, Days
<1>2. startedOn' <= today'
  BY <1>1 DEF DateInv
<1>3. ASSUME mode = "calendar" PROVE (TargetsSeen /\ Booted /\ CaughtUp /\ InOrder)'
  <2>1. TargetsSeen'
    BY <1>1, <1>3 DEF DateInv, TargetsSeen
  <2>2. Booted'
    BY <1>3 DEF DateInv, Booted, Procs
  <2>3. CaughtUp'
    BY <1>3 DEF DateInv, CaughtUp, Procs
  <2>4. InOrder'
    <3>1. ASSUME NEW x \in Procs, NEW y \in Procs, Before(x, y)'
          PROVE  /\ pc'[x] = pc[x] /\ pc'[y] = pc[y] /\ Ordered(x, y)
                 /\ target'[x] = target[x] /\ target'[y] = target[y]
      BY <1>3, <3>1, BothWaitNext DEF DateInv, InOrder
    <3> QED
      BY <3>1 DEF InOrder, Ordered
  <2> QED
    BY <2>1, <2>2, <2>3, <2>4
<1> QED
  BY <1>2, <1>3 DEF DateInv

\* They stay in order when a process joins that wants today's date, or that
\* has no date yet.
LEMMA DatesJoin ==
    ASSUME TypeOK, LineInv, DateInv, mode' = mode, startedOn' = startedOn,
           today' \in Int, today <= today', UNCHANGED <<guilds, cursor>>,
           NEW p \in Procs, Acquire(p), pc[p] \in {"idle", "next"},
           \A x \in Procs \ {p} :
                pc'[x] = pc[x] /\ at'[x] = at[x] /\ target'[x] = target[x],
           \/ pc'[p] = "list"
           \/ /\ (pc'[p] = "sync" /\ p \in Sweepers) \/ pc'[p] = "boot"
              /\ target'[p] = today
    PROVE  DateInv'
<1>1. today \in Int /\ startedOn \in Int /\ \A x \in Procs : target[x] \in Int
  BY SchedulerAssumption DEF TypeOK, ClockOK, ProcessOK, Days
<1>2. /\ \A x \in Procs : Waits(x)' => Waits(x) \/ x = p
      /\ \A x, y \in Procs : Before(x, y)' => Before(x, y) \/ (Waits(x) /\ y = p)
      /\ ~Waits(p)
  BY JoinsLast DEF TypeOK, ProcessOK, LineInv
<1>3. startedOn' <= today'
  BY <1>1 DEF DateInv
<1>c. Cmds \subseteq Procs /\ Cmds \cap Sweepers = {}
  BY SchedulerAssumption DEF Procs
<1>4. ASSUME mode = "calendar" PROVE (TargetsSeen /\ Booted /\ CaughtUp /\ InOrder)'
  <2>0. \A x \in Procs : Waits(x) /\ pc[x] # "list" => target[x] <= today
    BY <1>1, <1>4 DEF DateInv, TargetsSeen
  <2>1. TargetsSeen'
    <3>1. ASSUME NEW x \in Procs, Waits(x)', pc'[x] # "list"
          PROVE  target'[x] \in startedOn .. today
      <4>1. CASE x = p
        BY <1>1, <3>1, <4>1 DEF DateInv
      <4>2. CASE x # p
        BY <1>2, <1>4, <3>1, <4>2 DEF DateInv, TargetsSeen
      <4> QED
        BY <4>1, <4>2
    <3> QED
      BY <1>1, <3>1 DEF TargetsSeen
  <2>2. Booted'
    BY <1>2, <1>4, <1>c DEF DateInv, Booted
  <2>3. CaughtUp'
    BY <1>2, <1>4, <1>c DEF DateInv, CaughtUp
  <2>4. InOrder'
    <3>1. ASSUME NEW x \in Procs, NEW y \in Procs, Before(x, y)' PROVE Ordered(x, y)'
      <4>1. CASE Before(x, y)
        <5>1. x # p /\ y # p
          BY <1>2, <4>1, BothWait
        <5> QED
          BY <1>4, <4>1, <5>1 DEF DateInv, InOrder, Ordered
      <4>2. CASE Waits(x) /\ y = p
        <5>1. x # p
          BY <1>2, <4>2
        <5>2. pc'[x] # "list" => target'[x] <= today
          BY <2>0, <4>2, <5>1
        <5> QED
          BY <1>c, <4>2, <5>1, <5>2 DEF Ordered
      <4> QED
        BY <1>2, <3>1, <4>1, <4>2
    <3> QED
      BY <3>1 DEF InOrder
  <2> QED
    BY <2>1, <2>2, <2>3, <2>4
<1> QED
  BY <1>3, <1>4 DEF DateInv

\* An empty line is in order.
LEMMA DatesEmpty ==
    ASSUME queue' = <<>>, startedOn' <= today'
    PROVE  DateInv'
BY EmptyLine DEF DateInv, TargetsSeen, Booted, CaughtUp, InOrder

\* synchronize_guild moves one cursor, to the target if anywhere, and leaves
\* it there or later.
LEMMA SyncCursor ==
    ASSUME TypeOK, NEW g \in Guilds, NEW t \in Days, Synchronize(g, t)
    PROVE  /\ guilds' = guilds
           /\ \A h \in Guilds : cursor'[h] = cursor[h] \/ (h = g /\ cursor'[h] = t)
           /\ g \in guilds => cursor'[g] >= t
<1>1. CASE g \notin guilds /\ UNCHANGED <<calendar, history>>
  BY <1>1 DEF calendar
<1>2. CASE g \in guilds /\ cursor[g] > t /\ UNCHANGED <<calendar, history>>
  BY <1>2, SchedulerAssumption DEF calendar, TypeOK, CalendarOK, Days
<1>3. CASE guilds' = guilds /\ cursor' = [cursor EXCEPT ![g] = t]
  BY <1>3, SchedulerAssumption DEF TypeOK, CalendarOK, Days
<1> QED
  BY <1>1, <1>2, <1>3 DEF Synchronize, SnapBack, SettleThrough

\* Whoever holds the lock may synchronize its guild without moving it back
\* past a command that waits to act.
LEMMA SyncKeepsCaughtUp ==
    ASSUME TypeOK, DateInv, mode = "calendar",
           NEW p \in Procs, Holds(p), pc[p] = "sync", Synchronize(at[p], target[p])
    PROVE  \A c \in Cmds : Waits(c) /\ pc[c] = "act" => cursor'[at[c]] >= target[c]
<1> SUFFICES ASSUME NEW c \in Cmds, Waits(c), pc[c] = "act"
             PROVE  cursor'[at[c]] >= target[c]
  OBVIOUS
<1>1. c \in Procs /\ at[c] \in Guilds
  BY DEF TypeOK, ProcessOK, Procs
<1>2. cursor[at[c]] >= target[c]
  BY DEF DateInv, CaughtUp
<1>3. target[c] <= target[p]
  <2>1. Before(p, c)
    BY <1>1, HolderFirst DEF TypeOK, ProcessOK
  <2> QED
    BY <1>1, <2>1 DEF DateInv, InOrder, Ordered
<1>4. cursor'[at[c]] = cursor[at[c]] \/ cursor'[at[c]] = target[p]
  BY <1>1, SyncCursor DEF TypeOK, ProcessOK
<1>5. target[c] \in Int /\ target[p] \in Int
  BY <1>1, SchedulerAssumption DEF TypeOK, ProcessOK, Days
<1> QED
  BY <1>2, <1>3, <1>4, <1>5

\* The first transaction of the hook keeps the order.
LEMMA BootInOrder ==
    ASSUME TypeOK, LineInv, DateInv, NEW c \in Cmds, Boot(c)
    PROVE  DateInv'
<1>0. c \in Procs /\ Cmds \subseteq Procs /\ Holds(c) /\ pc[c] = "boot"
      /\ UNCHANGED <<at, target, mode, today, startedOn>>
  BY DEF Procs, Boot, Reacquire, clock
<1>1. /\ \A x \in Procs : Waits(x)' => Waits(x)
      /\ \A x, y \in Procs : Before(x, y)' =>
            \/ Before(x, y) /\ x # c /\ y # c
            \/ Before(c, x) /\ x # c /\ y = c
  BY <1>0, RejoinsLast DEF TypeOK, ProcessOK, LineInv, Boot
<1>2. /\ guilds' = guilds \cup {at[c]}
      /\ \A g \in guilds : cursor'[g] = cursor[g]
  BY <1>0 DEF Boot, Bootstrap, calendar, TypeOK, CalendarOK
<1>3. ASSUME mode = "calendar" PROVE (TargetsSeen /\ Booted /\ CaughtUp /\ InOrder)'
  <2>1. \A x \in Procs : pc'[x] = IF x = c THEN "sync" ELSE pc[x]
    BY <1>0, <1>3 DEF Boot, TypeOK, ProcessOK
  <2>2. TargetsSeen'
    BY <1>0, <1>1, <1>3, <2>1 DEF DateInv, TargetsSeen
  <2>3. Booted'
    BY <1>0, <1>1, <1>2, <1>3, <2>1 DEF DateInv, Booted
  <2>4. CaughtUp'
    <3>1. ASSUME NEW d \in Cmds, Waits(d)', pc'[d] = "act"
          PROVE  cursor'[at'[d]] >= target'[d]
      <4>1. Waits(d) /\ pc[d] = "act" /\ d \in Procs
        BY <1>0, <1>1, <2>1, <3>1
      <4>2. at[d] \in guilds /\ cursor[at[d]] >= target[d]
        BY <1>3, <4>1 DEF DateInv, Booted, CaughtUp
      <4> QED
        BY <1>0, <1>2, <4>2
    <3> QED
      BY <3>1 DEF CaughtUp
  <2>5. InOrder'
    <3>1. ASSUME NEW x \in Procs, NEW y \in Procs, Before(x, y)' PROVE Ordered(x, y)'
      <4>1. CASE Before(x, y) /\ x # c /\ y # c
        BY <1>0, <1>3, <2>1, <4>1 DEF DateInv, InOrder, Ordered
      <4>2. CASE Before(c, x) /\ x # c /\ y = c
        BY <1>0, <1>3, <2>1, <4>2 DEF DateInv, InOrder, Ordered
      <4> QED
        BY <1>1, <3>1, <4>1, <4>2
    <3> QED
      BY <3>1 DEF InOrder
  <2> QED
    BY <2>2, <2>3, <2>4, <2>5
<1> QED
  BY <1>0, <1>3 DEF DateInv

\* So does the second, which puts the command in front of its date.
LEMMA CmdSyncInOrder ==
    ASSUME TypeOK, LineInv, DateInv, NEW c \in Cmds, CmdSync(c)
    PROVE  DateInv'
<1>0. c \in Procs /\ Cmds \subseteq Procs /\ Holds(c) /\ pc[c] = "sync"
      /\ UNCHANGED <<at, target, mode, today, startedOn>>
      /\ at[c] \in Guilds /\ target[c] \in Days
  BY DEF Procs, CmdSync, Reacquire, clock, TypeOK, ProcessOK
<1>1. /\ \A x \in Procs : Waits(x)' => Waits(x)
      /\ \A x, y \in Procs : Before(x, y)' =>
            \/ Before(x, y) /\ x # c /\ y # c
            \/ Before(c, x) /\ x # c /\ y = c
  BY <1>0, RejoinsLast DEF TypeOK, ProcessOK, LineInv, CmdSync
<1>2. Waits(c)
  BY <1>0, HolderFirst DEF TypeOK, ProcessOK
<1>3. ASSUME mode = "calendar" PROVE (TargetsSeen /\ Booted /\ CaughtUp /\ InOrder)'
  <2>1. \A x \in Procs : pc'[x] = IF x = c THEN "act" ELSE pc[x]
    BY <1>0 DEF CmdSync, TypeOK, ProcessOK
  <2>a. guilds' = guilds /\ at[c] \in guilds /\ cursor'[at[c]] >= target[c]
    BY <1>0, <1>2, <1>3, SyncCursor DEF CmdSync, DateInv, Booted
  <2>b. \A d \in Cmds : Waits(d) /\ pc[d] = "act" => cursor'[at[d]] >= target[d]
    BY <1>0, <1>3, SyncKeepsCaughtUp DEF CmdSync
  <2>2. TargetsSeen'
    BY <1>0, <1>1, <1>3, <2>1 DEF DateInv, TargetsSeen
  <2>3. Booted'
    BY <1>0, <1>1, <1>3, <2>1, <2>a DEF DateInv, Booted
  <2>4. CaughtUp'
    BY <1>0, <1>1, <2>1, <2>a, <2>b DEF CaughtUp
  <2>5. InOrder'
    <3>1. ASSUME NEW x \in Procs, NEW y \in Procs, Before(x, y)' PROVE Ordered(x, y)'
      <4>1. CASE Before(x, y) /\ x # c /\ y # c
        BY <1>0, <1>3, <2>1, <4>1 DEF DateInv, InOrder, Ordered
      <4>2. CASE Before(c, x) /\ x # c /\ y = c
        BY <1>0, <1>3, <2>1, <4>2 DEF DateInv, InOrder, Ordered
      <4> QED
        BY <1>1, <3>1, <4>1, <4>2
    <3> QED
      BY <3>1 DEF InOrder
  <2> QED
    BY <2>2, <2>3, <2>4, <2>5
<1> QED
  BY <1>0, <1>3 DEF DateInv

\* Every step keeps the dates of the line in order.
LEMMA DateStep == TypeOK /\ LineInv /\ DateInv /\ [Next]_vars => DateInv'
<1> SUFFICES ASSUME TypeOK, LineInv, DateInv, [Next]_vars PROVE DateInv'
  OBVIOUS
<1> USE SchedulerAssumption
<1>0. /\ Sweepers \subseteq Procs /\ Cmds \subseteq Procs /\ Cmds \cap Sweepers = {}
      /\ "startup" \in Sweepers /\ "tick" \in Sweepers
  BY DEF Procs, Sweepers, Sweeps
<1>t. /\ pc \in [Procs -> {"idle", "list", "next", "boot", "sync", "act"}]
      /\ at \in [Procs -> Guilds] /\ target \in [Procs -> Days]
      /\ queue \in Seq(Procs) /\ today \in Int /\ startedOn <= today
  BY DEF TypeOK, ProcessOK, ClockOK, Days, DateInv
<1>h. \A c \in Cmds : Waits(c) /\ pc[c] = "act" /\ mode = "calendar"
                        => cursor[at[c]] >= target[c]
  BY DEF DateInv, CaughtUp
<1>l. ASSUME NEW p \in Procs, Release(p),
             \A x \in Procs \ {p} :
                pc'[x] = pc[x] /\ at'[x] = at[x] /\ target'[x] = target[x],
             UNCHANGED <<mode, today, startedOn>>, guilds \subseteq guilds',
             mode = "calendar" => \A c \in Cmds :
                Waits(c) /\ pc[c] = "act" => cursor'[at[c]] >= target[c]
      PROVE  DateInv'
  <2>1. \A x \in Procs : Waits(x)' => Waits(x) /\ x # p
    BY <1>l, LineLeaves
  <2>2. \A x, y \in Procs : Before(x, y)' => Before(x, y)
    BY <1>l, <1>t, LeavesFirst
  <2>3. mode = "calendar" => \A c \in Cmds :
            Waits(c)' /\ pc[c] = "act" => cursor'[at[c]] >= target[c]
    BY <1>0, <1>l, <2>1
  <2>4. today' \in Int /\ today <= today'
    BY <1>l, <1>t
  <2>5. \A x \in Procs : Waits(x)' => /\ Waits(x) /\ pc'[x] = pc[x]
                                     /\ at'[x] = at[x] /\ target'[x] = target[x]
    BY <1>l, <2>1
  <2> QED
    BY <1>l, <2>2, <2>3, <2>4, <2>5, DatesStay
<1>q. ASSUME queue' = queue, UNCHANGED <<mode, startedOn, guilds, cursor>>,
             today' \in Int, today <= today',
             \A x \in Procs : Waits(x) =>
                pc'[x] = pc[x] /\ at'[x] = at[x] /\ target'[x] = target[x]
      PROVE  DateInv'
  <2>1. /\ \A x \in Procs : Waits(x)' => Waits(x)
        /\ \A x, y \in Procs : Before(x, y)' => Before(x, y)
    BY <1>q, SameLine
  <2>2. mode = "calendar" => \A c \in Cmds :
            Waits(c)' /\ pc[c] = "act" => cursor'[at[c]] >= target[c]
    BY <1>0, <1>h, <1>q, <2>1
  <2> QED
    BY <1>q, <2>1, <2>2, DatesStay
<1>a. ASSUME Vanish PROVE DateInv'
  BY <1>a, <1>t, DatesEmpty DEF Vanish
<1>1. ASSUME Restart PROVE DateInv'
  <2>1. queue = <<>> /\ today' = startedOn' /\ today' \in Int
    BY <1>1, <1>t DEF Restart, LineInv, Days
  <2>2. CASE mode' = "calendar"
    <3>1. pc' = [pc EXCEPT !["startup"] = "list"] /\ Acquire("startup")
      BY <1>1, <2>2 DEF Restart
    <3>2. /\ \A x : ~Waits(x)
          /\ \A x, y : ~Before(x, y)
      BY <2>1, EmptyLine
    <3>3. /\ \A x \in Procs : Waits(x)' => x = "startup"
          /\ \A x, y \in Procs : ~Before(x, y)'
      BY <1>0, <1>t, <3>1, <3>2, JoinsLast
    <3>4. pc'["startup"] = "list" /\ "startup" \notin Cmds
      BY <1>0, <1>t, <3>1
    <3> QED
      BY <1>0, <2>1, <3>3, <3>4 DEF DateInv, TargetsSeen, Booted, CaughtUp, InOrder
  <2>3. CASE mode' # "calendar"
    BY <2>1, <2>3 DEF DateInv
  <2> QED
    BY <2>2, <2>3
<1>2. ASSUME Crash PROVE DateInv'
  BY <1>2, <1>a DEF Crash
<1>3. ASSUME Midnight PROVE DateInv'
  <2>0. today' \in Int /\ today <= today' /\ UNCHANGED <<mode, startedOn, guilds, cursor>>
    BY <1>3, <1>t DEF Midnight, calendar
  <2>1. CASE UNCHANGED process
    BY <1>q, <2>0, <2>1 DEF process
  <2>2. CASE pc["tick"] = "idle" /\ Acquire("tick") /\ UNCHANGED <<at, target>>
             /\ pc' = [pc EXCEPT !["tick"] = "list"]
    BY <1>0, <1>t, <2>0, <2>2, DatesJoin
  <2> QED
    BY <1>3, <2>1, <2>2 DEF Midnight
<1>4. ASSUME NEW s \in Sweepers, SweepStep(s) PROVE DateInv'
  <2>0. s \in Procs /\ today \in Int /\ today <= today
    BY <1>0, <1>t
  <2>1. CASE SweepStart(s)
    BY <1>t, <2>0, <2>1, DatesJoin DEF SweepStart, clock, calendar
  <2>2. CASE SweepList(s)
    BY <1>h, <1>t, <1>l, <2>0, <2>2 DEF SweepList, clock, calendar
  <2>3. CASE SweepNext(s)
    BY <1>t, <2>0, <2>3, DatesJoin DEF SweepNext, clock, calendar, LocalDate
  <2>4. CASE SweepDone(s)
    <3>1. ~Waits(s)
      BY <2>0, <2>4 DEF SweepDone, LineInv
    <3>2. \A x \in Procs : Waits(x) =>
            pc'[x] = pc[x] /\ at'[x] = at[x] /\ target'[x] = target[x]
      BY <1>t, <2>4, <3>1 DEF SweepDone, Unset
    <3> QED
      BY <1>q, <2>0, <2>4, <3>2 DEF SweepDone, calendar
  <2>5. CASE SweepSync(s)
    <3>1. guilds \subseteq guilds'
      <4>1. at[s] \in Guilds /\ target[s] \in Days
        BY <1>t, <2>0
      <4> QED
        BY <2>5, <4>1, SyncCursor DEF SweepSync, TickOne, SettleThrough, calendar
    <3>2. mode = "calendar" => \A c \in Cmds :
            Waits(c) /\ pc[c] = "act" => cursor'[at[c]] >= target[c]
      BY <2>0, <2>5, SyncKeepsCaughtUp DEF SweepSync, Release
    <3> QED
      BY <1>t, <1>l, <2>0, <2>5, <3>1, <3>2 DEF SweepSync, clock
  <2>6. CASE SweepFail(s)
    <3>1. CASE s = "startup"
      BY <1>a, <2>6, <3>1 DEF SweepFail
    <3>2. CASE s # "startup"
      BY <1>h, <1>t, <1>l, <2>0, <2>6, <3>2 DEF SweepFail, clock, calendar
    <3> QED
      BY <3>1, <3>2
  <2> QED
    BY <1>4, <2>1, <2>2, <2>3, <2>4, <2>5, <2>6 DEF SweepStep
<1>5. ASSUME NEW c \in Cmds, CmdStep(c) PROVE DateInv'
  <2>0. c \in Procs /\ today \in Int /\ today <= today
    BY <1>0, <1>t
  <2>1. CASE Arrive(c)
    BY <1>t, <2>0, <2>1, DatesJoin DEF Arrive, clock, calendar, LocalDate
  <2>2. CASE Boot(c)
    BY <2>2, BootInOrder
  <2>3. CASE CmdSync(c)
    BY <2>3, CmdSyncInOrder
  <2>4. ASSUME Release(c), Unset(c), UNCHANGED clock,
               (UNCHANGED <<guilds, cursor>>) \/ (mode # "calendar" /\ guilds' = guilds)
        PROVE  DateInv'
    BY <1>h, <1>t, <1>l, <2>0, <2>4 DEF Unset, clock
  <2>5. CASE CmdEnd(c)
    BY <2>4, <2>5 DEF CmdEnd, calendar
  <2>6. CASE ClockIn(c) \/ ClockOut(c) \/ Found(c)
    BY <2>4, <2>6 DEF ClockIn, ClockOut, Found, Returns
  <2>7. CASE SetDay(c) \/ ForceTick(c)
    BY <2>4, <2>7 DEF SetDay, ForceTick, TickOne, SettleThrough, Returns, calendar
  <2> QED
    BY <1>5, <2>1, <2>2, <2>3, <2>5, <2>6, <2>7 DEF CmdStep
<1>6. CASE UNCHANGED vars
  BY <1>6, <1>q, <1>t DEF vars, process, calendar, clock
<1> QED
  BY <1>1, <1>2, <1>3, <1>4, <1>5, <1>6 DEF Next

\* The dates of the line are in order in every reachable state.
LEMMA DateInvariant == Spec => []DateInv
<1>1. Init => DateInv
  <2> SUFFICES ASSUME Init PROVE DateInv
    OBVIOUS
  <2>1. startedOn <= today
    BY SchedulerAssumption DEF Init
  <2>2. \A x, y : ~Waits(x) /\ ~Before(x, y)
    BY EmptyLine DEF Init
  <2> QED
    BY <2>1, <2>2 DEF DateInv, TargetsSeen, Booted, CaughtUp, InOrder
<1> QED
  BY <1>1, DateStep, LineInvariant, TypeCorrect, PTL DEF Spec

\* When a command's own transaction comes to run, its guild is open on the
\* date at which the command arrived or later, in whatever mode the process
\* was before, and whatever commands and sweeps were in the line with it.
THEOREM ActsOnCurrentDay == Spec => []NoActionOnStaleDay
<1>1. TypeOK /\ DateInv => NoActionOnStaleDay
  <2> SUFFICES ASSUME TypeOK, DateInv, NEW c \in Cmds,
                      pc[c] = "act", Holds(c), mode = "calendar"
               PROVE  cursor[at[c]] >= target[c]
    BY DEF NoActionOnStaleDay
  <2>1. Waits(c)
    BY HolderFirst DEF TypeOK, ProcessOK
  <2> QED
    BY <2>1 DEF DateInv, CaughtUp
<1> QED
  BY <1>1, DateInvariant, TypeCorrect, PTL

----------------------------------------------------------------------------
\* In calendar mode the cursor follows the local date.

\* In calendar mode a step that moves a guild's cursor moves it to a date that
\* was the local date since the last start.
LEMMA CursorReach ==
    ASSUME TypeOK, LineInv, DateInv, mode = "calendar", [Next]_vars
    PROVE  /\ guilds \subseteq guilds' /\ guilds' \subseteq Guilds
           /\ \A g \in guilds' :
                \/ g \in guilds /\ cursor'[g] = cursor[g]
                \/ cursor'[g] \in startedOn .. today
<1> DEFINE Reached == /\ guilds \subseteq guilds' /\ guilds' \subseteq Guilds
                      /\ \A g \in guilds' :
                            \/ g \in guilds /\ cursor'[g] = cursor[g]
                            \/ cursor'[g] \in startedOn .. today
<1> SUFFICES Reached
  OBVIOUS
<1>0. /\ Sweepers \subseteq Procs /\ Cmds \subseteq Procs
      /\ guilds \subseteq Guilds /\ cursor \in [Guilds -> Days]
      /\ \A p \in Procs : at[p] \in Guilds /\ target[p] \in Days
  BY DEF Procs, TypeOK, CalendarOK, ProcessOK
<1>a. UNCHANGED <<guilds, cursor>> => Reached
  BY <1>0
<1>w. ASSUME NEW p \in Procs, Holds(p), pc[p] # "list" PROVE target[p] \in startedOn .. today
  <2>1. Waits(p)
    BY <1>w, HolderFirst DEF TypeOK, ProcessOK
  <2> QED
    BY <1>w, <2>1 DEF DateInv, TargetsSeen
<1>s. ASSUME NEW p \in Procs, Holds(p), pc[p] = "sync", Synchronize(at[p], target[p])
      PROVE  Reached
  <2>1. target[p] \in startedOn .. today
    BY <1>s, <1>w
  <2>2. /\ guilds' = guilds
        /\ \A h \in Guilds : cursor'[h] = cursor[h] \/ cursor'[h] = target[p]
    BY <1>0, <1>s, SyncCursor
  <2> QED
    BY <1>0, <2>1, <2>2
<1>1. ASSUME NEW s \in Sweepers, SweepStep(s) PROVE Reached
  <2>1. CASE SweepSync(s)
    <3>1. s \in Procs /\ Holds(s) /\ pc[s] = "sync" /\ Synchronize(at[s], target[s])
      BY <1>0, <2>1 DEF SweepSync, Release
    <3> QED
      BY <1>s, <3>1
  <2>2. CASE ~SweepSync(s)
    <3>1. UNCHANGED <<guilds, cursor>>
      BY <1>1, <2>2
      DEF SweepStep, SweepStart, SweepList, SweepNext, SweepDone, SweepFail, Vanish, calendar
    <3> QED
      BY <1>a, <3>1
  <2> QED
    BY <2>1, <2>2
<1>2. ASSUME NEW c \in Cmds, CmdStep(c) PROVE Reached
  <2>1. CASE CmdSync(c)
    <3>1. c \in Procs /\ Holds(c) /\ pc[c] = "sync" /\ Synchronize(at[c], target[c])
      BY <1>0, <2>1 DEF CmdSync, Reacquire
    <3> QED
      BY <1>s, <3>1
  <2>2. CASE Boot(c)
    <3>1. target[c] \in startedOn .. today
      <4>1. c \in Procs /\ Holds(c) /\ pc[c] = "boot"
        BY <1>0, <2>2 DEF Boot, Reacquire
      <4> QED
        BY <1>w, <4>1
    <3>2. CASE at[c] \in guilds
      <4>1. UNCHANGED <<guilds, cursor>>
        BY <2>2, <3>2 DEF Boot, Bootstrap, calendar
      <4> QED
        BY <1>a, <4>1
    <3>3. CASE at[c] \notin guilds
      <4>1. /\ guilds' = guilds \cup {at[c]}
            /\ cursor' = [cursor EXCEPT ![at[c]] = target[c]]
        BY <2>2, <3>3 DEF Boot, Bootstrap
      <4> QED
        BY <1>0, <3>1, <4>1
    <3> QED
      BY <3>2, <3>3
  <2>3. CASE ~CmdSync(c) /\ ~Boot(c)
    <3>1. UNCHANGED <<guilds, cursor>>
      BY <1>2, <2>3
      DEF CmdStep, Arrive, ClockIn, ClockOut, Found, SetDay, ForceTick, CmdEnd, calendar
    <3> QED
      BY <1>a, <3>1
  <2> QED
    BY <2>1, <2>2, <2>3
<1>3. CASE Restart \/ Crash \/ Midnight \/ UNCHANGED vars
  <2>1. UNCHANGED <<guilds, cursor>>
    BY <1>3 DEF Restart, Crash, Midnight, Vanish, vars, calendar
  <2> QED
    BY <1>a, <2>1
<1> QED
  BY <1>1, <1>2, <1>3 DEF Next

\* With the zone and the mode of the process fixed, no guild is ever open on a
\* date the local clock has not reached, so no date is closed before it is
\* over: neither a catch-up with a stale date nor a restart gets ahead of it.
THEOREM NotAhead ==
    ASSUME Modes = {"calendar"}, Westward = FALSE
    PROVE  Spec => []CursorNotAhead
<1>1. Init => CursorNotAhead
  BY DEF Init, CursorNotAhead
<1>2. TypeOK /\ LineInv /\ DateInv /\ CursorNotAhead /\ [Next]_vars => CursorNotAhead'
  <2> SUFFICES ASSUME TypeOK, LineInv, DateInv, CursorNotAhead, [Next]_vars
               PROVE  CursorNotAhead'
    OBVIOUS
  <2>1. mode = "calendar" /\ today \in Int
    BY SchedulerAssumption DEF TypeOK, ClockOK, Days
  <2>2. today' \in Int /\ today <= today'
    <3>1. today' = today \/ today' = today + 1
      BY DEF Next, Restart, Crash, Midnight, SweepStep, SweepStart, SweepList,
             SweepNext, SweepDone, SweepSync, SweepFail, CmdStep, Arrive, Boot,
             CmdSync, Returns, ClockIn, ClockOut, Found, SetDay, ForceTick,
             CmdEnd, Vanish, clock, vars
    <3> QED
      BY <2>1, <3>1
  <2>3. \A g \in guilds : cursor[g] \in Int /\ cursor[g] <= today
    BY SchedulerAssumption DEF CursorNotAhead, TypeOK, CalendarOK, Days
  <2>4. startedOn \in Int
    BY SchedulerAssumption DEF TypeOK, ClockOK, Days
  <2>5. ASSUME NEW g \in guilds' PROVE cursor'[g] <= today'
    <3>1. CASE g \in guilds /\ cursor'[g] = cursor[g]
      BY <2>1, <2>2, <2>3, <3>1
    <3>2. CASE cursor'[g] \in startedOn .. today
      BY <2>1, <2>2, <2>4, <3>2
    <3> QED
      BY <2>1, <3>1, <3>2, CursorReach
  <2> QED
    BY <2>5 DEF CursorNotAhead
<1> QED
  BY <1>1, <1>2, DateInvariant, LineInvariant, TypeCorrect, PTL DEF Spec

\* A guild without a row has closed nothing, and every guild has closed every
\* date between its first one and its open date.
SettledInv ==
    /\ NoDateSkipped
    /\ \A g \in Guilds \ guilds : \A d \in Days : settled[g][d] = 0

\* In calendar mode every date between the first one a guild closed and its
\* open date was closed, whatever outages, failures and time zones did: a
\* settlement closes what it passes, and a cursor put back passes it again.
THEOREM NoneSkipped ==
    ASSUME Modes = {"calendar"}
    PROVE  Spec => []NoDateSkipped
<1>1. Init => SettledInv
  BY DEF Init, SettledInv, NoDateSkipped
<1>2. TypeOK /\ SettledInv /\ [Next]_vars => SettledInv'
  <2> SUFFICES ASSUME TypeOK, SettledInv, [Next]_vars
               PROVE  SettledInv'
    OBVIOUS
  <2>t. /\ guilds \subseteq Guilds /\ cursor \in [Guilds -> Days] /\ Days \subseteq Int
        /\ settled \in [Guilds -> [Days -> Nat]]
        /\ mode # "accelerated"
    BY SchedulerAssumption DEF TypeOK, ClockOK, CalendarOK, HistoryOK, Days
  <2> USE DEF SettledInv, NoDateSkipped
  <2>1. CASE UNCHANGED <<guilds, cursor, quoted, settled>>
    BY <2>1
  <2>2. ASSUME NEW g \in guilds, NEW t \in Days, cursor[g] <= t, SettleThrough(g, t)
        PROVE  SettledInv'
    <3>1. /\ cursor' = [cursor EXCEPT ![g] = t] /\ guilds' = guilds
          /\ settled' = [settled EXCEPT ![g] = Plus1(settled[g], Closing(g, t))]
      BY <2>2 DEF SettleThrough
    <3>2. \A d \in Days : settled'[g][d] = IF d \in cursor[g] .. (t - 1)
                                           THEN settled[g][d] + 1 ELSE settled[g][d]
      BY <2>t, <3>1 DEF Plus1, Closing
    <3>3. \A h \in Guilds \ {g} : settled'[h] = settled[h] /\ cursor'[h] = cursor[h]
      BY <2>t, <3>1
    <3>4. ASSUME NEW d \in Days, NEW e \in Days, d < t, e <= d, settled'[g][e] > 0
          PROVE  settled'[g][d] > 0
      BY <2>t, <3>2, <3>4
    <3>5. cursor'[g] = t
      BY <2>t, <3>1
    <3> QED
      BY <2>t, <3>1, <3>3, <3>4, <3>5
  <2>3. ASSUME NEW g \in guilds, NEW t \in Days, cursor[g] > t, SnapBack(g, t)
        PROVE  SettledInv'
    <3>1. cursor' = [cursor EXCEPT ![g] = t] /\ guilds' = guilds /\ settled' = settled
      BY <2>3 DEF SnapBack, history
    <3>2. ASSUME NEW h \in Guilds
          PROVE  cursor'[h] \in Int /\ cursor[h] \in Int /\ cursor'[h] <= cursor[h]
      <4>1. cursor'[h] = IF h = g THEN t ELSE cursor[h]
        BY <2>t, <3>1
      <4>2. t \in Int /\ cursor[h] \in Int
        BY <2>t
      <4>3. h = g => t <= cursor[h]
        BY <2>3, <4>2
      <4> QED
        BY <4>1, <4>2, <4>3
    <3>3. \A h \in Guilds, d \in Days : d < cursor'[h] => d < cursor[h]
      BY <2>t, <3>2
    <3> QED
      BY <3>1, <3>3
  <2>4. ASSUME NEW g \in Guilds, NEW d \in Days, Opens(g, d)
        PROVE  SettledInv'
    BY <2>t, <2>4 DEF Opens
  <2>5. ASSUME NEW g \in Guilds, NEW d \in Days, Skips(g, d)
        PROVE  SettledInv'
    BY <2>t, <2>5 DEF Skips
  <2> QED
    BY <2>1, <2>2, <2>3, <2>4, <2>5, StepMoves DEF CursorMoves
<1>3. SettledInv => NoDateSkipped
  BY DEF SettledInv
<1> QED
  BY <1>1, <1>2, <1>3, TypeCorrect, PTL DEF Spec

----------------------------------------------------------------------------
\* The bot is ready only when every guild is caught up.

\* The start-up sweep has still to settle guild g.
Pending(g) ==
    /\ alive = "starting"
    /\ \/ pc["startup"] = "list"
       \/ g \in todo["startup"]
       \/ pc["startup"] = "sync" /\ at["startup"] = g

\* The inductive invariant: a starting process runs its sweep and nothing
\* else, and no guild is left behind but those the sweep has still to settle.
StartInv ==
    /\ alive = "starting" <=> pc["startup"] # "idle"
    /\ alive = "starting" =>
         mode = "calendar" /\ \A p \in Procs \ {"startup"} : pc[p] = "idle"
    /\ mode = "calendar" /\ alive # "down" =>
         \A g \in guilds : cursor[g] >= startedOn \/ Pending(g)

\* A step of a process that is ready leaves no guild behind.
LEMMA ReadyStays ==
    ASSUME TypeOK, LineInv, DateInv, StartInv, [Next]_vars,
           alive = "up", alive' = "up", pc'["startup"] = pc["startup"],
           UNCHANGED <<mode, startedOn>>
    PROVE  StartInv'
<1>1. alive' # "starting" /\ pc'["startup"] = "idle"
  BY DEF StartInv
<1>2. ASSUME mode = "calendar", NEW g \in guilds' PROVE cursor'[g] >= startedOn
  <2>0. startedOn \in Int /\ today \in Int
    BY SchedulerAssumption DEF TypeOK, ClockOK, Days
  <2>1. CASE g \in guilds /\ cursor'[g] = cursor[g]
    BY <1>2, <2>1 DEF StartInv, Pending
  <2>2. CASE cursor'[g] \in startedOn .. today
    BY <2>0, <2>2
  <2> QED
    BY <1>2, <2>1, <2>2, CursorReach
<1> QED
  BY <1>1, <1>2 DEF StartInv

\* The steps of the start-up sweep: while it runs nothing else does.
LEMMA StartupStep ==
    ASSUME TypeOK, LineInv, DateInv, StartInv, alive = "starting",
           NEW s \in Sweepers, SweepStep(s)
    PROVE  StartInv'
<1>0. /\ "startup" \in Procs /\ "startup" \in Sweepers /\ Sweepers \subseteq Procs
      /\ pc \in [Procs -> {"idle", "list", "next", "boot", "sync", "act"}]
      /\ at \in [Procs -> Guilds] /\ target \in [Procs -> Days]
      /\ todo \in [Sweepers -> SUBSET Guilds]
      /\ guilds \subseteq Guilds
  BY DEF Procs, Sweepers, TypeOK, ProcessOK, CalendarOK
<1>1. mode = "calendar" /\ \A p \in Procs \ {"startup"} : pc[p] = "idle"
  BY DEF StartInv
<1>2. s = "startup"
  BY <1>0, <1>1 DEF SweepStep, SweepStart, SweepList, SweepNext, SweepDone,
                    SweepSync, SweepFail
<1>3. \A g \in guilds : cursor[g] >= startedOn \/ Pending(g)
  BY <1>1 DEF StartInv
<1>4. CASE SweepStart(s)
  BY <1>4 DEF SweepStart
<1>5. CASE SweepList(s)
  <2>1. /\ pc' = [pc EXCEPT !["startup"] = "next"] /\ alive' = alive /\ mode' = mode
        /\ guilds' = guilds /\ todo' = [todo EXCEPT !["startup"] = guilds]
    BY <1>2, <1>5 DEF SweepList, clock, calendar
  <2>2. \A g \in guilds' : Pending(g)'
    BY <1>0, <2>1 DEF Pending
  <2> QED
    BY <1>0, <1>1, <2>1, <2>2 DEF StartInv
<1>6. CASE SweepNext(s)
  <2>1. PICK g \in todo["startup"] :
            /\ at' = [at EXCEPT !["startup"] = g]
            /\ todo' = [todo EXCEPT !["startup"] = @ \ {g}]
    BY <1>2, <1>6 DEF SweepNext
  <2>2. /\ pc["startup"] = "next" /\ pc' = [pc EXCEPT !["startup"] = "sync"]
        /\ UNCHANGED <<alive, mode, startedOn, guilds, cursor>>
    BY <1>2, <1>6 DEF SweepNext, clock, calendar
  <2>3. \A h \in guilds : Pending(h) => Pending(h)'
    BY <1>0, <2>1, <2>2 DEF Pending
  <2> QED
    BY <1>0, <1>1, <1>3, <2>2, <2>3 DEF StartInv
<1>7. CASE SweepDone(s)
  <2>1. /\ pc["startup"] = "next" /\ todo["startup"] = {}
        /\ pc' = [pc EXCEPT !["startup"] = "idle"] /\ alive' = "up"
        /\ UNCHANGED <<mode, startedOn, guilds, cursor>>
    BY <1>2, <1>7 DEF SweepDone, Unset, calendar
  <2>2. \A g \in guilds : cursor[g] >= startedOn
    BY <1>3, <2>1 DEF Pending
  <2> QED
    BY <1>0, <1>1, <2>1, <2>2 DEF StartInv
<1>8. CASE SweepSync(s)
  <2>1. /\ pc["startup"] = "sync" /\ pc' = [pc EXCEPT !["startup"] = "next"]
        /\ Holds("startup") /\ Synchronize(at["startup"], target["startup"])
        /\ UNCHANGED <<alive, mode, startedOn, at, todo>>
    BY <1>1, <1>2, <1>8 DEF SweepSync, Release, clock
  <2>2. /\ at["startup"] \in Guilds /\ target["startup"] \in Days
        /\ target["startup"] \in Int /\ startedOn \in Int /\ today \in Int
    BY <1>0, SchedulerAssumption DEF TypeOK, ClockOK, Days
  <2>3. target["startup"] \in startedOn .. today
    <3>1. Waits("startup")
      BY <2>1, HolderFirst DEF TypeOK, ProcessOK
    <3> QED
      BY <1>0, <1>1, <2>1, <3>1 DEF DateInv, TargetsSeen
  <2>4. /\ guilds' = guilds
        /\ \A h \in Guilds : cursor'[h] = cursor[h] \/ cursor'[h] = target["startup"]
        /\ at["startup"] \in guilds => cursor'[at["startup"]] >= target["startup"]
    BY <2>1, <2>2, SyncCursor
  <2>5. ASSUME NEW g \in guilds PROVE cursor'[g] >= startedOn \/ Pending(g)'
    <3>1. CASE g = at["startup"] \/ cursor'[g] = target["startup"]
      <4>1. cursor'[g] = cursor[g] \/ cursor'[g] = target["startup"]
        BY <1>0, <2>4
      <4>2. cursor[g] \in Int
        BY <1>0, SchedulerAssumption DEF TypeOK, CalendarOK, Days
      <4> QED
        BY <2>2, <2>3, <2>4, <2>5, <3>1, <4>1, <4>2
    <3>2. CASE g # at["startup"] /\ cursor'[g] = cursor[g]
      BY <1>0, <1>3, <2>1, <3>2 DEF Pending
    <3> QED
      BY <1>0, <2>4, <3>1, <3>2
  <2> QED
    BY <1>0, <1>1, <2>1, <2>4, <2>5 DEF StartInv
<1>9. CASE SweepFail(s)
  BY <1>0, <1>2, <1>9 DEF SweepFail, Vanish, StartInv
<1> QED
  BY <1>4, <1>5, <1>6, <1>7, <1>8, <1>9 DEF SweepStep

\* Every step keeps the start-up invariant.
LEMMA StartStep == TypeOK /\ LineInv /\ DateInv /\ StartInv /\ [Next]_vars => StartInv'
<1> SUFFICES ASSUME TypeOK, LineInv, DateInv, StartInv, [Next]_vars PROVE StartInv'
  OBVIOUS
<1>0. /\ "startup" \in Procs /\ "startup" \notin Cmds /\ "startup" \in Sweepers
      /\ Sweepers \subseteq Procs /\ Cmds \subseteq Procs
      /\ pc \in [Procs -> {"idle", "list", "next", "boot", "sync", "act"}]
  BY SchedulerAssumption DEF Procs, Sweepers, TypeOK, ProcessOK
<1>d. /\ alive = "down" => \A p \in Procs : pc[p] = "idle"
      /\ alive \in {"down", "starting", "up"}
      /\ alive = "up" => pc["startup"] = "idle"
  BY DEF LineInv, StartInv, TypeOK, ClockOK
<1>a. ASSUME Vanish PROVE StartInv'
  BY <1>0, <1>a DEF Vanish, StartInv
<1>1. ASSUME Restart PROVE StartInv'
  <2>1. CASE mode' = "calendar"
    <3>1. alive' = "starting" /\ pc' = [pc EXCEPT !["startup"] = "list"]
      BY <1>1, <2>1 DEF Restart
    <3>2. \A g \in guilds' : Pending(g)'
      BY <1>0, <3>1 DEF Pending
    <3> QED
      BY <1>0, <1>1, <1>d, <2>1, <3>1, <3>2 DEF Restart, StartInv
  <2>2. CASE mode' # "calendar"
    BY <1>0, <1>1, <1>d, <2>2 DEF Restart, StartInv
  <2> QED
    BY <2>1, <2>2
<1>2. ASSUME Crash PROVE StartInv'
  BY <1>2, <1>a DEF Crash
<1>3. ASSUME Midnight PROVE StartInv'
  <2>0. UNCHANGED <<mode, alive, startedOn, guilds, cursor>>
    BY <1>3 DEF Midnight, calendar
  <2>1. CASE UNCHANGED process
    <3>1. pc' = pc /\ at' = at /\ todo' = todo
      BY <2>1 DEF process
    <3>2. \A g : Pending(g)' <=> Pending(g)
      BY <2>0, <3>1 DEF Pending
    <3> QED
      BY <2>0, <3>1, <3>2 DEF StartInv
  <2>2. CASE alive = "up" /\ pc' = [pc EXCEPT !["tick"] = "list"]
    <3>1. pc'["startup"] = pc["startup"]
      BY <1>0, <2>2
    <3> QED
      BY <2>0, <2>2, <3>1, ReadyStays
  <2> QED
    BY <1>3, <2>1, <2>2 DEF Midnight
<1>4. ASSUME NEW s \in Sweepers, SweepStep(s) PROVE StartInv'
  <2>1. CASE alive = "starting"
    BY <1>4, <2>1, StartupStep
  <2>2. CASE alive = "up"
    <3>1. s # "startup"
      BY <1>4, <1>d, <2>2
      DEF SweepStep, SweepStart, SweepList, SweepNext, SweepDone, SweepSync, SweepFail
    <3>2. alive' = "up" /\ pc'["startup"] = pc["startup"] /\ UNCHANGED <<mode, startedOn>>
      BY <1>0, <1>4, <2>2, <3>1
      DEF SweepStep, SweepStart, SweepList, SweepNext, SweepDone, SweepSync,
          SweepFail, Unset, clock
    <3> QED
      BY <2>2, <3>2, ReadyStays
  <2>3. CASE alive = "down"
    BY <1>0, <1>4, <1>d, <2>3
    DEF SweepStep, SweepStart, SweepList, SweepNext, SweepDone, SweepSync, SweepFail
  <2> QED
    BY <1>d, <2>1, <2>2, <2>3
<1>5. ASSUME NEW c \in Cmds, CmdStep(c) PROVE StartInv'
  <2>1. alive = "up"
    <3>1. c \in Procs \ {"startup"}
      BY <1>0
    <3>2. pc[c] # "idle" \/ alive = "up"
      BY <1>5
      DEF CmdStep, Arrive, Boot, CmdSync, Returns, ClockIn, ClockOut, Found,
          SetDay, ForceTick, CmdEnd
    <3> QED
      BY <1>d, <3>1, <3>2 DEF StartInv
  <2>2. alive' = "up" /\ pc'["startup"] = pc["startup"] /\ UNCHANGED <<mode, startedOn>>
    <3>1. \E k \in {"idle", "boot", "sync", "act"} : pc' = [pc EXCEPT ![c] = k]
      BY <1>5
      DEF CmdStep, Arrive, Boot, CmdSync, Returns, ClockIn, ClockOut, Found,
          SetDay, ForceTick, CmdEnd, Unset
    <3>2. UNCHANGED clock
      BY <1>5
      DEF CmdStep, Arrive, Boot, CmdSync, Returns, ClockIn, ClockOut, Found,
          SetDay, ForceTick, CmdEnd
    <3> QED
      BY <1>0, <2>1, <3>1, <3>2 DEF clock
  <2> QED
    BY <2>1, <2>2, ReadyStays
<1>6. CASE UNCHANGED vars
  <2>1. pc' = pc /\ at' = at /\ todo' = todo
        /\ UNCHANGED <<mode, alive, startedOn, guilds, cursor>>
    BY <1>6 DEF vars, process, calendar, clock
  <2>2. \A g : Pending(g)' <=> Pending(g)
    BY <2>1 DEF Pending
  <2> QED
    BY <2>1, <2>2 DEF StartInv
<1> QED
  BY <1>1, <1>2, <1>3, <1>4, <1>5, <1>6 DEF Next

\* A process that has become ready in calendar mode has left no guild open on
\* a date before its start, and none falls behind it later.
THEOREM ReadyIsCaughtUp == Spec => []ReadyMeansCaughtUp
<1>1. Init => StartInv
  BY DEF Init, StartInv, Procs, Sweepers
<1>2. StartInv => ReadyMeansCaughtUp
  BY DEF StartInv, ReadyMeansCaughtUp, Pending
<1> QED
  BY <1>1, <1>2, StartStep, DateInvariant, LineInvariant, TypeCorrect, PTL DEF Spec
=============================================================================
