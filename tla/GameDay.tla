------------------------------ MODULE GameDay ------------------------------
(***************************************************************************)
(* The game calendar (gameday.py).  A date is an integer; date 0 is a      *)
(* Monday, so the weekday of a date is its residue modulo 7.               *)
(***************************************************************************)
EXTENDS Integers, FiniteSets

Weekday(d) == d % 7

IsBusinessDay(d) == Weekday(d) < 5

IsMonday(d) == Weekday(d) = 0

\* The Monday of the week d belongs to.
WeekMonday(d) == d - Weekday(d)

NextDay(d) == d + 1

\* The date n business days before d, weekends skipped.
BusinessDaysBefore(d, n) ==
    IF n = 0 THEN d
    ELSE CHOOSE e \in (d - 2 * n - 2) .. d :
            IsBusinessDay(e) /\ Cardinality({x \in e .. (d - 1) : IsBusinessDay(x)}) = n

\* The first date on or after ref that falls on weekday i ($setday).
DateForWeekday(ref, i) == ref + ((i - Weekday(ref)) % 7)
=============================================================================
