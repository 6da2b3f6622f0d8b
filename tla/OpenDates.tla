----------------------------- MODULE OpenDates -----------------------------
(***************************************************************************)
(* What the calendar promises, without processes, clocks or restarts: each *)
(* guild has one open date.  Closing it works through all dates up to the  *)
(* next open one and may make some of them final, by a closing quote.  The *)
(* open date may otherwise be moved at will, but never onto or before a    *)
(* date that is final.  Scheduler implements this (ClosesInOrder).         *)
(***************************************************************************)
EXTENDS Integers

CONSTANTS Guilds, Dates   \* dates are integers

VARIABLES
    date,    \* the open date of a guild
    closed,  \* how often each date was closed
    final    \* the dates that can never be open again

Init ==
    /\ date \in [Guilds -> Dates]
    /\ closed = [g \in Guilds |-> [d \in Dates |-> 0]]
    /\ final = [g \in Guilds |-> {}]

\* Close the dates from the open one up to t, in order.
Close(g, t) ==
    /\ date[g] <= t
    /\ date' = [date EXCEPT ![g] = t]
    /\ closed' = [closed EXCEPT ![g] =
                    [d \in Dates |-> IF d \in date[g] .. (t - 1) THEN @[d] + 1 ELSE @[d]]]
    /\ \E quotes \in SUBSET (date[g] .. (t - 1)) :
        final' = [final EXCEPT ![g] = @ \cup quotes]

\* Correct the calendar: no date is closed, and none that is final reopened.
Correct(g, t) ==
    /\ \A d \in final[g] : d < t
    /\ date' = [date EXCEPT ![g] = t]
    /\ UNCHANGED <<closed, final>>

Next == \E g \in Guilds, t \in Dates : Close(g, t) \/ Correct(g, t)

Spec == Init /\ [][Next]_<<date, closed, final>>
=============================================================================
