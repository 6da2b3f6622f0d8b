---------------------------- MODULE MCScheduler ----------------------------
(***************************************************************************)
(* Instances of Scheduler for TLC.  Date 0 is a Monday.                    *)
(***************************************************************************)
EXTENDS Scheduler, TLC

Sunday == -1
Friday == -3

CalendarOnly == {"calendar"}
BothModes == {"calendar", "accelerated"}

Interchangeable == Permutations(Players) \cup Permutations(Cmds)
=============================================================================
