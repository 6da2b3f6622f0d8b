---------------------------- MODULE MCAttendance ----------------------------
(***************************************************************************)
(* Values for checking Attendance.                                         *)
(***************************************************************************)
EXTENDS Attendance

Thursday == -4
=============================================================================
