----------------------------- MODULE MCCommands -----------------------------
(***************************************************************************)
(* The instance of Commands for TLC.  Date 0 is a Monday.                  *)
(***************************************************************************)
EXTENDS Commands, TLC

FirstHasTwo == [u \in Users |-> IF u = 1 THEN 2 ELSE 0]
WithoutGrant == {NoGrant}
Interchangeable == Permutations(Chats)
=============================================================================
