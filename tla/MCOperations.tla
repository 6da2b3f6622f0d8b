---------------------------- MODULE MCOperations ----------------------------
(***************************************************************************)
(* The instance of Operations for TLC.                                     *)
(***************************************************************************)
EXTENDS Operations

\* A deployment that keeps one backup (TENDIES_BACKUP_KEEP=1), and a restore,
\* which keeps more whatever the deployment says.
OneAndTwo == [t \in Tools |-> IF t = "timer" THEN 1 ELSE 2]
=============================================================================
