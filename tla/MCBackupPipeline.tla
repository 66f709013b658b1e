-------------------------- MODULE MCBackupPipeline --------------------------
(***************************************************************************)
(* Values of the constants of BackupPipeline for the runs of TLC.  The     *)
(* attempts are fewer than configured (3, 5 and 3): two tell a job that is *)
(* retried from one that is given up.                                      *)
(***************************************************************************)
EXTENDS BackupPipeline

TwoAttempts == [q \in Queues |-> 2]

BackupRetried == [q \in Queues |-> IF q = "backup" THEN 2 ELSE 1]

OneAttempt == [q \in Queues |-> 1]

OneAtATime == [q \in Queues |-> 1]

TwoAtATime == [q \in Queues |-> 2]
=============================================================================
