------------------------- MODULE MCScheduledBackup -------------------------
(***************************************************************************)
(* Values of the constants of ScheduledBackup for the runs of TLC.         *)
(***************************************************************************)
EXTENDS ScheduledBackup

CONSTANTS h1, h2

TwoHolders == {h1, h2}
=============================================================================
