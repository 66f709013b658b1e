------------------------- MODULE MCDistributedLock -------------------------
(***************************************************************************)
(* Values of the constants of DistributedLock for the runs of TLC.         *)
(***************************************************************************)
EXTENDS DistributedLock

CONSTANTS h1, h2

TwoHolders == {h1, h2}
=============================================================================
