----------------------- MODULE MCPointInTimeRecovery -----------------------
(* Instances of PointInTimeRecovery for TLC: the base backup and the storage
   locations are model values of the configuration. *)
EXTENDS PointInTimeRecovery
=============================================================================
