------------------------- MODULE MCIncrementalChain -------------------------
(* Instances of IncrementalChain for TLC. *)
EXTENDS IncrementalChain

CONSTANTS f1, i1, i2

(* One incremental backup names its parent, the other leaves the choice *)
OneNamed == [i \in Incr |-> IF i = i1 THEN f1 ELSE None]
=============================================================================
