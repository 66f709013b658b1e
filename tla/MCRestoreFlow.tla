--------------------------- MODULE MCRestoreFlow ---------------------------
(* Instances of RestoreFlow for TLC. *)
EXTENDS RestoreFlow

CONSTANTS c1, c2, p1, s1

EngineOf == [d \in Dump |-> IF d = p1 THEN "postgresql" ELSE "sqlite"]

(* One restore of each engine *)
OneEach == [c \in Client |-> IF c = c1 THEN p1 ELSE s1]
=============================================================================
