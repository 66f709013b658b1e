---- MODULE MCMySQLCatalogue ----
(* Values of MySQLCatalogue's constants for TLC. *)
EXTENDS MySQLCatalogue, TLC

CONSTANTS r1, r2, r3, i1, i2, i3

Mixed == (r1 :> {"full", "cleanup"}) @@ (r2 :> {"incremental", "restore"}) @@ (r3 :> {"restore", "list"})
OneFull == <<i1>>
====
