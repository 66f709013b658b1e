-------------------------- MODULE MCBackupCommand --------------------------
(* Instances of BackupCommand for TLC. *)
EXTENDS BackupCommand, TLC

CONSTANTS p1, p2, p3

(* Two encrypted backups, and one other command; a `delete` that is declined is a `get` *)
MenuOf ==
  [p \in Proc |-> IF p = p3 THEN {"delete", "import", "start", "upgrade", "stop",
                                  "restart", "infra start", "infra stop", "infra restart"}
                  ELSE {"backup"}]

Symmetry == Permutations({p1, p2})
=============================================================================
