--------------------------- MODULE BackupCatalogue ---------------------------
(***************************************************************************)
(* What the metadata row of a backup promises to a reader (the CLI, the    *)
(* dashboard, the restore worker), whatever retries, crashes, lost replies *)
(* and cancellations happen behind it: a row that says "success" names an  *)
(* archive that was produced, and a row that names a stored object names   *)
(* one that is in the bucket.  BackupPipeline implements this module.      *)
(*                                                                         *)
(* Archive is a set of positive numbers; 0 stands for "none recorded".      *)
(***************************************************************************)
EXTENDS Naturals

CONSTANTS Backup, Archive

VARIABLES row, produced, bucket

vars == <<row, produced, bucket>>

RowStatus == {"absent", "running", "success", "failed", "cancelled"}

Rows == [status : RowStatus, file : Archive \cup {0}, stored : Archive \cup {0}]

NoRow == [status |-> "absent", file |-> 0, stored |-> 0]

TypeOK ==
    /\ row \in [Backup -> Rows]
    /\ produced \in [Backup -> SUBSET Archive]
    /\ bucket \in [Backup -> SUBSET Archive]

Init ==
    /\ row = [b \in Backup |-> NoRow]
    /\ produced = [b \in Backup |-> {}]
    /\ bucket = [b \in Backup |-> {}]

Open(b) ==
    /\ row[b].status = "absent"
    /\ row' = [row EXCEPT ![b].status = "running"]
    /\ UNCHANGED <<produced, bucket>>

\* A row already open may be marked again and again by retries.
Mark(b, s) ==
    /\ row[b].status # "absent"
    /\ row' = [row EXCEPT ![b].status = s]
    /\ UNCHANGED <<produced, bucket>>

\* Success is recorded in one step with the archive it is about.
Record(b, f) ==
    /\ row[b].status # "absent"
    /\ f \in produced[b]
    /\ row' = [row EXCEPT ![b].status = "success", ![b].file = f]
    /\ UNCHANGED <<produced, bucket>>

RecordStored(b, f) ==
    /\ row[b].status # "absent"
    /\ f \in bucket[b]
    /\ row' = [row EXCEPT ![b].stored = f]
    /\ UNCHANGED <<produced, bucket>>

Produce(b, f) ==
    /\ f \notin produced[b]
    /\ produced' = [produced EXCEPT ![b] = @ \cup {f}]
    /\ UNCHANGED <<row, bucket>>

Store(b, f) ==
    /\ f \in produced[b]
    /\ bucket' = [bucket EXCEPT ![b] = @ \cup {f}]
    /\ UNCHANGED <<row, produced>>

Next ==
    \E b \in Backup :
        \/ Open(b)
        \/ \E s \in {"running", "failed", "cancelled"} : Mark(b, s)
        \/ \E f \in Archive :
               Record(b, f) \/ RecordStored(b, f) \/ Produce(b, f) \/ Store(b, f)

Spec == Init /\ [][Next]_vars

(***************************************************************************)
(* A success row names a produced archive, a stored object is in the       *)
(* bucket, and the bucket holds nothing that no dump produced.  This is    *)
(* what restore.worker.ts relies on when it fetches a backup by its row.   *)
(***************************************************************************)
Sound ==
    \A b \in Backup :
        /\ row[b].status = "success" => row[b].file \in produced[b]
        /\ row[b].stored # 0 => row[b].stored \in bucket[b]
        /\ bucket[b] \subseteq produced[b]
=============================================================================
