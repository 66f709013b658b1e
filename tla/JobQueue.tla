------------------------------ MODULE JobQueue ------------------------------
(***************************************************************************)
(* The life of one BullMQ job, as lib/queue-manager.ts configures and uses *)
(* it.  BullMQ itself is a library outside the repository: this module is  *)
(* the contract the handlers are written against.  A job is a record; each *)
(* operator returns the record after one queue command.                    *)
(*                                                                         *)
(*   made    handler runs that ended in an exception (attemptsMade)        *)
(*   stalls  times the job was found active with no lock holder            *)
(*   owner   the handler run that holds the job's lock, 0 when none does   *)
(***************************************************************************)
EXTENDS Naturals

JobStates == {"absent", "waiting", "active", "delayed", "completed", "failed"}

Jobs == [state : JobStates, made : Nat, stalls : Nat, owner : Nat]

NoJob == [state |-> "absent", made |-> 0, stalls |-> 0, owner |-> 0]

\* Queue.add with an explicit jobId: a job with that id is left as it is.
Added(j) == IF j.state = "absent" THEN [NoJob EXCEPT !.state = "waiting"] ELSE j

Taken(j, r) == [j EXCEPT !.state = "active", !.owner = r]

Owns(j, r) == j.state = "active" /\ j.owner = r

\* A run that lost the lock cannot finish the job: the command is refused.
Completed(j, r) ==
    IF Owns(j, r) THEN [j EXCEPT !.state = "completed", !.owner = 0] ELSE j

Rejected(j, r, attempts) ==
    IF Owns(j, r)
    THEN [state |-> IF j.made + 1 < attempts THEN "delayed" ELSE "failed",
          made |-> j.made + 1, stalls |-> j.stalls, owner |-> 0]
    ELSE j

\* The backoff delay elapses.
Promoted(j) == [j EXCEPT !.state = "waiting"]

\* Mutant of Stalled: the limit on stalls is not looked at.
StalledForever(j, maxStalled) ==
    [j EXCEPT !.state = "waiting", !.stalls = j.stalls + 1, !.owner = 0]

\* The stalled-job check gives the job back to the queue maxStalled times,
\* then fails it without running its handler.
Stalled(j, maxStalled) ==
    [state |-> IF j.stalls + 1 > maxStalled THEN "failed" ELSE "waiting",
     made |-> j.made, stalls |-> j.stalls + 1, owner |-> 0]

\* Job.remove refuses a job that a worker holds.
Removed(j) == IF j.state = "active" THEN j ELSE NoJob

Finished(j) == j.state \in {"completed", "failed", "absent"}
=============================================================================
