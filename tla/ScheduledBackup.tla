-------------------------- MODULE ScheduledBackup --------------------------
(***************************************************************************)
(* executeScheduledBackup of the scheduler: each execution takes the       *)
(* database's DistributedLock, asks the orchestrator for a backup, records *)
(* the outcome in the schedule, tells the notification channels, and       *)
(* releases the lock in its finally block.  The executions are the holders *)
(* of the lock: those of one schedule that overlap, or of two schedules of *)
(* one database.                                                           *)
(***************************************************************************)
EXTENDS DistributedLock

CONSTANT MaxFaults  \* bound: calls to the metadata service or the
                    \* orchestrator that fail, or lose their reply

ASSUME MaxFaultsAssumption == MaxFaults \in Nat

VARIABLES
    step,      \* where the body of the execution is
    recorded,  \* the lastRunStatus that it has written
    told,      \* the outcomes that its messages tell
    backup,    \* the backup that the orchestrator made for it
    faults

bodyVars == <<step, recorded, told, backup, faults>>

allVars == <<lockVars, bodyVars>>

Steps == {"none", "touch", "post", "markSuccess", "announce",
          "markFailed", "announceFailure", "finally"}

TypeOK ==
    /\ LockTypeOK
    /\ step \in [Holder -> Steps]
    /\ recorded \in [Holder -> {"none", "success", "failed"}]
    /\ told \in [Holder -> SUBSET {"success", "failed"}]
    /\ backup \in [Holder -> {"none", "queued", "running", "finished"}]
    /\ faults \in 0 .. MaxFaults

Init ==
    /\ LockInit
    /\ step = [h \in Holder |-> "none"]
    /\ recorded = [h \in Holder |-> "none"]
    /\ told = [h \in Holder |-> {}]
    /\ backup = [h \in Holder |-> "none"]
    /\ faults = 0

At(h, s) == use[h] = "holding" /\ step[h] = s

Goto(h, s) == step' = [step EXCEPT ![h] = s]

Fault == faults < MaxFaults /\ faults' = faults + 1

NoFault == UNCHANGED faults

Record(h, outcome) == recorded' = [recorded EXCEPT ![h] = outcome]

Tell(h, outcome) == told' = [told EXCEPT ![h] = @ \cup {outcome}]

-----------------------------------------------------------------------------

\* The cron task fires.
Fire(h) == Acquire(h) /\ UNCHANGED bodyVars

\* Mutant of Enter: the result of acquire() is not looked at.
EnterAnyway(h) ==
    /\ use[h] = "acquiring" /\ call[h] \in Replies
    /\ use' = [use EXCEPT ![h] = "holding"]
    /\ locked' = [locked EXCEPT ![h] = call[h] = "yes"]
    /\ timer' = [timer EXCEPT ![h] = IF call[h] = "yes" THEN Half ELSE Off]
    /\ call' = [call EXCEPT ![h] = "none"]
    /\ Goto(h, "touch")
    /\ UNCHANGED <<key, left, beat, errors, losses, recorded, told, backup, faults>>

\* An execution that is refused the lock, or whose acquire() throws, returns.
Enter(h) ==
    /\ EndAcquire(h)
    /\ IF call[h] = "yes" THEN Goto(h, "touch") ELSE UNCHANGED step
    /\ UNCHANGED <<recorded, told, backup, faults>>

\* updateSchedule(lastRunAt)
Touch(h) ==
    /\ At(h, "touch")
    /\ \/ Goto(h, "post") /\ NoFault
       \/ Goto(h, "markFailed") /\ Fault
    /\ UNCHANGED <<lockVars, recorded, told, backup>>

\* POST /backup: accepted, refused (a full queue), or without an answer.
Post(h) ==
    /\ At(h, "post")
    /\ \/ /\ backup' = [backup EXCEPT ![h] = "queued"]
          /\ \/ Goto(h, "markSuccess") /\ NoFault
             \/ Goto(h, "markFailed") /\ Fault
       \/ Goto(h, "markFailed") /\ UNCHANGED backup /\ NoFault
    /\ UNCHANGED <<lockVars, recorded, told>>

MarkSuccess(h) ==
    /\ At(h, "markSuccess")
    /\ \/ Record(h, "success") /\ Goto(h, "announce") /\ NoFault
       \/ Record(h, "success") /\ Goto(h, "markFailed") /\ Fault
       \/ UNCHANGED recorded /\ Goto(h, "markFailed") /\ Fault
    /\ UNCHANGED <<lockVars, told, backup>>

\* Mutant of Announce: a provider's failure is not caught in the loop.
AnnounceUncaught(h) ==
    /\ At(h, "announce")
    /\ \/ Fault /\ Goto(h, "markFailed") /\ UNCHANGED told
       \/ Tell(h, "success") /\ Goto(h, "finally") /\ NoFault
       \/ Tell(h, "success") /\ Goto(h, "markFailed") /\ NoFault
    /\ UNCHANGED <<lockVars, recorded, backup>>

\* sendBackupNotifications: getSchedule stands outside the loop's try; within
\* it a provider whose queue and fallback both fail is passed over.
Announce(h) ==
    /\ At(h, "announce")
    /\ \/ Fault /\ Goto(h, "markFailed") /\ UNCHANGED told
       \/ Tell(h, "success") /\ Goto(h, "finally") /\ NoFault
       \/ UNCHANGED told /\ Goto(h, "finally") /\ NoFault
    /\ UNCHANGED <<lockVars, recorded, backup>>

\* Mutant of MarkFailed: its exception leaves the function, past the finally.
MarkFailedOut(h) ==
    /\ At(h, "markFailed")
    /\ \/ Record(h, "failed") /\ Goto(h, "announceFailure") /\ NoFault
       \/ Fault /\ Goto(h, "none") /\ UNCHANGED recorded
    /\ UNCHANGED <<lockVars, told, backup>>

\* The inner catch block; an exception of its own goes to the outer one.
MarkFailed(h) ==
    /\ At(h, "markFailed")
    /\ \/ Record(h, "failed") /\ Goto(h, "announceFailure") /\ NoFault
       \/ Record(h, "failed") /\ Goto(h, "finally") /\ Fault
       \/ UNCHANGED recorded /\ Goto(h, "finally") /\ Fault
    /\ UNCHANGED <<lockVars, told, backup>>

AnnounceFailure(h) ==
    /\ At(h, "announceFailure")
    /\ \/ Fault /\ UNCHANGED told
       \/ Tell(h, "failed") /\ NoFault
       \/ UNCHANGED told /\ NoFault
    /\ Goto(h, "finally")
    /\ UNCHANGED <<lockVars, recorded, backup>>

Finally(h) ==
    /\ At(h, "finally")
    /\ Release(h)
    /\ Goto(h, "none")
    /\ UNCHANGED <<recorded, told, backup, faults>>

Body(h) ==
    \/ Touch(h) \/ Post(h) \/ MarkSuccess(h) \/ Announce(h)
    \/ MarkFailed(h) \/ AnnounceFailure(h) \/ Finally(h)

\* The scheduler's process dies.
Die(h) ==
    /\ Crash(h)
    /\ Goto(h, "none")
    /\ UNCHANGED <<recorded, told, backup, faults>>

\* The workers take the queued backup and bring it to an end.
Work(h) ==
    /\ \/ backup[h] = "queued" /\ backup' = [backup EXCEPT ![h] = "running"]
       \/ backup[h] = "running" /\ backup' = [backup EXCEPT ![h] = "finished"]
    /\ UNCHANGED <<lockVars, step, recorded, told, faults>>

Background ==
    /\ Tick \/ \E h \in Holder : LockStep(h) \/ LoseConnection(h)
    /\ UNCHANGED bodyVars

Next ==
    \/ \E h \in Holder : Fire(h) \/ Enter(h) \/ Body(h) \/ Die(h) \/ Work(h)
    \/ Background

Spec == Init /\ [][Next]_allVars

\* The calls of the body settle (but for POST /backup they have time limits;
\* the orchestrator answers it at once), and the lock is as in LockFairSpec.
FairSpec ==
    /\ Spec
    /\ WF_allVars(Tick /\ UNCHANGED bodyVars)
    /\ \A h \in Holder :
           /\ WF_allVars(LockStep(h) /\ UNCHANGED bodyVars)
           /\ WF_allVars(Enter(h))
           /\ WF_allVars(Body(h))

-----------------------------------------------------------------------------
(***************************************************************************)
(* Properties.                                                             *)
(***************************************************************************)

(***************************************************************************)
(* The messages of an execution tell what it has recorded in the schedule: *)
(* never success in one place and failure in the other, and so never both, *)
(* wherever a call fails between them.                                     *)
(***************************************************************************)
MessagesMatchRecord ==
    \A h \in Holder : told[h] \subseteq {recorded[h]}

(***************************************************************************)
(* The scheduler asks for a backup only while the database's lock has its  *)
(* own value (given prompt replies and a Redis that refused nothing yet).  *)
(***************************************************************************)
BackupUnderLock ==
    [][\A h \in Holder :
          errors = 0 /\ backup[h] = "none" /\ backup'[h] # "none" => key = h]_allVars

(***************************************************************************)
(* Whichever call of an execution fails, the database's lock is free again *)
(* some time: the next execution is not skipped for ever.                  *)
(***************************************************************************)
LockFreed == \A h \in Holder : key = h ~> key # h
=============================================================================
