-------------------------- MODULE ScheduleRegistry --------------------------
(***************************************************************************)
(* The schedules of the scheduler: the rows of the metadata service, the   *)
(* cron tasks of the process, and the map scheduledTasks by which a task   *)
(* is found again.  Requests interleave at their awaits, with each other   *)
(* and with loadSchedules, which a restarted process runs while it serves  *)
(* requests already.  The setup wizard writes rows behind the scheduler.   *)
(***************************************************************************)
EXTENDS Naturals, Sequences

CONSTANTS
    Schedule,
    MaxFaults,     \* bound: metadata calls that fail or lose their reply
    MaxRestarts    \* bound: restarts of the scheduler

ASSUME RegistryAssumption == MaxFaults \in Nat /\ MaxRestarts \in Nat

VARIABLES
    row,       \* the BackupSchedule row
    origin,    \* who made it: the scheduler, or the wizard, whose cron
               \* expression nobody has validated
    made,      \* the rows, newest first
    create,    \* where POST /api/schedule is
    stop,      \* where POST /api/schedule/:id/stop is; "overtaken" once it
               \* has succeeded behind a list that still has the row
    tasks,     \* live cron tasks
    mapped,    \* is one of them in scheduledTasks?
    loading,   \* where loadSchedules is
    listed,    \* the rows that it goes through, in the order of made
    faults,
    restarts

vars == <<row, origin, made, create, stop, tasks, mapped, loading, listed, faults,
          restarts>>

TypeOK ==
    /\ row \in [Schedule -> {"absent", "enabled", "disabled"}]
    /\ origin \in [Schedule -> {"none", "scheduler", "wizard", "misspelt"}]
    /\ made \in Seq(Schedule) /\ listed \subseteq Schedule
    /\ create \in [Schedule -> {"idle", "made", "done", "failed"}]
    /\ stop \in [Schedule -> {"idle", "marking", "done", "overtaken", "failed"}]
    /\ tasks \in [Schedule -> 0 .. 1]
    /\ mapped \in [Schedule -> BOOLEAN]
    /\ loading \in {"list", "loop", "over"}
    /\ faults \in 0 .. MaxFaults
    /\ restarts \in 0 .. MaxRestarts

Init ==
    /\ row = [s \in Schedule |-> "absent"]
    /\ origin = [s \in Schedule |-> "none"]
    /\ made = << >>
    /\ create = [s \in Schedule |-> "idle"]
    /\ stop = [s \in Schedule |-> "idle"]
    /\ tasks = [s \in Schedule |-> 0]
    /\ mapped = [s \in Schedule |-> FALSE]
    /\ loading = "list"
    /\ listed = {}
    /\ faults = 0
    /\ restarts = 0

Fault == faults < MaxFaults /\ faults' = faults + 1

Insert(s, by) ==
    /\ row' = [row EXCEPT ![s] = "enabled"]
    /\ origin' = [origin EXCEPT ![s] = by]
    /\ made' = <<s>> \o made

Enabled == {s \in Schedule : row[s] = "enabled"}

\* The rows come newest first.
Upto(s) == {made[i] : i \in {k \in DOMAIN made : \A j \in 1 .. k - 1 : made[j] # s}}

\* JSON.parse throws on the metadata that the scheduler stores, an object that
\* the Json column gives back as one; the wizard stores none, which parses.
Parsed(s) == origin[s] # "scheduler"

-----------------------------------------------------------------------------

CreateRow(s) ==
    /\ create[s] = "idle" /\ row[s] = "absent"
    /\ \/ /\ Insert(s, "scheduler")
          /\ create' = [create EXCEPT ![s] = "made"]
          /\ UNCHANGED faults
       \/ /\ Fault
          /\ Insert(s, "scheduler") \/ UNCHANGED <<row, origin, made>>
          /\ create' = [create EXCEPT ![s] = "failed"]
    /\ UNCHANGED <<stop, tasks, mapped, loading, listed, restarts>>

\* The wizard writes its row past the scheduler.
WizardRow(s) ==
    /\ create[s] = "idle" /\ row[s] = "absent"
    /\ \E by \in {"wizard", "misspelt"} : Insert(s, by)
    /\ UNCHANGED <<create, stop, tasks, mapped, loading, listed, faults, restarts>>

\* Mutant of StartTask: the task is not kept in the map.
StartTaskUnmapped(s) ==
    /\ create[s] = "made"
    /\ tasks' = [tasks EXCEPT ![s] = @ + 1]
    /\ create' = [create EXCEPT ![s] = "done"]
    /\ UNCHANGED <<row, origin, made, stop, mapped, loading, listed, faults, restarts>>

StartTask(s) ==
    /\ create[s] = "made"
    /\ tasks' = [tasks EXCEPT ![s] = @ + 1]
    /\ mapped' = [mapped EXCEPT ![s] = TRUE]
    /\ create' = [create EXCEPT ![s] = "done"]
    /\ UNCHANGED <<row, origin, made, stop, loading, listed, faults, restarts>>

\* A schedule's id is known from its row (GET /api/schedule).
StopTask(s) ==
    /\ row[s] # "absent"
    /\ stop[s] # "marking"
    /\ IF mapped[s]
       THEN tasks' = [tasks EXCEPT ![s] = @ - 1] /\ mapped' = [mapped EXCEPT ![s] = FALSE]
       ELSE UNCHANGED <<tasks, mapped>>
    /\ stop' = [stop EXCEPT ![s] = "marking"]
    /\ UNCHANGED <<row, origin, made, create, loading, listed, faults, restarts>>

MarkStopped(s) ==
    /\ stop[s] = "marking"
    /\ \/ /\ row' = [row EXCEPT ![s] = "disabled"]
          /\ stop' = [stop EXCEPT ![s] = IF s \in listed THEN "overtaken" ELSE "done"]
          /\ UNCHANGED faults
       \/ /\ Fault
          /\ row' = [row EXCEPT ![s] = "disabled"] \/ UNCHANGED row
          /\ stop' = [stop EXCEPT ![s] = "failed"]
    /\ UNCHANGED <<origin, made, create, tasks, mapped, loading, listed, restarts>>

Restart ==
    /\ restarts < MaxRestarts
    /\ restarts' = restarts + 1
    /\ tasks' = [s \in Schedule |-> 0]
    /\ mapped' = [s \in Schedule |-> FALSE]
    /\ create' = [s \in Schedule |-> IF create[s] = "made" THEN "failed" ELSE create[s]]
    /\ stop' = [s \in Schedule |-> CASE stop[s] = "marking" -> "failed"
                                     [] stop[s] = "overtaken" -> "done"
                                     [] OTHER -> stop[s]]
    /\ loading' = "list" /\ listed' = {}
    /\ UNCHANGED <<row, origin, made, faults>>

\* Mutant of ListRows: the rows that are not enabled are listed too.
ListAllRows ==
    /\ loading = "list"
    /\ loading' = "loop" /\ listed' = {s \in Schedule : row[s] # "absent"} /\ UNCHANGED faults
    /\ UNCHANGED <<row, origin, made, create, stop, tasks, mapped, restarts>>

\* listSchedules(true)
ListRows ==
    /\ loading = "list"
    /\ \/ loading' = "loop" /\ listed' = Enabled /\ UNCHANGED faults
       \/ loading' = "over" /\ Fault /\ UNCHANGED listed
    /\ UNCHANGED <<row, origin, made, create, stop, tasks, mapped, restarts>>

\* The first row that does not parse ends the loop; an expression that is not
\* valid is passed over.
StartListed ==
    /\ loading = "loop"
    /\ loading' = "over" /\ listed' = {}
    /\ LET reached == {s \in listed : \A z \in listed \cap Upto(s) : Parsed(z)}
           started == {s \in reached : origin[s] = "wizard"}
       IN  /\ tasks' = [s \in Schedule |-> IF s \in started THEN tasks[s] + 1 ELSE tasks[s]]
           /\ mapped' = [s \in Schedule |-> s \in started \/ mapped[s]]
    /\ UNCHANGED <<row, origin, made, create, stop, faults, restarts>>

Next ==
    \/ \E s \in Schedule :
           CreateRow(s) \/ WizardRow(s) \/ StartTask(s) \/ StopTask(s) \/ MarkStopped(s)
    \/ Restart
    \/ ListRows
    \/ StartListed

Spec == Init /\ [][Next]_vars

-----------------------------------------------------------------------------
(***************************************************************************)
(* Properties.                                                             *)
(***************************************************************************)

(***************************************************************************)
(* Every cron task that runs is the one that scheduledTasks has for its    *)
(* schedule, so that a stop request can reach it, and the map has none     *)
(* that does not run, whatever requests and restarts come between.         *)
(***************************************************************************)
TasksReachable == TypeOK /\ \A s \in Schedule : tasks[s] > 0 <=> mapped[s]

(***************************************************************************)
(* A schedule whose stop was answered with success does not start again,   *)
(* not by a restart either, but for a creation that was still on its way,  *)
(* and for a list of rows that was read before the stop.                   *)
(***************************************************************************)
StoppedStays ==
    [][\A s \in Schedule :
          stop[s] = "done" /\ create[s] # "made" => tasks'[s] <= tasks[s]]_vars
=============================================================================
