--------------------------- MODULE BackupPipeline ---------------------------
(***************************************************************************)
(* One backup from the request to its notification: the orchestrator's     *)
(* POST /backup and DELETE /backup/:id, the dashboard's cancel, the three  *)
(* BullMQ queues and the handlers of the worker process, and the metadata  *)
(* row they share.  Each await of a handler is a step of its own.          *)
(*                                                                         *)
(* A backup's archives are numbered by the handler run that produced them  *)
(* (every dump names its file by the time it starts); 0 is "none".         *)
(***************************************************************************)
EXTENDS Naturals, FiniteSets, JobQueue

CONSTANTS
    Backup,            \* the backup requests
    Remote,            \* those whose options.storage.type is 's3'
    MaxQueueSize,      \* MAX_QUEUE_SIZE
    Attempts,          \* [queue -> attempts of a job]
    Concurrency,       \* [queue -> handlers the worker runs at once]
    MaxStalled,        \* BullMQ's maxStalledCount
    MaxRuns,           \* bound on the numbers of handler runs
    Cancellable,       \* the backups that a client may cancel
    LockLoss,          \* may a live handler lose its job's lock?
    MaxFaults,         \* bound: calls to the metadata service or Redis that
                       \* fail, or are carried out but lose their reply
    MaxCrashes         \* bound: crashes of the worker process

Queues == {"backup", "storage", "notify"}

ASSUME PipelineAssumption ==
    /\ Remote \subseteq Backup
    /\ MaxQueueSize \in Nat \ {0}
    /\ Attempts \in [Queues -> Nat \ {0}]
    /\ Concurrency \in [Queues -> Nat \ {0}]
    /\ MaxStalled \in Nat
    /\ MaxRuns \in Nat
    /\ \A q \in Queues : Attempts[q] + MaxStalled <= MaxRuns
    /\ Cancellable \subseteq Backup
    /\ LockLoss \in BOOLEAN
    /\ MaxFaults \in Nat
    /\ MaxCrashes \in Nat

VARIABLES
    request,   \* where the orchestrator's handler of POST /backup is
    cancel,    \* where a cancellation of the backup is
    row,       \* the BackupJob row
    job,       \* job[q][b]: the job of backup b in queue q
    starts,    \* starts[q][b]: handler runs started for it
    run,       \* run[q][b][r]: where handler run r is
    upload,    \* the archive named in the storage job, 0 before the job exists
    notice,    \* the outcome named in the notification job
    produced,  \* archives written by the database service
    bucket,    \* archives uploaded to the remote store
    sent,      \* messages delivered to the notification channel
    faults,
    crashes

vars == <<request, cancel, row, job, starts, run, upload, notice, produced,
          bucket, sent, faults, crashes>>

RunIds == 1 .. MaxRuns

Dead == {"idle", "over"}

BackupPlaces == {"setRunning", "dump", "setSuccess", "handOff",
                 "setFailed", "noteFailure"}
StoragePlaces == {"lookup", "upload", "record", "announce"}
NotifyPlaces == {"send"}

Places == Dead \cup {"return", "throw"} \cup
          BackupPlaces \cup StoragePlaces \cup NotifyPlaces

Entry(q) == CASE q = "backup" -> "setRunning"
              [] q = "storage" -> "lookup"
              [] q = "notify" -> "send"

RequestPlaces == {"idle", "counted", "created", "failing",
                  "accepted", "rejected", "errored", "lost"}

CancelPlaces == {"idle", "removing", "marking", "done"}

RowStatus == {"absent", "running", "success", "failed", "cancelled"}

Rows == [status : RowStatus, file : RunIds \cup {0},
         stored : RunIds \cup {0}]

NoRow == [status |-> "absent", file |-> 0, stored |-> 0]

TypeOK ==
    /\ request \in [Backup -> RequestPlaces]
    /\ cancel \in [Backup -> CancelPlaces]
    /\ row \in [Backup -> Rows]
    /\ job \in [Queues -> [Backup -> Jobs]]
    /\ starts \in [Queues -> [Backup -> Nat]]
    /\ run \in [Queues -> [Backup -> [RunIds -> Places]]]
    /\ upload \in [Backup -> RunIds \cup {0}]
    /\ notice \in [Backup -> {"none", "success", "failure"}]
    /\ produced \in [Backup -> SUBSET RunIds]
    /\ bucket \in [Backup -> SUBSET RunIds]
    /\ sent \in [Backup -> Nat]
    /\ faults \in Nat
    /\ crashes \in Nat

Init ==
    /\ request = [b \in Backup |-> "idle"]
    /\ cancel = [b \in Backup |-> "idle"]
    /\ row = [b \in Backup |-> NoRow]
    /\ job = [q \in Queues |-> [b \in Backup |-> NoJob]]
    /\ starts = [q \in Queues |-> [b \in Backup |-> 0]]
    /\ run = [q \in Queues |-> [b \in Backup |-> [r \in RunIds |-> "idle"]]]
    /\ upload = [b \in Backup |-> 0]
    /\ notice = [b \in Backup |-> "none"]
    /\ produced = [b \in Backup |-> {}]
    /\ bucket = [b \in Backup |-> {}]
    /\ sent = [b \in Backup |-> 0]
    /\ faults = 0
    /\ crashes = 0

-----------------------------------------------------------------------------
(***************************************************************************)
(* Helpers.                                                                *)
(***************************************************************************)

SetJob(q, b, j) == job' = [job EXCEPT ![q][b] = j]

At(q, b, r, place) == run[q][b][r] = place

Goto(q, b, r, place) == run' = [run EXCEPT ![q][b][r] = place]

SetRow(b, value) == row' = [row EXCEPT ![b] = value]

\* The fields that the PATCHes carry.
Marked(x, status) == [x EXCEPT !.status = status]
Recorded(x, file) == [x EXCEPT !.status = "success", !.file = file]
StoredAt(x, path) == [x EXCEPT !.stored = path]

Fault == faults < MaxFaults /\ faults' = faults + 1

NoFault == UNCHANGED faults

\* A call that failed or timed out may still have been carried out.
MaybeSetRow(b, value) == UNCHANGED row \/ SetRow(b, value)

Waiting(q) == {b \in Backup : job[q][b].state = "waiting"}

LiveRuns(q) == {br \in Backup \X RunIds : run[q][br[1]][br[2]] \notin Dead}

queueVars == <<job, starts, upload, notice>>
storeVars == <<produced, bucket>>
clientVars == <<request, cancel>>

-----------------------------------------------------------------------------
(***************************************************************************)
(* The orchestrator: POST /backup.                                         *)
(***************************************************************************)

requestRest == <<cancel, starts, run, upload, notice, storeVars, sent, crashes>>

\* getWaitingCount: the request goes on, or is answered 429.
CheckQueueSize(b) ==
    /\ request[b] = "idle"
    /\ request' = [request EXCEPT ![b] =
           IF Cardinality(Waiting("backup")) >= MaxQueueSize
           THEN "rejected" ELSE "counted"]
    /\ UNCHANGED <<row, job, faults, requestRest>>

\* Mutant of CreateRow: the request goes on after a failed createJob.
CreateRowUnchecked(b) ==
    /\ request[b] = "counted"
    /\ \/ SetRow(b, Marked(row[b], "running")) /\ NoFault
       \/ UNCHANGED row /\ Fault
    /\ request' = [request EXCEPT ![b] = "created"]
    /\ UNCHANGED <<job, requestRest>>

CreateRow(b) ==
    /\ request[b] = "counted"
    /\ \/ /\ SetRow(b, Marked(row[b], "running"))
          /\ request' = [request EXCEPT ![b] = "created"]
          /\ NoFault
       \/ /\ Fault
          /\ MaybeSetRow(b, Marked(row[b], "running"))
          /\ request' = [request EXCEPT ![b] = "failing"]
    /\ UNCHANGED <<job, requestRest>>

Enqueue(b) ==
    /\ request[b] = "created"
    /\ \/ /\ SetJob("backup", b, Added(job["backup"][b]))
          /\ request' = [request EXCEPT ![b] = "accepted"]
          /\ NoFault
       \/ /\ Fault
          /\ UNCHANGED job \/ SetJob("backup", b, Added(job["backup"][b]))
          /\ request' = [request EXCEPT ![b] = "failing"]
    /\ UNCHANGED <<row, requestRest>>

\* The catch block; an update that fails there is only logged, and one of a
\* row that was never created answers 404.
FailRequest(b) ==
    /\ request[b] = "failing"
    /\ \/ /\ row[b].status # "absent"
          /\ SetRow(b, Marked(row[b], "failed"))
          /\ NoFault
       \/ /\ UNCHANGED row
          /\ IF row[b].status = "absent" THEN NoFault ELSE Fault
    /\ request' = [request EXCEPT ![b] = "errored"]
    /\ UNCHANGED <<job, requestRest>>

\* The process dies with the requests it is handling.  (A cancellation that
\* dies with it is one whose next step never comes.)
OrchestratorCrash ==
    /\ \E b \in Backup : request[b] \in {"counted", "created", "failing"}
    /\ request' = [b \in Backup |->
           IF request[b] \in {"counted", "created", "failing"} THEN "lost" ELSE request[b]]
    /\ UNCHANGED <<row, job, faults, requestRest>>

-----------------------------------------------------------------------------
(***************************************************************************)
(* Cancellation.                                                           *)
(***************************************************************************)

cancelRest == <<request, starts, run, upload, notice, storeVars, sent, crashes>>

\* DELETE /backup/:id: a refusal of remove() is ignored.
RemoveFromQueue(b) ==
    /\ b \in Cancellable
    /\ cancel[b] = "idle"
    /\ row[b].status # "absent"
    /\ SetJob("backup", b, Removed(job["backup"][b]))
    /\ cancel' = [cancel EXCEPT ![b] = "marking"]
    /\ UNCHANGED <<row, faults, cancelRest>>

\* The dashboard looks at the job's state first ...
DashboardCheck(b) ==
    /\ b \in Cancellable
    /\ cancel[b] = "idle"
    /\ job["backup"][b].state \in {"waiting", "delayed"}
    /\ cancel' = [cancel EXCEPT ![b] = "removing"]
    /\ UNCHANGED <<row, job, faults, cancelRest>>

\* ... and remove() throws when a worker has taken the job meanwhile.
DashboardRemove(b) ==
    /\ cancel[b] = "removing"
    /\ SetJob("backup", b, Removed(job["backup"][b]))
    /\ cancel' = [cancel EXCEPT ![b] =
           IF job["backup"][b].state = "active" THEN "done" ELSE "marking"]
    /\ UNCHANGED <<row, faults, cancelRest>>

MarkCancelled(b) ==
    /\ cancel[b] = "marking"
    /\ \/ SetRow(b, Marked(row[b], "cancelled")) /\ NoFault
       \/ UNCHANGED row /\ Fault
    /\ cancel' = [cancel EXCEPT ![b] = "done"]
    /\ UNCHANGED <<job, cancelRest>>

-----------------------------------------------------------------------------
(***************************************************************************)
(* The queues, as the worker process drives them.                          *)
(***************************************************************************)

workerRest == <<clientVars, faults, row, upload, notice, storeVars, sent>>

\* A worker with a free slot locks a waiting job and starts its handler.
Take(q, b) ==
    /\ job[q][b].state = "waiting"
    /\ Cardinality(LiveRuns(q)) < Concurrency[q]
    /\ starts' = [starts EXCEPT ![q][b] = @ + 1]
    /\ SetJob(q, b, Taken(job[q][b], starts[q][b] + 1))
    /\ Goto(q, b, starts[q][b] + 1, Entry(q))
    /\ UNCHANGED <<workerRest, crashes>>

Promote(q, b) ==
    /\ job[q][b].state = "delayed"
    /\ SetJob(q, b, Promoted(job[q][b]))
    /\ UNCHANGED <<workerRest, starts, run, crashes>>

\* The handler returned: the job is completed, if the run still owns it.
Complete(q, b, r) ==
    /\ At(q, b, r, "return")
    /\ SetJob(q, b, Completed(job[q][b], r))
    /\ Goto(q, b, r, "over")
    /\ UNCHANGED <<workerRest, starts, crashes>>

\* The handler threw: the job is retried after a delay, or failed.
Reject(q, b, r) ==
    /\ At(q, b, r, "throw")
    /\ SetJob(q, b, Rejected(job[q][b], r, Attempts[q]))
    /\ Goto(q, b, r, "over")
    /\ UNCHANGED <<workerRest, starts, crashes>>

\* Mutant of Stall: the check does not look at the lock.
StallUnchecked(q, b) ==
    /\ job[q][b].state = "active"
    /\ SetJob(q, b, Stalled(job[q][b], MaxStalled))
    /\ UNCHANGED <<workerRest, starts, run, crashes>>

\* Mutant of Stall: the jobs of a dead process are not looked for.
StallOnlyLive(q, b) ==
    /\ job[q][b].state = "active"
    /\ LockLoss
    /\ SetJob(q, b, Stalled(job[q][b], MaxStalled))
    /\ UNCHANGED <<workerRest, starts, run, crashes>>

\* The stalled-job check finds an active job whose lock has expired: its run
\* died with the process, or could not renew the lock in time.
Stall(q, b) ==
    /\ job[q][b].state = "active"
    /\ LockLoss \/ At(q, b, job[q][b].owner, "over")
    /\ SetJob(q, b, Stalled(job[q][b], MaxStalled))
    /\ UNCHANGED <<workerRest, starts, run, crashes>>

\* The worker process dies with every handler it is running; pm2 restarts it.
WorkerCrash ==
    /\ crashes < MaxCrashes
    /\ \E q \in Queues : LiveRuns(q) # {}
    /\ crashes' = crashes + 1
    /\ run' = [q \in Queues |-> [b \in Backup |-> [r \in RunIds |->
           IF run[q][b][r] \in Dead THEN run[q][b][r] ELSE "over"]]]
    /\ UNCHANGED <<workerRest, job, starts>>

-----------------------------------------------------------------------------
(***************************************************************************)
(* handleBackupJob.  An exception anywhere in the try block, updateProgress *)
(* included, goes to the catch block.                                      *)
(***************************************************************************)

backupRest == <<clientVars, starts, bucket, sent, crashes>>

SetRunning(b, r) ==
    /\ At("backup", b, r, "setRunning")
    /\ LET started == Marked(row[b], "running")
       IN  \/ SetRow(b, started) /\ NoFault /\ Goto("backup", b, r, "dump")
           \/ Fault /\ MaybeSetRow(b, started) /\ Goto("backup", b, r, "setFailed")
    /\ UNCHANGED <<backupRest, job, upload, notice, produced>>

\* POST /backup of the database service, which may fail for its own reasons.
Dump(b, r) ==
    /\ At("backup", b, r, "dump")
    /\ \/ /\ produced' = [produced EXCEPT ![b] = @ \cup {r}]
          /\ Goto("backup", b, r, "setSuccess")
       \/ /\ UNCHANGED produced
          /\ Goto("backup", b, r, "setFailed")
    /\ UNCHANGED <<backupRest, faults, row, job, upload, notice>>

\* Mutant of SetSuccess: the notification's word instead of BackupStatus.
SetSuccessMistyped(b, r) ==
    /\ At("backup", b, r, "setSuccess")
    /\ SetRow(b, [row[b] EXCEPT !.status = "completed", !.file = r])
    /\ NoFault
    /\ Goto("backup", b, r, "handOff")
    /\ UNCHANGED <<backupRest, job, upload, notice, produced>>

\* Mutant of SetSuccess: the PATCH carries the file and not the status.
SetSuccessFileOnly(b, r) ==
    /\ At("backup", b, r, "setSuccess")
    /\ SetRow(b, [row[b] EXCEPT !.file = r])
    /\ NoFault
    /\ Goto("backup", b, r, "handOff")
    /\ UNCHANGED <<backupRest, job, upload, notice, produced>>

SetSuccess(b, r) ==
    /\ At("backup", b, r, "setSuccess")
    /\ LET succeeded == Recorded(row[b], r)
       IN  \/ SetRow(b, succeeded) /\ NoFault /\ Goto("backup", b, r, "handOff")
           \/ Fault /\ MaybeSetRow(b, succeeded) /\ Goto("backup", b, r, "setFailed")
    /\ UNCHANGED <<backupRest, job, upload, notice, produced>>

\* notificationQueue.add under the job id notify_<backupId>: the outcome is
\* the one of the first add.
Announce(b, outcome) ==
    /\ SetJob("notify", b, Added(job["notify"][b]))
    /\ notice' = [notice EXCEPT ![b] = IF @ = "none" THEN outcome ELSE @]

\* storageQueue.add under the job id storage_<backupId>.
RequestUpload(b, file) ==
    /\ SetJob("storage", b, Added(job["storage"][b]))
    /\ upload' = [upload EXCEPT ![b] = IF @ = 0 THEN file ELSE @]

\* Mutant of HandOffTo: success is announced when the upload is only queued.
HandOffToBoth(b, r) ==
    IF b \in Remote
    THEN /\ job' = [job EXCEPT !["storage"][b] = Added(@), !["notify"][b] = Added(@)]
         /\ upload' = [upload EXCEPT ![b] = IF @ = 0 THEN r ELSE @]
         /\ notice' = [notice EXCEPT ![b] = IF @ = "none" THEN "success" ELSE @]
    ELSE Announce(b, "success") /\ UNCHANGED upload

HandOffTo(b, r) ==
    IF b \in Remote
    THEN RequestUpload(b, r) /\ UNCHANGED notice
    ELSE Announce(b, "success") /\ UNCHANGED upload

\* The add, then updateProgress(100): either may throw after SUCCESS was set.
HandOff(b, r) ==
    /\ At("backup", b, r, "handOff")
    /\ \/ HandOffTo(b, r) /\ NoFault /\ Goto("backup", b, r, "return")
       \/ /\ Fault
          /\ HandOffTo(b, r) \/ UNCHANGED <<job, upload, notice>>
          /\ Goto("backup", b, r, "setFailed")
    /\ UNCHANGED <<backupRest, row, produced>>

\* Mutant of SetFailed: the status is left as it was.
SetFailedSilently(b, r) ==
    /\ At("backup", b, r, "setFailed")
    /\ NoFault
    /\ Goto("backup", b, r, "noteFailure")
    /\ UNCHANGED <<backupRest, row, job, upload, notice, produced>>

\* Mutant of SetFailed: the row is replaced, not patched.
SetFailedAfresh(b, r) ==
    /\ At("backup", b, r, "setFailed")
    /\ SetRow(b, [NoRow EXCEPT !.status = "failed"])
    /\ NoFault
    /\ Goto("backup", b, r, "noteFailure")
    /\ UNCHANGED <<backupRest, job, upload, notice, produced>>

\* The catch block: if this update throws, nothing more is done.
SetFailed(b, r) ==
    /\ At("backup", b, r, "setFailed")
    /\ LET failed == Marked(row[b], "failed")
       IN  \/ SetRow(b, failed) /\ NoFault /\ Goto("backup", b, r, "noteFailure")
           \/ Fault /\ MaybeSetRow(b, failed) /\ Goto("backup", b, r, "throw")
    /\ UNCHANGED <<backupRest, job, upload, notice, produced>>

NoteFailure(b, r) ==
    /\ At("backup", b, r, "noteFailure")
    /\ \/ Announce(b, "failure") /\ NoFault
       \/ Fault /\ UNCHANGED <<job, notice>>
    /\ Goto("backup", b, r, "throw")
    /\ UNCHANGED <<backupRest, row, upload, produced>>

-----------------------------------------------------------------------------
(***************************************************************************)
(* handleStorageJob: every exception is logged and rethrown.               *)
(***************************************************************************)

storageRest == <<clientVars, starts, upload, produced, sent, crashes>>

\* Mutant of Lookup: the path is recorded without the upload.
LookupThenRecord(b, r) ==
    /\ At("storage", b, r, "lookup")
    /\ Goto("storage", b, r, "record")
    /\ NoFault
    /\ UNCHANGED <<storageRest, row, job, notice, bucket>>

\* The idempotency check: the upload is skipped if the row already names it.
Lookup(b, r) ==
    /\ At("storage", b, r, "lookup")
    /\ \/ Goto("storage", b, r,
               IF row[b].stored = upload[b] THEN "announce" ELSE "upload") /\ NoFault
       \/ Fault /\ Goto("storage", b, r, "throw")
    /\ UNCHANGED <<storageRest, row, job, notice, bucket>>

Upload(b, r) ==
    /\ At("storage", b, r, "upload")
    /\ LET stored == [bucket EXCEPT ![b] = @ \cup {upload[b]}]
       IN  \/ bucket' = stored /\ Goto("storage", b, r, "record")
           \/ bucket' \in {bucket, stored} /\ Goto("storage", b, r, "throw")
    /\ UNCHANGED <<storageRest, faults, row, job, notice>>

RecordUpload(b, r) ==
    /\ At("storage", b, r, "record")
    /\ LET recorded == StoredAt(row[b], upload[b])
       IN  \/ SetRow(b, recorded) /\ NoFault /\ Goto("storage", b, r, "announce")
           \/ Fault /\ MaybeSetRow(b, recorded) /\ Goto("storage", b, r, "throw")
    /\ UNCHANGED <<storageRest, job, notice, bucket>>

AnnounceUpload(b, r) ==
    /\ At("storage", b, r, "announce")
    /\ \/ Announce(b, "success") /\ NoFault /\ Goto("storage", b, r, "return")
       \/ /\ Fault
          /\ Announce(b, "success") \/ UNCHANGED <<job, notice>>
          /\ Goto("storage", b, r, "throw")
    /\ UNCHANGED <<storageRest, row, bucket>>

-----------------------------------------------------------------------------
(***************************************************************************)
(* handleNotificationJob: it returns after a send that failed as after one *)
(* that did not.  Its audit record (an await whose failure is only logged)  *)
(* is not modelled: nothing reads it back.                                 *)
(***************************************************************************)

notifyRest == <<clientVars, row, job, starts, upload, notice, storeVars, faults, crashes>>

Send(b, r) ==
    /\ At("notify", b, r, "send")
    /\ \/ sent' = [sent EXCEPT ![b] = @ + 1]
       \/ UNCHANGED sent
    /\ Goto("notify", b, r, "return")
    /\ UNCHANGED notifyRest

-----------------------------------------------------------------------------

OrchestratorStep ==
    \/ \E b \in Backup : CheckQueueSize(b) \/ CreateRow(b) \/ Enqueue(b) \/ FailRequest(b)
    \/ OrchestratorCrash

CancelStep ==
    \E b \in Backup :
        RemoveFromQueue(b) \/ DashboardCheck(b) \/ DashboardRemove(b) \/ MarkCancelled(b)

QueueStep ==
    \E q \in Queues, b \in Backup :
        \/ Take(q, b) \/ Promote(q, b) \/ Stall(q, b)
        \/ \E r \in RunIds : Complete(q, b, r) \/ Reject(q, b, r)

BackupHandler(b, r) ==
    \/ SetRunning(b, r) \/ Dump(b, r) \/ SetSuccess(b, r)
    \/ HandOff(b, r) \/ SetFailed(b, r) \/ NoteFailure(b, r)

StorageHandler(b, r) ==
    Lookup(b, r) \/ Upload(b, r) \/ RecordUpload(b, r) \/ AnnounceUpload(b, r)

HandlerStep ==
    \E b \in Backup, r \in RunIds :
        BackupHandler(b, r) \/ StorageHandler(b, r) \/ Send(b, r)

Next == OrchestratorStep \/ CancelStep \/ QueueStep \/ HandlerStep \/ WorkerCrash

Spec == Init /\ [][Next]_vars

(***************************************************************************)
(* The worker process is restarted after a crash, its event loop runs every *)
(* handler whose await has settled (each has a timeout), and BullMQ keeps   *)
(* promoting, taking and checking jobs.  Nothing obliges a client to act.   *)
(***************************************************************************)
FairSpec == Spec /\ WF_vars(QueueStep \/ HandlerStep)

-----------------------------------------------------------------------------
(***************************************************************************)
(* Properties.                                                             *)
(***************************************************************************)

(***************************************************************************)
(* A job's handler is started at most Attempts + MaxStalled times, whatever *)
(* crashes, lost locks and failed calls make of its runs: a source database *)
(* is dumped no more often than lib/queue-manager.ts configures.           *)
(***************************************************************************)
RunsBounded ==
    \A q \in Queues, b \in Backup : starts[q][b] <= Attempts[q] + MaxStalled

(***************************************************************************)
(* The metadata row is what BackupCatalogue promises: each step of the     *)
(* orchestrator, the cancellers and the handlers is one of its steps.      *)
(***************************************************************************)
Catalogue == INSTANCE BackupCatalogue WITH Archive <- RunIds

ImplementsCatalogue == Catalogue!Spec

CatalogueSound == Catalogue!Sound

(***************************************************************************)
(* No message says that a backup succeeded before its archive, and for a   *)
(* remote backup its uploaded object, are in the metadata row.             *)
(***************************************************************************)
SuccessNoticeBacked ==
    \A b \in Backup :
        notice[b] = "success" =>
            /\ row[b].file \in produced[b]
            /\ b \in Remote => row[b].stored \in bucket[b]

(***************************************************************************)
(* A queued job has its metadata row: a handler's PATCH of the row never   *)
(* meets the 404 that would make every attempt fail.                       *)
(***************************************************************************)
JobHasRow ==
    \A q \in Queues, b \in Backup :
        job[q][b].state # "absent" => row[b].status # "absent"

(***************************************************************************)
(* Unless a live handler can lose its lock, two handlers never run for one *)
(* job: a run that is neither over nor dead is the one the job is locked   *)
(* by.  Only a crash lets the stalled-job check take a job away.           *)
(***************************************************************************)
LiveRunOwnsJob ==
    \A q \in Queues, b \in Backup, r \in RunIds :
        run[q][b][r] \notin Dead => Owns(job[q][b], r)

(***************************************************************************)
(* As long as no call has failed and locks hold, a job the queue is done   *)
(* with and its row tell the same outcome, across retries and crashes,     *)
(* unless the backup was cancelled.  A job failed by the stalled-job check *)
(* is left out: nobody updates its row.                                    *)
(***************************************************************************)
OutcomeAgrees ==
    faults = 0 => \A b \in Backup :
        LET j == job["backup"][b]
        IN  /\ j.state = "completed" => row[b].status \in {"success", "cancelled"}
            /\ j.state = "failed" /\ j.stalls <= MaxStalled =>
                   row[b].status \in {"failed", "cancelled"}

(***************************************************************************)
(* The row of a finished backup never comes to name another archive, so a  *)
(* restore prepared from it reads what it was shown.                       *)
(***************************************************************************)
FinishedFileFrozen ==
    [][\A b \in Backup :
          job["backup"][b].state \in {"completed", "failed"} =>
              row'[b].file = row[b].file]_vars

(***************************************************************************)
(* The queues drain: again and again there is a moment when every job was  *)
(* completed, failed or removed, so no job is stuck active or waiting.     *)
(***************************************************************************)
QueuesDrain ==
    []<>(\A q \in Queues, b \in Backup : Finished(job[q][b]))

(***************************************************************************)
(* The row of an accepted backup does not stay "running", the state that   *)
(* the CLI polls: with reliable calls, and no more crashes than the        *)
(* stalled-job check tolerates, it settles on an outcome.  (A cancellation *)
(* that dies between remove() and its update leaves the row as it is.)     *)
(***************************************************************************)
AcceptedSettles ==
    \A b \in Backup \ Cancellable :
        request[b] = "accepted" ~>
            [](row[b].status \in {"success", "failed", "cancelled"})
=============================================================================
