------------------------ MODULE BackupPipelineProofs ------------------------
(***************************************************************************)
(* Theorems of BackupPipeline, for every set of backups and every value of *)
(* the configuration.                                                      *)
(***************************************************************************)
EXTENDS BackupPipeline, TLAPS

-----------------------------------------------------------------------------
(***************************************************************************)
(* The queue commands return jobs.                                         *)
(***************************************************************************)

\* Every command of JobQueue maps a job to a job.
LEMMA JobCommands ==
    ASSUME NEW j \in Jobs, NEW r \in Nat, NEW a \in Nat, NEW m \in Nat
    PROVE  /\ NoJob \in Jobs
           /\ Added(j) \in Jobs
           /\ Taken(j, r) \in Jobs
           /\ Completed(j, r) \in Jobs
           /\ Rejected(j, r, a) \in Jobs
           /\ Promoted(j) \in Jobs
           /\ Stalled(j, m) \in Jobs
           /\ Removed(j) \in Jobs
<1> USE DEF Jobs, JobStates
<1>1. NoJob \in Jobs
    BY DEF NoJob
<1>2. Added(j) \in Jobs
    BY <1>1 DEF Added
<1>3. Taken(j, r) \in Jobs
    BY DEF Taken
<1>4. Completed(j, r) \in Jobs
    BY DEF Completed
<1>5. Rejected(j, r, a) \in Jobs
    BY DEF Rejected
<1>6. Promoted(j) \in Jobs
    BY DEF Promoted
<1>7. Stalled(j, m) \in Jobs
    BY DEF Stalled
<1>8. Removed(j) \in Jobs
    BY <1>1 DEF Removed
<1>9. QED
    BY <1>1, <1>2, <1>3, <1>4, <1>5, <1>6, <1>7, <1>8

\* What the steps write into the row is a row.
LEMMA RowUpdates ==
    ASSUME NEW x \in Rows, NEW s \in RowStatus, NEW f \in RunIds \cup {0}
    PROVE  /\ Marked(x, s) \in Rows
           /\ Recorded(x, f) \in Rows
           /\ StoredAt(x, f) \in Rows
    BY DEF Rows, Marked, Recorded, StoredAt, RowStatus

\* Storing one row leaves the others alone.
LEMMA RowStored ==
    ASSUME row \in [Backup -> Rows], NEW b \in Backup, NEW v \in Rows, SetRow(b, v)
    PROVE  /\ row' \in [Backup -> Rows]
           /\ row'[b] = v
           /\ \A c \in Backup : c # b => row'[c] = row[c]
    BY DEF SetRow

\* Storing a job of one queue leaves the other queues alone.
LEMMA JobStored ==
    ASSUME job \in [Queues -> [Backup -> Jobs]],
           NEW q \in Queues, NEW b \in Backup, NEW j \in Jobs, SetJob(q, b, j)
    PROVE  /\ job' \in [Queues -> [Backup -> Jobs]]
           /\ job'[q][b] = j
           /\ \A p \in Queues, c \in Backup :
                  p # q \/ c # b => job'[p][c] = job[p][c]
    BY DEF SetJob

\* Moving one run leaves the others alone.
LEMMA RunMoved ==
    ASSUME run \in [Queues -> [Backup -> [RunIds -> Places]]],
           NEW q \in Queues, NEW b \in Backup, NEW r, NEW place \in Places,
           Goto(q, b, r, place)
    PROVE  /\ run' \in [Queues -> [Backup -> [RunIds -> Places]]]
           /\ r \in RunIds => run'[q][b][r] = place
           /\ \A p \in Queues, c \in Backup, i \in RunIds :
                  p # q \/ c # b \/ i # r => run'[p][c][i] = run[p][c][i]
    BY DEF Goto

-----------------------------------------------------------------------------
(***************************************************************************)
(* Type correctness.  The type of the bucket rests on the storage job      *)
(* naming an archive, so the two are proved together.                      *)
(***************************************************************************)

\* A storage job, and every run of its handler, has an archive to upload.
UploadNamed ==
    \A b \in Backup :
        upload[b] = 0 =>
            /\ job["storage"][b].state = "absent"
            /\ \A r \in RunIds : run["storage"][b][r] = "idle"

Typed == TypeOK /\ UploadNamed

\* The initial state is typed.
LEMMA InitTyped == Init => Typed
    BY DEF Init, Typed, TypeOK, UploadNamed, Jobs, JobStates, NoJob, Rows, NoRow,
           RequestPlaces, CancelPlaces, RowStatus, Places, Dead, Queues

\* Steps that leave the storage queue, its runs and the upload alone.
LEMMA UploadNamedKept ==
    ASSUME UploadNamed, UNCHANGED upload,
           \A c \in Backup : job'["storage"][c] = job["storage"][c],
           \A c \in Backup, i \in RunIds : run'["storage"][c][i] = run["storage"][c][i]
    PROVE  UploadNamed'
    BY DEF UploadNamed

\* The bounded counter of faults.
LEMMA FaultsTyped ==
    ASSUME faults \in Nat, Fault \/ NoFault
    PROVE  faults' \in Nat
    BY DEF Fault, NoFault

\* The orchestrator's and the cancellers' steps.
LEMMA ClientTyped ==
    ASSUME Typed, NEW b \in Backup
    PROVE  /\ CheckQueueSize(b) => Typed'
           /\ CreateRow(b) => Typed'
           /\ Enqueue(b) => Typed'
           /\ FailRequest(b) => Typed'
           /\ OrchestratorCrash => Typed'
           /\ RemoveFromQueue(b) => Typed'
           /\ DashboardCheck(b) => Typed'
           /\ DashboardRemove(b) => Typed'
           /\ MarkCancelled(b) => Typed'
<1> DEFINE rest == UNCHANGED <<starts, run, upload, notice, produced, bucket, sent, crashes>>
<1>1. /\ request \in [Backup -> RequestPlaces]
      /\ cancel \in [Backup -> CancelPlaces]
      /\ row \in [Backup -> Rows]
      /\ job \in [Queues -> [Backup -> Jobs]]
      /\ faults \in Nat
    BY DEF Typed, TypeOK
<1>2. /\ row[b] \in Rows
      /\ job["backup"][b] \in Jobs
      /\ "backup" \in Queues /\ "storage" \in Queues
    BY <1>1 DEF Queues
<1>3. ASSUME NEW s \in RowStatus, SetRow(b, Marked(row[b], s)) PROVE row' \in [Backup -> Rows]
    BY <1>1, <1>2, <1>3, RowUpdates, RowStored
<1>4. ASSUME NEW j \in Jobs, SetJob("backup", b, j)
      PROVE  /\ job' \in [Queues -> [Backup -> Jobs]]
             /\ \A c \in Backup : job'["storage"][c] = job["storage"][c]
    BY <1>1, <1>2, <1>4, JobStored
<1>5. ASSUME request' \in [Backup -> RequestPlaces], cancel' \in [Backup -> CancelPlaces],
             row' \in [Backup -> Rows], job' \in [Queues -> [Backup -> Jobs]],
             \A c \in Backup : job'["storage"][c] = job["storage"][c],
             faults' \in Nat, rest
      PROVE  Typed'
    <2>1. UploadNamed'
        BY <1>5, UploadNamedKept DEF Typed
    <2>2. TypeOK'
        BY <1>5 DEF Typed, TypeOK
    <2>3. QED
        BY <2>1, <2>2 DEF Typed
<1>6. ASSUME NEW place \in RequestPlaces, request' = [request EXCEPT ![b] = place]
      PROVE  request' \in [Backup -> RequestPlaces]
    BY <1>1, <1>6
<1>7. ASSUME NEW place \in CancelPlaces, cancel' = [cancel EXCEPT ![b] = place]
      PROVE  cancel' \in [Backup -> CancelPlaces]
    BY <1>1, <1>7
<1>8. /\ {"rejected", "counted", "created", "failing", "accepted", "errored"} \subseteq RequestPlaces
      /\ {"marking", "removing", "done"} \subseteq CancelPlaces
      /\ {"running", "failed", "cancelled"} \subseteq RowStatus
    BY DEF RequestPlaces, CancelPlaces, RowStatus
<1>9. CheckQueueSize(b) => Typed'
    <2> SUFFICES ASSUME CheckQueueSize(b) PROVE Typed'
        OBVIOUS
    <2>1. request' \in [Backup -> RequestPlaces]
        BY <1>6, <1>8 DEF CheckQueueSize
    <2>2. UNCHANGED <<cancel, row, job, faults>> /\ rest
        BY DEF CheckQueueSize, requestRest, storeVars
    <2>3. QED
        BY <1>1, <1>5, <2>1, <2>2
<1>10. CreateRow(b) => Typed'
    <2> SUFFICES ASSUME CreateRow(b) PROVE Typed'
        OBVIOUS
    <2>1. request' \in [Backup -> RequestPlaces]
        BY <1>6, <1>8 DEF CreateRow
    <2>2. row' \in [Backup -> Rows]
        BY <1>1, <1>3, <1>8 DEF CreateRow, MaybeSetRow
    <2>3. faults' \in Nat
        BY <1>1, FaultsTyped DEF CreateRow
    <2>4. UNCHANGED <<cancel, job>> /\ rest
        BY DEF CreateRow, requestRest, storeVars
    <2>5. QED
        BY <1>1, <1>5, <2>1, <2>2, <2>3, <2>4
<1>11. Enqueue(b) => Typed'
    <2> SUFFICES ASSUME Enqueue(b) PROVE Typed'
        OBVIOUS
    <2>1. request' \in [Backup -> RequestPlaces]
        BY <1>6, <1>8 DEF Enqueue
    <2>2. /\ job' \in [Queues -> [Backup -> Jobs]]
          /\ \A c \in Backup : job'["storage"][c] = job["storage"][c]
        BY <1>1, <1>2, <1>4, JobCommands DEF Enqueue
    <2>3. faults' \in Nat
        BY <1>1, FaultsTyped DEF Enqueue
    <2>4. UNCHANGED <<cancel, row>> /\ rest
        BY DEF Enqueue, requestRest, storeVars
    <2>5. QED
        BY <1>1, <1>5, <2>1, <2>2, <2>3, <2>4
<1>12. FailRequest(b) => Typed'
    <2> SUFFICES ASSUME FailRequest(b) PROVE Typed'
        OBVIOUS
    <2>1. request' \in [Backup -> RequestPlaces]
        BY <1>6, <1>8 DEF FailRequest
    <2>2. row' \in [Backup -> Rows]
        BY <1>1, <1>3, <1>8 DEF FailRequest
    <2>3. faults' \in Nat
        BY <1>1, FaultsTyped DEF FailRequest
    <2>4. UNCHANGED <<cancel, job>> /\ rest
        BY DEF FailRequest, requestRest, storeVars
    <2>5. QED
        BY <1>1, <1>5, <2>1, <2>2, <2>3, <2>4
<1>13. OrchestratorCrash => Typed'
    <2> SUFFICES ASSUME OrchestratorCrash PROVE Typed'
        OBVIOUS
    <2>1. request' \in [Backup -> RequestPlaces]
        BY <1>1 DEF OrchestratorCrash, RequestPlaces
    <2>2. UNCHANGED <<cancel, row, job, faults>> /\ rest
        BY DEF OrchestratorCrash, requestRest, storeVars
    <2>3. QED
        BY <1>1, <1>5, <2>1, <2>2
<1>14. RemoveFromQueue(b) => Typed'
    <2> SUFFICES ASSUME RemoveFromQueue(b) PROVE Typed'
        OBVIOUS
    <2>1. cancel' \in [Backup -> CancelPlaces]
        BY <1>7, <1>8 DEF RemoveFromQueue
    <2>2. /\ job' \in [Queues -> [Backup -> Jobs]]
          /\ \A c \in Backup : job'["storage"][c] = job["storage"][c]
        BY <1>1, <1>2, <1>4, JobCommands DEF RemoveFromQueue
    <2>3. UNCHANGED <<request, row, faults>> /\ rest
        BY DEF RemoveFromQueue, cancelRest, storeVars
    <2>4. QED
        BY <1>1, <1>5, <2>1, <2>2, <2>3
<1>15. DashboardCheck(b) => Typed'
    <2> SUFFICES ASSUME DashboardCheck(b) PROVE Typed'
        OBVIOUS
    <2>1. cancel' \in [Backup -> CancelPlaces]
        BY <1>7, <1>8 DEF DashboardCheck
    <2>2. UNCHANGED <<request, row, job, faults>> /\ rest
        BY DEF DashboardCheck, cancelRest, storeVars
    <2>3. QED
        BY <1>1, <1>5, <2>1, <2>2
<1>16. DashboardRemove(b) => Typed'
    <2> SUFFICES ASSUME DashboardRemove(b) PROVE Typed'
        OBVIOUS
    <2>1. cancel' \in [Backup -> CancelPlaces]
        BY <1>7, <1>8 DEF DashboardRemove
    <2>2. /\ job' \in [Queues -> [Backup -> Jobs]]
          /\ \A c \in Backup : job'["storage"][c] = job["storage"][c]
        BY <1>1, <1>2, <1>4, JobCommands DEF DashboardRemove
    <2>3. UNCHANGED <<request, row, faults>> /\ rest
        BY DEF DashboardRemove, cancelRest, storeVars
    <2>4. QED
        BY <1>1, <1>5, <2>1, <2>2, <2>3
<1>17. MarkCancelled(b) => Typed'
    <2> SUFFICES ASSUME MarkCancelled(b) PROVE Typed'
        OBVIOUS
    <2>1. cancel' \in [Backup -> CancelPlaces]
        BY <1>7, <1>8 DEF MarkCancelled
    <2>2. row' \in [Backup -> Rows]
        BY <1>1, <1>3, <1>8 DEF MarkCancelled
    <2>3. faults' \in Nat
        BY <1>1, FaultsTyped DEF MarkCancelled
    <2>4. UNCHANGED <<request, job>> /\ rest
        BY DEF MarkCancelled, cancelRest, storeVars
    <2>5. QED
        BY <1>1, <1>5, <2>1, <2>2, <2>3, <2>4
<1>18. QED
    BY <1>9, <1>10, <1>11, <1>12, <1>13, <1>14, <1>15, <1>16, <1>17

\* The places that the steps move runs to.
LEMMA PlacesReached ==
    /\ \A q \in Queues : Entry(q) \in Places
    /\ {"over", "return", "throw", "dump", "setSuccess", "handOff", "setFailed",
        "noteFailure", "upload", "record", "announce"} \subseteq Places
    BY DEF Entry, Queues, Places, Dead, BackupPlaces, StoragePlaces, NotifyPlaces

\* The queues' own steps: a job and at most one run change.
LEMMA QueueTyped ==
    ASSUME Typed, PipelineAssumption, NEW q \in Queues, NEW b \in Backup, NEW r \in RunIds
    PROVE  /\ Take(q, b) => Typed'
           /\ Promote(q, b) => Typed'
           /\ Stall(q, b) => Typed'
           /\ Complete(q, b, r) => Typed'
           /\ Reject(q, b, r) => Typed'
           /\ WorkerCrash => Typed'
<1> DEFINE rest == UNCHANGED <<request, cancel, faults, row, upload, notice,
                               produced, bucket, sent>>
<1>1. /\ job \in [Queues -> [Backup -> Jobs]]
      /\ run \in [Queues -> [Backup -> [RunIds -> Places]]]
      /\ starts \in [Queues -> [Backup -> Nat]]
      /\ crashes \in Nat
      /\ UploadNamed
    BY DEF Typed, TypeOK
<1>2. /\ job[q][b] \in Jobs
      /\ starts[q][b] \in Nat
      /\ Attempts[q] \in Nat /\ MaxStalled \in Nat
      /\ r \in Nat
      /\ "storage" \in Queues
    BY <1>1 DEF PipelineAssumption, RunIds, Queues
<1>3. ASSUME NEW j \in Jobs, SetJob(q, b, j),
             q = "storage" => upload[b] # 0,
             starts' \in [Queues -> [Backup -> Nat]], crashes' \in Nat, rest,
             \/ UNCHANGED run
             \/ \E i \in Nat, place \in Places : Goto(q, b, i, place)
      PROVE  Typed'
    <2>1. /\ job' \in [Queues -> [Backup -> Jobs]]
          /\ \A c \in Backup : q # "storage" \/ c # b => job'["storage"][c] = job["storage"][c]
        BY <1>1, <1>2, <1>3, JobStored
    <2>2. /\ run' \in [Queues -> [Backup -> [RunIds -> Places]]]
          /\ \A c \in Backup : q # "storage" \/ c # b =>
                 \A i \in RunIds : run'["storage"][c][i] = run["storage"][c][i]
        <3>1. CASE UNCHANGED run
            BY <1>1, <3>1
        <3>2. CASE \E i \in Nat, place \in Places : Goto(q, b, i, place)
            <4>1. PICK i \in Nat, place \in Places : Goto(q, b, i, place)
                BY <3>2
            <4>2. QED
                BY <1>1, <1>2, <4>1, RunMoved
        <3>3. QED
            BY <1>3, <3>1, <3>2
    <2>3. UploadNamed'
        <3>1. UNCHANGED upload
            BY <1>3
        <3>2. SUFFICES ASSUME NEW c \in Backup, upload[c] = 0
                       PROVE  /\ job'["storage"][c].state = "absent"
                              /\ \A i \in RunIds : run'["storage"][c][i] = "idle"
            BY <3>1 DEF UploadNamed
        <3>3. q # "storage" \/ c # b
            BY <1>3, <3>2
        <3>4. /\ job'["storage"][c] = job["storage"][c]
              /\ \A i \in RunIds : run'["storage"][c][i] = run["storage"][c][i]
            BY <2>1, <2>2, <3>3
        <3>5. /\ job["storage"][c].state = "absent"
              /\ \A i \in RunIds : run["storage"][c][i] = "idle"
            BY <1>1, <3>2 DEF UploadNamed
        <3>6. QED
            BY <3>4, <3>5
    <2>4. TypeOK'
        BY <1>3, <2>1, <2>2 DEF Typed, TypeOK
    <2>5. QED
        BY <2>3, <2>4 DEF Typed
<1>4. Take(q, b) => Typed'
    <2> SUFFICES ASSUME Take(q, b) PROVE Typed'
        OBVIOUS
    <2>1. q = "storage" => upload[b] # 0
        BY <1>1 DEF Take, UploadNamed
    <2>2. starts' \in [Queues -> [Backup -> Nat]] /\ crashes' \in Nat /\ rest
        BY <1>1, <1>2 DEF Take, workerRest, clientVars, storeVars
    <2>3. QED
        BY <1>2, <1>3, <2>1, <2>2, JobCommands, PlacesReached DEF Take
<1>5. Promote(q, b) => Typed'
    <2> SUFFICES ASSUME Promote(q, b) PROVE Typed'
        OBVIOUS
    <2>1. q = "storage" => upload[b] # 0
        BY <1>1 DEF Promote, UploadNamed
    <2>2. starts' \in [Queues -> [Backup -> Nat]] /\ crashes' \in Nat /\ rest
        BY <1>1, <1>2 DEF Promote, workerRest, clientVars, storeVars
    <2>3. QED
        BY <1>2, <1>3, <2>1, <2>2, JobCommands DEF Promote
<1>6. Stall(q, b) => Typed'
    <2> SUFFICES ASSUME Stall(q, b) PROVE Typed'
        OBVIOUS
    <2>1. q = "storage" => upload[b] # 0
        BY <1>1 DEF Stall, UploadNamed
    <2>2. starts' \in [Queues -> [Backup -> Nat]] /\ crashes' \in Nat /\ rest
        BY <1>1, <1>2 DEF Stall, workerRest, clientVars, storeVars
    <2>3. QED
        BY <1>2, <1>3, <2>1, <2>2, JobCommands DEF Stall
<1>7. Complete(q, b, r) => Typed'
    <2> SUFFICES ASSUME Complete(q, b, r) PROVE Typed'
        OBVIOUS
    <2>1. q = "storage" => upload[b] # 0
        BY <1>1 DEF Complete, UploadNamed, At
    <2>2. starts' \in [Queues -> [Backup -> Nat]] /\ crashes' \in Nat /\ rest
        BY <1>1, <1>2 DEF Complete, workerRest, clientVars, storeVars
    <2>3. QED
        BY <1>2, <1>3, <2>1, <2>2, JobCommands, PlacesReached DEF Complete
<1>8. Reject(q, b, r) => Typed'
    <2> SUFFICES ASSUME Reject(q, b, r) PROVE Typed'
        OBVIOUS
    <2>1. q = "storage" => upload[b] # 0
        BY <1>1 DEF Reject, UploadNamed, At
    <2>2. starts' \in [Queues -> [Backup -> Nat]] /\ crashes' \in Nat /\ rest
        BY <1>1, <1>2 DEF Reject, workerRest, clientVars, storeVars
    <2>3. QED
        BY <1>2, <1>3, <2>1, <2>2, JobCommands, PlacesReached DEF Reject
<1>9. WorkerCrash => Typed'
    <2> SUFFICES ASSUME WorkerCrash PROVE Typed'
        OBVIOUS
    <2>1. run' \in [Queues -> [Backup -> [RunIds -> Places]]]
        BY <1>1, PlacesReached DEF WorkerCrash
    <2>2. \A c \in Backup, i \in RunIds :
              run["storage"][c][i] = "idle" => run'["storage"][c][i] = "idle"
        BY <1>2 DEF WorkerCrash, Dead
    <2>3. crashes' \in Nat /\ UNCHANGED <<job, starts>> /\ rest
        BY <1>1 DEF WorkerCrash, workerRest, clientVars, storeVars
    <2>4. UploadNamed'
        BY <1>1, <2>2, <2>3 DEF UploadNamed
    <2>5. TypeOK'
        BY <2>1, <2>3 DEF Typed, TypeOK
    <2>6. QED
        BY <2>4, <2>5 DEF Typed
<1>10. QED
    BY <1>4, <1>5, <1>6, <1>7, <1>8, <1>9

\* The outcomes of the adds to the notification and the storage queue.
LEMMA AddsTyped ==
    ASSUME Typed, NEW b \in Backup, NEW r \in RunIds
    PROVE  /\ \A outcome \in {"success", "failure"} : Announce(b, outcome) =>
                  /\ job' \in [Queues -> [Backup -> Jobs]]
                  /\ notice' \in [Backup -> {"none", "success", "failure"}]
                  /\ \A c \in Backup : job'["storage"][c] = job["storage"][c]
           /\ RequestUpload(b, r) =>
                  /\ job' \in [Queues -> [Backup -> Jobs]]
                  /\ upload' \in [Backup -> RunIds \cup {0}]
                  /\ upload'[b] # 0
                  /\ \A c \in Backup : c # b =>
                        upload'[c] = upload[c] /\ job'["storage"][c] = job["storage"][c]
<1>1. /\ job \in [Queues -> [Backup -> Jobs]]
      /\ notice \in [Backup -> {"none", "success", "failure"}]
      /\ upload \in [Backup -> RunIds \cup {0}]
      /\ r # 0
    BY DEF Typed, TypeOK, RunIds
<1>2. /\ "storage" \in Queues /\ "notify" \in Queues
      /\ Added(job["notify"][b]) \in Jobs
      /\ Added(job["storage"][b]) \in Jobs
    BY <1>1, JobCommands DEF Queues
<1>3. ASSUME NEW outcome \in {"success", "failure"}, Announce(b, outcome)
      PROVE  /\ job' \in [Queues -> [Backup -> Jobs]]
             /\ notice' \in [Backup -> {"none", "success", "failure"}]
             /\ \A c \in Backup : job'["storage"][c] = job["storage"][c]
    <2>1. SetJob("notify", b, Added(job["notify"][b]))
        BY <1>3 DEF Announce
    <2>2. /\ job' \in [Queues -> [Backup -> Jobs]]
          /\ \A c \in Backup : job'["storage"][c] = job["storage"][c]
        BY <1>1, <1>2, <2>1, JobStored
    <2>3. notice' \in [Backup -> {"none", "success", "failure"}]
        BY <1>1, <1>3 DEF Announce
    <2>4. QED
        BY <2>2, <2>3
<1>4. ASSUME RequestUpload(b, r)
      PROVE  /\ job' \in [Queues -> [Backup -> Jobs]]
             /\ upload' \in [Backup -> RunIds \cup {0}]
             /\ upload'[b] # 0
             /\ \A c \in Backup : c # b =>
                   upload'[c] = upload[c] /\ job'["storage"][c] = job["storage"][c]
    <2>1. SetJob("storage", b, Added(job["storage"][b]))
        BY <1>4 DEF RequestUpload
    <2>2. /\ job' \in [Queues -> [Backup -> Jobs]]
          /\ \A c \in Backup : c # b => job'["storage"][c] = job["storage"][c]
        BY <1>1, <1>2, <2>1, JobStored
    <2>3. /\ upload' \in [Backup -> RunIds \cup {0}]
          /\ upload'[b] # 0
          /\ \A c \in Backup : c # b => upload'[c] = upload[c]
        BY <1>1, <1>4 DEF RequestUpload
    <2>4. QED
        BY <2>2, <2>3
<1>5. QED
    BY <1>3, <1>4

\* The steps of the three handlers.
LEMMA HandlerTyped ==
    ASSUME Typed, NEW b \in Backup, NEW r \in RunIds
    PROVE  /\ BackupHandler(b, r) => Typed'
           /\ StorageHandler(b, r) => Typed'
           /\ Send(b, r) => Typed'
<1> DEFINE rest == UNCHANGED <<request, cancel, starts, crashes>>
           types == /\ row' \in [Backup -> Rows]
                    /\ job' \in [Queues -> [Backup -> Jobs]]
                    /\ notice' \in [Backup -> {"none", "success", "failure"}]
                    /\ upload' \in [Backup -> RunIds \cup {0}]
                    /\ produced' \in [Backup -> SUBSET RunIds]
                    /\ bucket' \in [Backup -> SUBSET RunIds]
                    /\ sent' \in [Backup -> Nat]
                    /\ faults' \in Nat
           kept == \A c \in Backup : upload'[c] = 0 =>
                      upload[c] = 0 /\ job'["storage"][c] = job["storage"][c]
           announced == \/ \E outcome \in {"success", "failure"} : Announce(b, outcome)
                        \/ UNCHANGED <<job, notice>>
<1>1. /\ row \in [Backup -> Rows]
      /\ job \in [Queues -> [Backup -> Jobs]]
      /\ run \in [Queues -> [Backup -> [RunIds -> Places]]]
      /\ notice \in [Backup -> {"none", "success", "failure"}]
      /\ upload \in [Backup -> RunIds \cup {0}]
      /\ produced \in [Backup -> SUBSET RunIds]
      /\ bucket \in [Backup -> SUBSET RunIds]
      /\ sent \in [Backup -> Nat]
      /\ faults \in Nat
      /\ UploadNamed
    BY DEF Typed, TypeOK
<1>2. /\ row[b] \in Rows
      /\ upload[b] \in RunIds \cup {0}
      /\ r \in RunIds \cup {0}
      /\ "backup" \in Queues /\ "storage" \in Queues /\ "notify" \in Queues
    BY <1>1 DEF Queues
<1>3. /\ \A s \in RowStatus : Marked(row[b], s) \in Rows
      /\ Recorded(row[b], r) \in Rows
      /\ StoredAt(row[b], upload[b]) \in Rows
      /\ \A v \in Rows : SetRow(b, v) => row' \in [Backup -> Rows]
      /\ {"running", "failed"} \subseteq RowStatus
    BY <1>1, <1>2, RowUpdates, RowStored DEF RowStatus
<1>4. ASSUME NEW q \in Queues, NEW place \in Places, Goto(q, b, r, place),
             q = "storage" => upload[b] # 0,
             types, kept, rest
      PROVE  Typed'
    <2>1. /\ run' \in [Queues -> [Backup -> [RunIds -> Places]]]
          /\ \A c \in Backup : q # "storage" \/ c # b =>
                 \A i \in RunIds : run'["storage"][c][i] = run["storage"][c][i]
        BY <1>1, <1>2, <1>4, RunMoved
    <2>2. UploadNamed'
        <3>1. SUFFICES ASSUME NEW c \in Backup, upload'[c] = 0
                       PROVE  /\ job'["storage"][c].state = "absent"
                              /\ \A i \in RunIds : run'["storage"][c][i] = "idle"
            BY DEF UploadNamed
        <3>2. upload[c] = 0 /\ job'["storage"][c] = job["storage"][c]
            BY <1>4, <3>1
        <3>3. \A i \in RunIds : run'["storage"][c][i] = run["storage"][c][i]
            BY <1>4, <2>1, <3>2
        <3>4. /\ job["storage"][c].state = "absent"
              /\ \A i \in RunIds : run["storage"][c][i] = "idle"
            BY <1>1, <3>2 DEF UploadNamed
        <3>5. QED
            BY <3>2, <3>3, <3>4
    <2>3. TypeOK'
        BY <1>4, <2>1 DEF Typed, TypeOK
    <2>4. QED
        BY <2>2, <2>3 DEF Typed
<1>5. announced /\ UNCHANGED upload =>
          /\ job' \in [Queues -> [Backup -> Jobs]]
          /\ notice' \in [Backup -> {"none", "success", "failure"}]
          /\ kept
    BY <1>1, AddsTyped
<1>6. ASSUME NEW place, place # "idle", At("storage", b, r, place) PROVE upload[b] # 0
    BY <1>1, <1>6 DEF At, UploadNamed
<1>7. SetRunning(b, r) => Typed'
    <2> SUFFICES ASSUME SetRunning(b, r) PROVE Typed'
        OBVIOUS
    <2>1. row' \in [Backup -> Rows]
        BY <1>1, <1>3 DEF SetRunning, MaybeSetRow
    <2>2. faults' \in Nat
        BY <1>1, FaultsTyped DEF SetRunning
    <2>3. types /\ kept /\ rest
        BY <1>1, <2>1, <2>2 DEF SetRunning, backupRest, clientVars, storeVars
    <2>4. \E place \in Places : Goto("backup", b, r, place)
        BY PlacesReached DEF SetRunning
    <2>5. QED
        BY <1>2, <1>4, <2>1, <2>2, <2>3, <2>4
<1>8. Dump(b, r) => Typed'
    <2> SUFFICES ASSUME Dump(b, r) PROVE Typed'
        OBVIOUS
    <2>1. produced' \in [Backup -> SUBSET RunIds]
        BY <1>1 DEF Dump
    <2>2. types /\ kept /\ rest
        BY <1>1, <2>1 DEF Dump, backupRest, clientVars, storeVars
    <2>3. \E place \in Places : Goto("backup", b, r, place)
        BY PlacesReached DEF Dump
    <2>4. QED
        BY <1>2, <1>4, <2>1, <2>2, <2>3
<1>9. SetSuccess(b, r) => Typed'
    <2> SUFFICES ASSUME SetSuccess(b, r) PROVE Typed'
        OBVIOUS
    <2>1. row' \in [Backup -> Rows]
        BY <1>1, <1>3 DEF SetSuccess, MaybeSetRow
    <2>2. faults' \in Nat
        BY <1>1, FaultsTyped DEF SetSuccess
    <2>3. types /\ kept /\ rest
        BY <1>1, <2>1, <2>2 DEF SetSuccess, backupRest, clientVars, storeVars
    <2>4. \E place \in Places : Goto("backup", b, r, place)
        BY PlacesReached DEF SetSuccess
    <2>5. QED
        BY <1>2, <1>4, <2>1, <2>2, <2>3, <2>4
<1>10. HandOff(b, r) => Typed'
    <2> SUFFICES ASSUME HandOff(b, r) PROVE Typed'
        OBVIOUS
    <2>1. faults' \in Nat
        BY <1>1, FaultsTyped DEF HandOff
    <2>2. /\ job' \in [Queues -> [Backup -> Jobs]]
          /\ notice' \in [Backup -> {"none", "success", "failure"}]
          /\ upload' \in [Backup -> RunIds \cup {0}]
          /\ kept
        BY <1>1, <1>5, AddsTyped DEF HandOff, HandOffTo
    <2>3. types /\ kept /\ rest
        BY <1>1, <2>1, <2>2 DEF HandOff, backupRest, clientVars, storeVars
    <2>4. \E place \in Places : Goto("backup", b, r, place)
        BY PlacesReached DEF HandOff
    <2>5. QED
        BY <1>2, <1>4, <2>1, <2>2, <2>3, <2>4
<1>11. SetFailed(b, r) => Typed'
    <2> SUFFICES ASSUME SetFailed(b, r) PROVE Typed'
        OBVIOUS
    <2>1. row' \in [Backup -> Rows]
        BY <1>1, <1>3 DEF SetFailed, MaybeSetRow
    <2>2. faults' \in Nat
        BY <1>1, FaultsTyped DEF SetFailed
    <2>3. types /\ kept /\ rest
        BY <1>1, <2>1, <2>2 DEF SetFailed, backupRest, clientVars, storeVars
    <2>4. \E place \in Places : Goto("backup", b, r, place)
        BY PlacesReached DEF SetFailed
    <2>5. QED
        BY <1>2, <1>4, <2>1, <2>2, <2>3, <2>4
<1>12. NoteFailure(b, r) => Typed'
    <2> SUFFICES ASSUME NoteFailure(b, r) PROVE Typed'
        OBVIOUS
    <2>1. faults' \in Nat
        BY <1>1, FaultsTyped DEF NoteFailure
    <2>2. /\ job' \in [Queues -> [Backup -> Jobs]]
          /\ notice' \in [Backup -> {"none", "success", "failure"}]
          /\ kept
        BY <1>5 DEF NoteFailure, backupRest
    <2>3. types /\ kept /\ rest
        BY <1>1, <2>1, <2>2 DEF NoteFailure, backupRest, clientVars, storeVars
    <2>4. \E place \in Places : Goto("backup", b, r, place)
        BY PlacesReached DEF NoteFailure
    <2>5. QED
        BY <1>2, <1>4, <2>1, <2>2, <2>3, <2>4
<1>13. BackupHandler(b, r) => Typed'
    BY <1>7, <1>8, <1>9, <1>10, <1>11, <1>12 DEF BackupHandler
<1>14. Lookup(b, r) => Typed'
    <2> SUFFICES ASSUME Lookup(b, r) PROVE Typed'
        OBVIOUS
    <2>1. faults' \in Nat
        BY <1>1, FaultsTyped DEF Lookup
    <2>2. upload[b] # 0
        BY <1>6 DEF Lookup
    <2>3. types /\ kept /\ rest
        BY <1>1, <2>1, <2>2 DEF Lookup, storageRest, clientVars, storeVars
    <2>4. \E place \in Places : Goto("storage", b, r, place)
        BY PlacesReached DEF Lookup
    <2>5. QED
        BY <1>2, <1>4, <2>1, <2>2, <2>3, <2>4
<1>15. Upload(b, r) => Typed'
    <2> SUFFICES ASSUME Upload(b, r) PROVE Typed'
        OBVIOUS
    <2>1. bucket' \in [Backup -> SUBSET RunIds]
        BY <1>1, <1>6 DEF Upload
    <2>2. upload[b] # 0
        BY <1>6 DEF Upload
    <2>3. types /\ kept /\ rest
        BY <1>1, <2>1, <2>2 DEF Upload, storageRest, clientVars, storeVars
    <2>4. \E place \in Places : Goto("storage", b, r, place)
        BY PlacesReached DEF Upload
    <2>5. QED
        BY <1>2, <1>4, <2>1, <2>2, <2>3, <2>4
<1>16. RecordUpload(b, r) => Typed'
    <2> SUFFICES ASSUME RecordUpload(b, r) PROVE Typed'
        OBVIOUS
    <2>1. row' \in [Backup -> Rows]
        BY <1>1, <1>3 DEF RecordUpload, MaybeSetRow
    <2>2. faults' \in Nat
        BY <1>1, FaultsTyped DEF RecordUpload
    <2>3. upload[b] # 0
        BY <1>6 DEF RecordUpload
    <2>4. types /\ kept /\ rest
        BY <1>1, <2>1, <2>2, <2>3 DEF RecordUpload, storageRest, clientVars, storeVars
    <2>5. \E place \in Places : Goto("storage", b, r, place)
        BY PlacesReached DEF RecordUpload
    <2>6. QED
        BY <1>2, <1>4, <2>1, <2>2, <2>3, <2>4, <2>5
<1>17. AnnounceUpload(b, r) => Typed'
    <2> SUFFICES ASSUME AnnounceUpload(b, r) PROVE Typed'
        OBVIOUS
    <2>1. faults' \in Nat
        BY <1>1, FaultsTyped DEF AnnounceUpload
    <2>2. /\ job' \in [Queues -> [Backup -> Jobs]]
          /\ notice' \in [Backup -> {"none", "success", "failure"}]
          /\ kept
        BY <1>5 DEF AnnounceUpload, storageRest
    <2>3. upload[b] # 0
        BY <1>6 DEF AnnounceUpload
    <2>4. types /\ kept /\ rest
        BY <1>1, <2>1, <2>2, <2>3 DEF AnnounceUpload, storageRest, clientVars, storeVars
    <2>5. \E place \in Places : Goto("storage", b, r, place)
        BY PlacesReached DEF AnnounceUpload
    <2>6. QED
        BY <1>2, <1>4, <2>1, <2>2, <2>3, <2>4, <2>5
<1>18. StorageHandler(b, r) => Typed'
    BY <1>14, <1>15, <1>16, <1>17 DEF StorageHandler
<1>19. Send(b, r) => Typed'
    <2> SUFFICES ASSUME Send(b, r) PROVE Typed'
        OBVIOUS
    <2>1. sent' \in [Backup -> Nat]
        BY <1>1 DEF Send
    <2>2. types /\ kept /\ rest
        BY <1>1, <2>1 DEF Send, notifyRest, clientVars, storeVars
    <2>3. \E place \in Places : Goto("notify", b, r, place)
        BY PlacesReached DEF Send
    <2>4. QED
        BY <1>2, <1>4, <2>1, <2>2, <2>3
<1>20. QED
    BY <1>13, <1>18, <1>19

\* Every step of the pipeline keeps the types.
LEMMA NextTyped ==
    ASSUME PipelineAssumption, Typed, [Next]_vars
    PROVE  Typed'
<1>1. CASE OrchestratorStep
    <2>1. PICK b \in Backup : \/ CheckQueueSize(b) \/ CreateRow(b) \/ Enqueue(b)
                              \/ FailRequest(b) \/ OrchestratorCrash
        BY <1>1 DEF OrchestratorStep, OrchestratorCrash
    <2>2. QED
        BY <2>1, ClientTyped
<1>2. CASE CancelStep
    BY <1>2, ClientTyped DEF CancelStep
<1>3. CASE QueueStep
    <2>1. 1 \in RunIds
        BY PipelineAssumption DEF PipelineAssumption, RunIds, Queues
    <2>2. PICK q \in Queues, b \in Backup, r \in RunIds :
              Take(q, b) \/ Promote(q, b) \/ Stall(q, b) \/ Complete(q, b, r) \/ Reject(q, b, r)
        BY <1>3, <2>1 DEF QueueStep
    <2>3. QED
        BY <2>2, QueueTyped
<1>4. CASE HandlerStep
    BY <1>4, HandlerTyped DEF HandlerStep
<1>5. CASE WorkerCrash
    <2>1. PICK q \in Queues, b \in Backup, r \in RunIds : run[q][b][r] \notin Dead
        BY <1>5 DEF WorkerCrash, LiveRuns
    <2>2. QED
        BY <1>5, <2>1, QueueTyped
<1>6. CASE UNCHANGED vars
    BY <1>6 DEF vars, queueVars, storeVars, Typed, TypeOK, UploadNamed
<1>7. QED
    BY <1>1, <1>2, <1>3, <1>4, <1>5, <1>6 DEF Next

(***************************************************************************)
(* Type correctness: whatever the configuration, every variable keeps its  *)
(* type; in particular an upload always has an archive to send, so the     *)
(* bucket never receives the placeholder.                                  *)
(***************************************************************************)
THEOREM TypeCorrect == Spec => []TypeOK
<1>1. Spec => []Typed
    BY PipelineAssumption, InitTyped, NextTyped, PTL DEF Spec
<1>2. Typed => TypeOK
    BY DEF Typed
<1>3. QED
    BY <1>1, <1>2, PTL

-----------------------------------------------------------------------------
(***************************************************************************)
(* The bound on handler runs.  RunsBounded is not inductive: the argument  *)
(* is that every run of a job is accounted for by an exception counted in  *)
(* made, by a stall, or by its being active now, and that the queue gives  *)
(* a job back only while made and stalls are within their limits.  A job   *)
(* is never added twice with its counters reset: the orchestrator adds it  *)
(* once, and the jobs of the other queues are never removed.               *)
(***************************************************************************)

\* n is the number of runs started for job j, a its attempts.
JobAccounted(j, n, a) ==
    /\ n <= a + MaxStalled
    /\ j.state \in {"waiting", "delayed"} =>
          n = j.made + j.stalls /\ j.made < a /\ j.stalls <= MaxStalled
    /\ j.state = "active" =>
          n = j.made + j.stalls + 1 /\ j.made < a /\ j.stalls <= MaxStalled

Early == {"idle", "counted", "created"}

Unstarted(q, b) == job[q][b].state = "absent" /\ (q = "backup" => request[b] \in Early)

Bounded ==
    /\ \A q \in Queues, b \in Backup : JobAccounted(job[q][b], starts[q][b], Attempts[q])
    /\ \A b \in Backup : request[b] \in Early => job["backup"][b].state = "absent"
    /\ \A q \in Queues, b \in Backup : Unstarted(q, b) => starts[q][b] = 0

\* Each queue command keeps its job accounted for.
LEMMA CommandsAccounted ==
    ASSUME PipelineAssumption, NEW j \in Jobs, NEW n \in Nat, NEW a \in Nat \ {0}, NEW r \in Nat,
           JobAccounted(j, n, a)
    PROVE  /\ (j.state = "absent" => n = 0) => JobAccounted(Added(j), n, a)
           /\ j.state = "waiting" => JobAccounted(Taken(j, r), n + 1, a)
           /\ JobAccounted(Completed(j, r), n, a)
           /\ JobAccounted(Rejected(j, r, a), n, a)
           /\ j.state = "delayed" => JobAccounted(Promoted(j), n, a)
           /\ j.state = "active" => JobAccounted(Stalled(j, MaxStalled), n, a)
           /\ JobAccounted(Removed(j), n, a)
<1> USE DEF JobAccounted, Jobs
<1>0. MaxStalled \in Nat
    BY DEF PipelineAssumption
<1>1. (j.state = "absent" => n = 0) => JobAccounted(Added(j), n, a)
    BY <1>0 DEF Added, NoJob
<1>2. j.state = "waiting" => JobAccounted(Taken(j, r), n + 1, a)
    BY <1>0 DEF Taken
<1>3. JobAccounted(Completed(j, r), n, a)
    BY <1>0 DEF Completed
<1>4. JobAccounted(Rejected(j, r, a), n, a)
    BY <1>0 DEF Rejected, Owns
<1>5. j.state = "delayed" => JobAccounted(Promoted(j), n, a)
    BY <1>0 DEF Promoted
<1>6. j.state = "active" => JobAccounted(Stalled(j, MaxStalled), n, a)
    BY <1>0 DEF Stalled
<1>7. JobAccounted(Removed(j), n, a)
    BY <1>0 DEF Removed, NoJob
<1>8. QED
    BY <1>1, <1>2, <1>3, <1>4, <1>5, <1>6, <1>7

\* Which commands make a job absent.
LEMMA CommandsAbsent ==
    ASSUME NEW j \in Jobs, NEW r \in Nat, NEW a \in Nat
    PROVE  /\ Added(j).state # "absent"
           /\ Taken(j, r).state # "absent"
           /\ Promoted(j).state # "absent"
           /\ Stalled(j, MaxStalled).state # "absent"
           /\ j.state # "absent" => /\ Completed(j, r).state # "absent"
                                    /\ Rejected(j, r, a).state # "absent"
           /\ j.state = "absent" => /\ Completed(j, r).state = "absent"
                                    /\ Rejected(j, r, a).state = "absent"
                                    /\ Removed(j).state = "absent"
    BY DEF Jobs, Added, NoJob, Taken, Promoted, Stalled, Completed, Rejected, Removed, Owns

\* Initially no handler was started.
LEMMA InitBounded == ASSUME PipelineAssumption, Init PROVE Bounded
<1>1. \A q \in Queues : Attempts[q] \in Nat \ {0}
    BY DEF PipelineAssumption
<1>2. MaxStalled \in Nat
    BY DEF PipelineAssumption
<1>3. /\ \A q \in Queues, b \in Backup : job[q][b] = NoJob /\ starts[q][b] = 0
      /\ "backup" \in Queues
    BY DEF Init, Queues
<1>4. \A q \in Queues : JobAccounted(NoJob, 0, Attempts[q])
    BY <1>1, <1>2 DEF JobAccounted, NoJob
<1>5. NoJob.state = "absent"
    BY DEF NoJob
<1>6. QED
    BY <1>3, <1>4, <1>5 DEF Bounded

\* A step that changes one job, and the count of that job's runs.
LEMMA BoundedKept ==
    ASSUME Typed, Bounded, NEW q \in Queues, NEW b \in Backup, NEW j \in Jobs, SetJob(q, b, j),
           \A p \in Queues, c \in Backup :
               p # q \/ c # b => starts'[p][c] = starts[p][c],
           \A c \in Backup : request'[c] \in Early => request[c] \in Early,
           JobAccounted(j, starts'[q][b], Attempts[q]),
           q = "backup" /\ request'[b] \in Early => j.state = "absent",
           j.state = "absent" /\ (q = "backup" => request'[b] \in Early) => starts'[q][b] = 0
    PROVE  Bounded'
<1>1. /\ job'[q][b] = j
      /\ \A p \in Queues, c \in Backup : p # q \/ c # b => job'[p][c] = job[p][c]
      /\ "backup" \in Queues
    BY JobStored DEF Typed, TypeOK, Queues
<1>2. ASSUME NEW p \in Queues, NEW c \in Backup
      PROVE  /\ JobAccounted(job'[p][c], starts'[p][c], Attempts[p])
             /\ Unstarted(p, c)' => starts'[p][c] = 0
    <2>1. CASE p = q /\ c = b
        BY <1>1, <2>1 DEF Unstarted
    <2>2. CASE p # q \/ c # b
        BY <1>1, <2>2 DEF Bounded, Unstarted
    <2>3. QED
        BY <2>1, <2>2
<1>3. ASSUME NEW c \in Backup, request'[c] \in Early PROVE job'["backup"][c].state = "absent"
    BY <1>1, <1>3 DEF Bounded
<1>4. QED
    BY <1>2, <1>3 DEF Bounded, JobAccounted, Early

\* A step that changes neither the jobs nor the counts.
LEMMA BoundedQuiet ==
    ASSUME Bounded, UNCHANGED <<job, starts>>,
           \A c \in Backup : request'[c] \in Early => request[c] \in Early
    PROVE  Bounded'
    BY DEF Bounded, Unstarted, JobAccounted

\* The steps of the orchestrator and of the cancellers.
LEMMA ClientBounded ==
    ASSUME PipelineAssumption, Typed, Bounded, NEW b \in Backup
    PROVE  /\ CheckQueueSize(b) \/ CreateRow(b) \/ FailRequest(b) \/ OrchestratorCrash => Bounded'
           /\ DashboardCheck(b) \/ MarkCancelled(b) => Bounded'
           /\ Enqueue(b) => Bounded'
           /\ RemoveFromQueue(b) \/ DashboardRemove(b) => Bounded'
<1>1. /\ request \in [Backup -> RequestPlaces]
      /\ job["backup"][b] \in Jobs
      /\ starts["backup"][b] \in Nat
      /\ Attempts["backup"] \in Nat \ {0}
      /\ "backup" \in Queues
      /\ JobAccounted(job["backup"][b], starts["backup"][b], Attempts["backup"])
    BY DEF Typed, TypeOK, Queues, PipelineAssumption, Bounded
<1>2. ASSUME CheckQueueSize(b) \/ CreateRow(b) \/ FailRequest(b) \/ OrchestratorCrash
      PROVE  Bounded'
    <2>1. \A c \in Backup : request'[c] \in Early => request[c] \in Early
        BY <1>1, <1>2 DEF CheckQueueSize, CreateRow, FailRequest, OrchestratorCrash, Early
    <2>2. UNCHANGED <<job, starts>>
        BY <1>2 DEF CheckQueueSize, CreateRow, FailRequest, OrchestratorCrash, requestRest
    <2>3. QED
        BY <2>1, <2>2, BoundedQuiet
<1>3. ASSUME DashboardCheck(b) \/ MarkCancelled(b) PROVE Bounded'
    BY <1>3, BoundedQuiet DEF DashboardCheck, MarkCancelled, cancelRest
<1>4. ASSUME Enqueue(b) PROVE Bounded'
    <2>1. /\ request'[b] \notin Early
          /\ \A c \in Backup : request'[c] \in Early => request[c] \in Early
        BY <1>1, <1>4 DEF Enqueue, Early
    <2>2. job["backup"][b].state = "absent" /\ starts["backup"][b] = 0
        BY <1>1, <1>4 DEF Enqueue, Bounded, Unstarted, Early
    <2>3. UNCHANGED starts
        BY <1>4 DEF Enqueue, requestRest
    <2>4. CASE UNCHANGED job
        BY <2>1, <2>3, <2>4, BoundedQuiet
    <2>5. CASE SetJob("backup", b, Added(job["backup"][b]))
        <3>1. /\ Added(job["backup"][b]) \in Jobs
              /\ Added(job["backup"][b]).state # "absent"
              /\ JobAccounted(Added(job["backup"][b]), starts'["backup"][b], Attempts["backup"])
            BY <1>1, <2>2, <2>3, JobCommands, CommandsAbsent, CommandsAccounted
        <3>2. QED
            BY <1>1, <2>1, <2>3, <2>5, <3>1, BoundedKept
    <2>6. QED
        BY <1>4, <2>4, <2>5 DEF Enqueue
<1>5. ASSUME RemoveFromQueue(b) \/ DashboardRemove(b) PROVE Bounded'
    <2>1. SetJob("backup", b, Removed(job["backup"][b])) /\ UNCHANGED <<request, starts>>
        BY <1>5 DEF RemoveFromQueue, DashboardRemove, cancelRest
    <2>2. /\ Removed(job["backup"][b]) \in Jobs
          /\ JobAccounted(Removed(job["backup"][b]), starts'["backup"][b], Attempts["backup"])
        BY <1>1, <2>1, JobCommands, CommandsAccounted
    <2>3. request[b] \in Early =>
              /\ Removed(job["backup"][b]).state = "absent"
              /\ starts["backup"][b] = 0
        BY <1>1, CommandsAbsent DEF Bounded, Unstarted
    <2>4. QED
        BY <1>1, <2>1, <2>2, <2>3, BoundedKept
<1>6. QED
    BY <1>2, <1>3, <1>4, <1>5

\* The queues' own steps.
LEMMA QueueBounded ==
    ASSUME PipelineAssumption, Typed, Bounded, NEW q \in Queues, NEW b \in Backup, NEW r \in RunIds
    PROVE  /\ Take(q, b) => Bounded'
           /\ Promote(q, b) => Bounded'
           /\ Stall(q, b) => Bounded'
           /\ Complete(q, b, r) => Bounded'
           /\ Reject(q, b, r) => Bounded'
           /\ WorkerCrash => Bounded'
<1> DEFINE j == job[q][b]
<1>1. /\ j \in Jobs
      /\ starts \in [Queues -> [Backup -> Nat]]
      /\ starts[q][b] \in Nat
      /\ Attempts[q] \in Nat \ {0} /\ MaxStalled \in Nat
      /\ r \in Nat
      /\ JobAccounted(j, starts[q][b], Attempts[q])
    BY DEF Typed, TypeOK, PipelineAssumption, Bounded, RunIds
<1>2. ASSUME NEW k \in Jobs, SetJob(q, b, k), UNCHANGED <<request, starts>>,
             JobAccounted(k, starts[q][b], Attempts[q]),
             k.state = "absent" <=> j.state = "absent"
      PROVE  Bounded'
    <2>1. /\ q = "backup" /\ request[b] \in Early => k.state = "absent"
          /\ k.state = "absent" /\ (q = "backup" => request[b] \in Early) => starts[q][b] = 0
        BY <1>2 DEF Bounded, Unstarted
    <2>2. QED
        BY <1>2, <2>1, BoundedKept
<1>3. ASSUME Take(q, b) PROVE Bounded'
    <2>1. /\ SetJob(q, b, Taken(j, starts[q][b] + 1))
          /\ UNCHANGED request
          /\ j.state = "waiting"
        BY <1>3 DEF Take, workerRest, clientVars
    <2>2. /\ starts'[q][b] = starts[q][b] + 1
          /\ \A p \in Queues, c \in Backup :
                 p # q \/ c # b => starts'[p][c] = starts[p][c]
        BY <1>1, <1>3 DEF Take
    <2>3. /\ Taken(j, starts[q][b] + 1) \in Jobs
          /\ Taken(j, starts[q][b] + 1).state # "absent"
          /\ JobAccounted(Taken(j, starts[q][b] + 1), starts'[q][b], Attempts[q])
        <3> DEFINE k == starts[q][b] + 1
        <3>1. k \in Nat /\ starts'[q][b] = k
            BY <1>1, <2>2
        <3>2. Taken(j, k) \in Jobs
            BY <1>1, <3>1, JobCommands
        <3>3. Taken(j, k).state # "absent"
            BY <1>1, <3>1, CommandsAbsent
        <3>4. JobAccounted(Taken(j, k), starts[q][b] + 1, Attempts[q])
            BY <1>1, <2>1, <3>1, CommandsAccounted
        <3>5. QED
            BY <3>1, <3>2, <3>3, <3>4
    <2>4. q = "backup" => request'[b] \notin Early
        BY <2>1 DEF Bounded
    <2>5. QED
        BY <2>1, <2>2, <2>3, <2>4, BoundedKept
<1>4. ASSUME Promote(q, b) PROVE Bounded'
    <2>1. /\ SetJob(q, b, Promoted(j))
          /\ UNCHANGED <<request, starts>>
          /\ j.state = "delayed"
        BY <1>4 DEF Promote, workerRest, clientVars
    <2>2. /\ Promoted(j) \in Jobs
          /\ Promoted(j).state = "absent" <=> j.state = "absent"
          /\ JobAccounted(Promoted(j), starts[q][b], Attempts[q])
        BY <1>1, <2>1, JobCommands, CommandsAbsent, CommandsAccounted
    <2>3. QED
        BY <1>2, <2>1, <2>2
<1>5. ASSUME Stall(q, b) PROVE Bounded'
    <2>1. /\ SetJob(q, b, Stalled(j, MaxStalled))
          /\ UNCHANGED <<request, starts>>
          /\ j.state = "active"
        BY <1>5 DEF Stall, workerRest, clientVars
    <2>2. /\ Stalled(j, MaxStalled) \in Jobs
          /\ Stalled(j, MaxStalled).state = "absent" <=> j.state = "absent"
          /\ JobAccounted(Stalled(j, MaxStalled), starts[q][b], Attempts[q])
        BY <1>1, <2>1, JobCommands, CommandsAbsent, CommandsAccounted
    <2>3. QED
        BY <1>2, <2>1, <2>2
<1>6. ASSUME Complete(q, b, r) PROVE Bounded'
    <2>1. /\ SetJob(q, b, Completed(j, r))
          /\ UNCHANGED <<request, starts>>
        BY <1>6 DEF Complete, workerRest, clientVars
    <2>2. /\ Completed(j, r) \in Jobs
          /\ Completed(j, r).state = "absent" <=> j.state = "absent"
          /\ JobAccounted(Completed(j, r), starts[q][b], Attempts[q])
        BY <1>1, <2>1, JobCommands, CommandsAbsent, CommandsAccounted
    <2>3. QED
        BY <1>2, <2>1, <2>2
<1>7. ASSUME Reject(q, b, r) PROVE Bounded'
    <2>1. /\ SetJob(q, b, Rejected(j, r, Attempts[q]))
          /\ UNCHANGED <<request, starts>>
        BY <1>7 DEF Reject, workerRest, clientVars
    <2>2. /\ Rejected(j, r, Attempts[q]) \in Jobs
          /\ Rejected(j, r, Attempts[q]).state = "absent" <=> j.state = "absent"
          /\ JobAccounted(Rejected(j, r, Attempts[q]), starts[q][b], Attempts[q])
        <3>1. Rejected(j, r, Attempts[q]) \in Jobs
            BY <1>1, JobCommands
        <3>2. Rejected(j, r, Attempts[q]).state = "absent" <=> j.state = "absent"
            BY <1>1, CommandsAbsent
        <3>3. JobAccounted(Rejected(j, r, Attempts[q]), starts[q][b], Attempts[q])
            BY <1>1, CommandsAccounted
        <3>4. QED
            BY <3>1, <3>2, <3>3
    <2>3. QED
        BY <1>2, <2>1, <2>2
<1>8. ASSUME WorkerCrash PROVE Bounded'
    BY <1>8, BoundedQuiet DEF WorkerCrash, workerRest, clientVars
<1>9. QED
    BY <1>3, <1>4, <1>5, <1>6, <1>7, <1>8

\* The handlers only add jobs, to the notification and the storage queue.
LEMMA HandlerBounded ==
    ASSUME PipelineAssumption, Typed, Bounded, NEW b \in Backup, NEW r \in RunIds,
           BackupHandler(b, r) \/ StorageHandler(b, r) \/ Send(b, r)
    PROVE  Bounded'
<1>1. UNCHANGED <<request, starts>>
    BY DEF BackupHandler, SetRunning, Dump, SetSuccess, HandOff, SetFailed, NoteFailure,
           StorageHandler, Lookup, Upload, RecordUpload, AnnounceUpload, Send,
           backupRest, storageRest, notifyRest, clientVars
<1>2. \/ UNCHANGED job
      \/ \E q \in {"notify", "storage"} : SetJob(q, b, Added(job[q][b]))
    BY DEF BackupHandler, SetRunning, Dump, SetSuccess, HandOff, HandOffTo, SetFailed,
           NoteFailure, StorageHandler, Lookup, Upload, RecordUpload, AnnounceUpload,
           Send, Announce, RequestUpload, notifyRest
<1>3. CASE UNCHANGED job
    BY <1>1, <1>3, BoundedQuiet
<1>4. ASSUME NEW q \in {"notify", "storage"}, SetJob(q, b, Added(job[q][b]))
      PROVE  Bounded'
    <2>1. /\ q \in Queues /\ q # "backup"
          /\ job[q][b] \in Jobs /\ starts[q][b] \in Nat /\ Attempts[q] \in Nat \ {0}
        BY DEF Typed, TypeOK, PipelineAssumption, Queues
    <2>2. /\ JobAccounted(job[q][b], starts[q][b], Attempts[q])
          /\ job[q][b].state = "absent" => starts[q][b] = 0
        BY <2>1 DEF Bounded, Unstarted
    <2>3. /\ Added(job[q][b]) \in Jobs
          /\ Added(job[q][b]).state # "absent"
          /\ JobAccounted(Added(job[q][b]), starts'[q][b], Attempts[q])
        BY <1>1, <2>1, <2>2, JobCommands, CommandsAbsent, CommandsAccounted
    <2>4. QED
        BY <1>1, <1>4, <2>1, <2>3, BoundedKept
<1>5. QED
    BY <1>2, <1>3, <1>4

\* Every step keeps the runs accounted for.
LEMMA NextBounded ==
    ASSUME PipelineAssumption, Typed, Bounded, [Next]_vars
    PROVE  Bounded'
<1>1. CASE OrchestratorStep
    <2>1. PICK b \in Backup : \/ CheckQueueSize(b) \/ CreateRow(b) \/ Enqueue(b)
                              \/ FailRequest(b) \/ OrchestratorCrash
        BY <1>1 DEF OrchestratorStep, OrchestratorCrash
    <2>2. QED
        BY <2>1, ClientBounded
<1>2. CASE CancelStep
    BY <1>2, ClientBounded DEF CancelStep
<1>3. CASE QueueStep
    <2>1. 1 \in RunIds
        BY PipelineAssumption DEF PipelineAssumption, RunIds, Queues
    <2>2. PICK q \in Queues, b \in Backup, r \in RunIds :
              Take(q, b) \/ Promote(q, b) \/ Stall(q, b) \/ Complete(q, b, r) \/ Reject(q, b, r)
        BY <1>3, <2>1 DEF QueueStep
    <2>3. QED
        BY <2>2, QueueBounded
<1>4. CASE HandlerStep
    BY <1>4, HandlerBounded DEF HandlerStep
<1>5. CASE WorkerCrash
    BY <1>5, BoundedQuiet DEF WorkerCrash, workerRest, clientVars
<1>6. CASE UNCHANGED vars
    BY <1>6, BoundedQuiet DEF vars
<1>7. QED
    BY <1>1, <1>2, <1>3, <1>4, <1>5, <1>6 DEF Next

(***************************************************************************)
(* A handler is started at most Attempts + MaxStalled times for its job:   *)
(* for any number of backups, crashes, lost locks and failed calls, a      *)
(* database is dumped no more often than the queue's configuration allows. *)
(***************************************************************************)
THEOREM HandlerRunsBounded == Spec => []RunsBounded
<1>1. Spec => [](Typed /\ Bounded)
    BY PipelineAssumption, InitTyped, InitBounded, NextTyped, NextBounded, PTL DEF Spec
<1>2. Bounded => RunsBounded
    BY DEF Bounded, JobAccounted, RunsBounded
<1>3. QED
    BY <1>1, <1>2, PTL

-----------------------------------------------------------------------------
(***************************************************************************)
(* Ownership.  A run is live from Take, which gives it the job's lock, to  *)
(* its last step or the crash that ends it; unless locks are lost under    *)
(* live handlers, no step takes the job from it meanwhile.                 *)
(***************************************************************************)

\* A step that starts no run and touches no job that a worker holds.
LEMMA OwnershipKept ==
    ASSUME LiveRunOwnsJob,
           \A q \in Queues, b \in Backup :
               /\ job'[q][b] = job[q][b] \/ job[q][b].state # "active"
               /\ \A r \in RunIds : run'[q][b][r] \notin Dead => run[q][b][r] \notin Dead
    PROVE  LiveRunOwnsJob'
    BY DEF LiveRunOwnsJob, Owns, Dead

\* A step that moves a live run, and adds at most one job.
LEMMA LiveRunMoved ==
    ASSUME Typed, LiveRunOwnsJob,
           NEW q \in Queues, NEW b \in Backup, NEW r \in RunIds, NEW place \in Places,
           run[q][b][r] \notin Dead, Goto(q, b, r, place),
           \/ UNCHANGED job
           \/ \E p \in Queues : SetJob(p, b, Added(job[p][b]))
    PROVE  LiveRunOwnsJob'
<1>1. /\ run \in [Queues -> [Backup -> [RunIds -> Places]]]
      /\ job \in [Queues -> [Backup -> Jobs]]
    BY DEF Typed, TypeOK
<1>2. \A p \in Queues, c \in Backup, i \in RunIds :
          run'[p][c][i] \notin Dead => run[p][c][i] \notin Dead
    <2>1. \A p \in Queues, c \in Backup, i \in RunIds :
              p # q \/ c # b \/ i # r => run'[p][c][i] = run[p][c][i]
        BY <1>1, RunMoved
    <2>2. QED
        BY <2>1
<1>3. \A p \in Queues, c \in Backup : job'[p][c] = job[p][c] \/ job[p][c].state # "active"
    <2>1. ASSUME NEW p \in Queues, SetJob(p, b, Added(job[p][b]))
          PROVE  \A o \in Queues, c \in Backup : job'[o][c] = job[o][c] \/ job[o][c].state # "active"
        <3>1. Added(job[p][b]) = job[p][b] \/ job[p][b].state # "active"
            BY DEF Added
        <3>2. Added(job[p][b]) \in Jobs
            BY <1>1, JobCommands DEF RunIds
        <3>3. QED
            BY <1>1, <2>1, <3>1, <3>2, JobStored
    <2>2. QED
        BY <2>1
<1>4. QED
    BY <1>2, <1>3, OwnershipKept

\* The orchestrator starts no run, and remove() refuses an active job.
LEMMA ClientOwned ==
    ASSUME Typed, LiveRunOwnsJob, NEW b \in Backup,
           \/ CheckQueueSize(b) \/ CreateRow(b) \/ Enqueue(b) \/ FailRequest(b)
           \/ OrchestratorCrash
           \/ RemoveFromQueue(b) \/ DashboardCheck(b) \/ DashboardRemove(b)
           \/ MarkCancelled(b)
    PROVE  LiveRunOwnsJob'
<1>1. UNCHANGED run
    BY DEF CheckQueueSize, CreateRow, Enqueue, FailRequest, OrchestratorCrash,
           RemoveFromQueue, DashboardCheck, DashboardRemove, MarkCancelled,
           requestRest, cancelRest
<1>2. \/ UNCHANGED job
      \/ SetJob("backup", b, Added(job["backup"][b]))
      \/ SetJob("backup", b, Removed(job["backup"][b]))
    BY DEF CheckQueueSize, CreateRow, Enqueue, FailRequest, OrchestratorCrash,
           RemoveFromQueue, DashboardCheck, DashboardRemove, MarkCancelled
<1>3. /\ job \in [Queues -> [Backup -> Jobs]]
      /\ "backup" \in Queues
      /\ job["backup"][b] \in Jobs
    BY DEF Typed, TypeOK, Queues
<1>4. \A j \in {Added(job["backup"][b]), Removed(job["backup"][b])} :
          j \in Jobs /\ (j = job["backup"][b] \/ job["backup"][b].state # "active")
    BY <1>3, JobCommands DEF Added, Removed
<1>5. \A p \in Queues, c \in Backup : job'[p][c] = job[p][c] \/ job[p][c].state # "active"
    BY <1>2, <1>3, <1>4, JobStored
<1>6. QED
    BY <1>1, <1>5, OwnershipKept

\* A run is started for a job that no run holds.
LEMMA TakeOwned ==
    ASSUME Typed, LiveRunOwnsJob, NEW q \in Queues, NEW b \in Backup, Take(q, b)
    PROVE  LiveRunOwnsJob'
<1> DEFINE n == starts[q][b] + 1
<1>1. /\ job \in [Queues -> [Backup -> Jobs]]
      /\ run \in [Queues -> [Backup -> [RunIds -> Places]]]
      /\ n \in Nat
    BY DEF Typed, TypeOK
<1>2. /\ job[q][b].state = "waiting"
      /\ SetJob(q, b, Taken(job[q][b], n))
      /\ Goto(q, b, n, Entry(q))
    BY DEF Take
<1>3. Taken(job[q][b], n) \in Jobs
    <2>1. \A j \in Jobs, i \in Nat : Taken(j, i) \in Jobs
        BY JobCommands
    <2>2. QED
        BY <1>1, <2>1
<1>4. /\ job'[q][b] = Taken(job[q][b], n)
      /\ \A p \in Queues, c \in Backup : p # q \/ c # b => job'[p][c] = job[p][c]
      /\ \A p \in Queues, c \in Backup, i \in RunIds :
             p # q \/ c # b \/ i # n => run'[p][c][i] = run[p][c][i]
    BY <1>1, <1>2, <1>3, JobStored, RunMoved, PlacesReached
<1>5. Owns(Taken(job[q][b], n), n)
    BY <1>1 DEF Owns, Taken, Jobs
<1>6. QED
    BY <1>2, <1>4, <1>5 DEF LiveRunOwnsJob, Owns

\* A job changes hands, or ends, when the run that owned it is over.
LEMMA JobReleased ==
    ASSUME Typed, LiveRunOwnsJob, NEW q \in Queues, NEW b \in Backup, NEW j \in Jobs,
           SetJob(q, b, j),
           \A p \in Queues, c \in Backup, i \in RunIds :
               run'[p][c][i] \notin Dead => run[p][c][i] \notin Dead,
           \A i \in RunIds : run'[q][b][i] \in Dead \/ j = job[q][b]
    PROVE  LiveRunOwnsJob'
<1>1. /\ job'[q][b] = j
      /\ \A p \in Queues, c \in Backup : p # q \/ c # b => job'[p][c] = job[p][c]
    BY JobStored DEF Typed, TypeOK
<1>2. QED
    BY <1>1 DEF LiveRunOwnsJob, Owns, Dead

\* The stalled-job check releases a job whose owner died; the commands that end
\* a job end its owner too.
LEMMA QueueOwned ==
    ASSUME PipelineAssumption, ~LockLoss, Typed, LiveRunOwnsJob,
           NEW q \in Queues, NEW b \in Backup, NEW r \in RunIds,
           Take(q, b) \/ Promote(q, b) \/ Stall(q, b) \/ Complete(q, b, r) \/ Reject(q, b, r)
    PROVE  LiveRunOwnsJob'
<1>1. /\ job \in [Queues -> [Backup -> Jobs]]
      /\ run \in [Queues -> [Backup -> [RunIds -> Places]]]
      /\ job[q][b] \in Jobs
      /\ r \in Nat /\ Attempts[q] \in Nat /\ MaxStalled \in Nat
      /\ "over" \in Places
    BY PlacesReached DEF Typed, TypeOK, RunIds, PipelineAssumption
<1>2. CASE Take(q, b)
    BY <1>2, TakeOwned
<1>3. CASE Promote(q, b)
    <2>1. UNCHANGED run /\ SetJob(q, b, Promoted(job[q][b])) /\ job[q][b].state = "delayed"
        BY <1>3 DEF Promote
    <2>2. Promoted(job[q][b]) \in Jobs
        BY <1>1, JobCommands
    <2>3. \A i \in RunIds : run'[q][b][i] \in Dead
        BY <2>1 DEF LiveRunOwnsJob, Owns
    <2>4. QED
        BY <2>1, <2>2, <2>3, JobReleased
<1>4. CASE Stall(q, b)
    <2>1. /\ UNCHANGED run
          /\ SetJob(q, b, Stalled(job[q][b], MaxStalled))
          /\ run[q][b][job[q][b].owner] = "over"
        BY <1>4 DEF Stall, At
    <2>2. Stalled(job[q][b], MaxStalled) \in Jobs
        BY <1>1, JobCommands
    <2>3. \A i \in RunIds : run'[q][b][i] \in Dead
        BY <2>1 DEF LiveRunOwnsJob, Owns, Dead
    <2>4. QED
        BY <2>1, <2>2, <2>3, JobReleased
<1>5. CASE Complete(q, b, r) \/ Reject(q, b, r)
    <2>1. PICK j \in {Completed(job[q][b], r), Rejected(job[q][b], r, Attempts[q])} :
              SetJob(q, b, j) /\ Goto(q, b, r, "over")
        BY <1>5 DEF Complete, Reject
    <2>2. j \in Jobs
        <3>1. Completed(job[q][b], r) \in Jobs
            BY <1>1, JobCommands
        <3>2. Rejected(job[q][b], r, Attempts[q]) \in Jobs
            BY <1>1, JobCommands
        <3>3. QED
            BY <3>1, <3>2
    <2>3. /\ run'[q][b][r] = "over"
          /\ \A p \in Queues, c \in Backup, i \in RunIds :
                 p # q \/ c # b \/ i # r => run'[p][c][i] = run[p][c][i]
        BY <1>1, <2>1, RunMoved
    <2>4. \A p \in Queues, c \in Backup, i \in RunIds :
              run'[p][c][i] \notin Dead => run[p][c][i] \notin Dead
        BY <2>3 DEF Dead
    <2>5. run[q][b][r] \notin Dead
        BY <1>5 DEF Complete, Reject, At, Dead
    <2>6. \A i \in RunIds : run'[q][b][i] \in Dead
        BY <2>3, <2>5 DEF LiveRunOwnsJob, Owns, Dead
    <2>7. QED
        BY <2>1, <2>2, <2>4, <2>6, JobReleased
<1>6. QED
    BY <1>2, <1>3, <1>4, <1>5

\* A handler's step moves a run that is alive.
LEMMA HandlerOwned ==
    ASSUME Typed, LiveRunOwnsJob, NEW b \in Backup, NEW r \in RunIds,
           BackupHandler(b, r) \/ StorageHandler(b, r) \/ Send(b, r)
    PROVE  LiveRunOwnsJob'
<1>1. \/ UNCHANGED job
      \/ \E q \in Queues : SetJob(q, b, Added(job[q][b]))
    BY DEF BackupHandler, SetRunning, Dump, SetSuccess, HandOff, HandOffTo, SetFailed,
           NoteFailure, StorageHandler, Lookup, Upload, RecordUpload, AnnounceUpload,
           Send, Announce, RequestUpload, notifyRest, Queues
<1>2. PICK q \in Queues, place \in Places : run[q][b][r] \notin Dead /\ Goto(q, b, r, place)
    <2>1. BackupHandler(b, r) =>
              run["backup"][b][r] \notin Dead /\ \E place \in Places : Goto("backup", b, r, place)
        BY PlacesReached DEF BackupHandler, SetRunning, Dump, SetSuccess, HandOff, SetFailed,
                             NoteFailure, At, Dead
    <2>2. StorageHandler(b, r) =>
              run["storage"][b][r] \notin Dead /\ \E place \in Places : Goto("storage", b, r, place)
        BY PlacesReached DEF StorageHandler, Lookup, Upload, RecordUpload, AnnounceUpload, At, Dead
    <2>3. Send(b, r) =>
              run["notify"][b][r] \notin Dead /\ \E place \in Places : Goto("notify", b, r, place)
        BY PlacesReached DEF Send, At, Dead
    <2>4. QED
        BY <2>1, <2>2, <2>3 DEF Queues
<1>3. QED
    BY <1>1, <1>2, LiveRunMoved

\* Every step keeps the owners.
LEMMA NextOwned ==
    ASSUME PipelineAssumption, ~LockLoss, Typed, LiveRunOwnsJob, [Next]_vars
    PROVE  LiveRunOwnsJob'
<1>1. CASE OrchestratorStep
    <2>1. PICK b \in Backup : \/ CheckQueueSize(b) \/ CreateRow(b) \/ Enqueue(b)
                              \/ FailRequest(b) \/ OrchestratorCrash
        BY <1>1 DEF OrchestratorStep, OrchestratorCrash
    <2>2. QED
        BY <2>1, ClientOwned
<1>2. CASE CancelStep
    BY <1>2, ClientOwned DEF CancelStep
<1>3. CASE QueueStep
    <2>1. 1 \in RunIds
        BY PipelineAssumption DEF PipelineAssumption, RunIds, Queues
    <2>2. PICK q \in Queues, b \in Backup, r \in RunIds :
              Take(q, b) \/ Promote(q, b) \/ Stall(q, b) \/ Complete(q, b, r) \/ Reject(q, b, r)
        BY <1>3, <2>1 DEF QueueStep
    <2>3. QED
        BY <2>2, QueueOwned
<1>4. CASE HandlerStep
    BY <1>4, HandlerOwned DEF HandlerStep
<1>5. CASE WorkerCrash
    <2>1. /\ UNCHANGED job
          /\ \A q \in Queues, b \in Backup, r \in RunIds :
                 run'[q][b][r] = run[q][b][r] \/ run'[q][b][r] = "over"
        BY <1>5 DEF WorkerCrash
    <2>2. QED
        BY <2>1, OwnershipKept DEF Dead
<1>6. CASE UNCHANGED vars
    BY <1>6, OwnershipKept DEF vars, queueVars
<1>7. QED
    BY <1>1, <1>2, <1>3, <1>4, <1>5, <1>6 DEF Next

(***************************************************************************)
(* As long as a live handler keeps its lock, two handlers never run for    *)
(* one job: after a crash the stalled-job check gives a job back only when *)
(* the run that owned it died, and a late retry, cancellation or add never *)
(* takes a job from the run that holds it.                                 *)
(***************************************************************************)
THEOREM OneHandlerPerJob == ASSUME ~LockLoss PROVE Spec => []LiveRunOwnsJob
<1>1. Init => LiveRunOwnsJob
    BY DEF Init, LiveRunOwnsJob, Dead
<1>2. Spec => []Typed
    BY PipelineAssumption, InitTyped, NextTyped, PTL DEF Spec
<1>3. QED
    BY PipelineAssumption, <1>1, <1>2, NextOwned, PTL DEF Spec

-----------------------------------------------------------------------------
(***************************************************************************)
(* What the metadata rows promise to their readers, for every set of       *)
(* backups, configuration, lost lock, crash and failed call.               *)
(***************************************************************************)

(***************************************************************************)
(* Every archive that a handler or a job names exists already: the place   *)
(* of a run tells which calls it has behind it.                            *)
(***************************************************************************)
DumpDone == {"setSuccess", "handOff"}

RunsTraced ==
    \A c \in Backup, i \in RunIds :
        /\ run["backup"][c][i] \in DumpDone => i \in produced[c]
        /\ run["storage"][c][i] = "record" => upload[c] \in bucket[c]

UploadTraced == \A c \in Backup : upload[c] # 0 => upload[c] \in produced[c]

RowsSound ==
    \A c \in Backup :
        /\ row[c].status = "success" => row[c].file \in produced[c]
        /\ row[c].stored # 0 => row[c].stored \in bucket[c]
        /\ bucket[c] \subseteq produced[c]

Traced == RunsTraced /\ UploadTraced /\ RowsSound

\* The first state.
LEMMA TracedInit == Init => Traced
    BY DEF Init, Traced, RunsTraced, UploadTraced, RowsSound, DumpDone, NoRow, Queues

(***************************************************************************)
(* What each step does to the archives, the rows and the runs.             *)
(***************************************************************************)
StoresGrow ==
    \A c \in Backup :
        /\ produced[c] \subseteq produced'[c]
        /\ bucket[c] \subseteq bucket'[c]
        /\ bucket'[c] \subseteq produced'[c]

UploadChosen ==
    \A c \in Backup :
        \/ upload'[c] = upload[c]
        \/ upload[c] = 0 /\ upload'[c] \in produced'[c]

RowsFollow ==
    \A c \in Backup :
        /\ \/ row'[c].status # "success"
           \/ row'[c].status = row[c].status /\ row'[c].file = row[c].file
           \/ row'[c].file \in produced'[c]
        /\ row'[c].stored = row[c].stored \/ row'[c].stored \in bucket'[c]

RunsFollow ==
    \A c \in Backup, i \in RunIds :
        /\ \/ run'["backup"][c][i] \notin DumpDone
           \/ run["backup"][c][i] \in DumpDone
           \/ i \in produced'[c]
        /\ \/ run'["storage"][c][i] # "record"
           \/ run["storage"][c][i] = "record"
           \/ upload'[c] \in bucket'[c]

\* A step that does no more than this keeps the invariant: a storage run has
\* an archive to upload, which never changes.
LEMMA TracedKept ==
    ASSUME Typed, Traced, StoresGrow, UploadChosen, RowsFollow, RunsFollow
    PROVE  Traced'
<1>1. RowsSound'
    BY DEF Traced, RowsSound, StoresGrow, RowsFollow
<1>2. UploadTraced'
    BY DEF Traced, UploadTraced, StoresGrow, UploadChosen
<1>3. RunsTraced'
    <2> SUFFICES ASSUME NEW c \in Backup, NEW i \in RunIds
                 PROVE  /\ run'["backup"][c][i] \in DumpDone => i \in produced'[c]
                        /\ run'["storage"][c][i] = "record" => upload'[c] \in bucket'[c]
        BY DEF RunsTraced
    <2>1. run'["backup"][c][i] \in DumpDone => i \in produced'[c]
        BY DEF Traced, RunsTraced, StoresGrow, RunsFollow
    <2>2. run["storage"][c][i] = "record" => upload'[c] = upload[c]
        BY DEF Typed, UploadNamed, UploadChosen
    <2>3. run'["storage"][c][i] = "record" => upload'[c] \in bucket'[c]
        BY <2>2 DEF Traced, RunsTraced, StoresGrow, RunsFollow
    <2>4. QED
        BY <2>1, <2>3
<1>4. QED
    BY <1>1, <1>2, <1>3 DEF Traced

\* Archives and uploads untouched, rows at most marked with a status that is
\* not "success".
LEMMA MarkedOnly ==
    ASSUME Typed, Traced, UNCHANGED <<produced, bucket, upload>>, RunsFollow,
           \/ UNCHANGED row
           \/ \E b \in Backup, s \in RowStatus \ {"success"} : SetRow(b, Marked(row[b], s))
    PROVE  Traced'
<1>1. row \in [Backup -> Rows]
    BY DEF Typed, TypeOK
<1>2. RowsFollow
    <2>1. ASSUME NEW b \in Backup, NEW s \in RowStatus \ {"success"},
                 SetRow(b, Marked(row[b], s))
          PROVE  RowsFollow
        <3>1. Marked(row[b], s) \in Rows
            BY <1>1, RowUpdates DEF Rows
        <3>2. /\ Marked(row[b], s).status = s
              /\ Marked(row[b], s).stored = row[b].stored
            BY <1>1 DEF Marked, Rows
        <3>3. QED
            BY <1>1, <2>1, <3>1, <3>2, RowStored DEF RowsFollow
    <2>2. QED
        BY <2>1 DEF RowsFollow
<1>3. produced' = produced /\ bucket' = bucket /\ upload' = upload
    OBVIOUS
<1>4. \A c \in Backup : bucket[c] \subseteq produced[c]
    BY DEF Traced, RowsSound
<1>5. StoresGrow
    BY <1>3, <1>4 DEF StoresGrow
<1>6. UploadChosen
    BY <1>3 DEF UploadChosen
<1>7. QED
    BY <1>2, <1>5, <1>6, TracedKept

\* A run moves: the places that presuppose an archive have it behind them.
LEMMA Moved ==
    ASSUME Typed, NEW q \in Queues, NEW b \in Backup, NEW r, NEW place \in Places,
           Goto(q, b, r, place),
           q = "backup" /\ place \in DumpDone =>
               r \in produced'[b] \/ run["backup"][b][r] \in DumpDone,
           q = "storage" /\ place = "record" => upload'[b] \in bucket'[b]
    PROVE  RunsFollow
<1>1. run \in [Queues -> [Backup -> [RunIds -> Places]]]
    BY DEF Typed, TypeOK
<1>2. /\ r \in RunIds => run'[q][b][r] = place
      /\ \A p \in Queues, c \in Backup, i \in RunIds :
             p # q \/ c # b \/ i # r => run'[p][c][i] = run[p][c][i]
    BY <1>1, RunMoved
<1>3. "backup" \in Queues /\ "storage" \in Queues
    BY DEF Queues
<1>4. QED
    BY <1>2, <1>3 DEF RunsFollow

\* Runs that are left alone.
LEMMA RunsQuiet == ASSUME UNCHANGED run PROVE RunsFollow
    BY DEF RunsFollow

\* One row is replaced by another that names existing archives.
LEMMA RowReplaced ==
    ASSUME Typed, NEW b \in Backup, NEW v \in Rows, SetRow(b, v),
           \/ v.status # "success"
           \/ v.status = row[b].status /\ v.file = row[b].file
           \/ v.file \in produced'[b],
           v.stored = row[b].stored \/ v.stored \in bucket'[b]
    PROVE  RowsFollow
<1>1. /\ row'[b] = v
      /\ \A c \in Backup : c # b => row'[c] = row[c]
    BY RowStored DEF Typed, TypeOK
<1>2. QED
    BY <1>1 DEF RowsFollow

-----------------------------------------------------------------------------
(***************************************************************************)
(* The steps.                                                              *)
(***************************************************************************)

\* The orchestrator and the cancellers only mark rows.
LEMMA ClientTraced ==
    ASSUME Typed, Traced, NEW b \in Backup,
           \/ CheckQueueSize(b) \/ CreateRow(b) \/ Enqueue(b) \/ FailRequest(b)
           \/ OrchestratorCrash
           \/ RemoveFromQueue(b) \/ DashboardCheck(b) \/ DashboardRemove(b)
           \/ MarkCancelled(b)
    PROVE  Traced'
<1>1. UNCHANGED <<run, produced, bucket, upload>>
    BY DEF CheckQueueSize, CreateRow, Enqueue, FailRequest, OrchestratorCrash,
           RemoveFromQueue, DashboardCheck, DashboardRemove, MarkCancelled,
           requestRest, cancelRest, storeVars
<1>2. {"running", "failed", "cancelled"} \subseteq RowStatus \ {"success"}
    BY DEF RowStatus
<1>3. \/ UNCHANGED row
      \/ \E s \in {"running", "failed", "cancelled"} : SetRow(b, Marked(row[b], s))
    BY DEF CheckQueueSize, CreateRow, Enqueue, FailRequest, OrchestratorCrash,
           RemoveFromQueue, DashboardCheck, DashboardRemove, MarkCancelled, MaybeSetRow
<1>4. QED
    BY <1>1, <1>2, <1>3, RunsQuiet, MarkedOnly

\* The queues start, end and lose runs.
LEMMA QueueTraced ==
    ASSUME Typed, Traced, NEW q \in Queues, NEW b \in Backup, NEW r \in RunIds,
           Take(q, b) \/ Promote(q, b) \/ Stall(q, b) \/ Complete(q, b, r) \/ Reject(q, b, r)
    PROVE  Traced'
<1>1. UNCHANGED <<row, produced, bucket, upload>>
    BY DEF Take, Promote, Stall, Complete, Reject, workerRest, storeVars
<1>2. /\ Entry(q) \in Places /\ "over" \in Places
      /\ Entry(q) \notin DumpDone \cup {"record"}
      /\ "over" \notin DumpDone \cup {"record"}
    BY PlacesReached DEF Entry, Queues, DumpDone
<1>3. \/ UNCHANGED run
      \/ Goto(q, b, starts[q][b] + 1, Entry(q))
      \/ Goto(q, b, r, "over")
    BY DEF Take, Promote, Stall, Complete, Reject
<1>4. RunsFollow
    <2>1. CASE UNCHANGED run
        BY <2>1, RunsQuiet
    <2>2. CASE Goto(q, b, starts[q][b] + 1, Entry(q))
        BY <1>2, <2>2, Moved
    <2>3. CASE Goto(q, b, r, "over")
        BY <1>2, <2>3, Moved
    <2>4. QED
        BY <1>3, <2>1, <2>2, <2>3
<1>5. QED
    BY <1>1, <1>4, MarkedOnly

\* A crash of the worker process ends runs.
LEMMA CrashTraced == ASSUME Typed, Traced, WorkerCrash PROVE Traced'
<1>1. UNCHANGED <<row, produced, bucket, upload>>
    BY DEF WorkerCrash, workerRest, storeVars
<1>2. RunsFollow
    <2>1. \A p \in Queues, c \in Backup, i \in RunIds :
              run'[p][c][i] = run[p][c][i] \/ run'[p][c][i] = "over"
        BY DEF WorkerCrash
    <2>2. "backup" \in Queues /\ "storage" \in Queues /\ "over" \notin DumpDone
        BY DEF Queues, DumpDone
    <2>3. QED
        BY <2>1, <2>2 DEF RunsFollow
<1>3. QED
    BY <1>1, <1>2, MarkedOnly

\* Places from which a run has no archive behind it yet, or needs none.
LEMMA PlainPlaces ==
    /\ {"dump", "setFailed", "noteFailure", "throw", "return", "upload", "announce"}
           \subseteq Places \ (DumpDone \cup {"record"})
    /\ {"setSuccess", "handOff", "record"} \subseteq Places
    BY PlacesReached DEF DumpDone

\* The steps of handleBackupJob that write a status, or nothing.
LEMMA BackupMarks ==
    ASSUME Typed, Traced, NEW b \in Backup, NEW r \in RunIds,
           SetRunning(b, r) \/ SetFailed(b, r) \/ NoteFailure(b, r)
    PROVE  Traced'
<1>1. UNCHANGED <<produced, bucket, upload>>
    BY DEF SetRunning, SetFailed, NoteFailure, backupRest
<1>2. \/ UNCHANGED row
      \/ \E s \in {"running", "failed"} : SetRow(b, Marked(row[b], s))
    BY DEF SetRunning, SetFailed, NoteFailure, MaybeSetRow
<1>3. \E place \in {"dump", "setFailed", "noteFailure", "throw"} : Goto("backup", b, r, place)
    BY DEF SetRunning, SetFailed, NoteFailure
<1>4. RunsFollow
    BY <1>3, PlainPlaces, Moved DEF Queues
<1>5. {"running", "failed"} \subseteq RowStatus \ {"success"}
    BY DEF RowStatus
<1>6. QED
    BY <1>1, <1>2, <1>4, <1>5, MarkedOnly

\* A dump adds its archive before the run goes on.
LEMMA DumpTraced ==
    ASSUME Typed, Traced, NEW b \in Backup, NEW r \in RunIds, Dump(b, r)
    PROVE  Traced'
<1>1. UNCHANGED <<row, bucket, upload>>
    BY DEF Dump, backupRest
<1>2. /\ \A c \in Backup : produced[c] \subseteq produced'[c]
      /\ \/ r \in produced'[b] /\ Goto("backup", b, r, "setSuccess")
         \/ Goto("backup", b, r, "setFailed")
    BY DEF Dump, Typed, TypeOK
<1>3. RunsFollow
    <2>1. "backup" \in Queues
        BY DEF Queues
    <2>2. CASE r \in produced'[b] /\ Goto("backup", b, r, "setSuccess")
        BY <2>1, <2>2, PlainPlaces, Moved
    <2>3. CASE Goto("backup", b, r, "setFailed")
        BY <2>1, <2>3, PlainPlaces, Moved
    <2>4. QED
        BY <1>2, <2>2, <2>3
<1>4. StoresGrow
    BY <1>1, <1>2 DEF StoresGrow, Traced, RowsSound
<1>5. UploadChosen /\ RowsFollow
    BY <1>1 DEF UploadChosen, RowsFollow
<1>6. QED
    BY <1>3, <1>4, <1>5, TracedKept

\* SUCCESS is recorded by a run that has its archive behind it.
LEMMA SuccessTraced ==
    ASSUME Typed, Traced, NEW b \in Backup, NEW r \in RunIds, SetSuccess(b, r)
    PROVE  Traced'
<1>1. UNCHANGED <<produced, bucket, upload>>
    BY DEF SetSuccess, backupRest
<1>2. run["backup"][b][r] \in DumpDone /\ r \in produced[b]
    BY DEF SetSuccess, At, Traced, RunsTraced, DumpDone
<1>3. RunsFollow
    <2>1. \E place \in {"handOff", "setFailed"} : Goto("backup", b, r, place)
        BY DEF SetSuccess
    <2>2. QED
        BY <1>2, <2>1, PlainPlaces, Moved DEF Queues
<1>4. RowsFollow
    <2>1. CASE UNCHANGED row
        BY <2>1 DEF RowsFollow
    <2>2. CASE SetRow(b, Recorded(row[b], r))
        <3>1. row[b] \in Rows
            BY DEF Typed, TypeOK
        <3>2. Recorded(row[b], r) \in Rows
            BY <3>1 DEF Recorded, Rows, RowStatus
        <3>3. /\ Recorded(row[b], r).file = r
              /\ Recorded(row[b], r).stored = row[b].stored
            BY <3>1 DEF Recorded, Rows
        <3>4. r \in produced'[b]
            BY <1>1, <1>2
        <3>5. QED
            BY <2>2, <3>2, <3>3, <3>4, RowReplaced
    <2>3. QED
        BY <2>1, <2>2 DEF SetSuccess, MaybeSetRow
<1>5. StoresGrow
    BY <1>1 DEF StoresGrow, Traced, RowsSound
<1>6. UploadChosen
    BY <1>1 DEF UploadChosen
<1>7. QED
    BY <1>3, <1>4, <1>5, <1>6, TracedKept

\* The storage job is given the archive of the run that adds it.
LEMMA HandOffTraced ==
    ASSUME Typed, Traced, NEW b \in Backup, NEW r \in RunIds, HandOff(b, r)
    PROVE  Traced'
<1>1. UNCHANGED <<row, produced, bucket>>
    BY DEF HandOff, backupRest
<1>2. r \in produced'[b]
    BY <1>1 DEF HandOff, At, Traced, RunsTraced, DumpDone
<1>3. RunsFollow
    <2>1. \E place \in {"return", "setFailed"} : Goto("backup", b, r, place)
        BY DEF HandOff
    <2>2. QED
        BY <2>1, PlainPlaces, Moved DEF Queues
<1>4. UploadChosen
    <2>1. UNCHANGED upload \/ RequestUpload(b, r)
        BY DEF HandOff, HandOffTo
    <2>2. CASE UNCHANGED upload
        BY <2>2 DEF UploadChosen
    <2>3. CASE RequestUpload(b, r)
        BY <1>2, <2>3 DEF RequestUpload, UploadChosen, Typed, TypeOK
    <2>4. QED
        BY <2>1, <2>2, <2>3
<1>5. StoresGrow
    BY <1>1 DEF StoresGrow, Traced, RowsSound
<1>6. RowsFollow
    BY <1>1 DEF RowsFollow
<1>7. QED
    BY <1>3, <1>4, <1>5, <1>6, TracedKept

\* An upload puts the named archive, which was produced, into the bucket.
LEMMA UploadTracedKept ==
    ASSUME Typed, Traced, NEW b \in Backup, NEW r \in RunIds, Upload(b, r)
    PROVE  Traced'
<1>1. UNCHANGED <<row, produced, upload>>
    BY DEF Upload, storageRest
<1>2. upload[b] \in produced[b]
    BY DEF Upload, At, Typed, UploadNamed, Traced, UploadTraced
<1>3. /\ bucket' = bucket \/ bucket' = [bucket EXCEPT ![b] = @ \cup {upload[b]}]
      /\ \/ bucket' = [bucket EXCEPT ![b] = @ \cup {upload[b]}] /\ Goto("storage", b, r, "record")
         \/ Goto("storage", b, r, "throw")
    BY DEF Upload
<1>4. bucket \in [Backup -> SUBSET RunIds]
    BY DEF Typed, TypeOK
<1>5. StoresGrow
    BY <1>1, <1>2, <1>3, <1>4 DEF StoresGrow, Traced, RowsSound
<1>6. RunsFollow
    <2>1. "storage" \in Queues
        BY DEF Queues
    <2>2. CASE /\ bucket' = [bucket EXCEPT ![b] = @ \cup {upload[b]}]
               /\ Goto("storage", b, r, "record")
        <3>1. upload'[b] \in bucket'[b]
            BY <1>1, <1>4, <2>2
        <3>2. QED
            BY <2>1, <2>2, <3>1, PlainPlaces, Moved
    <2>3. CASE Goto("storage", b, r, "throw")
        BY <2>1, <2>3, PlainPlaces, Moved
    <2>4. QED
        BY <1>3, <2>2, <2>3
<1>7. UploadChosen /\ RowsFollow
    BY <1>1 DEF UploadChosen, RowsFollow
<1>8. QED
    BY <1>5, <1>6, <1>7, TracedKept

\* The stored object is recorded after its upload.
LEMMA RecordUploadTraced ==
    ASSUME Typed, Traced, NEW b \in Backup, NEW r \in RunIds, RecordUpload(b, r)
    PROVE  Traced'
<1>1. UNCHANGED <<produced, bucket, upload>>
    BY DEF RecordUpload, storageRest
<1>2. upload[b] \in bucket'[b]
    BY <1>1 DEF RecordUpload, At, Traced, RunsTraced
<1>3. RunsFollow
    <2>1. \E place \in {"announce", "throw"} : Goto("storage", b, r, place)
        BY DEF RecordUpload
    <2>2. QED
        BY <2>1, PlainPlaces, Moved DEF Queues
<1>4. RowsFollow
    <2>1. CASE UNCHANGED row
        BY <2>1 DEF RowsFollow
    <2>2. CASE SetRow(b, StoredAt(row[b], upload[b]))
        <3>1. row[b] \in Rows /\ upload[b] \in RunIds \cup {0}
            BY DEF Typed, TypeOK
        <3>2. StoredAt(row[b], upload[b]) \in Rows
            BY <3>1 DEF StoredAt, Rows
        <3>3. /\ StoredAt(row[b], upload[b]).status = row[b].status
              /\ StoredAt(row[b], upload[b]).file = row[b].file
              /\ StoredAt(row[b], upload[b]).stored = upload[b]
            BY <3>1 DEF StoredAt, Rows
        <3>4. QED
            BY <1>2, <2>2, <3>2, <3>3, RowReplaced
    <2>3. QED
        BY <2>1, <2>2 DEF RecordUpload, MaybeSetRow
<1>5. StoresGrow
    BY <1>1 DEF StoresGrow, Traced, RowsSound
<1>6. UploadChosen
    BY <1>1 DEF UploadChosen
<1>7. QED
    BY <1>3, <1>4, <1>5, <1>6, TracedKept

\* The remaining steps of the handlers touch neither rows nor archives.
LEMMA OtherTraced ==
    ASSUME Typed, Traced, NEW b \in Backup, NEW r \in RunIds,
           Lookup(b, r) \/ AnnounceUpload(b, r) \/ Send(b, r)
    PROVE  Traced'
<1>1. UNCHANGED <<row, produced, bucket, upload>>
    BY DEF Lookup, AnnounceUpload, Send, storageRest, notifyRest, storeVars
<1>2. \E q \in {"storage", "notify"},
         place \in {"announce", "upload", "throw", "return"} : Goto(q, b, r, place)
    BY DEF Lookup, AnnounceUpload, Send
<1>3. RunsFollow
    BY <1>2, PlainPlaces, Moved DEF Queues
<1>4. QED
    BY <1>1, <1>3, MarkedOnly

\* Every step keeps the rows traced to archives.
LEMMA NextTraced ==
    ASSUME PipelineAssumption, Typed, Traced, [Next]_vars
    PROVE  Traced'
<1>1. CASE OrchestratorStep
    <2>1. PICK b \in Backup : \/ CheckQueueSize(b) \/ CreateRow(b) \/ Enqueue(b)
                              \/ FailRequest(b) \/ OrchestratorCrash
        BY <1>1 DEF OrchestratorStep, OrchestratorCrash
    <2>2. QED
        BY <2>1, ClientTraced
<1>2. CASE CancelStep
    BY <1>2, ClientTraced DEF CancelStep
<1>3. CASE QueueStep
    <2>1. 1 \in RunIds
        BY PipelineAssumption DEF PipelineAssumption, RunIds, Queues
    <2>2. PICK q \in Queues, b \in Backup, r \in RunIds :
              Take(q, b) \/ Promote(q, b) \/ Stall(q, b) \/ Complete(q, b, r) \/ Reject(q, b, r)
        BY <1>3, <2>1 DEF QueueStep
    <2>3. QED
        BY <2>2, QueueTraced
<1>4. CASE HandlerStep
    <2>1. PICK b \in Backup, r \in RunIds :
              BackupHandler(b, r) \/ StorageHandler(b, r) \/ Send(b, r)
        BY <1>4 DEF HandlerStep
    <2>2. BackupHandler(b, r) => Traced'
        BY BackupMarks, DumpTraced, SuccessTraced, HandOffTraced DEF BackupHandler
    <2>3. StorageHandler(b, r) \/ Send(b, r) => Traced'
        BY UploadTracedKept, RecordUploadTraced, OtherTraced DEF StorageHandler
    <2>4. QED
        BY <2>1, <2>2, <2>3
<1>5. CASE WorkerCrash
    BY <1>5, CrashTraced
<1>6. CASE UNCHANGED vars
    BY <1>6, RunsQuiet, MarkedOnly DEF vars, storeVars
<1>7. QED
    BY <1>1, <1>2, <1>3, <1>4, <1>5, <1>6 DEF Next

(***************************************************************************)
(* The rows keep what BackupCatalogue promises: a row that says "success"  *)
(* names an archive that was produced, and one that names a stored object  *)
(* names one that is in the bucket, whatever the workers, the clients and  *)
(* the failing calls do meanwhile.                                         *)
(***************************************************************************)
THEOREM CatalogueIsSound == Spec => []CatalogueSound
<1>1. Spec => [](Typed /\ Traced)
    BY PipelineAssumption, InitTyped, TracedInit, NextTyped, NextTraced, PTL DEF Spec
<1>2. Traced => CatalogueSound
    BY DEF Traced, RowsSound, CatalogueSound, Catalogue!Sound
<1>3. QED
    BY <1>1, <1>2, PTL

-----------------------------------------------------------------------------
(***************************************************************************)
(* A step of one backup leaves the others alone.                           *)
(***************************************************************************)
LeavesOthers(b) ==
    \A c \in Backup \ {b} :
        /\ request'[c] = request[c] /\ cancel'[c] = cancel[c]
        /\ row'[c] = row[c]
        /\ \A q \in Queues : /\ job'[q][c] = job[q][c]
                             /\ starts'[q][c] = starts[q][c]
                             /\ run'[q][c] = run[q][c]
        /\ upload'[c] = upload[c] /\ notice'[c] = notice[c]
        /\ produced'[c] = produced[c] /\ bucket'[c] = bucket[c]

\* What is written at one backup is read unchanged at the others.
LEMMA WritesLocal ==
    ASSUME Typed, NEW b \in Backup, NEW c \in Backup \ {b}
    PROVE  /\ \A v : SetRow(b, v) => row'[c] = row[c]
           /\ \A q \in Queues, p \in Queues : \A j : SetJob(q, b, j) => job'[p][c] = job[p][c]
           /\ \A q \in Queues, p \in Queues : \A r, place :
                  Goto(q, b, r, place) => run'[p][c] = run[p][c]
<1>1. \A v : SetRow(b, v) => row'[c] = row[c]
    BY DEF Typed, TypeOK, SetRow
<1>2. \A q \in Queues, p \in Queues : \A j : SetJob(q, b, j) => job'[p][c] = job[p][c]
    BY DEF Typed, TypeOK, SetJob
<1>3. \A q \in Queues, p \in Queues : \A r, place :
          Goto(q, b, r, place) => run'[p][c] = run[p][c]
    BY DEF Typed, TypeOK, Goto
<1>4. QED
    BY <1>1, <1>2, <1>3

\* The orchestrator's handlers and the cancellers.
LEMMA ClientLocal ==
    ASSUME Typed, NEW b \in Backup,
           \/ CheckQueueSize(b) \/ CreateRow(b) \/ Enqueue(b) \/ FailRequest(b)
           \/ RemoveFromQueue(b) \/ DashboardCheck(b) \/ DashboardRemove(b)
           \/ MarkCancelled(b)
    PROVE  LeavesOthers(b)
<1>1. UNCHANGED <<starts, run, upload, notice, produced, bucket>>
    BY DEF CheckQueueSize, CreateRow, Enqueue, FailRequest, RemoveFromQueue,
           DashboardCheck, DashboardRemove, MarkCancelled, requestRest, cancelRest, storeVars
<1>2. /\ UNCHANGED row \/ \E v : SetRow(b, v)
      /\ UNCHANGED job \/ \E j : SetJob("backup", b, j)
    BY DEF CheckQueueSize, CreateRow, Enqueue, FailRequest, RemoveFromQueue,
           DashboardCheck, DashboardRemove, MarkCancelled, MaybeSetRow
<1>3. /\ request' = request \/ \E place : request' = [request EXCEPT ![b] = place]
      /\ cancel' = cancel \/ \E place : cancel' = [cancel EXCEPT ![b] = place]
    BY DEF CheckQueueSize, CreateRow, Enqueue, FailRequest, RemoveFromQueue,
           DashboardCheck, DashboardRemove, MarkCancelled, requestRest, cancelRest
<1>4. ASSUME NEW c \in Backup \ {b}
      PROVE  /\ request'[c] = request[c] /\ cancel'[c] = cancel[c] /\ row'[c] = row[c]
             /\ \A q \in Queues : job'[q][c] = job[q][c]
    <2>1. request'[c] = request[c] /\ cancel'[c] = cancel[c]
        BY <1>3 DEF Typed, TypeOK
    <2>2. row'[c] = row[c]
        BY <1>2, WritesLocal
    <2>3. \A q \in Queues : job'[q][c] = job[q][c]
        BY <1>2, WritesLocal DEF Queues
    <2>4. QED
        BY <2>1, <2>2, <2>3
<1>5. QED
    BY <1>1, <1>4 DEF LeavesOthers

\* The queues' steps.
LEMMA QueueLocal ==
    ASSUME Typed, NEW q \in Queues, NEW b \in Backup, NEW r \in RunIds,
           Take(q, b) \/ Promote(q, b) \/ Stall(q, b) \/ Complete(q, b, r) \/ Reject(q, b, r)
    PROVE  LeavesOthers(b)
<1>1. UNCHANGED <<request, cancel, row, upload, notice, produced, bucket>>
    BY DEF Take, Promote, Stall, Complete, Reject, workerRest, clientVars, storeVars
<1>2. /\ \E j : SetJob(q, b, j)
      /\ UNCHANGED run \/ \E i, place : Goto(q, b, i, place)
      /\ starts' = starts \/ starts' = [starts EXCEPT ![q][b] = @ + 1]
    BY DEF Take, Promote, Stall, Complete, Reject
<1>3. ASSUME NEW c \in Backup \ {b}, NEW p \in Queues
      PROVE  /\ job'[p][c] = job[p][c]
             /\ starts'[p][c] = starts[p][c]
             /\ run'[p][c] = run[p][c]
    <2>1. job'[p][c] = job[p][c]
        BY <1>2, WritesLocal
    <2>2. run'[p][c] = run[p][c]
        BY <1>2, WritesLocal
    <2>3. starts'[p][c] = starts[p][c]
        <3>1. starts \in [Queues -> [Backup -> Nat]]
            BY DEF Typed, TypeOK
        <3>2. QED
            BY <1>2, <3>1
    <2>4. QED
        BY <2>1, <2>2, <2>3
<1>4. QED
    BY <1>1, <1>3 DEF LeavesOthers

\* The steps of the handlers.
LEMMA HandlerLocal ==
    ASSUME Typed, NEW b \in Backup, NEW r \in RunIds,
           BackupHandler(b, r) \/ StorageHandler(b, r) \/ Send(b, r)
    PROVE  LeavesOthers(b)
<1>1. UNCHANGED <<request, cancel, starts>>
    BY DEF BackupHandler, SetRunning, Dump, SetSuccess, HandOff, SetFailed, NoteFailure,
           StorageHandler, Lookup, Upload, RecordUpload, AnnounceUpload, Send,
           backupRest, storageRest, notifyRest, clientVars
<1>2. /\ UNCHANGED row \/ \E v : SetRow(b, v)
      /\ UNCHANGED job \/ \E q \in Queues : \E j : SetJob(q, b, j)
      /\ \E q \in Queues : \E place : Goto(q, b, r, place)
    BY DEF BackupHandler, SetRunning, Dump, SetSuccess, HandOff, HandOffTo, SetFailed,
           NoteFailure, StorageHandler, Lookup, Upload, RecordUpload, AnnounceUpload,
           Send, Announce, RequestUpload, MaybeSetRow, notifyRest, Queues
<1>3. /\ upload' = upload \/ \E v : upload' = [upload EXCEPT ![b] = v]
      /\ notice' = notice \/ \E v : notice' = [notice EXCEPT ![b] = v]
      /\ produced' = produced \/ \E v : produced' = [produced EXCEPT ![b] = v]
      /\ bucket' = bucket \/ \E v : bucket' = [bucket EXCEPT ![b] = v]
    BY DEF BackupHandler, SetRunning, Dump, SetSuccess, HandOff, HandOffTo, SetFailed,
           NoteFailure, StorageHandler, Lookup, Upload, RecordUpload, AnnounceUpload,
           Send, Announce, RequestUpload, backupRest, storageRest, notifyRest, storeVars
<1>4. ASSUME NEW c \in Backup \ {b}
      PROVE  /\ row'[c] = row[c]
             /\ \A p \in Queues : job'[p][c] = job[p][c] /\ run'[p][c] = run[p][c]
             /\ upload'[c] = upload[c] /\ notice'[c] = notice[c]
             /\ produced'[c] = produced[c] /\ bucket'[c] = bucket[c]
    <2>1. row'[c] = row[c]
        BY <1>2, WritesLocal
    <2>2. \A p \in Queues : job'[p][c] = job[p][c]
        BY <1>2, WritesLocal
    <2>3. \A p \in Queues : run'[p][c] = run[p][c]
        BY <1>2, WritesLocal
    <2>4. /\ upload'[c] = upload[c] /\ notice'[c] = notice[c]
          /\ produced'[c] = produced[c] /\ bucket'[c] = bucket[c]
        BY <1>3 DEF Typed, TypeOK
    <2>5. QED
        BY <2>1, <2>2, <2>3, <2>4
<1>5. QED
    BY <1>1, <1>4 DEF LeavesOthers

-----------------------------------------------------------------------------
(***************************************************************************)
(* The row comes first.  A backup without its row has got no further than  *)
(* the first await of the request: there is no job, no run, no canceller   *)
(* that has passed its check.                                              *)
(***************************************************************************)
Unmade(c) ==
    /\ request[c] \notin {"created", "accepted"}
    /\ cancel[c] \notin {"removing", "marking"}
    /\ \A q \in Queues : /\ job[q][c].state = "absent"
                         /\ \A i \in RunIds : run[q][c][i] = "idle"

RowFirst == \A c \in Backup : row[c].status = "absent" => Unmade(c)

(***************************************************************************)
(* A run's number is its own: a run that has not dumped yet finds no       *)
(* archive under the name it is going to use.                              *)
(***************************************************************************)
BeforeDump == {"idle", "setRunning", "dump"}

NumbersFresh ==
    \A c \in Backup :
        /\ \A q \in Queues, i \in RunIds : i > starts[q][c] => run[q][c][i] = "idle"
        /\ \A i \in RunIds : run["backup"][c][i] \in BeforeDump => i \notin produced[c]

\* What the steps of the pipeline do to a row, its archives and objects.
Opens(b) == SetRow(b, Marked(row[b], "running")) /\ UNCHANGED storeVars

Marks(b) ==
    /\ row[b].status # "absent"
    /\ \E s \in {"running", "failed", "cancelled"} : SetRow(b, Marked(row[b], s))
    /\ UNCHANGED storeVars

Records(b, f) ==
    /\ row[b].status # "absent"
    /\ f \in produced[b]
    /\ SetRow(b, Recorded(row[b], f))
    /\ UNCHANGED storeVars

RecordsStored(b, f) ==
    /\ row[b].status # "absent"
    /\ f \in bucket[b]
    /\ SetRow(b, StoredAt(row[b], f))
    /\ UNCHANGED storeVars

Produces(b, f) ==
    /\ f \notin produced[b]
    /\ produced' = [produced EXCEPT ![b] = @ \cup {f}]
    /\ UNCHANGED <<row, bucket>>

Stores(b, f) ==
    /\ f \in produced[b]
    /\ bucket' = [bucket EXCEPT ![b] = @ \cup {f}]
    /\ UNCHANGED <<row, produced>>

CatalogueStep(b) ==
    \/ UNCHANGED <<row, produced, bucket>>
    \/ Opens(b) \/ Marks(b)
    \/ \E f \in RunIds : Records(b, f) \/ RecordsStored(b, f) \/ Produces(b, f) \/ Stores(b, f)

\* The orchestrator and the cancellers open a row or mark it.
LEMMA ClientCatalogue ==
    ASSUME Typed, RowFirst, NEW b \in Backup,
           \/ CheckQueueSize(b) \/ CreateRow(b) \/ Enqueue(b) \/ FailRequest(b)
           \/ OrchestratorCrash
           \/ RemoveFromQueue(b) \/ DashboardCheck(b) \/ DashboardRemove(b)
           \/ MarkCancelled(b)
    PROVE  CatalogueStep(b)
<1>1. UNCHANGED storeVars
    BY DEF CheckQueueSize, CreateRow, Enqueue, FailRequest, OrchestratorCrash,
           RemoveFromQueue, DashboardCheck, DashboardRemove, MarkCancelled,
           requestRest, cancelRest, storeVars
<1>2. \/ UNCHANGED row
      \/ SetRow(b, Marked(row[b], "running"))
      \/ SetRow(b, Marked(row[b], "failed")) /\ row[b].status # "absent"
      \/ SetRow(b, Marked(row[b], "cancelled")) /\ cancel[b] = "marking"
    BY DEF CheckQueueSize, CreateRow, Enqueue, FailRequest, OrchestratorCrash,
           RemoveFromQueue, DashboardCheck, DashboardRemove, MarkCancelled, MaybeSetRow
<1>3. cancel[b] = "marking" => row[b].status # "absent"
    BY DEF RowFirst, Unmade
<1>4. QED
    BY <1>1, <1>2, <1>3 DEF CatalogueStep, Opens, Marks, storeVars

\* A handler runs only for a backup that has its row.
LEMMA HandlerHasRow ==
    ASSUME RowFirst, NEW q \in Queues, NEW b \in Backup, NEW r \in RunIds,
           run[q][b][r] # "idle"
    PROVE  row[b].status # "absent"
    BY DEF RowFirst, Unmade

\* Each step of the handlers is one step of the catalogue, or none.
LEMMA HandlerCatalogue ==
    ASSUME Typed, Traced, RowFirst, NumbersFresh, NEW b \in Backup, NEW r \in RunIds,
           BackupHandler(b, r) \/ StorageHandler(b, r) \/ Send(b, r)
    PROVE  CatalogueStep(b)
<1>1. row[b].status # "absent"
    <2>1. \E q \in Queues : run[q][b][r] # "idle"
        BY DEF BackupHandler, SetRunning, Dump, SetSuccess, HandOff, SetFailed, NoteFailure,
               StorageHandler, Lookup, Upload, RecordUpload, AnnounceUpload, Send, At, Queues
    <2>2. QED
        BY <2>1, HandlerHasRow
<1>2. CASE SetRunning(b, r) \/ SetFailed(b, r)
    BY <1>1, <1>2 DEF SetRunning, SetFailed, MaybeSetRow, backupRest, storeVars,
                      CatalogueStep, Marks
<1>3. CASE Dump(b, r)
    <2>1. r \notin produced[b]
        BY <1>3 DEF Dump, At, NumbersFresh, BeforeDump
    <2>2. QED
        BY <1>3, <2>1 DEF Dump, backupRest, CatalogueStep, Produces
<1>4. CASE SetSuccess(b, r)
    <2>1. r \in produced[b]
        BY <1>4 DEF SetSuccess, At, Traced, RunsTraced, DumpDone
    <2>2. QED
        BY <1>1, <1>4, <2>1 DEF SetSuccess, MaybeSetRow, backupRest, storeVars,
                                CatalogueStep, Records
<1>5. CASE \/ HandOff(b, r) \/ NoteFailure(b, r)
           \/ Lookup(b, r) \/ AnnounceUpload(b, r) \/ Send(b, r)
    BY <1>5 DEF HandOff, NoteFailure, Lookup, AnnounceUpload, Send, backupRest,
                storageRest, notifyRest, storeVars, CatalogueStep
<1>6. CASE Upload(b, r)
    <2>1. upload[b] \in produced[b]
        BY <1>6 DEF Upload, At, Typed, UploadNamed, Traced, UploadTraced
    <2>2. upload[b] \in RunIds
        BY <2>1 DEF Typed, TypeOK
    <2>3. UNCHANGED <<row, produced>>
        BY <1>6 DEF Upload, storageRest
    <2>4. bucket' = bucket \/ bucket' = [bucket EXCEPT ![b] = @ \cup {upload[b]}]
        BY <1>6 DEF Upload
    <2>5. QED
        BY <2>1, <2>2, <2>3, <2>4 DEF CatalogueStep, Stores
<1>7. CASE RecordUpload(b, r)
    <2>1. upload[b] \in bucket[b]
        BY <1>7 DEF RecordUpload, At, Traced, RunsTraced
    <2>2. upload[b] \in RunIds
        BY <2>1 DEF Typed, TypeOK
    <2>3. UNCHANGED storeVars
        BY <1>7 DEF RecordUpload, storageRest, storeVars
    <2>4. UNCHANGED row \/ SetRow(b, StoredAt(row[b], upload[b]))
        BY <1>7 DEF RecordUpload, MaybeSetRow
    <2>5. QED
        BY <1>1, <2>1, <2>2, <2>3, <2>4 DEF CatalogueStep, RecordsStored, storeVars
<1>8. QED
    BY <1>2, <1>3, <1>4, <1>5, <1>6, <1>7 DEF BackupHandler, StorageHandler

\* So is every step of the pipeline.
LEMMA NextCatalogue ==
    ASSUME PipelineAssumption, Typed, Traced, RowFirst, NumbersFresh, [Next]_vars
    PROVE  UNCHANGED <<row, produced, bucket>> \/ \E b \in Backup : CatalogueStep(b)
<1>1. CASE OrchestratorStep
    <2>1. PICK b \in Backup : \/ CheckQueueSize(b) \/ CreateRow(b) \/ Enqueue(b)
                              \/ FailRequest(b) \/ OrchestratorCrash
        BY <1>1 DEF OrchestratorStep, OrchestratorCrash
    <2>2. QED
        BY <2>1, ClientCatalogue
<1>2. CASE CancelStep
    BY <1>2, ClientCatalogue DEF CancelStep
<1>3. CASE QueueStep \/ WorkerCrash
    BY <1>3 DEF QueueStep, Take, Promote, Stall, Complete, Reject, WorkerCrash,
                workerRest, storeVars
<1>4. CASE HandlerStep
    BY <1>4, HandlerCatalogue DEF HandlerStep
<1>5. CASE UNCHANGED vars
    BY <1>5 DEF vars, storeVars
<1>6. QED
    BY <1>1, <1>2, <1>3, <1>4, <1>5 DEF Next

\* No step of the catalogue takes a row back.
LEMMA RowsStay ==
    ASSUME Typed, NEW b \in Backup, CatalogueStep(b), NEW c \in Backup,
           row'[c].status = "absent"
    PROVE  row[c].status = "absent"
<1>1. row \in [Backup -> Rows]
    BY DEF Typed, TypeOK
<1>2. \/ UNCHANGED row
      \/ \E v \in Rows : SetRow(b, v) /\ (v.status # "absent" \/ v.status = row[b].status)
    <2>1. row[b] \in Rows
        BY <1>1
    <2>2. \A s \in {"running", "failed", "cancelled"} :
              Marked(row[b], s) \in Rows /\ Marked(row[b], s).status # "absent"
        BY <2>1 DEF Marked, Rows, RowStatus
    <2>3. \A f \in RunIds :
              /\ Recorded(row[b], f) \in Rows /\ Recorded(row[b], f).status # "absent"
              /\ StoredAt(row[b], f) \in Rows /\ StoredAt(row[b], f).status = row[b].status
        BY <2>1 DEF Recorded, StoredAt, Rows, RowStatus
    <2>4. QED
        BY <2>2, <2>3 DEF CatalogueStep, Opens, Marks, Records, RecordsStored, Produces, Stores
<1>3. QED
    BY <1>1, <1>2, RowStored

\* Backups other than the one a step is about.
LEMMA RowFirstElsewhere ==
    ASSUME Typed, RowFirst, NEW b \in Backup, LeavesOthers(b),
           NEW c \in Backup, c # b, row'[c].status = "absent"
    PROVE  Unmade(c)'
<1>1. c \in Backup \ {b}
    OBVIOUS
<1>2. row[c].status = "absent"
    BY <1>1 DEF LeavesOthers
<1>3. Unmade(c)
    BY <1>2 DEF RowFirst
<1>4. QED
    BY <1>1, <1>3 DEF Unmade, LeavesOthers

\* The request makes the row before the job; every other step finds one of them.
LEMMA ClientRowFirst ==
    ASSUME Typed, RowFirst, NEW b \in Backup,
           \/ CheckQueueSize(b) \/ CreateRow(b) \/ Enqueue(b) \/ FailRequest(b)
           \/ RemoveFromQueue(b) \/ DashboardCheck(b) \/ DashboardRemove(b)
           \/ MarkCancelled(b)
    PROVE  RowFirst'
<1>1. LeavesOthers(b)
    BY ClientLocal
<1>2. CatalogueStep(b)
    BY ClientCatalogue
<1>3. ASSUME row'[b].status = "absent" PROVE Unmade(b)'
    <2>1. row[b].status = "absent" /\ Unmade(b)
        BY <1>2, <1>3, RowsStay DEF RowFirst
    <2>2. /\ request \in [Backup -> RequestPlaces]
          /\ row \in [Backup -> Rows]
          /\ "backup" \in Queues
        BY DEF Typed, TypeOK, Queues
    <2>3. ~(\/ Enqueue(b) \/ RemoveFromQueue(b) \/ DashboardCheck(b)
            \/ DashboardRemove(b) \/ MarkCancelled(b))
        BY <2>1, <2>2 DEF Unmade, Enqueue, RemoveFromQueue, DashboardCheck,
                          DashboardRemove, MarkCancelled
    <2>4. UNCHANGED <<cancel, job, run>>
        BY <2>3 DEF CheckQueueSize, CreateRow, FailRequest, requestRest
    <2>5. request'[b] \notin {"created", "accepted"}
        <3>1. CASE CheckQueueSize(b) \/ FailRequest(b)
            BY <2>2, <3>1 DEF CheckQueueSize, FailRequest
        <3>2. CASE CreateRow(b)
            <4>1. ~SetRow(b, Marked(row[b], "running"))
                BY <1>3, <2>2 DEF SetRow, Marked, Rows
            <4>2. QED
                BY <2>2, <3>2, <4>1 DEF CreateRow
        <3>3. QED
            BY <2>3, <3>1, <3>2
    <2>6. QED
        BY <2>1, <2>4, <2>5 DEF Unmade
<1>4. QED
    BY <1>1, <1>3, RowFirstElsewhere DEF RowFirst

\* Every step keeps the order of row and job.
LEMMA NextRowFirst ==
    ASSUME PipelineAssumption, Typed, Traced, RowFirst, NumbersFresh, [Next]_vars
    PROVE  RowFirst'
<1>1. CASE OrchestratorStep
    <2>1. CASE OrchestratorCrash
        BY <2>1 DEF OrchestratorCrash, requestRest, RowFirst, Unmade, Typed, TypeOK
    <2>2. QED
        BY <1>1, <2>1, ClientRowFirst DEF OrchestratorStep
<1>2. CASE CancelStep
    BY <1>2, ClientRowFirst DEF CancelStep
<1>3. CASE QueueStep
    <2>1. 1 \in RunIds
        BY PipelineAssumption DEF PipelineAssumption, RunIds, Queues
    <2>2. PICK q \in Queues, b \in Backup, r \in RunIds :
              Take(q, b) \/ Promote(q, b) \/ Stall(q, b) \/ Complete(q, b, r) \/ Reject(q, b, r)
        BY <1>3, <2>1 DEF QueueStep
    <2>3. LeavesOthers(b)
        BY <2>2, QueueLocal
    <2>4. ~Unmade(b)
        BY <2>2 DEF Unmade, Take, Promote, Stall, Complete, Reject, At
    <2>5. UNCHANGED row
        BY <2>2 DEF Take, Promote, Stall, Complete, Reject, workerRest
    <2>6. QED
        BY <2>3, <2>4, <2>5, RowFirstElsewhere DEF RowFirst
<1>4. CASE HandlerStep
    <2>1. PICK b \in Backup, r \in RunIds :
              BackupHandler(b, r) \/ StorageHandler(b, r) \/ Send(b, r)
        BY <1>4 DEF HandlerStep
    <2>2. LeavesOthers(b) /\ CatalogueStep(b)
        BY <2>1, HandlerLocal, HandlerCatalogue
    <2>3. ~Unmade(b)
        BY <2>1 DEF Unmade, BackupHandler, SetRunning, Dump, SetSuccess, HandOff, SetFailed,
                    NoteFailure, StorageHandler, Lookup, Upload, RecordUpload,
                    AnnounceUpload, Send, At, Queues
    <2>4. row'[b].status # "absent"
        BY <2>2, <2>3, RowsStay DEF RowFirst
    <2>5. QED
        BY <2>2, <2>4, RowFirstElsewhere DEF RowFirst
<1>5. CASE WorkerCrash
    BY <1>5 DEF WorkerCrash, workerRest, clientVars, RowFirst, Unmade, Dead
<1>6. CASE UNCHANGED vars
    BY <1>6 DEF vars, RowFirst, Unmade
<1>7. QED
    BY <1>1, <1>2, <1>3, <1>4, <1>5, <1>6 DEF Next

-----------------------------------------------------------------------------
\* A run that moves keeps the numbers of the others; once past the dump it
\* owes nothing.
LEMMA NumbersElsewhere ==
    ASSUME NumbersFresh, NEW b \in Backup, LeavesOthers(b), NEW c \in Backup, c # b
    PROVE  /\ \A q \in Queues, i \in RunIds : i > starts'[q][c] => run'[q][c][i] = "idle"
           /\ \A i \in RunIds : run'["backup"][c][i] \in BeforeDump => i \notin produced'[c]
<1>1. c \in Backup \ {b} /\ "backup" \in Queues
    BY DEF Queues
<1>2. QED
    BY <1>1 DEF NumbersFresh, LeavesOthers

\* The queues hand out numbers in order, the handlers use up their own.
LEMMA QueueNumbers ==
    ASSUME Typed, NumbersFresh, NEW q \in Queues, NEW b \in Backup, NEW r \in RunIds,
           Take(q, b) \/ Promote(q, b) \/ Stall(q, b) \/ Complete(q, b, r) \/ Reject(q, b, r)
    PROVE  NumbersFresh'
<1>1. /\ run \in [Queues -> [Backup -> [RunIds -> Places]]]
      /\ starts \in [Queues -> [Backup -> Nat]]
      /\ RunIds \subseteq Nat
      /\ "backup" \in Queues
    BY DEF Typed, TypeOK, RunIds, Queues
<1>2. UNCHANGED produced
    BY DEF Take, Promote, Stall, Complete, Reject, workerRest, storeVars
<1>3. /\ \A p \in Queues, i \in RunIds : i > starts'[p][b] => run'[p][b][i] = "idle"
      /\ \A i \in RunIds : run'["backup"][b][i] \in BeforeDump => i \notin produced'[b]
    <2>1. CASE Take(q, b)
        <3> DEFINE n == starts[q][b] + 1
        <3>1. /\ starts'[q][b] = n
              /\ \A p \in Queues : p # q => starts'[p][b] = starts[p][b]
              /\ n \in Nat
            BY <1>1, <2>1 DEF Take
        <3>2. \A p \in Queues, i \in RunIds : p # q \/ i # n => run'[p][b][i] = run[p][b][i]
            BY <1>1, <2>1, RunMoved, PlacesReached DEF Take
        <3>3. \A p \in Queues, i \in RunIds : i > starts'[p][b] => run'[p][b][i] = "idle"
            <4> SUFFICES ASSUME NEW p \in Queues, NEW i \in RunIds, i > starts'[p][b]
                         PROVE  run'[p][b][i] = "idle"
                OBVIOUS
            <4>1. i \in Nat /\ starts[p][b] \in Nat
                BY <1>1
            <4>2. (p # q \/ i # n) /\ i > starts[p][b]
                BY <3>1, <4>1
            <4>3. QED
                BY <3>2, <4>2 DEF NumbersFresh
        <3>4. \A i \in RunIds : run'["backup"][b][i] \in BeforeDump => i \notin produced[b]
            BY <1>1, <3>1, <3>2 DEF NumbersFresh, BeforeDump
        <3>5. QED
            BY <1>2, <3>3, <3>4
    <2>2. CASE Promote(q, b) \/ Stall(q, b)
        BY <1>2, <2>2 DEF Promote, Stall, NumbersFresh
    <2>3. CASE Complete(q, b, r) \/ Reject(q, b, r)
        <3>1. /\ run[q][b][r] \notin BeforeDump
              /\ UNCHANGED starts
              /\ Goto(q, b, r, "over")
            BY <2>3 DEF Complete, Reject, At, BeforeDump
        <3>2. /\ run'[q][b][r] = "over"
              /\ \A p \in Queues, i \in RunIds : p # q \/ i # r => run'[p][b][i] = run[p][b][i]
            BY <1>1, <3>1, RunMoved, PlacesReached
        <3>3. \A p \in Queues, i \in RunIds : i > starts'[p][b] => run'[p][b][i] = "idle"
            BY <3>1, <3>2 DEF NumbersFresh, BeforeDump
        <3>4. \A i \in RunIds : run'["backup"][b][i] \in BeforeDump => i \notin produced'[b]
            BY <1>1, <1>2, <3>2 DEF NumbersFresh, BeforeDump
        <3>5. QED
            BY <3>3, <3>4
    <2>4. QED
        BY <2>1, <2>2, <2>3
<1>4. LeavesOthers(b)
    BY QueueLocal
<1>5. QED
    BY <1>3, <1>4, NumbersElsewhere DEF NumbersFresh

\* A handler's step moves one live run; only the dump, which produces the archive
\* of its own run, leaves the places before the dump with an archive more.
LEMMA HandlerNumbers ==
    ASSUME Typed, NumbersFresh, NEW b \in Backup, NEW r \in RunIds,
           BackupHandler(b, r) \/ StorageHandler(b, r) \/ Send(b, r)
    PROVE  NumbersFresh'
<1>1. /\ run \in [Queues -> [Backup -> [RunIds -> Places]]]
      /\ produced \in [Backup -> SUBSET RunIds]
      /\ "backup" \in Queues
    BY DEF Typed, TypeOK, Queues
<1>2. UNCHANGED starts
    BY DEF BackupHandler, SetRunning, Dump, SetSuccess, HandOff, SetFailed, NoteFailure,
           StorageHandler, Lookup, Upload, RecordUpload, AnnounceUpload, Send,
           backupRest, storageRest, notifyRest
<1>3. PICK q \in Queues, place \in Places :
          /\ run[q][b][r] \notin Dead
          /\ Goto(q, b, r, place)
          /\ \/ produced' = produced
                /\ (q = "backup" /\ place \in BeforeDump => run[q][b][r] \in BeforeDump)
             \/ /\ produced' = [produced EXCEPT ![b] = @ \cup {r}]
                /\ q = "backup" /\ place \notin BeforeDump
    <2>1. ASSUME SetRunning(b, r) \/ SetSuccess(b, r) \/ HandOff(b, r)
                 \/ SetFailed(b, r) \/ NoteFailure(b, r)
          PROVE  /\ run["backup"][b][r] \notin Dead
                 /\ produced' = produced
                 /\ \E place \in Places : /\ Goto("backup", b, r, place)
                                          /\ place \in BeforeDump => run["backup"][b][r] \in BeforeDump
        BY <2>1, PlacesReached DEF SetRunning, SetSuccess, HandOff, SetFailed, NoteFailure,
                                   At, Dead, BeforeDump, backupRest
    <2>2. ASSUME Dump(b, r)
          PROVE  /\ run["backup"][b][r] \notin Dead
                 /\ \E place \in Places :
                        /\ Goto("backup", b, r, place) /\ place \notin BeforeDump
                        /\ \/ produced' = produced
                           \/ produced' = [produced EXCEPT ![b] = @ \cup {r}]
        BY <2>2, PlacesReached DEF Dump, At, Dead, BeforeDump
    <2>3. ASSUME StorageHandler(b, r)
          PROVE  /\ run["storage"][b][r] \notin Dead
                 /\ produced' = produced
                 /\ \E place \in Places : Goto("storage", b, r, place)
        BY <2>3, PlacesReached DEF StorageHandler, Lookup, Upload, RecordUpload,
                                   AnnounceUpload, At, Dead, storageRest
    <2>4. ASSUME Send(b, r)
          PROVE  /\ run["notify"][b][r] \notin Dead
                 /\ produced' = produced
                 /\ \E place \in Places : Goto("notify", b, r, place)
        BY <2>4, PlacesReached DEF Send, At, Dead, notifyRest, storeVars
    <2>5. "storage" \in Queues /\ "notify" \in Queues
        BY DEF Queues
    <2>6. QED
        BY <1>1, <2>1, <2>2, <2>3, <2>4, <2>5 DEF BackupHandler
<1>4. /\ run'[q][b][r] = place
      /\ \A p \in Queues, i \in RunIds : p # q \/ i # r => run'[p][b][i] = run[p][b][i]
    BY <1>1, <1>3, RunMoved
<1>5. \A p \in Queues, i \in RunIds : i > starts'[p][b] => run'[p][b][i] = "idle"
    BY <1>2, <1>3, <1>4 DEF NumbersFresh, Dead
<1>6. \A i \in RunIds : run'["backup"][b][i] \in BeforeDump => i \notin produced'[b]
    BY <1>1, <1>3, <1>4 DEF NumbersFresh
<1>7. LeavesOthers(b)
    BY HandlerLocal
<1>8. QED
    BY <1>5, <1>6, <1>7, NumbersElsewhere DEF NumbersFresh

\* Every step keeps the numbers of the runs apart.
LEMMA NextNumbers ==
    ASSUME PipelineAssumption, Typed, NumbersFresh, [Next]_vars
    PROVE  NumbersFresh'
<1>1. CASE OrchestratorStep \/ CancelStep \/ UNCHANGED vars
    <2>1. UNCHANGED <<run, starts, produced>>
        BY <1>1 DEF OrchestratorStep, CancelStep, CheckQueueSize, CreateRow, Enqueue,
                    FailRequest, OrchestratorCrash, RemoveFromQueue, DashboardCheck,
                    DashboardRemove, MarkCancelled, requestRest, cancelRest, storeVars, vars
    <2>2. QED
        BY <2>1 DEF NumbersFresh
<1>2. CASE QueueStep
    <2>1. 1 \in RunIds
        BY PipelineAssumption DEF PipelineAssumption, RunIds, Queues
    <2>2. PICK q \in Queues, b \in Backup, r \in RunIds :
              Take(q, b) \/ Promote(q, b) \/ Stall(q, b) \/ Complete(q, b, r) \/ Reject(q, b, r)
        BY <1>2, <2>1 DEF QueueStep
    <2>3. QED
        BY <2>2, QueueNumbers
<1>3. CASE HandlerStep
    BY <1>3, HandlerNumbers DEF HandlerStep
<1>4. CASE WorkerCrash
    BY <1>4 DEF WorkerCrash, workerRest, storeVars, NumbersFresh, Dead, BeforeDump, Queues
<1>5. QED
    BY <1>1, <1>2, <1>3, <1>4 DEF Next

-----------------------------------------------------------------------------
\* What every reachable state satisfies.
Charted == Typed /\ Traced /\ RowFirst /\ NumbersFresh

\* The invariant holds throughout.
LEMMA AlwaysCharted == Spec => []Charted
<1>1. Init => RowFirst
    BY DEF Init, RowFirst, Unmade, NoJob
<1>2. Init => NumbersFresh
    BY DEF Init, NumbersFresh, Queues
<1>3. QED
    BY PipelineAssumption, <1>1, <1>2, InitTyped, TracedInit, NextTyped, NextTraced,
       NextRowFirst, NextNumbers, PTL DEF Spec, Charted

(***************************************************************************)
(* A job in any of the queues has its metadata row, whatever request,      *)
(* cancellation, crash or failed call came first: no handler's PATCH meets *)
(* the 404 that would fail every attempt.                                  *)
(***************************************************************************)
THEOREM JobsHaveRows == Spec => []JobHasRow
<1>1. Charted => JobHasRow
    BY DEF Charted, RowFirst, Unmade, JobHasRow
<1>2. QED
    BY <1>1, AlwaysCharted, PTL

\* The steps that the catalogue allows are its own.
LEMMA CatalogueAllows ==
    ASSUME Typed, NEW b \in Backup, CatalogueStep(b)
    PROVE  [Catalogue!Next]_Catalogue!vars
<1>1. /\ row \in [Backup -> Rows]
      /\ row[b] \in Rows
    BY DEF Typed, TypeOK
<1>2. CASE UNCHANGED <<row, produced, bucket>>
    BY <1>2 DEF Catalogue!vars
<1>3. CASE Opens(b)
    BY <1>3 DEF Opens, SetRow, Marked, storeVars, Catalogue!Next, Catalogue!Open, Catalogue!Mark
<1>4. CASE Marks(b)
    BY <1>4 DEF Marks, SetRow, Marked, storeVars, Catalogue!Next, Catalogue!Mark
<1>5. ASSUME NEW f \in RunIds, Records(b, f) PROVE Catalogue!Next
    BY <1>5 DEF Records, SetRow, Recorded, storeVars, Catalogue!Next, Catalogue!Record
<1>6. ASSUME NEW f \in RunIds, RecordsStored(b, f) PROVE Catalogue!Next
    BY <1>6 DEF RecordsStored, SetRow, StoredAt, storeVars, Catalogue!Next, Catalogue!RecordStored
<1>7. ASSUME NEW f \in RunIds, Produces(b, f) PROVE Catalogue!Next
    BY <1>7 DEF Produces, Catalogue!Next, Catalogue!Produce
<1>8. ASSUME NEW f \in RunIds, Stores(b, f) PROVE Catalogue!Next
    BY <1>8 DEF Stores, Catalogue!Next, Catalogue!Store
<1>9. QED
    BY <1>2, <1>3, <1>4, <1>5, <1>6, <1>7, <1>8 DEF CatalogueStep

(***************************************************************************)
(* The pipeline implements the catalogue: seen through the metadata rows   *)
(* and the stores, whatever happens is a sequence of rows opened, marked,  *)
(* and given archives that exist.                                          *)
(***************************************************************************)
THEOREM PipelineImplementsCatalogue == Spec => ImplementsCatalogue
<1>1. Init => Catalogue!Init
    BY DEF Init, Catalogue!Init, NoRow, Catalogue!NoRow
<1>2. Charted /\ [Next]_vars => [Catalogue!Next]_Catalogue!vars
    BY PipelineAssumption, NextCatalogue, CatalogueAllows DEF Charted, Catalogue!vars
<1>3. QED
    BY <1>1, <1>2, AlwaysCharted, PTL DEF Spec, ImplementsCatalogue, Catalogue!Spec

-----------------------------------------------------------------------------
(***************************************************************************)
(* What a success notice rests on.  The archive is in the row when the run *)
(* hands the backup on, the object is in the row when the upload is        *)
(* announced, and neither field is ever emptied again.                     *)
(***************************************************************************)
NoticeRests(c) ==
    /\ row[c].file # 0 => row[c].file \in produced[c]
    /\ row[c].file = 0 => /\ upload[c] = 0
                          /\ notice[c] # "success"
                          /\ \A i \in RunIds : run["backup"][c][i] # "handOff"
    /\ row[c].stored = 0 => /\ c \in Remote => notice[c] # "success"
                            /\ \A i \in RunIds : run["storage"][c][i] # "announce"

NoticesRest == \A c \in Backup : NoticeRests(c)

\* The fields of a row are replaced by what exists, never emptied.
LEMMA FilesStay ==
    ASSUME Typed, NEW b \in Backup, CatalogueStep(b)
    PROVE  /\ row'[b].file = row[b].file \/ row'[b].file \in produced[b]
           /\ row'[b].stored = row[b].stored \/ row'[b].stored \in bucket[b]
           /\ produced[b] \subseteq produced'[b]
<1>1. /\ row \in [Backup -> Rows]
      /\ row[b] \in Rows
      /\ produced \in [Backup -> SUBSET RunIds]
    BY DEF Typed, TypeOK
<1>2. \/ UNCHANGED row
      \/ \E v \in Rows : /\ SetRow(b, v)
                         /\ v.file = row[b].file \/ v.file \in produced[b]
                         /\ v.stored = row[b].stored \/ v.stored \in bucket[b]
    <2>1. \A s \in {"running", "failed", "cancelled"} :
              /\ Marked(row[b], s) \in Rows
              /\ Marked(row[b], s).file = row[b].file
              /\ Marked(row[b], s).stored = row[b].stored
        BY <1>1 DEF Marked, Rows, RowStatus
    <2>2. \A f \in RunIds :
              /\ Recorded(row[b], f) \in Rows /\ Recorded(row[b], f).file = f
              /\ Recorded(row[b], f).stored = row[b].stored
              /\ StoredAt(row[b], f) \in Rows /\ StoredAt(row[b], f).stored = f
              /\ StoredAt(row[b], f).file = row[b].file
        BY <1>1 DEF Recorded, StoredAt, Rows, RowStatus
    <2>3. QED
        BY <2>1, <2>2 DEF CatalogueStep, Opens, Marks, Records, RecordsStored, Produces, Stores
<1>3. produced[b] \subseteq produced'[b]
    BY <1>1 DEF CatalogueStep, Opens, Marks, Records, RecordsStored, Produces, Stores, storeVars
<1>4. QED
    BY <1>1, <1>2, <1>3, RowStored

\* Backups other than the one a step is about.
LEMMA NoticesElsewhere ==
    ASSUME NoticesRest, NEW b \in Backup, LeavesOthers(b), NoticeRests(b)'
    PROVE  NoticesRest'
<1>1. ASSUME NEW c \in Backup, c # b PROVE NoticeRests(c)'
    <2>1. c \in Backup \ {b} /\ "backup" \in Queues /\ "storage" \in Queues
        BY <1>1 DEF Queues
    <2>2. QED
        BY <2>1 DEF NoticesRest, NoticeRests, LeavesOthers
<1>2. QED
    BY <1>1 DEF NoticesRest

\* A step that writes neither job's content and moves no run to the places that
\* presuppose a field of the row.
LEMMA NoticeKept ==
    ASSUME Typed, NEW b \in Backup, NoticeRests(b), CatalogueStep(b),
           upload'[b] = upload[b], notice'[b] = notice[b],
           \A i \in RunIds :
               /\ run'["backup"][b][i] = "handOff" => run["backup"][b][i] = "handOff"
               /\ run'["storage"][b][i] = "announce" => run["storage"][b][i] = "announce"
    PROVE  NoticeRests(b)'
<1>1. 0 \notin produced[b] /\ 0 \notin bucket[b]
    BY DEF Typed, TypeOK, RunIds
<1>2. QED
    BY <1>1, FilesStay DEF NoticeRests

\* The steps of handleBackupJob: the row names the archive before it is handed on.
LEMMA BackupNotices ==
    ASSUME Typed, Traced, RowFirst, NumbersFresh, NoticesRest,
           NEW b \in Backup, NEW r \in RunIds, BackupHandler(b, r)
    PROVE  NoticesRest'
<1>1. LeavesOthers(b) /\ CatalogueStep(b) /\ NoticeRests(b)
    BY HandlerLocal, HandlerCatalogue DEF NoticesRest
<1>2. /\ run \in [Queues -> [Backup -> [RunIds -> Places]]]
      /\ row \in [Backup -> Rows] /\ row[b] \in Rows
      /\ notice \in [Backup -> {"none", "success", "failure"}]
      /\ "backup" \in Queues /\ "storage" \in Queues
      /\ 0 \notin RunIds /\ 0 \notin produced[b] /\ 0 \notin bucket[b]
    BY DEF Typed, TypeOK, Queues, RunIds
<1>3. PICK place \in Places :
          /\ Goto("backup", b, r, place)
          /\ place = "handOff" => SetSuccess(b, r) /\ SetRow(b, Recorded(row[b], r))
    BY PlacesReached DEF BackupHandler, SetRunning, Dump, SetSuccess, HandOff, SetFailed, NoteFailure
<1>4. /\ run'["backup"][b][r] = place
      /\ \A i \in RunIds : /\ i # r => run'["backup"][b][i] = run["backup"][b][i]
                           /\ run'["storage"][b][i] = run["storage"][b][i]
    BY <1>2, <1>3, RunMoved
<1>5. SetRow(b, Recorded(row[b], r)) => row'[b].file = r
    BY <1>2 DEF SetRow, Recorded, Rows
<1>6. CASE HandOff(b, r)
    <2>1. row[b].file # 0 /\ row' = row /\ produced' = produced
        BY <1>1, <1>6 DEF HandOff, At, NoticeRests, backupRest
    <2>2. b \in Remote => notice' = notice
        BY <1>6 DEF HandOff, HandOffTo
    <2>3. NoticeRests(b)'
        BY <1>1, <1>4, <2>1, <2>2 DEF NoticeRests
    <2>4. QED
        BY <1>1, <2>3, NoticesElsewhere
<1>7. CASE NoteFailure(b, r)
    <2>1. /\ row' = row /\ produced' = produced /\ upload' = upload
          /\ notice'[b] = "success" => notice[b] = "success"
          /\ place # "handOff"
        BY <1>2, <1>3, <1>7 DEF NoteFailure, Announce, backupRest, SetSuccess, At
    <2>2. NoticeRests(b)'
        BY <1>1, <1>4, <2>1 DEF NoticeRests
    <2>3. QED
        BY <1>1, <2>2, NoticesElsewhere
<1>8. CASE SetRunning(b, r) \/ Dump(b, r) \/ SetSuccess(b, r) \/ SetFailed(b, r)
    <2>1. upload' = upload /\ notice' = notice
        BY <1>8 DEF SetRunning, Dump, SetSuccess, SetFailed
    <2>2. place = "handOff" => row'[b].file = r
        BY <1>3, <1>5
    <2>3. NoticeRests(b)'
        BY <1>1, <1>2, <1>4, <2>1, <2>2, FilesStay DEF NoticeRests
    <2>4. QED
        BY <1>1, <2>3, NoticesElsewhere
<1>9. QED
    BY <1>6, <1>7, <1>8 DEF BackupHandler

\* The steps of handleStorageJob: the row names the object before it is announced.
LEMMA StorageNotices ==
    ASSUME Typed, Traced, RowFirst, NumbersFresh, NoticesRest,
           NEW b \in Backup, NEW r \in RunIds, StorageHandler(b, r)
    PROVE  NoticesRest'
<1>1. LeavesOthers(b) /\ CatalogueStep(b) /\ NoticeRests(b)
    BY HandlerLocal, HandlerCatalogue DEF NoticesRest
<1>2. /\ run \in [Queues -> [Backup -> [RunIds -> Places]]]
      /\ row \in [Backup -> Rows] /\ row[b] \in Rows
      /\ notice \in [Backup -> {"none", "success", "failure"}]
      /\ "backup" \in Queues /\ "storage" \in Queues
      /\ 0 \notin RunIds /\ 0 \notin produced[b] /\ 0 \notin bucket[b]
    BY DEF Typed, TypeOK, Queues, RunIds
<1>3. PICK place \in Places :
          /\ Goto("storage", b, r, place)
          /\ place = "announce" =>
                 \/ row[b].stored = upload[b] /\ row' = row
                 \/ SetRow(b, StoredAt(row[b], upload[b]))
    BY PlacesReached DEF StorageHandler, Lookup, Upload, RecordUpload, AnnounceUpload, storageRest
<1>4. /\ run'["storage"][b][r] = place
      /\ \A i \in RunIds : /\ i # r => run'["storage"][b][i] = run["storage"][b][i]
                           /\ run'["backup"][b][i] = run["backup"][b][i]
    BY <1>2, <1>3, RunMoved
<1>5. upload[b] # 0 /\ upload' = upload
    BY DEF StorageHandler, Lookup, Upload, RecordUpload, AnnounceUpload, At, storageRest,
           Typed, UploadNamed
<1>6. row[b].file # 0
    BY <1>1, <1>5 DEF NoticeRests
<1>7. place = "announce" => row'[b].stored # 0
    BY <1>2, <1>3, <1>5 DEF SetRow, StoredAt, Rows
<1>8. notice'[b] = notice[b] \/ row'[b].stored # 0
    <2>1. CASE AnnounceUpload(b, r)
        BY <1>1, <2>1 DEF AnnounceUpload, At, NoticeRests, storageRest
    <2>2. CASE Lookup(b, r) \/ Upload(b, r) \/ RecordUpload(b, r)
        BY <2>2 DEF Lookup, Upload, RecordUpload
    <2>3. QED
        BY <2>1, <2>2 DEF StorageHandler
<1>9. NoticeRests(b)'
    BY <1>1, <1>2, <1>4, <1>5, <1>6, <1>7, <1>8, FilesStay DEF NoticeRests
<1>10. QED
    BY <1>1, <1>9, NoticesElsewhere

\* Every step leaves the notices something to rest on.
LEMMA NextNotices ==
    ASSUME PipelineAssumption, Charted, NoticesRest, [Next]_vars
    PROVE  NoticesRest'
<1>1. Typed /\ Traced /\ RowFirst /\ NumbersFresh
    BY DEF Charted
<1>2. CASE OrchestratorStep \/ CancelStep
    <2>1. UNCHANGED <<run, upload, notice>>
        BY <1>2 DEF OrchestratorStep, CancelStep, CheckQueueSize, CreateRow, Enqueue,
                    FailRequest, OrchestratorCrash, RemoveFromQueue, DashboardCheck,
                    DashboardRemove, MarkCancelled, requestRest, cancelRest
    <2>2. CASE OrchestratorCrash
        BY <2>1, <2>2 DEF OrchestratorCrash, requestRest, storeVars, NoticesRest, NoticeRests
    <2>3. ASSUME NEW b \in Backup,
                 \/ CheckQueueSize(b) \/ CreateRow(b) \/ Enqueue(b) \/ FailRequest(b)
                 \/ RemoveFromQueue(b) \/ DashboardCheck(b) \/ DashboardRemove(b)
                 \/ MarkCancelled(b)
          PROVE  NoticesRest'
        <3>1. LeavesOthers(b) /\ CatalogueStep(b)
            BY <1>1, <2>3, ClientLocal, ClientCatalogue
        <3>2. NoticeRests(b)'
            BY <1>1, <2>1, <3>1, NoticeKept DEF NoticesRest
        <3>3. QED
            BY <3>1, <3>2, NoticesElsewhere
    <2>4. QED
        BY <1>2, <2>2, <2>3 DEF OrchestratorStep, CancelStep
<1>3. CASE QueueStep
    <2>1. 1 \in RunIds
        BY PipelineAssumption DEF PipelineAssumption, RunIds, Queues
    <2>2. PICK q \in Queues, b \in Backup, r \in RunIds :
              Take(q, b) \/ Promote(q, b) \/ Stall(q, b) \/ Complete(q, b, r) \/ Reject(q, b, r)
        BY <1>3, <2>1 DEF QueueStep
    <2>3. UNCHANGED <<row, produced, bucket, upload, notice>>
        BY <2>2 DEF Take, Promote, Stall, Complete, Reject, workerRest, storeVars
    <2>4. \A p \in Queues, i \in RunIds :
              run'[p][b][i] = run[p][b][i] \/ run'[p][b][i] \notin {"handOff", "announce"}
        <3>1. run \in [Queues -> [Backup -> [RunIds -> Places]]]
            BY <1>1 DEF Typed, TypeOK
        <3>2. \/ UNCHANGED run
              \/ Goto(q, b, starts[q][b] + 1, Entry(q))
              \/ Goto(q, b, r, "over")
            BY <2>2 DEF Take, Promote, Stall, Complete, Reject
        <3>3. Entry(q) \in Places \ {"handOff", "announce"} /\ "over" \in Places
            BY PlacesReached DEF Entry, Queues
        <3>4. QED
            BY <3>1, <3>2, <3>3, RunMoved
    <2>5. NoticeRests(b)'
        BY <2>3, <2>4 DEF NoticesRest, NoticeRests, Queues
    <2>6. LeavesOthers(b)
        BY <1>1, <2>2, QueueLocal
    <2>7. QED
        BY <2>5, <2>6, NoticesElsewhere
<1>4. CASE HandlerStep
    <2>1. PICK b \in Backup, r \in RunIds :
              BackupHandler(b, r) \/ StorageHandler(b, r) \/ Send(b, r)
        BY <1>4 DEF HandlerStep
    <2>2. CASE Send(b, r)
        <3>1. LeavesOthers(b) /\ CatalogueStep(b)
            BY <1>1, <2>2, HandlerLocal, HandlerCatalogue
        <3>2. /\ upload' = upload /\ notice' = notice
              /\ \A i \in RunIds : /\ run'["backup"][b][i] = run["backup"][b][i]
                                   /\ run'["storage"][b][i] = run["storage"][b][i]
            BY <1>1, <2>2, PlacesReached, RunMoved DEF Send, notifyRest, Typed, TypeOK, Goto, Queues
        <3>3. NoticeRests(b)'
            BY <1>1, <3>1, <3>2, NoticeKept DEF NoticesRest
        <3>4. QED
            BY <3>1, <3>3, NoticesElsewhere
    <2>3. QED
        BY <1>1, <2>1, <2>2, BackupNotices, StorageNotices
<1>5. CASE WorkerCrash
    <2>1. /\ UNCHANGED <<row, produced, bucket, upload, notice>>
          /\ \A q \in Queues, c \in Backup, i \in RunIds :
                 run'[q][c][i] = run[q][c][i] \/ run'[q][c][i] = "over"
        BY <1>5 DEF WorkerCrash, workerRest, storeVars
    <2>2. QED
        BY <2>1 DEF NoticesRest, NoticeRests, Queues
<1>6. CASE UNCHANGED vars
    BY <1>6 DEF vars, queueVars, storeVars, NoticesRest, NoticeRests
<1>7. QED
    BY <1>2, <1>3, <1>4, <1>5, <1>6 DEF Next

(***************************************************************************)
(* No message says that a backup succeeded before its row names a produced *)
(* archive and, for a remote backup, an object in the bucket; retries that *)
(* produce a second archive, lost locks and lost replies included.         *)
(***************************************************************************)
THEOREM NoticesAreBacked == Spec => []SuccessNoticeBacked
<1>1. Init => NoticesRest
    BY DEF Init, NoticesRest, NoticeRests, NoRow, Queues
<1>2. Spec => [](Charted /\ NoticesRest)
    BY PipelineAssumption, <1>1, NextNotices, AlwaysCharted, PTL DEF Spec
<1>3. Charted /\ NoticesRest => SuccessNoticeBacked
    <2> SUFFICES ASSUME Charted, NoticesRest, NEW b \in Backup, notice[b] = "success"
                 PROVE  /\ row[b].file \in produced[b]
                        /\ b \in Remote => row[b].stored \in bucket[b]
        BY DEF SuccessNoticeBacked
    <2>1. row[b].file \in produced[b]
        BY DEF NoticesRest, NoticeRests
    <2>2. b \in Remote => row[b].stored # 0
        BY DEF NoticesRest, NoticeRests
    <2>3. QED
        BY <2>1, <2>2 DEF Charted, Traced, RowsSound
<1>4. QED
    BY <1>2, <1>3, PTL

-----------------------------------------------------------------------------
(***************************************************************************)
(* The outcome of a job.  While locks hold, the one live run of a job is   *)
(* the only writer of its row's file and, but for a cancellation, of its   *)
(* status: nothing is rewritten once the queue is done with the job.       *)
(***************************************************************************)

\* The steps that record another archive are those of a run at work.
LEMMA FileWriters ==
    ASSUME PipelineAssumption, Typed, [Next]_vars, NEW b \in Backup,
           row'[b].file # row[b].file
    PROVE  \E r \in RunIds : SetSuccess(b, r)
<1>1. row \in [Backup -> Rows]
    BY DEF Typed, TypeOK
<1>2. SUFFICES ASSUME \A r \in RunIds : ~SetSuccess(b, r)
               PROVE  row'[b].file = row[b].file
    OBVIOUS
<1>3. \/ UNCHANGED row
      \/ \E c \in Backup : c # b /\ \E v : SetRow(c, v)
      \/ \E s \in RowStatus : SetRow(b, Marked(row[b], s))
      \/ SetRow(b, StoredAt(row[b], upload[b]))
    <2>1. CASE OrchestratorStep \/ CancelStep
        BY <2>1 DEF OrchestratorStep, CancelStep, CheckQueueSize, CreateRow, Enqueue,
                    FailRequest, OrchestratorCrash, RemoveFromQueue, DashboardCheck,
                    DashboardRemove, MarkCancelled, MaybeSetRow, RowStatus
    <2>2. CASE QueueStep \/ WorkerCrash
        BY <2>2 DEF QueueStep, Take, Promote, Stall, Complete, Reject, WorkerCrash, workerRest
    <2>3. CASE HandlerStep
        <3>1. PICK c \in Backup, r \in RunIds :
                  BackupHandler(c, r) \/ StorageHandler(c, r) \/ Send(c, r)
            BY <2>3 DEF HandlerStep
        <3>2. CASE c = b
            BY <1>2, <3>1, <3>2 DEF BackupHandler, SetRunning, Dump, HandOff, SetFailed,
                   NoteFailure, StorageHandler, Lookup, Upload, RecordUpload, AnnounceUpload,
                   Send, backupRest, storageRest, notifyRest, MaybeSetRow, RowStatus
        <3>3. CASE c # b
            BY <3>1, <3>3 DEF BackupHandler, SetRunning, Dump, SetSuccess, HandOff, SetFailed,
                   NoteFailure, StorageHandler, Lookup, Upload, RecordUpload, AnnounceUpload,
                   Send, backupRest, storageRest, notifyRest, MaybeSetRow
        <3>4. QED
            BY <3>2, <3>3
    <2>4. CASE UNCHANGED vars
        BY <2>4 DEF vars
    <2>5. QED
        BY <2>1, <2>2, <2>3, <2>4 DEF Next
<1>4. /\ \A c \in Backup : \A v : c # b /\ SetRow(c, v) => row'[b] = row[b]
      /\ \A s \in RowStatus : Marked(row[b], s).file = row[b].file
      /\ StoredAt(row[b], upload[b]).file = row[b].file
    BY <1>1 DEF SetRow, Marked, StoredAt, Rows
<1>5. \A v : SetRow(b, v) => row'[b] = v
    BY <1>1 DEF SetRow
<1>6. QED
    BY <1>3, <1>4, <1>5

(***************************************************************************)
(* While locks hold, the row of a backup whose job is completed or failed  *)
(* never comes to name another archive: a restore prepared from the row    *)
(* reads what it was shown.                                                *)
(***************************************************************************)
THEOREM FinishedFilesStay == ASSUME ~LockLoss PROVE Spec => FinishedFileFrozen
<1> DEFINE Frozen == \A b \in Backup :
                        job["backup"][b].state \in {"completed", "failed"} =>
                            row'[b].file = row[b].file
<1>1. Typed /\ LiveRunOwnsJob /\ [Next]_vars => [Frozen]_vars
    <2> SUFFICES ASSUME Typed, LiveRunOwnsJob, [Next]_vars, NEW b \in Backup,
                        job["backup"][b].state \in {"completed", "failed"},
                        row'[b].file # row[b].file
                 PROVE  FALSE
        OBVIOUS
    <2>1. PICK r \in RunIds : run["backup"][b][r] = "setSuccess"
        BY PipelineAssumption, FileWriters DEF SetSuccess, At
    <2>2. job["backup"][b].state = "active"
        BY <2>1 DEF LiveRunOwnsJob, Owns, Dead, Queues
    <2>3. QED
        BY <2>2
<1>2. Spec => []Typed
    BY PipelineAssumption, InitTyped, NextTyped, PTL DEF Spec
<1>3. QED
    BY <1>1, <1>2, OneHandlerPerJob, PTL DEF Spec, FinishedFileFrozen

-----------------------------------------------------------------------------
\* With no failed call so far, a run's place tells what its row says.
Succeeded == {"success", "cancelled"}
GivenUp == {"failed", "cancelled"}

OutcomeTold(c) ==
    /\ request[c] # "failing"
    /\ \A i \in RunIds :
           /\ run["backup"][c][i] \in {"handOff", "return"} => row[c].status \in Succeeded
           /\ run["backup"][c][i] \in {"noteFailure", "throw"} => row[c].status \in GivenUp
    /\ job["backup"][c].state = "completed" => row[c].status \in Succeeded
    /\ job["backup"][c].state = "failed" /\ job["backup"][c].stalls <= MaxStalled =>
           row[c].status \in GivenUp

OutcomesTold == faults = 0 => \A c \in Backup : OutcomeTold(c)

\* Backups other than the one a step is about.
LEMMA OutcomesElsewhere ==
    ASSUME OutcomesTold, faults = 0, NEW b \in Backup, LeavesOthers(b), OutcomeTold(b)'
    PROVE  OutcomesTold'
<1>1. ASSUME NEW c \in Backup, c # b PROVE OutcomeTold(c)'
    <2>1. c \in Backup \ {b} /\ "backup" \in Queues
        BY <1>1 DEF Queues
    <2>2. QED
        BY <1>1, <2>1 DEF OutcomesTold, OutcomeTold, LeavesOthers
<1>2. QED
    BY <1>1 DEF OutcomesTold

\* The orchestrator marks a row again only before its job exists; a canceller's
\* word fits either outcome.
LEMMA ClientOutcome ==
    ASSUME Typed, Bounded, LiveRunOwnsJob, OutcomesTold, faults = 0, faults' = 0,
           NEW b \in Backup,
           \/ CheckQueueSize(b) \/ CreateRow(b) \/ Enqueue(b) \/ FailRequest(b)
           \/ RemoveFromQueue(b) \/ DashboardCheck(b) \/ DashboardRemove(b)
           \/ MarkCancelled(b)
    PROVE  OutcomesTold'
<1>1. /\ LeavesOthers(b) /\ OutcomeTold(b)
      /\ request \in [Backup -> RequestPlaces]
      /\ row \in [Backup -> Rows] /\ row[b] \in Rows
      /\ job \in [Queues -> [Backup -> Jobs]] /\ job["backup"][b] \in Jobs
      /\ "backup" \in Queues
      /\ ~Fault
    BY ClientLocal DEF OutcomesTold, Typed, TypeOK, Queues, Fault
<1>2. UNCHANGED run
    BY DEF CheckQueueSize, CreateRow, Enqueue, FailRequest, RemoveFromQueue,
           DashboardCheck, DashboardRemove, MarkCancelled, requestRest, cancelRest
<1>3. OutcomeTold(b)'
    <2>1. CASE CheckQueueSize(b) \/ DashboardCheck(b)
        <3>1. UNCHANGED <<row, job>> /\ request'[b] # "failing"
            BY <1>1, <2>1 DEF CheckQueueSize, DashboardCheck, cancelRest, OutcomeTold
        <3>2. QED
            BY <1>1, <1>2, <3>1 DEF OutcomeTold
    <2>2. CASE CreateRow(b) \/ Enqueue(b)
        <3>1. job["backup"][b].state = "absent"
            BY <2>2 DEF CreateRow, Enqueue, Bounded, Early
        <3>2. \A i \in RunIds : run["backup"][b][i] \in Dead
            BY <1>1, <3>1 DEF LiveRunOwnsJob, Owns
        <3>3. request'[b] # "failing"
            BY <1>1, <2>2 DEF CreateRow, Enqueue
        <3>4. job'["backup"][b].state \in {"absent", "waiting"}
            <4>1. \/ UNCHANGED job
                  \/ SetJob("backup", b, Added(job["backup"][b]))
                BY <2>2 DEF CreateRow, Enqueue
            <4>2. Added(job["backup"][b]).state = "waiting"
                BY <3>1 DEF Added, NoJob
            <4>3. QED
                BY <1>1, <3>1, <4>1, <4>2 DEF SetJob
        <3>5. QED
            BY <1>2, <3>2, <3>3, <3>4 DEF OutcomeTold, Dead
    <2>3. CASE FailRequest(b)
        BY <1>1, <2>3 DEF FailRequest, OutcomeTold
    <2>4. CASE RemoveFromQueue(b) \/ DashboardRemove(b)
        <3>1. /\ UNCHANGED <<row, request>>
              /\ SetJob("backup", b, Removed(job["backup"][b]))
            BY <2>4 DEF RemoveFromQueue, DashboardRemove, cancelRest
        <3>2. job'["backup"][b] = job["backup"][b] \/ job'["backup"][b].state = "absent"
            BY <1>1, <3>1 DEF SetJob, Removed, NoJob
        <3>3. QED
            BY <1>1, <1>2, <3>1, <3>2 DEF OutcomeTold
    <2>5. CASE MarkCancelled(b)
        <3>1. /\ UNCHANGED <<job, request>>
              /\ row'[b].status = "cancelled"
            BY <1>1, <2>5 DEF MarkCancelled, cancelRest, SetRow, Marked, Rows
        <3>2. QED
            BY <1>1, <1>2, <3>1 DEF OutcomeTold, Succeeded, GivenUp
    <2>6. QED
        BY <2>1, <2>2, <2>3, <2>4, <2>5
<1>4. QED
    BY <1>1, <1>3, OutcomesElsewhere

\* A job ends as its run did; the stalled-job check fails one past its limit.
LEMMA QueueOutcome ==
    ASSUME PipelineAssumption, Typed, OutcomesTold, faults = 0,
           NEW q \in Queues, NEW b \in Backup, NEW r \in RunIds,
           Take(q, b) \/ Promote(q, b) \/ Stall(q, b) \/ Complete(q, b, r) \/ Reject(q, b, r)
    PROVE  OutcomesTold'
<1>1. /\ LeavesOthers(b) /\ OutcomeTold(b)
      /\ run \in [Queues -> [Backup -> [RunIds -> Places]]]
      /\ job \in [Queues -> [Backup -> Jobs]] /\ job[q][b] \in Jobs
      /\ "backup" \in Queues
      /\ MaxStalled \in Nat
    BY QueueLocal DEF OutcomesTold, Typed, TypeOK, Queues, PipelineAssumption
<1>2. UNCHANGED <<row, request>>
    BY DEF Take, Promote, Stall, Complete, Reject, workerRest, clientVars
<1>3. \A i \in RunIds :
          \/ run'["backup"][b][i] = run["backup"][b][i]
          \/ run'["backup"][b][i] \notin {"handOff", "return", "noteFailure", "throw"}
    <2>1. \/ UNCHANGED run
          \/ Goto(q, b, starts[q][b] + 1, Entry(q))
          \/ Goto(q, b, r, "over")
        BY DEF Take, Promote, Stall, Complete, Reject
    <2>2. /\ Entry(q) \in Places /\ "over" \in Places
          /\ Entry(q) \notin {"handOff", "return", "noteFailure", "throw"}
        BY PlacesReached DEF Entry, Queues
    <2>3. QED
        BY <1>1, <2>1, <2>2, RunMoved
<1>4. /\ job'["backup"][b].state = "completed" => row[b].status \in Succeeded
      /\ job'["backup"][b].state = "failed" /\ job'["backup"][b].stalls <= MaxStalled =>
             row[b].status \in GivenUp
    <2>1. CASE q # "backup"
        <3>1. job'["backup"][b] = job["backup"][b]
            BY <1>1, <2>1 DEF Take, Promote, Stall, Complete, Reject, SetJob
        <3>2. QED
            BY <1>1, <3>1 DEF OutcomeTold
    <2>2. CASE q = "backup" /\ (Take(q, b) \/ Promote(q, b))
        <3>1. job'[q][b].state \in {"active", "waiting"}
            <4>1. CASE Take(q, b)
                BY <1>1, <4>1 DEF Take, SetJob, Taken, Jobs
            <4>2. CASE Promote(q, b)
                BY <1>1, <4>2 DEF Promote, SetJob, Promoted, Jobs
            <4>3. QED
                BY <2>2, <4>1, <4>2
        <3>2. QED
            BY <2>2, <3>1
    <2>3. CASE q = "backup" /\ Stall(q, b)
        <3>1. /\ job'[q][b].state \in {"failed", "waiting"}
              /\ job'[q][b].state = "failed" => ~(job'[q][b].stalls <= MaxStalled)
            BY <1>1, <2>3 DEF Stall, SetJob, Stalled, Jobs
        <3>2. QED
            BY <2>3, <3>1
    <2>4. CASE q = "backup" /\ Complete(q, b, r)
        <3>1. row[b].status \in Succeeded
            BY <1>1, <2>4 DEF Complete, At, OutcomeTold
        <3>2. job'[q][b] = job[q][b] \/ job'[q][b].state = "completed"
            BY <1>1, <2>4 DEF Complete, SetJob, Completed, Jobs
        <3>3. QED
            BY <1>1, <2>4, <3>1, <3>2 DEF OutcomeTold
    <2>5. CASE q = "backup" /\ Reject(q, b, r)
        <3>1. row[b].status \in GivenUp
            BY <1>1, <2>5 DEF Reject, At, OutcomeTold
        <3>2. job'[q][b] = job[q][b] \/ job'[q][b].state \in {"delayed", "failed"}
            BY <1>1, <2>5 DEF Reject, SetJob, Rejected, Jobs
        <3>3. QED
            BY <1>1, <2>5, <3>1, <3>2 DEF OutcomeTold
    <2>6. QED
        BY <2>1, <2>2, <2>3, <2>4, <2>5
<1>5. OutcomeTold(b)'
    BY <1>1, <1>2, <1>3, <1>4 DEF OutcomeTold
<1>6. QED
    BY <1>1, <1>5, OutcomesElsewhere

\* A handler that no failed call disturbs marks the outcome it goes on to report.
LEMMA HandlerOutcome ==
    ASSUME Typed, LiveRunOwnsJob, OutcomesTold, faults = 0, faults' = 0,
           NEW b \in Backup, NEW r \in RunIds,
           BackupHandler(b, r) \/ StorageHandler(b, r) \/ Send(b, r)
    PROVE  OutcomesTold'
<1>1. /\ LeavesOthers(b) /\ OutcomeTold(b)
      /\ run \in [Queues -> [Backup -> [RunIds -> Places]]]
      /\ job \in [Queues -> [Backup -> Jobs]]
      /\ row \in [Backup -> Rows] /\ row[b] \in Rows
      /\ {"backup", "storage", "notify"} \subseteq Queues
      /\ ~Fault
    BY HandlerLocal DEF OutcomesTold, Typed, TypeOK, Queues, Fault
<1>2. /\ UNCHANGED request
      /\ job'["backup"] = job["backup"]
    <2>1. UNCHANGED request
        BY DEF BackupHandler, SetRunning, Dump, SetSuccess, HandOff, SetFailed, NoteFailure,
               StorageHandler, Lookup, Upload, RecordUpload, AnnounceUpload, Send,
               backupRest, storageRest, notifyRest, clientVars
    <2>2. UNCHANGED job \/ \E p \in {"storage", "notify"} : \E j : SetJob(p, b, j)
        BY DEF BackupHandler, SetRunning, Dump, SetSuccess, HandOff, HandOffTo, SetFailed,
               NoteFailure, StorageHandler, Lookup, Upload, RecordUpload, AnnounceUpload,
               Send, Announce, RequestUpload, notifyRest
    <2>3. QED
        BY <1>1, <2>1, <2>2 DEF SetJob
<1>3. CASE BackupHandler(b, r)
    <2>1. job["backup"][b].state = "active" /\ \A i \in RunIds : i # r => run["backup"][b][i] \in Dead
        <3>1. run["backup"][b][r] \notin Dead
            BY <1>3 DEF BackupHandler, SetRunning, Dump, SetSuccess, HandOff, SetFailed,
                        NoteFailure, At, Dead
        <3>2. QED
            BY <1>1, <3>1 DEF LiveRunOwnsJob, Owns
    <2>2. PICK place \in Places :
              /\ Goto("backup", b, r, place)
              /\ place \in {"handOff", "return"} => row'[b].status \in Succeeded
              /\ place \in {"noteFailure", "throw"} => row'[b].status \in GivenUp
        <3>1. CASE SetRunning(b, r) \/ Dump(b, r)
            BY <1>1, <3>1, PlacesReached DEF SetRunning, Dump
        <3>2. CASE SetSuccess(b, r)
            <4>1. Goto("backup", b, r, "handOff") /\ row'[b].status = "success"
                BY <1>1, <3>2 DEF SetSuccess, SetRow, Recorded, Rows
            <4>2. QED
                BY <4>1, PlacesReached DEF Succeeded
        <3>3. CASE HandOff(b, r)
            <4>1. Goto("backup", b, r, "return") /\ row' = row
                BY <1>1, <3>3 DEF HandOff
            <4>2. row[b].status \in Succeeded
                BY <1>1, <3>3 DEF HandOff, At, OutcomeTold
            <4>3. QED
                BY <4>1, <4>2, PlacesReached
        <3>4. CASE SetFailed(b, r)
            <4>1. Goto("backup", b, r, "noteFailure") /\ row'[b].status = "failed"
                BY <1>1, <3>4 DEF SetFailed, SetRow, Marked, Rows
            <4>2. QED
                BY <4>1, PlacesReached DEF GivenUp
        <3>5. CASE NoteFailure(b, r)
            <4>1. Goto("backup", b, r, "throw") /\ row' = row
                BY <3>5 DEF NoteFailure
            <4>2. row[b].status \in GivenUp
                BY <1>1, <3>5 DEF NoteFailure, At, OutcomeTold
            <4>3. QED
                BY <4>1, <4>2, PlacesReached
        <3>6. QED
            BY <1>3, <3>1, <3>2, <3>3, <3>4, <3>5 DEF BackupHandler
    <2>3. /\ run'["backup"][b][r] = place
          /\ \A i \in RunIds : i # r => run'["backup"][b][i] = run["backup"][b][i]
        BY <1>1, <2>2, RunMoved
    <2>4. \A i \in RunIds :
              /\ run'["backup"][b][i] \in {"handOff", "return"} => row'[b].status \in Succeeded
              /\ run'["backup"][b][i] \in {"noteFailure", "throw"} => row'[b].status \in GivenUp
        BY <2>1, <2>2, <2>3 DEF Dead
    <2>5. OutcomeTold(b)'
        BY <1>1, <1>2, <2>1, <2>4 DEF OutcomeTold
    <2>6. QED
        BY <1>1, <2>5, OutcomesElsewhere
<1>4. CASE StorageHandler(b, r) \/ Send(b, r)
    <2>1. run'["backup"] = run["backup"]
        BY <1>1, <1>4 DEF StorageHandler, Lookup, Upload, RecordUpload, AnnounceUpload, Send, Goto
    <2>2. row'[b].status = row[b].status
        <3>1. UNCHANGED row \/ SetRow(b, StoredAt(row[b], upload[b]))
            BY <1>4 DEF StorageHandler, Lookup, Upload, RecordUpload, AnnounceUpload, Send,
                        MaybeSetRow, notifyRest
        <3>2. QED
            BY <1>1, <3>1 DEF SetRow, StoredAt, Rows
    <2>3. OutcomeTold(b)'
        BY <1>1, <1>2, <2>1, <2>2 DEF OutcomeTold
    <2>4. QED
        BY <1>1, <2>3, OutcomesElsewhere
<1>5. QED
    BY <1>3, <1>4

\* Every step, as long as no call fails.
LEMMA NextOutcome ==
    ASSUME PipelineAssumption, Typed, Bounded, LiveRunOwnsJob, OutcomesTold, [Next]_vars
    PROVE  OutcomesTold'
<1>1. SUFFICES ASSUME faults' = 0 PROVE OutcomesTold'
    BY DEF OutcomesTold
<1>2. faults = 0
    <2>1. faults \in Nat
        BY DEF Typed, TypeOK
    <2>2. faults' = faults \/ Fault
        BY DEF Next, OrchestratorStep, CancelStep, CheckQueueSize, CreateRow, Enqueue,
               FailRequest, OrchestratorCrash, RemoveFromQueue, DashboardCheck,
               DashboardRemove, MarkCancelled, QueueStep, Take, Promote, Stall, Complete,
               Reject, WorkerCrash, HandlerStep, BackupHandler, SetRunning, Dump, SetSuccess,
               HandOff, SetFailed, NoteFailure, StorageHandler, Lookup, Upload, RecordUpload,
               AnnounceUpload, Send, workerRest, storageRest, notifyRest, vars, NoFault
    <2>3. QED
        BY <1>1, <2>1, <2>2 DEF Fault
<1>3. CASE OrchestratorStep
    <2>1. CASE OrchestratorCrash
        <3>1. /\ UNCHANGED <<row, job, run>>
              /\ \A c \in Backup : request'[c] # "failing"
            BY <1>2, <2>1 DEF OrchestratorCrash, requestRest
        <3>2. QED
            BY <1>2, <3>1 DEF OutcomesTold, OutcomeTold
    <2>2. QED
        BY <1>1, <1>2, <1>3, <2>1, ClientOutcome DEF OrchestratorStep
<1>4. CASE CancelStep
    BY <1>1, <1>2, <1>4, ClientOutcome DEF CancelStep
<1>5. CASE QueueStep
    <2>1. 1 \in RunIds
        BY PipelineAssumption DEF PipelineAssumption, RunIds, Queues
    <2>2. PICK q \in Queues, b \in Backup, r \in RunIds :
              Take(q, b) \/ Promote(q, b) \/ Stall(q, b) \/ Complete(q, b, r) \/ Reject(q, b, r)
        BY <1>5, <2>1 DEF QueueStep
    <2>3. QED
        BY <1>2, <2>2, QueueOutcome
<1>6. CASE HandlerStep
    BY <1>1, <1>2, <1>6, HandlerOutcome DEF HandlerStep
<1>7. CASE WorkerCrash
    <2>1. /\ UNCHANGED <<request, row, job>>
          /\ \A c \in Backup, i \in RunIds :
                 run'["backup"][c][i] = run["backup"][c][i] \/ run'["backup"][c][i] = "over"
        BY <1>7 DEF WorkerCrash, workerRest, clientVars, Queues
    <2>2. QED
        BY <1>2, <2>1 DEF OutcomesTold, OutcomeTold
<1>8. CASE UNCHANGED vars
    BY <1>2, <1>8 DEF vars, queueVars, OutcomesTold, OutcomeTold
<1>9. QED
    BY <1>3, <1>4, <1>5, <1>6, <1>7, <1>8 DEF Next

(***************************************************************************)
(* While locks hold and no call fails, a job that the queue is done with   *)
(* and the metadata row tell the same outcome, across any number of        *)
(* crashes and retries, unless the backup was cancelled.                   *)
(***************************************************************************)
THEOREM OutcomesAgree == ASSUME ~LockLoss PROVE Spec => []OutcomeAgrees
<1>1. Init => OutcomesTold
    BY DEF Init, OutcomesTold, OutcomeTold, NoJob, Queues
<1>2. Spec => [](Typed /\ Bounded)
    BY PipelineAssumption, InitTyped, InitBounded, NextTyped, NextBounded, PTL DEF Spec
<1>3. Spec => []OutcomesTold
    BY PipelineAssumption, <1>1, <1>2, OneHandlerPerJob, NextOutcome, PTL DEF Spec
<1>4. OutcomesTold => OutcomeAgrees
    BY DEF OutcomesTold, OutcomeTold, OutcomeAgrees, Succeeded, GivenUp
<1>5. QED
    BY <1>3, <1>4, PTL
=============================================================================
