# Models and proofs of db-backup-cli

TLA+ specifications of the backup platform in `src/`, TLC configurations that
check them on small instances, and TLAPS proofs of what holds for every
instance.

## The system

A request to back up a database passes through several processes that share a
Redis server and a metadata service (SQLite behind HTTP).

| Component | Source | State it keeps | Operations | Hard behaviour | What makes it correct |
|---|---|---|---|---|---|
| Orchestrator | `microservices/backup-orchestrator/index.ts`, `services/dashboard.service.ts` | none of its own; the row and the queue | accept a backup, cancel it (API, dashboard), restore, status | concurrent requests between two awaits; a crash between row and job | no job without a row; an accepted backup reaches an outcome |
| Queues | `lib/queue-manager.ts` (BullMQ) | jobs, locks, attempts | add, take, complete, fail, stall, remove | lock loss, stalled jobs, retries | bounded runs; one live run per job |
| Workers | `microservices/backup-worker/index.ts` | local variables of the handlers | dump, record, upload, notify | a handler that runs twice, at once or after a crash; each await may fail | the row tells the truth about archive and object; messages agree with it |
| Metadata service | `microservices/metadata-service/index.ts`, `prisma/` | rows of jobs, schedules, storage locations, notifications | create, patch, list, set default | unset-then-set of the default location in two statements | one default; settings that were reported stand |
| Metadata client | `lib/metadata-client.ts` | none | HTTP calls with retries | a request repeated while the first is still served | calls may be done and fail, or be done twice |
| Restore | `commands/restore.ts`, `application/use-cases/restore.use-case.ts`, `microservices/backup-worker/restore.worker.ts` | lock, queue job, staging files | download, verify, decrypt, load | clean-up on every path; the polling client that gives up | one load at a time; no plaintext left behind |
| Dump services | `database-services/postgres`, `mongodb`, `sqlite` | none; one process each | dump, restore | stream errors that nobody listens for, a tool that fails late | a reply tells what is stored |
| MySQL service | `database-services/mysql/` | `metadata.json`, lock file, restore lock, archives | full, incremental, point-in-time restore, list, clean-up | shared re-entrant lock, read-modify-write, clean-up against a reader, crashes | a chain is gapless; the lock file goes with its last user |
| PostgreSQL incremental backups | `services/postgres-incremental.service.ts` | cached manifests, rows | full, incremental, restore of a chain | retries and deaths between dump, cache and record | an increment fits the archive its parent's row names |
| PostgreSQL point-in-time recovery | `services/postgres-pitr.service.ts`, `commands/pitr.ts` | WAL archive, base backups | set up, archive, base backup, recover | the archive command dies half-way; the default location changes | no segment is given up before it is stored |
| Scheduler | `microservices/scheduler-service/index.ts` | map of cron tasks | create, stop, execute, reload | overlapping executions, failing calls, restart | a stopped schedule does not run; a running task can be stopped |
| Distributed lock | `lib/distributed-lock.ts` | key with time to live in Redis, UUID and timer in the process | acquire, refresh, release | expiry, refresh racing release | one holder at a time; a key is freed |
| Key manager | `lib/key-manager.ts` | keystore file, master key file, cache | create, use, delete keys | read-modify-write of two files by several processes | no command in order loses the key of a kept backup |
| Infrastructure | `infrastructure/` | the one container | ensure, start, stop, restart, upgrade | docker commands of several processes interleave | a service that was reported ready is not taken away |
| Storage service | `microservices/storage-service` | client cache | upload, download, list, delete | partial uploads | an object is complete |
| CLI, dashboard, gateway | `commands/`, `dashboard/`, `routes/` | none | prompts, views, polling | polling with a time limit | a timeout is not taken for success |

The components call each other in a chain. The orchestrator creates the
`BackupJob` row through the metadata client, adds a job to the backup queue and
answers at once. The worker process takes it, calls the database service, patches
the row, and adds a job to the storage queue (remote backups) or to the
notification queue; the storage handler uploads, patches the row and adds the
notification. Job ids are derived from the backup's id (`<id>`, `storage_<id>`,
`notify_<id>`), so that an add repeated by a retry is ignored. Clients poll the row.
A restore goes the same way through a queue of its own, whose worker calls the
service of the engine. The commands of the CLI run as separate processes that share
the host's container, the keystore files and the metadata service.

## The modules

| Module | What it is | Uses |
|---|---|---|
| `JobQueue` | one BullMQ job: the record and what each queue command makes of it | |
| `BackupCatalogue` | abstract specification: what a reader of a `BackupJob` row may rely on | |
| `BackupPipeline` | orchestrator, cancellers, queues, three handlers and the row | extends `JobQueue`, instantiates `BackupCatalogue` |
| `DistributedLock` | the Redis lock: key, holders, refreshes, connections, time | |
| `ScheduledBackup` | executions of a scheduled backup under that lock | extends `DistributedLock` |
| `ScheduleRegistry` | rows, cron tasks and the map of the scheduler, across restarts | |
| `StorageLocations` | the handlers of the storage locations, statement by statement, and clients that repeat requests | |
| `NotificationChannels` | the notification settings, and their copy into a schedule | extends `StorageLocations` |
| `MetadataService` | the three tables together | extends `ScheduleRegistry`, instantiates `NotificationChannels` |
| `DumpService` | `performBackup` of PostgreSQL, MongoDB and SQLite as stream events | |
| `RestoreFlow` | the `restore` command, its queue, `handleRestoreJob`, `performRestore` in the processes that dump | extends `DumpService`, `JobQueue` |
| `MySQLCatalogue` | the MySQL service: requests over lock file, `metadata.json`, archives and binary log | |
| `IncrementalChain` | PostgreSQL full and incremental backups, and the walk of a chain | |
| `PointInTimeRecovery` | WAL archive, base backups and recovery of PostgreSQL | |
| `Keystore` | keystore and master key, file operation by file operation | |
| `Runtime` | the container and the commands that change it, docker command by docker command | |
| `BackupCommand` | `backup --encrypt` and `key` beside the commands of `Runtime` | extends `Runtime`, instantiates `Keystore` |
| `MCBackupPipeline`, `MCDistributedLock`, `MCScheduledBackup`, `MCMetadataService`, `MCMySQLCatalogue`, `MCPointInTimeRecovery`, `MCIncrementalChain`, `MCRestoreFlow`, `MCBackupCommand` | values of the constants for TLC | |
| `BackupPipelineProofs` (with the theorems about the catalogue), `ScheduledBackupProofs` (with the theorems about `DistributedLock`), `MetadataServiceProofs`, `MySQLCatalogueProofs`, `PointInTimeRecoveryProofs`, `IncrementalChainProofs`, `RestoreFlowProofs`, `BackupCommandProofs` | theorems | |

Operators that begin a comment with "Mutant of" are deliberate faults: `PROJECT.json`
names, for each checked property, one that TLC must find to violate it. No
specification uses them.

### BackupPipeline

One handler run is one entry `run[q][b][r]`, whose value is the statement the
run will execute next; each `await` of the source is one action, and a call to
the metadata service or to Redis has three outcomes: done, failed, or done and
reported as failed (`Fault`). `job[q][b]` is the BullMQ job, `starts[q][b]` the number of runs
it was given, `row[b]` the columns of the `BackupJob` that anything depends on.
An archive is identified by the run that dumped it: PostgreSQL, MongoDB and
SQLite dumps carry the start time in their file names.

| Source | Actions |
|---|---|
| `POST /backup` | `CheckQueueSize`, `CreateRow`, `Enqueue`, `FailRequest`, `OrchestratorCrash` |
| `DELETE /backup/:id` | `RemoveFromQueue`, `MarkCancelled` |
| `cancelWaitingJob` (dashboard) | `DashboardCheck`, `DashboardRemove`, `MarkCancelled` |
| BullMQ workers | `Take`, `Promote`, `Complete`, `Reject`, `Stall` |
| `handleBackupJob` | `SetRunning`, `Dump`, `SetSuccess`, `HandOff`, `SetFailed`, `NoteFailure` |
| `handleStorageJob` | `Lookup`, `Upload`, `RecordUpload`, `AnnounceUpload` |
| `handleNotificationJob` | `Send` |
| pm2 | `WorkerCrash` |

`LockLoss` admits what BullMQ allows and its users seldom see: a live handler
(a long synchronous step, a paused machine) does not renew its job's 60 s lock,
the stalled check gives the job away, and two runs of one backup interleave.

`BackupCatalogue` is the abstraction that the row implements: a row is opened
once, marked many times, and names archives only after they were produced or
stored. `ImplementsCatalogue` is that refinement; the mapping is the identity on
`row`, `produced` and `bucket`.

### DistributedLock and ScheduledBackup

Every use of the lock makes an object with a random value of its own, so holder,
object and value are one. A command is sent (`call`, `beat` = "sent"), run by
Redis (`RunSet`, `RunRefresh`, `RunRelease`) and answered (`EndAcquire`, `EndBeat`,
`EndRelease`). `LoseConnection` takes the answer away and the command is sent
again: the client is created with `maxRetriesPerRequest: null`. Time is `Tick`;
the time to live is 2·`Half` ticks and the refresh interval `Half`, as
`startRefreshInterval` computes it. With `Prompt` a tick waits for
replies and due timers, that is, they take less than a tick; without it they may
be later than the time to live.

`ScheduledBackup` adds the body of `executeScheduledBackup`: `Fire`/`Enter`
(acquire, or skip the execution), `Touch` (lastRunAt), `Post` (the orchestrator),
`MarkSuccess`, `Announce`, and for exceptions `MarkFailed`, `AnnounceFailure`;
`Finally` releases. The place an exception leads to is that of the nested `try`
blocks: `sendBackupNotifications` catches what its providers throw, not what
`getSchedule` throws, and the inner `catch` block's own exceptions go to the outer
one. `Work` stands for the queue and its workers.

### MetadataService

`ScheduleRegistry` has the handlers `POST /api/schedule` (`CreateRow`, `StartTask`) and
`POST /api/schedule/:id/stop` (`StopTask`, `MarkStopped`) with one await each; `tasks` and
`mapped` are the live cron tasks and `scheduledTasks`. `Restart` loses both, and the new
process runs `loadSchedules` (`ListRows`, then `StartListed`) while it serves
requests already. `WizardRow` is the row that `init` writes behind the scheduler, with a
cron expression that may be wrong. `Parsed` is what `JSON.parse` makes of a row's
metadata: it throws on the object that the scheduler stored, and the loop ends there, so
only rows newer than every scheduler-made one are loaded (`Upto`).

`StorageLocations` has the requests of the `storage` commands, the wizard and `POST /backup`.
A request is sent, may time out and be sent again by `MetadataClient` (`Send`, `TimeOut`)
while its handler goes on; a handler is a member of `handlers` and takes one Prisma
statement at a time: `Find`, `ClearDefaults`, `Upsert`, `SetDefault`, `Delete`.
`NotificationChannels` adds `/api/notifications/config` in the same way and
`schedule --notify`, which copies the settings into the schedule it asks for. `alone`,
`settled` and `lasting` are history variables: which command ran with no other beside it,
and what it reported.

`MetadataService` composes them. Schedules and settings share no row, so their requests
commute, and a behaviour has the requests of one side.

### DumpService and RestoreFlow

A dump is `SpawnTool` or `OpenFile`, then the events of its streams: `ToolEnds`,
`FileEnds`, `Flush` (the pipeline resolves), `Notice` (the exit code or a word on stderr
destroys a stream that has no error listener, which ends the process and every request in
it), `ReadFails`, `ToolDumpFails`, `FileDumpFails`, and the reply. Of the bytes it matters
whether they are the whole database, end early, or were read while it changed.

| Source | Actions |
|---|---|
| `commands/restore.ts` | `AcquireLock`, `Answer` (the prompt, which may exit), `Release`, `LockExpires` |
| `restore.use-case.ts` | `Post`, `Poll`, `DryRun` |
| restore queue | `TakeJob`, `PromoteJob`, `StallJob`, over `JobQueue` |
| `handleRestoreJob` | `BeginHandler`, `Download`, `Verify`, `Decrypt`, `DecryptFails`, `Unpack`, `AskService`, `NoteSuccess`, `Catch`, `EndHandler` |
| `performRestore` | `LoadArchive`; SQLite: `CopyBeside`, `RemoveTarget`, `CopyIntoPlace` |
| failures | `GiveUpWait` (the worker's timeout of an hour), `Damage`, `WorkerDies`, `ServiceDies` |

`staged` are the files on the worker's disk, `listed` the local `temporaryFilesToClean` that
the `finally` block goes through, and `stuck` those whose removal has failed, which
`EndHandler` only logs. A load is a record that goes on, with `left` set, when the handler run
that waits for it dies or gives up; a load whose service died goes on as an orphan of the
operating system.

### MySQLCatalogue

One process serves all requests; each is a `pc`, and takes a step per await. `crit` is its
place in `fileLock.acquire()`, `lockOwner` and `refs` the lock file and the `refCount` of
the object that created it. The manager is a singleton, so backups share one lock
object, while each list and clean-up makes a new one. `metadata.json` is read,
truncated and written in separate steps; `Crash` may come between them. A full
backup is `StartFull` … `SaveEnds`, an incremental one adds `Pick` and `ReadSpan` (the
binary log between two positions), a restore is `ResolveChain`, `VerifyNext`, `ApplyNext`,
a clean-up `CleanupReads`, `CleanupDeletes`, `CleanupEnds`. `Mutate` and `Purge` are the
database server. An archive is the span of events it holds, so its checksum is itself.

### IncrementalChain and PointInTimeRecovery

`IncrementalChain` follows `performIncrementalBackup`, which takes full physical backups too, through
`Verify`, `PickParent`, `RunBaseBackup`, `CacheManifest`, `Pack`, `RecordSuccess`; a job may
fail or die at each and come back. `made[i][k]` is what run `k` of job `i` dumped and against
which run of which parent. `ReadTarget`, `ReadParent` and `Combine` are `restoreBackupChain`.

In `PointInTimeRecovery` the server completes segments (`CompleteSegment`), offers them to
the archive command (`CheckArchive`, `BeginUpload`, `EndUpload`, `ExitArchive`) and believes
its exit code; `ArchiveDies` kills it between two steps. `Atomic` are the locations where a
file appears only when it is complete, as in S3; the local provider copies in place, and
what fails or dies there leaves a "cut" file (`CutShort`). A base backup is `BeginBase` …
`RecordBase`; `restorePitr` is `BeginRecovery`, `StartCluster`, and a poll beside the
server's `Replay` and `Promote`.

### Runtime, Keystore and BackupCommand

`Runtime` gives each CLI process a statement; each docker command is a step, and between two
of them the commands of other processes run (`Inspect` and what follows may be
stale). A docker command that fails may have had its effect, for the runner gives it up after
its time (`DockerFails`); an inspection that fails sees no container. `asks` is the image that
a process passes to compose: the configured one for `start`, `upgrade` and `restart`, which
`DB_BACKUP_IMAGE`, `DB_BACKUP_VERSION` or the configuration may override, and that of the
compose file for a backup and `infra start`, which pass none. `Keystore` has the same processes read and write the two files (`OpenFile` truncates,
`FillFile` writes; likewise the master key), with the cached copy of each process.
`BackupCommand` composes both with `backup --encrypt`: a pending key is kept, the request is
posted, and on success the key is stored under the backup's id and the pending one dropped.
`UseKey`, `Confirm` and `Decline` are the key commands; `FileFails` fails any file call
(`LoadFails`: a read that `loadKeystore` catches, `CallThrows`: one that ends the command).
`exposed` is a history variable, the backups whose key may have gone, for one of the reasons
that `KeysKept` names.

## What the runs check

Runs that pass:

| Run | Instance | States | Shows |
|---|---|---|---|
| `pipeline_lock_loss` | 1 remote backup, 2 attempts of the dump, lock loss, 1 fault | 819k | the runs of a handler are bounded (`RunsBounded`); the row names archives that exist (`CatalogueSound`); a success notice has a success behind it (`SuccessNoticeBacked`); the row implements the abstract catalogue (`ImplementsCatalogue`) |
| `pipeline_crashes` | 1 remote backup that may be cancelled, 2 attempts, 1 worker crash, 1 fault | 1741k | no job without its row (`JobHasRow`); without lock loss the live run owns its job (`LiveRunOwnsJob`); queue and row agree (`OutcomeAgrees`); a finished backup's file is not exchanged (`FinishedFileFrozen`); `TypeOK` |
| `pipeline_live` | a local and a remote backup, queue limit 1, 1 worker crash, fairness | 163k | the queues drain (`QueuesDrain`); an accepted backup is not left running (`AcceptedSettles`) |
| `lock` | 2 users, `Half` = 2, replies later than the time to live, 1 refused command, 1 lost connection, fairness | 24k | a released lock leaves no key (`NothingLeftBehind`); nobody deletes or prolongs another's key (`OnlyOwnerDeletes`, `OnlyOwnerExtends`); the key becomes free (`KeyFreed`) |
| `scheduled` | 2 executions, prompt replies, 2 faults, 1 refused command, 1 lost connection, fairness | 531k | one holder at a time (`MutualExclusion`); messages tell the recorded outcome (`MessagesMatchRecord`); a backup is asked for only under the key (`BackupUnderLock`); the lock becomes free (`LockFreed`) |
| `metadata` | 2 schedules, 2 restarts; 2 locations, 1 channel, 3 clients, 1 repetition; 1 fault | 1590k | a running task can be found (`TasksReachable`); a stopped schedule does not come back (`StoppedStays`); a reported default is the only one (`DefaultStands`); reported settings stand and are copied (`ChannelStands`) |
| `mysql` | 3 requests of two possible kinds each, 3 ids of which 1 encrypted, 1 earlier full backup, 1 event, 1 crash, fairness | 1.2M | the lock file goes with its last user (`RefsCountUsers`); a clean-up rewrites the list alone (`CleanupAlone`); one restore at a time (`OneRestoreAtATime`); a restore of verified archives has no gap and no repetition (`RestoredWithoutGap`); every request is answered (`Answered`) |
| `pitr` | 3 segments, 1 base backup, 2 locations of which one writes files in place, 1 change, fault and crash, fairness | 640k | no segment is given up before it is stored, but where a copy in place was cut short (`ArchivedIsWhole`); the log behind a base backup has no hole (`NoGapBehindBase`); every segment is archived in the end (`WalIsArchived`) |
| `incremental` | 1 full and 2 incremental backups, one of which names its parent, 2 attempts, 2 faults | 4.5M | a recorded increment was taken against the archive that its parent's row names (`ChainsFit`) |
| `restore` | an encrypted PostgreSQL and a remote SQLite dump, a restore of each, 2 attempts, 1 fault (a timeout of the worker among them), 1 crash, fairness | 1.3M | a reply tells what is stored (`ReportedIsStored`); one load at a time has a handler that waits for it (`OneLoadAtATime`); a completed restore leaves no file that could be removed (`SuccessLeavesNothing`); a database is removed only beside a complete copy (`ReplacedSafely`); jobs settle and locks go (`RestoresSettle`) |
| `command` | 2 encrypted backups and one command of any other kind, default and overridden image, 1 fault (of a docker command, a service, a request or a file), 1 interruption | 2.6M | commands in order keep the keys (`KeysKept`); a container left ready is removed only by an upgrade (`UpgradeKeepsService`); no start interrupts a running container of the image it asks for (`StartLeavesRunning`) |

One run expects a violation, of a statement in a document:

| Run | Statement | What the code does |
|---|---|---|
| `restore_encrypted` | a restore of an encrypted backup finds its key in the keystore and verifies the checksum (`README.md:302`) | the recorded checksum is that of the bytes before the cipher, and the job carries no key of the keystore: the restore is refused though nothing went wrong (`restore.worker.ts:112`) |

### Consequences of the code

The models show more behaviour that a reader of the code may not expect, and that no run of
its own records. Properties are stated around it; each such condition is named in the
property's comment.

*Backups and queues*

* `POST /backup` counts the waiting jobs and adds one in two awaits, so concurrent
  requests overshoot `MAX_QUEUE_SIZE` by as many as run between the two.
* A running backup that is cancelled goes on, and its handler overwrites the status
  (`openapi.ts:266` says otherwise). A failed send completes the notification job
  and is not retried (`docs/notes.txt:296`). The failure notice of a first attempt holds the job id
  that the success notice of the second would use (`docs/notes.txt:237`). After a crash a
  second dump's checksum can be recorded beside the first dump's object (`README.md:67`).
* The orchestrator that dies between the row and the job, and the dashboard whose update
  fails after the removal, leave a row that stays RUNNING.
* A backup whose look-up of its location fails upserts that location, and overwrites its
  type, credentials and default flag.

*Schedules and locks*

* The schedule's lock covers the queueing of the backup, not the backup
  (`docs/notes.txt:467`), and "Backup Completed" is sent when the backup is queued.
  `MessagesMatchRecord` therefore compares it with the schedule's recorded outcome.
* After a restart the schedules that the scheduler has made are not loaded, for their
  metadata does not parse (`README.md:89` promises persistence). A schedule of the wizard has no
  task until a restart, and its executions fail for want of a `dbConfig`. A stop that
  comes between the row and the task of a create, or while `loadSchedules` holds its
  list, can leave the task running; `StoppedStays` excludes just these two.
* A `SET NX` repeated after a lost connection meets the key its first copy made; the
  acquire answers "locked" and the database stays blocked for the time to live.
  `NothingLeftBehind` therefore speaks of users that released the lock, and
  `KeyFreed` relies on expiry.
* One refused refresh makes the holder believe the lock is gone: it stops refreshing
  and does not delete the key. This is why `MutualExclusion`, `NothingLeftBehind` and
  `BackupUnderLock` are stated for as long as Redis has refused nothing.

*Settings*

* A POST repeated after a time-out may be carried out long after its reply, undoing a
  later command; a statement that fails between the clearing and the setting of the
  default leaves none; a repeated delete answers 404 although the first removed the
  row. `DefaultStands` and `ChannelStands` speak of commands that ran alone.
* Notification settings are read only when a schedule is created: later changes do not
  reach it.

*Dumps and restores*

* A destination that fails while `pg_dump` or `mongodump` runs kills the tool, and its end
  destroys a stream without listener: the whole service process ends, with every
  request in it.
* A restore command takes the end of its polling for success and gives its lock up
  while the load may be waiting or running. Refusing the prompt exits without releasing the
  lock, which then expires.
* The worker gives a load up after an hour (`restore.worker.ts:190`), while the load goes on,
  and the queue's retry loads beside it with nothing dead; so does the retry of a worker that
  died, and a `pg_restore` survives the death of its service. `OneLoadAtATime` therefore
  counts the loads that a handler still waits for. A SQLite load that was left may copy a
  staging file which the next run of its job is writing anew, the exception of
  `ReplacedSafely`.
* A staging file that cannot be removed is logged and stays (`restore.worker.ts:227`).
* The exit code 1 of `pg_restore` counts as success.
* `restorePitr` reports success when its polling times out. A local copy of a segment that
  fails or dies half-way (`providers/local.ts:35`) leaves a partial file that the next try
  finds in the listing and takes for archived (`postgres-pitr.service.ts:281`), so that the
  server drops the only whole copy, where `README.md:534` promises every completed segment.
  `ArchivedIsWhole` names this case, and shows that there is no other. A change of the default location splits the log over two.
* A chain of PostgreSQL increments whose parent's job comes back after its success
  no longer fits: `ChainsFit` excludes it, and the walk of a restore does not end
  when links form a cycle.

*MySQL*

* An encrypted archive never verifies: its checksum is that of the plain bytes.
* Two saves of the singleton share the lock object and may lose one of their
  updates; a torn `metadata.json` is read as empty and written back; the lock file of a dead
  process refuses all requests; a clean-up deletes the bases of chains that it keeps.
  `RestoredWithoutGap` holds since validation catches each of these.

*Keys and container*

* Two overlapping encrypted backups overwrite each other's keystore, and a torn read of
  it is an empty store (`README.md:421`), which `doctor` and `key list` write back too.
  `KeysKept` is stated while commands use the keystore one after the other.
* A read of `keys.json` or `master.key` that fails is caught (`key-manager.ts:110`) and an
  empty store saved over all keys; a write that fails, or is interrupted, once
  `writeFileSync` has truncated the file loses them as well. `KeysKept` names both; what it
  shows is that no other failing call and no other interruption loses a key, and that
  a store damaged before loses none that is kept later.
* `--no-store-key` has no effect (`README.md:384`); a POST that is refused leaves the pending key.
* An upgrade removes the container before it pulls the image, and a second upgrade
  replaces what the first has started.
* `start` passes the configured image to compose (`docker-runtime.ts:357`), a backup and
  `infra start` do not (`docker-compose.adapter.ts:151`): where an image is overridden, a
  backup whose probe of the services fails recreates the running container from the default
  one. `StartLeavesRunning` speaks of the image that a command asks for itself.

### Bounds, and why they are enough

* Attempts are 2 where the code has 3, 5 and 3: two tell a retried job from a failed
  one, and the order of a third attempt's steps is that of the second's.
  `MaxStalled` is 1, BullMQ's default. `MaxRuns` is attempts plus stalls, which
  `RunsBounded` shows to suffice; `PipelineAssumption` demands it.
* One fault and one crash per behaviour: each handler's error path and each
  lost reply is met at every place, and the theorems below cover any number.
  `scheduled` and `incremental` allow two, so that a catch block's own calls and a second
  attempt fail too.
* Backups interact only through the queue's length and the worker's slots; two
  with one slot and a queue limit of one show both, the refusal with 429 included.
  Rows and archives are never shared.
* Two lock users are the holder and the one that takes over after an expiry, each of
  which may be the late one; `Half` = 2 separates "before", "at" and "after" the
  interval. In `scheduled`, `Half` = 1 is enough: with prompt replies nothing
  happens between two ticks but what is due.
* `MaxErrors` and `MaxLosses` are 1: a second refused command meets a lock that
  is no longer refreshed, and a second lost connection resends what the first did.
* `metadata`: two restarts let a reload follow a stop that follows a reload; two schedules
  let one row end the loop before another. Three clients are one that reports, one that
  runs beside or before it, and one that changes what was reported; two locations are
  the old and the new default. The clients, and the locations, are interchangeable.
* `mysql`: the three requests cover each pair of kinds that meets at a lock or a file: a writer
  and a clean-up, a restore and a backup or a second restore, a list and any of them. One
  event makes an increment that is not empty; the id of an earlier backup can be
  used again by a retried job.
* `pitr`: three segments are one archived, one under way and one behind it; the base
  backup may begin before any of them. One location writes in place and the other does not,
  and either may be the default first. `incremental`: a chain of three, in which the
  last may take either other as its parent.
* `restore`: the two dumps differ in everything that the code looks at: engine, place,
  cipher. One database per engine; the lock of an engine is not contended, since
  `MutualExclusion` shows what contention does, but both restores share the queue.
* `command`: two processes write the keystore and a third does anything else once, so that
  each kind of command runs before, beside and after a backup; the two backups are
  interchangeable. "custom" stands for every overridden image: what is asked of it is
  whether it is the one that runs.

### Fairness

`FairSpec` of the pipeline is weak fairness of the queues and handlers together:
pm2 restarts the worker process (`autorestart`), every awaited call has a time limit,
and BullMQ keeps promoting, taking and checking. The orchestrator, clients and
crashes get none. `LockFairSpec` and the scheduler's `FairSpec` are weakly fair to
each holder's pending replies, timers and statements and to the passing of time: the
event loop runs what has settled, and `release()` stands in a `finally` block.
`POST /backup` is the one call of the scheduler without a time limit; it is assumed to
be answered, which the orchestrator does before any dump starts.

`RestoreFlow` is weakly fair to its steps together: while a command that has begun, the
queue, a handler, a load or an expiring lock can go on, one of them does. That is less than
what BullMQ, pm2 and the event loops give to each, and suffices because attempts are bounded,
so that no step can be taken for ever in place of another. No command has to be
typed, nothing has to fail, and no request to reach its hour. `MySQLCatalogue`
is weakly fair to the steps of each request that was taken: one event loop runs all of
them, and the retry loop of the lock has five tries. `PointInTimeRecovery` is weakly fair to
the server's archiver, which PostgreSQL calls until it succeeds. The other modules state
no fairness and no liveness.

## What is proved

All theorems hold for every value of the constants that satisfies the named
assumption of the module (`PipelineAssumption`, `LockAssumption`,
`MaxFaultsAssumption`, `RegistryAssumption`, `MetadataAssumption`, `CatalogueAssumption`,
`PointInTimeAssumption`, `ChainAssumption`, `RuntimeAssumption`, `BackupCommandAssumption`):
any number of processes, backups, attempts, workers, lock
users, executions, schedules, locations, channels, clients, requests, segments, faults and
crashes, and any time to live.

| Theorem | States | Further assumption |
|---|---|---|
| `TypeCorrect` | `TypeOK` of the pipeline | |
| `HandlerRunsBounded` | a job's handler is started at most attempts + stalls times | |
| `OneHandlerPerJob` | a live run is the run its job is locked by | live handlers keep their locks |
| `CatalogueIsSound` | success rows name produced archives, stored objects were uploaded | |
| `JobsHaveRows` | a queued job has its row | |
| `PipelineImplementsCatalogue` | every step of the pipeline is one of the abstract catalogue, or none | |
| `NoticesAreBacked` | a success message is never ahead of its row | |
| `FinishedFilesStay` | the row of a finished backup keeps its archive | live handlers keep their locks |
| `OutcomesAgree` | without a failed call, the queue and the row tell one outcome | live handlers keep their locks |
| `LockTypeCorrect` | `LockTypeOK` | |
| `DeletedByOwner`, `ExtendedByOwner` | nobody touches another's key | |
| `NothingLeft` | while Redis has refused nothing, a released lock leaves no key | |
| `Exclusion` | while Redis has refused nothing, two users never hold the lock at once | prompt replies |
| `UsesLock` | the scheduler implements `LockSpec` | |
| `ScheduledTypeCorrect` | `TypeOK` of the scheduler | |
| `MessagesTrue` | messages agree with the recorded outcome | |
| `PostsUnderLock` | while Redis has refused nothing, a backup is asked for only under the own key | prompt replies |
| `TasksFound` | a running cron task can be found | |
| `StoppedForGood` | a stopped schedule gets no new task | |
| `SchedulesInService` | both, of the metadata service as a whole | |
| `TheDefaultStands` | a reported default location is the only one | |
| `TheChannelsStand` | reported notification settings stand and are copied | |
| `PitrTypeCorrect`, `ChainTypeCorrect` | `TypeOK` of the two PostgreSQL modules | |
| `NoSegmentLost` | a segment reported as archived is whole in some location, or lies where a copy in place was cut short | |
| `LogBehindBase` | the log behind a recorded base backup has no hole | |
| `ChainsAlwaysFit` | a recorded increment fits the archive that its parent's row names | |
| `RepliesTrue` | the checksum in a reply is that of the archive | |
| `RestoresTypeCorrect` | `TypeOK` of dumps, restores and loads | |
| `NothingStaysStaged` | a completed restore leaves no staging file but those it failed to remove | |
| `OneLoad` | one load at a time has a handler run that waits for it | |
| `NeverWithoutACopy` | SQLite is removed only with a complete copy beside it, or for a load whose run died or gave up | |
| `RefsCounted` | the lock's count is the number of requests inside, types included | |
| `CleanupsAlone` | nobody changes the list between a clean-up's read and write | |
| `RestoresApart` | one restore at a time | |
| `NoGapRestored` | a restore that ends well has replayed every event once | |
| `CommandTypeCorrect` | `TypeOK` of the commands | |
| `ServiceSurvives` | a container reported ready is missing only because of an upgrade | |
| `StartsSpareRunning` | no start and no backup interrupts a running container of the image it asks for | |
| `KeysStay` | commands one after the other keep the key of a reported backup until it is deleted, a read of the keystore fails or a write of it is cut short | |

`OneHandlerPerJob`, `FinishedFilesStay` and `OutcomesAgree` assume that no live handler loses
the lock of its job (`~LockLoss`), which BullMQ grants as long as the event loop renews it in
time; when it does not, they are false, and the run `pipeline_lock_loss` checks what remains.

The arguments:

* **Pipeline types.** `TypeOK` is not inductive: an upload puts `upload[b]` into the
  bucket, which is an archive only if the storage job was given one. `Typed` adds
  `UploadNamed`: while no archive is named, the storage job and all its runs are
  untouched.
* **Bounded runs.** `Bounded` accounts for each start: it ended in an exception
  (`made`), was lost to the stalled check (`stalls`), or is the one in progress; and it
  says that a job that could still be added a first time has had no start. The
  second part is where a removal that is followed by an add would break the bound.
* **Owners.** `LiveRunOwnsJob` is inductive together with the types: a crash leaves dead runs
  only, the stalled-job check takes a job only from a run that is dead, and an add, a
  removal or a cancellation finds no active job to take.
* **Catalogue.** `Traced` ties the place of a run to what lies behind it: a run at
  `setSuccess` or `handOff` has produced its archive, one at `record` has uploaded
  the storage job's, and that archive never changes once named. `TracedKept`
  reduces each action to four facts about what it does to stores, rows, uploads and
  runs.
* **Refinement.** A step of the abstract catalogue needs the row before anything else
  (`RowFirst`: without a row there is no job, no run, and no canceller past its check)
  and a new archive under a new name (`NumbersFresh`). With these, each action of the
  pipeline is one of `Opens`, `Marks`, `Records`, `RecordsStored`, `Produces`, `Stores` or a
  stutter. `JobsHaveRows` is `RowFirst` read backwards.
* **Messages and outcomes.** `NoticesRest`: the row names an archive once a run hands the
  backup on, and its object once a run announces it, and neither field is emptied again.
  `OutcomesTold` relates, while no call has failed, the place of each run to the status that it
  has written; a late run could overwrite it, which is where the owners come in.
* **Lock.** `Timed` (types, and a key that exists has time left), `Placed` (which
  commands can be under way at each place of the user), `Honest` (an object that
  thinks it does not hold the lock has no key left, when nothing is refused) and
  `Kept` (a holder's key has at least its timer's ticks plus half the time to
  live), each inductive on top of the one before. `Kept` gives exclusion: every
  holder's value is in the one key.
* **Scheduler.** `UsesLock` maps each step to a lock step or a stutter, so the lock's
  theorems transfer; `Telling` relates the place of the body to what was recorded and
  told.
* **Registry.** `TasksReachable` breaks in one step from a state in which a task runs
  while its create, or a list, is about to start it again. `Caused` rules it out: a task
  that runs has no create between row and task, and before the loop of a restart is over only
  creates of the new process have tasks. It also says that a stopped row is disabled
  and in no list, which is what `StoppedForGood` needs.
* **Locations and channels.** `AllAsked` types the commands, their repeated requests and the
  handlers these have started. `DefaultStands` is not inductive: a repeated request
  clears the flag of the location that its first attempt had made the default, and only what
  is known of that handler (`DefaultMade`: it holds the id of the row, no other location is
  the default, and it is about to set the flag) tells that it sets it again. `Lasts`
  says the same of a channel: whatever handler is left over does again what was reported.
* **WAL archive.** `Stored` adds to `ArchivedIsWhole` that the location of an archive
  command about to exit has its segment whole, that a partial file belongs to the copy that
  writes it, and that partial and cut files are in no location of `Atomic`. A segment that is
  found in storage, and taken for archived, is thus whole or cut; and a step of the archive
  command writes one file, of a segment that was not reported yet.
  `Covered` extends `NoGapBehindBase` to base backups still under way, and adds that archiving
  was on when they began; without it, a segment completed under
  "pending" would be skipped.
* **Chain.** `RunsAgree` ties each job's place to its row, its cached manifest and the
  runs that were recorded; `Based` says of every archive, recorded or not, that its
  parent was recorded and, while that is the parent's only recorded run and its
  last, was taken against that run. The second survives the parent's next attempt only because
  that attempt changes `runs`.
* **Dumps.** `Streamed`: a request at its reply has in its destination what its tool has
  written, a tool is killed only when its request is over, and a reply is given only
  once. A death that spreads over all requests of a process is one lemma.
* **Restores.** `AllWorked`: a handler that has begun is the run its job is locked by, and
  only one is at work. `AllStaged` adds what is listed at each place of the handler:
  what an earlier run has staged is listed again before the end. `AllServed` gives each load
  its handler run, which waits for it until it dies or gives up, or else the mark that it was
  left, and each load of SQLite past its copy, if somebody waits for it, the archive beside
  the database.
* **MySQL.** `PlacedInv`: where a request is says what it asked for, what its entry may be and
  whether it is inside the lock; those inside are counted by `refs` and share the object
  that has the file. A clean-up's object is its own, so it is alone there.
  `NoGapRestored` follows an entry from its dump: `AllSound` says of every entry of a completed
  backup, in the list, in a request's copy of it or in a chain, that its archive ends where the
  entry does, begins where it does if it has a parent, and was written by a request that will
  write no more; so a file that no longer is the verified archive never becomes it again
  (`ArchivesFade`), and `Chained` may state what has been replayed under the condition that
  the files still are the archives verified.
* **Commands.** The types are not inductive alone: an import stores a key under the name
  that it is kept under, so what is imported must be keys of backups (`ImportsNamed`), and
  `UseKey` passes on the task of its process, so each process must be at a statement of its
  command (`Placed`). `CallsPlaced` says that nobody but a backup or a `key` command has a
  call of the key manager under way.
* **Container.** `Served` extends the antecedent of `UpgradeKeepsService` to a backup
  still at work, which has found the services healthy once and does not look again. Three
  facts about every step then suffice (`ServiceStep`): a container that is taken away was
  taken by an upgrade still at work; a process is newly served only by a healthy container,
  which the step leaves alone; so is the end of an upgrade. `StartsSpareRunning` needs that a
  start is never at a statement that stops something (`Placed`) and that nobody else holds the
  port of a running container (`ContainerSound`), as `docker compose up` would otherwise
  replace it by one that cannot start.
* **Keystore.** `KeysKept` says nothing of what a process has cached or is about to write,
  and so is far from inductive. The invariant speaks of the backups whose key is heeded, done
  or at work and not exposed. While there is one, one process at most uses the keystore
  (`OneUser`), and the master key it has cached is the present one (`InStep`). Each key that was
  handed over, whether its backup has been reported or not (`Promised`), is in the file
  unless that is just being written (`Stored`), and in every store about to be written
  (`HeldBy`), and nobody is about to make a new master key. `CallsKnown` relates a call to its
  command: an add names the process's own backup, what is deleted was noted in `exposed`;
  `KeysKnown` does the same for the master keys. A failed file call either spoils nothing, or
  exposes all that is heeded.

Only model-checked: the liveness properties (`QueuesDrain`, `AcceptedSettles`,
`KeyFreed`, `LockFreed`, `WalIsArchived`, `Answered`, `RestoresSettle`), which rest on fairness
and `ENABLED` and are out of the prover's reach. Every other property of the passing runs is
proved.

## Abstractions

* *Queues.* Finished jobs stay known for as long as retries need their id
  (`removeOnComplete` keeps them an hour or 100 jobs). A job that stalls too often
  fails without running its handler, as BullMQ does it.
* *Row.* Only the columns that some step reads or some property compares;
  'CANCELLED' and 'cancelled', which two call sites use, are one status. A PATCH that
  times out was carried out by then or never is: its late landing (`metadata-client.ts:148`)
  is left out here and in `ScheduledBackup`, unlike in `MetadataService`. A PATCH
  that the 32-bit `Int` columns would refuse is a failed call. The write-back of
  old metadata JSON by the storage handler is left out: nothing modelled reads it.
* *Notifications.* A channel is configured; which provider it is makes no
  difference. The audit record is write-only and left out.
* *Dumps.* In the pipeline a dump that times out is a failed one; the inside of a dump is
  `DumpService`. Retries of a MySQL dump reuse the file name, so for MySQL two archives
  of one backup are one file.
* *Requests.* A crash of the orchestrator loses the requests in flight. A request
  to cancel that dies between its two steps is one whose second step never comes;
  for this reason `AcceptedSettles` excludes cancellable backups, and it starts
  from the accepted request because a crash before the add leaves the row running.
* *Lock.* Each object is used once, as all its users do. An interval that fires
  while a refresh is unanswered is merged with it. A command on the wire when a
  process dies was run before or never is. `RestoreFlow` sees the lock as a
  variable: what the lock guarantees, `DistributedLock` shows.
* *Scheduler.* The recorded outcome is kept per execution, since two executions
  overwrite each other's in one schedule row. A repeated POST of `createSchedule` that
  leaves a second row is a failed create whose row exists. In `ScheduleRegistry` each
  execution is left out; `ScheduledBackup` has it.
* *Metadata.* A handler takes one Prisma statement at a time; the statements are atomic,
  as SQLite makes them. Of a location the id and the default flag are kept, of a channel's
  settings who wrote them.
* *Restore.* One database per engine. The contents of an archive are one of "whole",
  "short", "mixed", "part" and "damaged"; ciphers are seen as the key that opens the
  archive.
* *MySQL.* A position of the binary log is one number. An element of a chain is verified
  in one step; the nested readings of the list are one second reading; the entries of
  an earlier chain are a prefix that was made by requests before the start. The removal of
  a failed archive is merged with the save of its entry, and a failing cipher is
  left out. Of two dumps into one file (`manager.ts:301`) the last to end makes it complete,
  where the code may leave a mixture of both; of two overlapping writes of the list
  (`manager.ts:986`) the last one stands, where they may leave what does not parse. The
  position read before the dump, used where the dump's own cannot be found
  (`manager.ts:333`), is left out. The connection that the manager caches ignores the `dbConfig` of later requests
  (`manager.ts:62`); the model has one server.
* *PostgreSQL.* Position and time are one order; a recovery's target is a position.
  `pg_combinebackup` and the load of its result are one step. Summaries, manifests and
  directories are seen as the run that made them. Of `getParentManifestPath`
  (`postgres-incremental.service.ts:175`) the cached file is kept; the places looked in after
  it are of no use to the model, where a backup that has succeeded has cached its manifest.
* *Keystore.* `existsSync` never fails, and a read gives the whole file or none.
* *Container.* One container and one port; an image is that of an earlier version, the
  default of the compose file, or one that overrides it; a service is healthy or not as a
  whole. A docker command that fails or times out has had its whole effect by then or never
  has it: no recreation stops half-way, and none lands late. `DB_BACKUP_CONTAINER` and
  `DB_BACKUP_PORT`, which the backup's compose command ignores as well, are left out.

## Not modelled

* Job logs and the notification audit: rows that are inserted and listed, never read
  by another step.
* Read-only endpoints and commands: status, statistics, `list`, `doctor`, `connect`,
  `dashboard`, and the views, routes, controllers and gateway, which map requests onto
  the operations above.
* Changing a location by PATCH and deleting a schedule, which have no caller.
* The eviction of finished jobs after an hour, and the ciphers and compressors as streams of
  bytes: a second chunk in `DecryptionTransform`, the exit code of `gunzip`.
* The storage providers' SDKs: an upload is seen as done, failed, or done in part. The key
  under the id `default` that the wizard stores in the keystore.

What a continuation would take up: more of the coverage, among it the job logs, the
dashboard's statistics and the wizard's key, rather than proofs: what is left unproved is
liveness.
