---------------------------- MODULE RestoreFlow ----------------------------
(***************************************************************************)
(* Restores of the dumps of DumpService: the `restore` command under its   *)
(* lock, the use case that posts and polls, the restore queue,             *)
(* handleRestoreJob of the worker, and performRestore of the services,     *)
(* which run in the processes that dump.  There is one database to each    *)
(* engine.  A queue job has the operators of JobQueue; the lock is that of *)
(* DistributedLock, seen as a variable.                                    *)
(***************************************************************************)
EXTENDS DumpService, JobQueue

CONSTANTS
  Client,      \* runs of the `restore` command
  Wants,       \* backup that each asks for
  Keyed,       \* those that pass --key
  Skips,       \* those that pass --skip-checksum
  Remote,      \* backups in S3
  None,        \* nobody
  Attempts,    \* RESTORE_RETRY_ATTEMPTS
  MaxStalled   \* BullMQ's maxStalledCount

ASSUME RestoreAssumption ==
  /\ Wants \in [Client -> Dump] /\ Keyed \subseteq Client /\ Skips \subseteq Client
  /\ Remote \subseteq Dump /\ None \notin Client
  /\ Attempts \in Nat \ {0} /\ MaxStalled \in Nat

VARIABLES
  pc,       \* statement of each command
  lock,     \* holder of the restore lock of each database
  told,     \* outcome that the command reports
  job,      \* its job in the restore queue
  runs,     \* handler runs of the job
  handler,  \* statement of the job's handler
  staged,   \* the job's staging files on the worker's disk
  listed,   \* those that this run of the handler will remove
  stuck,    \* those that a run has failed to remove
  loads,    \* running performRestore: of which job and run, its statement, and whether
            \* that run has died or given up
  target,   \* each database: "old", "gone", or the content last loaded
  beside    \* content of <database>.restoring, which SQLite restores through

clientVars  == <<pc, lock, told>>
workerVars  == <<job, runs, handler, staged, listed, stuck>>
serviceVars == <<loads, target, beside>>
vars == <<dumpVars, clientVars, workerVars, serviceVars, faults, crashes>>

Archive(c) == stored[Wants[c]]
Kind(c)    == Engine[Wants[c]]
Sealed(c)  == Wants[c] \in Encrypted

Init ==
  /\ DumpInit
  /\ pc = [c \in Client |-> "new"]
  /\ lock = [e \in Engines |-> None]
  /\ told = [c \in Client |-> "none"]
  /\ job = [c \in Client |-> NoJob]
  /\ runs = [c \in Client |-> 0]
  /\ handler = [c \in Client |-> "idle"]
  /\ staged = [c \in Client |-> {}] /\ listed = [c \in Client |-> {}]
  /\ stuck = [c \in Client |-> {}]
  /\ loads = {}
  /\ target = [e \in Engines |-> "old"] /\ beside = "none"

(* An archive is damaged in storage, while no handler works on it *)
Damage(d) ==
  /\ reply[d] = "ok" /\ stored[d] # "damaged" /\ Fault
  /\ \A c \in Client : Wants[c] = d => handler[c] = "idle"
  /\ stored' = [stored EXCEPT ![d] = "damaged"]
  /\ UNCHANGED <<at, tool, sum, reply, clientVars, workerVars, serviceVars, crashes>>

-----------------------------------------------------------------------------
(* The command and its use case                                            *)

Elsewhere == UNCHANGED <<dumpVars, workerVars, serviceVars, crashes>>

AcquireLock(c) ==
  /\ pc[c] = "new"
  /\ \/ /\ lock[Kind(c)] = None
        /\ lock' = [lock EXCEPT ![Kind(c)] = c]
        /\ pc' = [pc EXCEPT ![c] = "prompt"]
        /\ UNCHANGED told
     \/ /\ lock[Kind(c)] # None
        /\ pc' = [pc EXCEPT ![c] = "over"] /\ told' = [told EXCEPT ![c] = "failed"]
        /\ UNCHANGED lock
  /\ UNCHANGED faults /\ Elsewhere

(* The prompt for --drop-existing; a refusal exits the process at once *)
Answer(c) ==
  /\ pc[c] = "prompt"
  /\ \E next \in {"post", "exited"} : pc' = [pc EXCEPT ![c] = next]
  /\ UNCHANGED <<lock, told, faults>> /\ Elsewhere

Leave(c, outcome) ==
  /\ pc' = [pc EXCEPT ![c] = "finally"]
  /\ told' = [told EXCEPT ![c] = outcome]
  /\ UNCHANGED lock

(* POST /restore queues a job under a new id, if the backup's row is there *)
Post(c) ==
  /\ pc[c] = "post"
  /\ \/ /\ reply[Wants[c]] = "ok"
        /\ job' = [job EXCEPT ![c] = Added(@)]
        /\ \/ pc' = [pc EXCEPT ![c] = "poll"] /\ UNCHANGED <<lock, told, faults>>
           \/ Leave(c, "failed") /\ Fault              \* the reply is lost
     \/ /\ reply[Wants[c]] # "ok"
        /\ Leave(c, "failed") /\ UNCHANGED <<job, faults>>
     \/ /\ Leave(c, "failed") /\ Fault /\ UNCHANGED job
  /\ UNCHANGED <<dumpVars, runs, handler, staged, listed, stuck, serviceVars, crashes>>

(* --dry-run works on the archive itself; with an encrypted row or --key it looks for
   a vector in a field that no row has *)
DryRun(c) ==
  /\ pc[c] = "post" /\ reply[Wants[c]] = "ok"
  /\ Leave(c, IF Sealed(c) \/ c \in Keyed \/ (c \notin Skips /\ Archive(c) # sum[Wants[c]])
              THEN "failed" ELSE "success")
  /\ UNCHANGED faults /\ Elsewhere

(* Two minutes of polling; no outcome by then counts as success *)
Poll(c) ==
  /\ pc[c] = "poll"
  /\ Leave(c, IF job[c].state = "failed" THEN "failed" ELSE "success")
  /\ UNCHANGED faults /\ Elsewhere

(* Mutant of Release: the lock is released after the success message. *)
ReleaseIfDone(c) ==
  /\ pc[c] = "finally"
  /\ pc' = [pc EXCEPT ![c] = "over"]
  /\ lock' = IF told[c] = "success" THEN [lock EXCEPT ![Kind(c)] = None] ELSE lock
  /\ UNCHANGED <<told, faults>> /\ Elsewhere

Release(c) ==
  /\ pc[c] = "finally"
  /\ pc' = [pc EXCEPT ![c] = "over"]
  /\ lock' = [lock EXCEPT ![Kind(c)] = None]
  /\ UNCHANGED <<told, faults>> /\ Elsewhere

(* The key of a process that is gone reaches its time to live *)
LockExpires(e) ==
  /\ \E c \in Client : lock[e] = c /\ pc[c] = "exited"
  /\ lock' = [lock EXCEPT ![e] = None]
  /\ UNCHANGED <<pc, told, faults>> /\ Elsewhere

-----------------------------------------------------------------------------
(* The restore queue and handleRestoreJob                                  *)

Goto(c, statement) == handler' = [handler EXCEPT ![c] = statement]
NoFileWork  == UNCHANGED <<dumpVars, clientVars, serviceVars, crashes>>
OutOfWorker == NoFileWork /\ UNCHANGED stuck

(* Mutant of TakeJob: MAX_CONCURRENT_RESTORES is not passed to the worker. *)
TakeJobBeside(c) ==
  /\ job[c].state = "waiting"
  /\ job' = [job EXCEPT ![c] = Taken(@, runs[c] + 1)]
  /\ runs' = [runs EXCEPT ![c] = @ + 1]
  /\ Goto(c, "begin")
  /\ UNCHANGED <<staged, listed, faults>> /\ OutOfWorker

(* MAX_CONCURRENT_RESTORES is one *)
TakeJob(c) ==
  /\ job[c].state = "waiting"
  /\ \A o \in Client : handler[o] = "idle"
  /\ job' = [job EXCEPT ![c] = Taken(@, runs[c] + 1)]
  /\ runs' = [runs EXCEPT ![c] = @ + 1]
  /\ Goto(c, "begin")
  /\ UNCHANGED <<staged, listed, faults>> /\ OutOfWorker

PromoteJob(c) ==
  /\ job[c].state = "delayed"
  /\ job' = [job EXCEPT ![c] = Promoted(@)]
  /\ UNCHANGED <<runs, handler, staged, listed, faults>> /\ OutOfWorker

StallJob(c) ==
  /\ job[c].state = "active" /\ handler[c] = "idle"
  /\ job' = [job EXCEPT ![c] = Stalled(@, MaxStalled)]
  /\ UNCHANGED <<runs, handler, staged, listed, faults>> /\ OutOfWorker

(* addLog is outside the try block *)
BeginHandler(c) ==
  /\ handler[c] = "begin"
  /\ \/ Goto(c, "download") /\ UNCHANGED faults
     \/ Goto(c, "throw") /\ Fault
  /\ UNCHANGED <<job, runs, staged, listed>> /\ OutOfWorker

(* A staging file is named by the request, and listed once it is complete *)
Stage(c, file, next) ==
  /\ staged' = [staged EXCEPT ![c] = @ \cup {file}]
  /\ \/ listed' = [listed EXCEPT ![c] = @ \cup {file}] /\ Goto(c, next) /\ UNCHANGED faults
     \/ Goto(c, "catch") /\ UNCHANGED listed /\ Fault
  /\ UNCHANGED <<job, runs>> /\ OutOfWorker

Pass(c, next) ==
  /\ Goto(c, next)
  /\ UNCHANGED <<job, runs, staged, listed, faults>> /\ OutOfWorker

(* A local archive is used where it is *)
Download(c) ==
  /\ handler[c] = "download"
  /\ IF Wants[c] \in Remote THEN Stage(c, "download", "verify") ELSE Pass(c, "verify")

(* The bytes of the archive against the checksum of those before the cipher *)
Verified(c) == c \in Skips \/ (~Sealed(c) /\ Archive(c) = sum[Wants[c]])

Verify(c) ==
  /\ handler[c] = "verify"
  /\ Pass(c, IF Verified(c) THEN "decrypt" ELSE "catch")

(* The key is the client's: the job does not carry that of the keystore *)
Decrypt(c) ==
  /\ handler[c] = "decrypt"
  /\ \/ ~Sealed(c) /\ c \notin Keyed /\ Pass(c, "unpack")
     \/ Sealed(c) /\ c \in Keyed /\ Archive(c) # "damaged" /\ Stage(c, "plain", "unpack")
     \/ Sealed(c) /\ c \notin Keyed /\ Pass(c, "catch")

(* A plain archive does not decrypt, nor does a damaged one *)
DecryptFails(c) ==
  /\ handler[c] = "decrypt" /\ c \in Keyed
  /\ ~Sealed(c) \/ Archive(c) = "damaged"
  /\ staged' = [staged EXCEPT ![c] = @ \cup {"plain"}]
  /\ Goto(c, "catch")
  /\ UNCHANGED <<job, runs, listed, faults>> /\ OutOfWorker

Unpack(c) == handler[c] = "unpack" /\ Stage(c, "unpacked", "post")

(* POST <service>/restore; its answer, or the loss of it, ends the wait *)
AskService(c) ==
  /\ handler[c] = "post"
  /\ Goto(c, "wait")
  /\ loads' = loads \cup {[of |-> c, run |-> runs[c], at |-> "runs", left |-> FALSE]}
  /\ UNCHANGED <<job, runs, staged, listed, stuck, dumpVars, clientVars, target, beside,
                 faults, crashes>>

(* A load goes on when the handler run that asked for it is gone *)
Abandoned(l, gone) == [l EXCEPT !.left = @ \/ l.of \in gone]
Abandon(gone)  == loads' = {Abandoned(l, gone) : l \in loads}

(* ... as does its timeout of an hour *)
GiveUpWait(c) ==
  /\ handler[c] = "wait" /\ Fault
  /\ Goto(c, "catch")
  /\ Abandon({c})
  /\ UNCHANGED <<job, runs, staged, listed, stuck, dumpVars, clientVars, target, beside, crashes>>

(* The last updateProgress and addLog are inside the try block *)
NoteSuccess(c) ==
  /\ handler[c] = "note"
  /\ \/ Goto(c, "return") /\ UNCHANGED faults
     \/ Goto(c, "catch") /\ Fault
  /\ UNCHANGED <<job, runs, staged, listed>> /\ OutOfWorker

Catch(c) == handler[c] = "catch" /\ Pass(c, "throw")

(* Mutant of EndHandler: the files are removed in the catch block. *)
EndHandlerInCatch(c) ==
  /\ handler[c] \in {"return", "throw"}
  /\ job' = [job EXCEPT ![c] = IF handler[c] = "return" THEN Completed(@, runs[c])
                                ELSE Rejected(@, runs[c], Attempts)]
  /\ staged' = [staged EXCEPT ![c] = IF handler[c] = "throw" THEN @ \ listed[c] ELSE @]
  /\ listed' = [listed EXCEPT ![c] = {}]
  /\ Goto(c, "idle")
  /\ UNCHANGED <<runs, faults>> /\ OutOfWorker

(* The finally block, where a file that cannot be removed is logged and left, and what
   the queue makes of the outcome *)
EndHandler(c) ==
  /\ handler[c] \in {"return", "throw"}
  /\ job' = [job EXCEPT ![c] = IF handler[c] = "return" THEN Completed(@, runs[c])
                                ELSE Rejected(@, runs[c], Attempts)]
  /\ \/ staged' = [staged EXCEPT ![c] = @ \ listed[c]] /\ UNCHANGED <<stuck, faults>>
     \/ \E file \in listed[c] :
          /\ Fault
          /\ staged' = [staged EXCEPT ![c] = @ \ (listed[c] \ {file})]
          /\ stuck' = [stuck EXCEPT ![c] = @ \cup {file}]
  /\ listed' = [listed EXCEPT ![c] = {}]
  /\ Goto(c, "idle")
  /\ UNCHANGED runs /\ NoFileWork

(* The services go on with what they were asked *)
WorkerDies ==
  /\ crashes < MaxCrashes
  /\ \E c \in Client : handler[c] # "idle"
  /\ crashes' = crashes + 1
  /\ handler' = [c \in Client |-> "idle"]
  /\ listed' = [c \in Client |-> {}]
  /\ Abandon(Client)
  /\ UNCHANGED <<dumpVars, clientVars, job, runs, staged, stuck, target, beside, faults>>

-----------------------------------------------------------------------------
(* performRestore in the services                                          *)

OutOfService ==
  UNCHANGED <<dumpVars, clientVars, job, runs, staged, listed, stuck, crashes>>

(* The reply reaches the handler run that asked, if it is still there *)
Tell(l, statement) ==
  handler' = IF handler[l.of] = "wait" /\ runs[l.of] = l.run
             THEN [handler EXCEPT ![l.of] = statement] ELSE handler

Into(l, content) == target' = [target EXCEPT ![Kind(l.of)] = content]

(* pg_restore or mongorestore ends: with the archive loaded, or not.  pg_restore's
   exit code 1 counts as success, and psql goes on after errors. *)
LoadArchive(l) ==
  /\ Kind(l.of) # "sqlite"
  /\ loads' = loads \ {l}
  /\ \/ Into(l, Archive(l.of)) /\ Tell(l, "note") /\ UNCHANGED faults
     \/ Into(l, "gone") /\ Tell(l, "catch") /\ Fault
     \/ Into(l, "gone") /\ l.left /\ UNCHANGED <<handler, faults>>
     \/ Into(l, "gone") /\ Tell(l, "note") /\ Kind(l.of) = "postgresql" /\ Fault
  /\ UNCHANGED beside /\ OutOfService

(* Mutant of CopyBeside: the database is removed before the archive is copied. *)
RemoveFirst(l) ==
  /\ Kind(l.of) = "sqlite" /\ l.at = "runs"
  /\ \A o \in loads : o.at \in {"runs", "orphan"}
  /\ Into(l, "gone")
  /\ \/ /\ beside' = Archive(l.of)
        /\ loads' = (loads \ {l}) \cup {[l EXCEPT !.at = "copied"]}
        /\ UNCHANGED <<handler, faults>>
     \/ /\ beside' = "part" /\ Fault
        /\ loads' = loads \ {l} /\ Tell(l, "catch")
  /\ OutOfService

(* SQLite: the archive is copied beside the database.  The calls of a request are
   synchronous: no other request of the process comes between them.  When the run that
   asked is gone, its staging file may be too, or the next run is writing it anew. *)
CopyBeside(l) ==
  /\ Kind(l.of) = "sqlite" /\ l.at = "runs"
  /\ \A o \in loads : o.at \in {"runs", "orphan"}
  /\ \/ /\ beside' = Archive(l.of)
        /\ loads' = (loads \ {l}) \cup {[l EXCEPT !.at = "copied"]}
        /\ UNCHANGED <<handler, faults>>
     \/ /\ beside' = "part" /\ l.left
        /\ loads' = (loads \ {l}) \cup {[l EXCEPT !.at = "copied"]}
        /\ UNCHANGED <<handler, faults>>
     \/ /\ beside' = "part" /\ Fault
        /\ loads' = loads \ {l} /\ Tell(l, "catch")
     \/ /\ l.left
        /\ loads' = loads \ {l} /\ UNCHANGED <<beside, handler, faults>>
  /\ UNCHANGED target /\ OutOfService

(* ... the database is removed ... *)
RemoveTarget(l) ==
  /\ l.at = "copied"
  /\ Into(l, "gone")
  /\ loads' = (loads \ {l}) \cup {[l EXCEPT !.at = "removed"]}
  /\ UNCHANGED <<beside, handler, faults>> /\ OutOfService

(* ... and the copy is copied in its place, then removed *)
CopyIntoPlace(l) ==
  /\ l.at = "removed"
  /\ loads' = loads \ {l}
  /\ \/ Into(l, beside) /\ beside' = "none" /\ Tell(l, "note") /\ UNCHANGED faults
     \/ UNCHANGED <<target, beside>> /\ Tell(l, "catch") /\ Fault
  /\ OutOfService

(* The process of a service ends, by itself or by a failed dump: the connections of the
   restores that it was running are reset, their pg_restore or mongorestore goes on *)
LoadsOf(e) == {l \in loads : Kind(l.of) = e /\ l.at # "orphan"}

EndLoads(e) ==
  /\ handler' = [c \in Client |-> IF handler[c] = "wait" /\ Kind(c) = e
                                   THEN "catch" ELSE handler[c]]
  /\ IF e = "sqlite"
     THEN /\ loads' = loads \ LoadsOf(e)
          /\ beside' \in {beside} \cup {"part" : l \in {o \in LoadsOf(e) : o.at = "runs"}}
     ELSE /\ loads' = (loads \ LoadsOf(e)) \cup {[l EXCEPT !.at = "orphan"] : l \in LoadsOf(e)}
          /\ UNCHANGED beside
  /\ UNCHANGED <<clientVars, job, runs, staged, listed, stuck, target>>

ServiceDies(e) ==
  /\ Busy(e) # {} \/ LoadsOf(e) # {}
  /\ crashes < MaxCrashes
  /\ crashes' = crashes + 1
  /\ EndProcess(e) /\ EndLoads(e)
  /\ UNCHANGED <<tool, stored, sum, faults>>

-----------------------------------------------------------------------------
CommandNext(c) ==
  AcquireLock(c) \/ Answer(c) \/ Post(c) \/ DryRun(c) \/ Poll(c) \/ Release(c)

QueueNext(c) == TakeJob(c) \/ PromoteJob(c) \/ StallJob(c)

HandlerNext(c) ==
  \/ BeginHandler(c) \/ Download(c) \/ Verify(c) \/ Decrypt(c) \/ DecryptFails(c)
  \/ Unpack(c) \/ AskService(c) \/ NoteSuccess(c) \/ Catch(c) \/ EndHandler(c)

LoadNext ==
  \E l \in loads : LoadArchive(l) \/ CopyBeside(l) \/ RemoveTarget(l) \/ CopyIntoPlace(l)

Next ==
  \/ \E d \in Dump : \/ DumpStep(d) /\ UNCHANGED <<clientVars, workerVars, serviceVars>>
                     \/ (Notice(d) \/ ReadFails(d)) /\ EndLoads(Engine[d])
                     \/ Damage(d)
  \/ \E c \in Client : CommandNext(c) \/ QueueNext(c) \/ HandlerNext(c) \/ GiveUpWait(c)
  \/ LoadNext
  \/ \E e \in Engines : LockExpires(e) \/ ServiceDies(e)
  \/ WorkerDies

Spec == Init /\ [][Next]_vars

(* While a command that has begun, the worker, a service, or a lock to expire can make a
   step, one of them does; no request needs to time out, and nothing to fail *)
Progress ==
  \/ \E c \in Client : (pc[c] # "new" /\ CommandNext(c)) \/ QueueNext(c) \/ HandlerNext(c)
  \/ LoadNext
  \/ \E e \in Engines : LockExpires(e)

FairSpec == Spec /\ WF_vars(Progress)

-----------------------------------------------------------------------------
Contents == {"none", "part", "short", "mixed", "whole", "damaged"}
Files    == {"download", "plain", "unpacked"}
LoadRecords == [of : Client, run : Nat, left : BOOLEAN,
                at : {"runs", "copied", "removed", "orphan"}]

(* Types of the variables. *)
TypeOK ==
  /\ DumpTypeOK
  /\ pc \in [Client -> {"new", "prompt", "exited", "post", "poll", "finally", "over"}]
  /\ lock \in [Engines -> Client \cup {None}]
  /\ told \in [Client -> {"none", "success", "failed"}]
  /\ job \in [Client -> Jobs] /\ runs \in [Client -> Nat]
  /\ handler \in [Client -> {"idle", "begin", "download", "verify", "decrypt", "unpack",
                             "post", "wait", "note", "catch", "return", "throw"}]
  /\ staged \in [Client -> SUBSET Files] /\ listed \in [Client -> SUBSET Files]
  /\ stuck \in [Client -> SUBSET Files]
  /\ loads \subseteq LoadRecords
  /\ target \in [Engines -> Contents \cup {"old", "gone"}] /\ beside \in Contents

(* At most one load goes on for a handler run that still waits for it.  The others are
   those whose run died or gave up after its hour, and the pg_restore and mongorestore
   processes of a service that died: they go on beside the retry of their job, or beside
   the next restore.  That a command gives its lock up when it stops polling adds none. *)
OneLoadAtATime ==
  TypeOK /\ Cardinality({l \in loads : l.at # "orphan" /\ ~l.left}) <= 1

(* A restore that completes leaves no staging file behind, neither its own nor those of
   its attempts that failed, died or gave up, but the files it has failed to remove. *)
SuccessLeavesNothing ==
  \A c \in Client : job[c].state = "completed" => staged[c] \subseteq stuck[c]

(* A SQLite database that can be used is removed only when a complete copy of the archive
   lies beside it, or for a load whose handler run died or gave up: the next run of its
   job writes the file it copies. *)
ReplacedSafely ==
  [][target["sqlite"] # "gone" /\ target'["sqlite"] = "gone"
       => \/ beside' \notin {"none", "part"}
          \/ \E l \in loads : l.at = "copied" /\ l.left]_vars

(* Every queued restore is completed or failed in the end, and every lock released. *)
RestoresSettle ==
  []<>(/\ \A c \in Client : Finished(job[c])
       /\ \A e \in Engines : lock[e] = None)

(* A restore finds the key of an encrypted backup in the keystore and verifies its checksum
   (README.md:302): the handler gives up only when something went wrong. *)
IntactRestores ==
  \A c \in Client : handler[c] = "catch" => faults > 0 \/ crashes > 0
=============================================================================
