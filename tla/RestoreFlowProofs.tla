-------------------------- MODULE RestoreFlowProofs --------------------------
(***************************************************************************)
(* For any number of dumps and restores, failing tools and files, and      *)
(* processes that end under the requests they serve: what a dump service   *)
(* reports is what it has stored, a completed restore leaves no staging    *)
(* file, loads do not meet, and SQLite is replaced from a complete copy.   *)
(***************************************************************************)
EXTENDS RestoreFlow, FiniteSetTheorems, TLAPS

DumpTypes ==
  /\ at \in [Dump -> {"new", "stream", "flush", "reply", "over"}]
  /\ tool \in [Dump -> {"none", "runs", "zero", "nonzero", "killed"}]
  /\ stored \in [Dump -> {"none", "part", "short", "mixed", "whole", "damaged"}]
  /\ sum \in [Dump -> {"none", "short", "mixed", "whole"}]
  /\ reply \in [Dump -> {"none", "ok", "error", "lost"}]

(***************************************************************************)
(* A request that comes to its reply has what its tool wrote in its        *)
(* destination, and a tool is killed only when its request is over.        *)
(***************************************************************************)
Streamed(d) ==
  /\ tool[d] = "killed" => at[d] = "over"
  /\ at[d] = "stream" /\ tool[d] = "none" => Engine[d] = "sqlite"
  /\ at[d] = "flush" => tool[d] \in {"zero", "nonzero"}
  /\ at[d] = "reply" /\ Engine[d] # "sqlite" => stored[d] = Written(d)
  /\ at[d] = "reply" => stored[d] \in {"short", "mixed", "whole"}
  /\ at[d] # "over" => reply[d] = "none"
  /\ reply[d] = "ok" =>
       /\ at[d] = "over"
       /\ stored[d] \in {"short", "mixed", "whole", "damaged"}
       /\ stored[d] = "damaged" \/ sum[d] = stored[d]

AllStreamed == DumpTypes /\ \A d \in Dump : Streamed(d)

LEMMA StreamedInit == Init => AllStreamed
BY DEF Init, DumpInit, AllStreamed, DumpTypes, Streamed

\* A step of a request that leaves its process alone.
LEMMA DumpsKeepStreamed ==
  ASSUME AllStreamed, NEW d \in Dump, DumpStep(d)
  PROVE  AllStreamed'
<1> DumpTypes /\ Streamed(d)
  BY DEF AllStreamed
<1>1. CASE Refuse(d)
  <2>1. DumpTypes'
    BY <1>1 DEF Refuse, DumpTypes
  <2>2. ASSUME NEW z \in Dump PROVE Streamed(z)'
    <3>1. Streamed(z)
      BY DEF AllStreamed
    <3>2. CASE z = d
      BY <1>1, <3>1, <3>2 DEF Refuse, DumpTypes, Streamed
    <3>3. CASE z # d
      BY <1>1, <3>1, <3>3 DEF Refuse, DumpTypes, Streamed, Written
    <3>4. QED
      BY <3>2, <3>3
  <2>3. QED
    BY <2>1, <2>2 DEF AllStreamed
<1>2. CASE SpawnTool(d) \/ OpenFile(d)
  <2>1. DumpTypes'
    BY <1>2 DEF SpawnTool, OpenFile, Connect, DumpTypes
  <2>2. ASSUME NEW z \in Dump PROVE Streamed(z)'
    <3>1. Streamed(z)
      BY DEF AllStreamed
    <3>2. CASE z = d
      BY <1>2, <3>1, <3>2 DEF SpawnTool, OpenFile, Connect, DumpTypes, Streamed
    <3>3. CASE z # d
      <4>1. UNCHANGED <<at[z], tool[z], stored[z], sum[z], reply[z]>>
        BY <1>2, <3>3 DEF SpawnTool, OpenFile, Connect, DumpTypes
      <4>2. QED
        BY <3>1, <4>1 DEF Streamed, Written
    <3>4. QED
      BY <3>2, <3>3
  <2>3. QED
    BY <2>1, <2>2 DEF AllStreamed
<1>3. CASE ToolEnds(d)
  <2>1. DumpTypes'
    BY <1>3 DEF ToolEnds, DumpTypes
  <2>2. ASSUME NEW z \in Dump PROVE Streamed(z)'
    <3>1. Streamed(z)
      BY DEF AllStreamed
    <3>2. CASE z = d
      BY <1>3, <3>1, <3>2 DEF ToolEnds, DumpTypes, Streamed
    <3>3. CASE z # d
      BY <1>3, <3>1, <3>3 DEF ToolEnds, DumpTypes, Streamed, Written
    <3>4. QED
      BY <3>2, <3>3
  <2>3. QED
    BY <2>1, <2>2 DEF AllStreamed
<1>4. CASE FileEnds(d)
  <2>1. DumpTypes'
    BY <1>4 DEF FileEnds, DumpTypes
  <2>2. ASSUME NEW z \in Dump PROVE Streamed(z)'
    <3>1. Streamed(z)
      BY DEF AllStreamed
    <3>2. CASE z = d
      BY <1>4, <3>1, <3>2 DEF FileEnds, DumpTypes, Streamed
    <3>3. CASE z # d
      BY <1>4, <3>1, <3>3 DEF FileEnds, DumpTypes, Streamed, Written
    <3>4. QED
      BY <3>2, <3>3
  <2>3. QED
    BY <2>1, <2>2 DEF AllStreamed
<1>5. CASE Flush(d)
  BY <1>5 DEF Flush, AllStreamed, DumpTypes, Streamed, Written
<1>6. CASE ToolDumpFails(d)
  BY <1>6 DEF ToolDumpFails, FailDump, AllStreamed, DumpTypes, Streamed, Written
<1>7. CASE FileDumpFails(d)
  BY <1>7 DEF FileDumpFails, FailDump, AllStreamed, DumpTypes, Streamed, Written
<1>8. CASE AnswerTool(d)
  BY <1>8 DEF AnswerTool, Finish, AllStreamed, DumpTypes, Streamed, Written
<1>9. CASE AnswerFile(d)
  BY <1>9 DEF AnswerFile, Finish, AllStreamed, DumpTypes, Streamed, Written
<1>10. QED
  BY <1>1, <1>2, <1>3, <1>4, <1>5, <1>6, <1>7, <1>8, <1>9 DEF DumpStep

\* The end of a process is no reply to anybody.
LEMMA EndKeepsStreamed ==
  ASSUME AllStreamed, NEW e, EndProcess(e), UNCHANGED <<stored, sum>>,
         \/ UNCHANGED tool
         \/ \E d \in Dump : tool[d] = "killed" /\ tool' = [tool EXCEPT ![d] = "none"]
  PROVE  AllStreamed'
<1>1. DumpTypes'
  BY DEF EndProcess, AllStreamed, DumpTypes
<1>2. ASSUME NEW d \in Dump PROVE Streamed(d)'
  <2>1. DumpTypes /\ Streamed(d)
    BY DEF AllStreamed
  <2>2. at'[d] = "over" \/ (at'[d] = at[d] /\ tool'[d] = tool[d])
    BY <2>1 DEF EndProcess, DumpTypes, Streamed
  <2>3. reply'[d] = "ok" => reply[d] = "ok" /\ at'[d] = "over"
    BY <2>1 DEF EndProcess, DumpTypes, Streamed, Busy
  <2>4. at'[d] # "over" => reply'[d] = reply[d]
    BY <2>1 DEF EndProcess, DumpTypes
  <2>5. tool'[d] = "killed" => tool[d] = "killed"
    BY <2>1 DEF DumpTypes
  <2>6. QED
    BY <2>1, <2>2, <2>3, <2>4, <2>5 DEF Streamed, Written
<1>3. QED
  BY <1>1, <1>2 DEF AllStreamed

LEMMA NextKeepsStreamed == AllStreamed /\ [Next]_vars => AllStreamed'
<1> SUFFICES ASSUME AllStreamed, [Next]_vars PROVE AllStreamed'
  OBVIOUS
<1>1. ASSUME NEW d \in Dump, DumpStep(d) PROVE AllStreamed'
  BY <1>1, DumpsKeepStreamed
<1>2. ASSUME NEW d \in Dump, Notice(d) \/ ReadFails(d) PROVE AllStreamed'
  <2>1. PICK e : EndProcess(e)
    BY <1>2 DEF Notice, ReadFails
  <2>2. UNCHANGED <<stored, sum>>
    BY <1>2 DEF Notice, ReadFails
  <2>3. UNCHANGED tool \/ (tool[d] = "killed" /\ tool' = [tool EXCEPT ![d] = "none"])
    BY <1>2 DEF Notice, ReadFails
  <2>4. QED
    BY <2>1, <2>2, <2>3, EndKeepsStreamed
<1>3. ASSUME NEW d \in Dump, Damage(d) PROVE AllStreamed'
  BY <1>3 DEF Damage, AllStreamed, DumpTypes, Streamed, Written
<1>4. ASSUME NEW e \in Engines, ServiceDies(e) PROVE AllStreamed'
  BY <1>4, EndKeepsStreamed DEF ServiceDies
<1>5. CASE UNCHANGED dumpVars
  BY <1>5 DEF dumpVars, AllStreamed, DumpTypes, Streamed, Written
<1>6. QED
  <2>1. ASSUME NEW c \in Client, CommandNext(c) PROVE UNCHANGED dumpVars
    BY <2>1 DEF CommandNext, AcquireLock, Answer, Post, DryRun, Poll, Release, Elsewhere
  <2>2. ASSUME NEW c \in Client, QueueNext(c) PROVE UNCHANGED dumpVars
    BY <2>2 DEF QueueNext, TakeJob, PromoteJob, StallJob, OutOfWorker, NoFileWork
  <2>3. ASSUME NEW c \in Client, HandlerNext(c) PROVE UNCHANGED dumpVars
    BY <2>3 DEF HandlerNext, BeginHandler, Download, Verify, Decrypt, DecryptFails, Unpack,
                AskService, NoteSuccess, Catch, EndHandler, Stage, Pass, OutOfWorker, NoFileWork
  <2>4. ASSUME NEW l \in loads, LoadArchive(l) \/ CopyBeside(l) \/ RemoveTarget(l)
                               \/ CopyIntoPlace(l)
        PROVE  UNCHANGED dumpVars
    BY <2>4 DEF LoadArchive, CopyBeside, RemoveTarget, CopyIntoPlace, OutOfService
  <2>5. ASSUME NEW e \in Engines, LockExpires(e) PROVE UNCHANGED dumpVars
    BY <2>5 DEF LockExpires, Elsewhere
  <2>6. WorkerDies => UNCHANGED dumpVars
    BY DEF WorkerDies
  <2>7. ASSUME NEW c \in Client, GiveUpWait(c) PROVE UNCHANGED dumpVars
    BY <2>7 DEF GiveUpWait
  <2>8. QED
    BY <1>1, <1>2, <1>3, <1>4, <1>5, <2>1, <2>2, <2>3, <2>4, <2>5, <2>6, <2>7
       DEF Next, LoadNext, vars

(***************************************************************************)
(* The checksum of a successful reply is that of the archive, unless the   *)
(* archive has been damaged since.                                         *)
(***************************************************************************)
THEOREM RepliesTrue == Spec => []ReportedIsStored
<1>1. AllStreamed => ReportedIsStored
  BY DEF AllStreamed, Streamed, ReportedIsStored
<1>2. QED
  BY <1>1, StreamedInit, NextKeepsStreamed, PTL DEF Spec

-----------------------------------------------------------------------------
(***************************************************************************)
(* A handler that has begun is the run that its job is locked by: the      *)
(* stalled-job check finds only jobs whose handler is gone.  The worker    *)
(* runs one at a time, and a job is queued only for a recorded backup.     *)
(***************************************************************************)
Worked(c) ==
  /\ handler[c] # "idle" => Owns(job[c], runs[c])
  /\ job[c].state # "absent" => reply[Wants[c]] = "ok"

OneHandler == \A c, o \in Client : handler[c] # "idle" /\ handler[o] # "idle" => c = o

AllWorked == TypeOK /\ AllStreamed /\ OneHandler /\ \A c \in Client : Worked(c)

\* No job is queued at first.
LEMMA WorkedInit == Init => AllWorked
<1> SUFFICES ASSUME Init PROVE AllWorked
  OBVIOUS
<1>1. AllStreamed
  BY StreamedInit
<1>2. TypeOK
  BY DumpAssumption, RestoreAssumption
     DEF Init, DumpInit, TypeOK, DumpTypeOK, NoJob, Jobs, JobStates, Engines, Contents, Files,
         LoadRecords
<1>3. QED
  BY <1>1, <1>2 DEF Init, AllWorked, OneHandler, Worked, NoJob, Owns

\* The types, one kind of step at a time: the commands,
LEMMA CommandsType ==
  ASSUME AllWorked, NEW c \in Client, CommandNext(c)
  PROVE  TypeOK'
<1> TypeOK /\ Kind(c) \in Engines
  BY DumpAssumption, RestoreAssumption DEF AllWorked, Kind
<1>1. CASE AcquireLock(c)
  BY <1>1 DEF AcquireLock, Elsewhere, dumpVars, workerVars, serviceVars, TypeOK, DumpTypeOK
<1>2. CASE Answer(c)
  BY <1>2 DEF Answer, Elsewhere, dumpVars, workerVars, serviceVars, TypeOK, DumpTypeOK
<1>3. CASE Post(c)
  <2>1. Added(job[c]) \in Jobs
    BY DEF TypeOK, Added, Jobs, JobStates, NoJob
  <2>2. job' \in [Client -> Jobs]
    BY <1>3, <2>1 DEF Post, TypeOK
  <2>3. faults' \in 0..MaxFaults
    BY <1>3, DumpAssumption DEF Post, Fault, TypeOK, DumpTypeOK, Leave
  <2>4. lock' = lock /\ pc' \in [Client -> {"new", "prompt", "exited", "post", "poll",
      "finally", "over"}]
        /\ told' \in [Client -> {"none", "success", "failed"}]
    BY <1>3 DEF Post, Leave, TypeOK
  <2>5. QED
    BY <1>3, <2>2, <2>3, <2>4 DEF Post, dumpVars, serviceVars, TypeOK, DumpTypeOK
<1>4. CASE DryRun(c)
  BY <1>4 DEF DryRun, Leave, Elsewhere, dumpVars, workerVars, serviceVars, TypeOK, DumpTypeOK
<1>5. CASE Poll(c)
  BY <1>5 DEF Poll, Leave, Elsewhere, dumpVars, workerVars, serviceVars, TypeOK, DumpTypeOK
<1>6. CASE Release(c)
  BY <1>6 DEF Release, Elsewhere, dumpVars, workerVars, serviceVars, TypeOK, DumpTypeOK
<1>7. QED
  BY <1>1, <1>2, <1>3, <1>4, <1>5, <1>6 DEF CommandNext

\* the queue,
LEMMA QueueType ==
  ASSUME AllWorked, NEW c \in Client, QueueNext(c)
  PROVE  TypeOK'
<1> TypeOK /\ job[c] \in Jobs /\ runs[c] \in Nat
  BY DEF AllWorked, TypeOK
<1>1. Taken(job[c], runs[c] + 1) \in Jobs
  <2>1. runs[c] + 1 \in Nat
    OBVIOUS
  <2>2. QED
    BY <2>1 DEF Taken, Jobs, JobStates
<1>5. Promoted(job[c]) \in Jobs
  BY DEF Promoted, Jobs, JobStates
<1>6. Stalled(job[c], MaxStalled) \in Jobs
  BY RestoreAssumption DEF Stalled, Jobs, JobStates
<1>2. CASE TakeJob(c)
  BY <1>1, <1>2 DEF TakeJob, Goto, OutOfWorker, NoFileWork, dumpVars, clientVars,
      serviceVars, TypeOK, DumpTypeOK
<1>3. CASE PromoteJob(c)
  BY <1>5, <1>3 DEF PromoteJob, OutOfWorker, NoFileWork, dumpVars, clientVars, serviceVars,
      TypeOK, DumpTypeOK
<1>4. CASE StallJob(c)
  BY <1>6, <1>4 DEF StallJob, OutOfWorker, NoFileWork, dumpVars, clientVars, serviceVars,
      TypeOK, DumpTypeOK
<1>7. QED
  BY <1>2, <1>3, <1>4 DEF QueueNext

\* the handlers,
LEMMA HandlerType ==
  ASSUME AllWorked, NEW c \in Client, HandlerNext(c)
  PROVE  TypeOK'
<1> DEFINE Statements == {"idle", "begin", "download", "verify", "decrypt", "unpack",
                          "post", "wait", "note", "catch", "return", "throw"}
<1> TypeOK /\ job[c] \in Jobs /\ runs[c] \in Nat /\ faults \in 0..MaxFaults /\ DumpTypeOK
  BY DEF AllWorked, TypeOK, DumpTypeOK
<1>1. handler' \in [Client -> Statements]
  BY DEF HandlerNext, BeginHandler, Download, Verify, Decrypt, DecryptFails, Unpack, AskService,
         NoteSuccess, Catch, EndHandler, Stage, Pass, Goto, TypeOK
<1>2. faults' \in 0..MaxFaults
  BY DumpAssumption DEF HandlerNext, BeginHandler, Download, Verify, Decrypt, DecryptFails,
      Unpack, AskService,
         NoteSuccess, Catch, EndHandler, Stage, Pass, Goto, Fault
<1>3. staged' \in [Client -> SUBSET Files] /\ listed' \in [Client -> SUBSET Files]
  BY DEF HandlerNext, BeginHandler, Download, Verify, Decrypt, DecryptFails, Unpack, AskService,
         NoteSuccess, Catch, EndHandler, Stage, Pass, Goto, TypeOK, Files
<1>4. job' \in [Client -> Jobs] /\ runs' = runs
  <2>1. Completed(job[c], runs[c]) \in Jobs
    BY DEF Completed, Owns, Jobs, JobStates
  <2>2. Rejected(job[c], runs[c], Attempts) \in Jobs
    BY RestoreAssumption DEF Rejected, Owns, Jobs, JobStates
  <2>3. CASE EndHandler(c)
    BY <2>1, <2>2, <2>3 DEF EndHandler, TypeOK
  <2>4. CASE ~EndHandler(c)
    BY <2>4 DEF HandlerNext, BeginHandler, Download, Verify, Decrypt, DecryptFails, Unpack,
        AskService,
         NoteSuccess, Catch, Stage, Pass, Goto, TypeOK
  <2>5. QED
    BY <2>3, <2>4
<1>5. loads' \subseteq LoadRecords
  <2>1. CASE AskService(c)
    <3>1. [of |-> c, run |-> runs[c], at |-> "runs", left |-> FALSE] \in LoadRecords
      BY DEF LoadRecords
    <3>2. loads \subseteq LoadRecords
      BY DEF TypeOK
    <3>3. QED
      BY <2>1, <3>1, <3>2 DEF AskService
  <2>2. CASE ~AskService(c)
    BY <2>2 DEF HandlerNext, BeginHandler, Download, Verify, Decrypt, DecryptFails, Unpack,
        NoteSuccess, Catch, EndHandler, Stage, Pass, OutOfWorker, NoFileWork, serviceVars, TypeOK
  <2>3. QED
    BY <2>1, <2>2
<1>8. stuck' \in [Client -> SUBSET Files]
  <2>1. CASE EndHandler(c)
    <3>1. listed[c] \subseteq Files /\ stuck \in [Client -> SUBSET Files]
      BY DEF TypeOK
    <3>2. UNCHANGED stuck \/ \E file \in listed[c] : stuck' = [stuck EXCEPT ![c] = @ \cup {file}]
      BY <2>1 DEF EndHandler
    <3>3. QED
      BY <3>1, <3>2
  <2>2. CASE ~EndHandler(c)
    BY <2>2 DEF HandlerNext, BeginHandler, Download, Verify, Decrypt, DecryptFails, Unpack,
        AskService, NoteSuccess, Catch, Stage, Pass, OutOfWorker, TypeOK
  <2>3. QED
    BY <2>1, <2>2
<1>6. UNCHANGED <<dumpVars, clientVars, target, beside, crashes>>
  BY DEF HandlerNext, BeginHandler, Download, Verify, Decrypt, DecryptFails, Unpack, AskService,
         NoteSuccess, Catch, EndHandler, Stage, Pass, Goto, OutOfWorker, NoFileWork, serviceVars
<1>7. QED
  BY <1>1, <1>2, <1>3, <1>4, <1>5, <1>6, <1>8 DEF TypeOK, DumpTypeOK, dumpVars, clientVars

\* a request that times out,
LEMMA GiveUpType ==
  ASSUME AllWorked, NEW c \in Client, GiveUpWait(c)
  PROVE  TypeOK'
<1> TypeOK /\ DumpTypeOK
  BY DEF AllWorked, TypeOK
<1>1. \A l \in loads : Abandoned(l, {c}) \in LoadRecords
  BY DEF TypeOK, Abandoned, LoadRecords
<1>2. loads' \subseteq LoadRecords
  BY <1>1 DEF GiveUpWait, Abandon
<1>3. faults' \in 0..MaxFaults
  BY DumpAssumption DEF GiveUpWait, Fault, DumpTypeOK
<1>4. QED
  BY <1>2, <1>3 DEF GiveUpWait, Goto, TypeOK, DumpTypeOK, dumpVars, clientVars

\* the loads,
LEMMA LoadType ==
  ASSUME AllWorked, NEW l \in loads,
         LoadArchive(l) \/ CopyBeside(l) \/ RemoveTarget(l) \/ CopyIntoPlace(l)
  PROVE  TypeOK'
<1> DEFINE Statements == {"idle", "begin", "download", "verify", "decrypt", "unpack",
                          "post", "wait", "note", "catch", "return", "throw"}
<1> USE DEF LoadArchive, CopyBeside, RemoveTarget, CopyIntoPlace
<1> TypeOK /\ faults \in 0..MaxFaults /\ DumpTypeOK
  BY DEF AllWorked, TypeOK, DumpTypeOK
<1>1. l.of \in Client /\ l.run \in Nat
  BY DEF TypeOK, LoadRecords
<1>2. Archive(l.of) \in Contents /\ Kind(l.of) \in Engines
  BY <1>1, DumpAssumption, RestoreAssumption DEF Archive, Kind, TypeOK, DumpTypeOK, Contents
<1>3. handler' \in [Client -> Statements]
  BY DEF Tell, TypeOK
<1>4. faults' \in 0..MaxFaults
  BY DumpAssumption DEF Fault
<1>5. target' \in [Engines -> Contents \cup {"old", "gone"}]
  BY <1>2 DEF Into, TypeOK
<1>6. beside' \in Contents
  BY <1>2 DEF TypeOK, Contents
<1>7. loads' \subseteq LoadRecords
  <2>1. [l EXCEPT !.at = "copied"] \in LoadRecords
    BY DEF TypeOK, LoadRecords
  <2>2. [l EXCEPT !.at = "removed"] \in LoadRecords
    BY DEF TypeOK, LoadRecords
  <2>3. QED
    BY <2>1, <2>2 DEF TypeOK
<1>8. UNCHANGED <<dumpVars, clientVars, job, runs, staged, listed, stuck, crashes>>
  BY DEF OutOfService
<1>9. QED
  BY <1>3, <1>4, <1>5, <1>6, <1>7, <1>8 DEF TypeOK, DumpTypeOK, dumpVars, clientVars

\* and the end of a process.
LEMMA EndType ==
  ASSUME AllWorked, NEW e \in Engines, EndLoads(e), DumpTypeOK'
  PROVE  TypeOK'
<1> DEFINE Statements == {"idle", "begin", "download", "verify", "decrypt", "unpack",
                          "post", "wait", "note", "catch", "return", "throw"}
<1> TypeOK
  BY DEF AllWorked
<1>1. handler' \in [Client -> Statements]
  BY DEF EndLoads, TypeOK
<1>2. loads' \subseteq LoadRecords
  <2>1. \A l \in loads : [l EXCEPT !.at = "orphan"] \in LoadRecords
    BY DEF TypeOK, LoadRecords
  <2>2. QED
    BY <2>1 DEF EndLoads, LoadsOf, TypeOK
<1>3. beside' \in Contents
  BY DEF EndLoads, TypeOK, Contents
<1>4. QED
  BY <1>1, <1>2, <1>3 DEF EndLoads, TypeOK, clientVars

\* Every step keeps the types.
LEMMA NextKeepsType == AllWorked /\ Next => TypeOK'
<1> SUFFICES ASSUME AllWorked, Next PROVE TypeOK'
  OBVIOUS
<1> TypeOK /\ DumpTypeOK
  BY DEF AllWorked, TypeOK
<1>0. AllStreamed'
  BY NextKeepsStreamed DEF AllWorked
<1> faults \in 0..MaxFaults /\ crashes \in 0..MaxCrashes
  BY DEF DumpTypeOK
<1>1. ASSUME NEW d \in Dump, DumpStep(d), UNCHANGED <<clientVars, workerVars, serviceVars>>
      PROVE  TypeOK'
  <2>1. faults' \in 0..MaxFaults /\ crashes' \in 0..MaxCrashes
    BY <1>1, DumpAssumption
       DEF DumpStep, Refuse, SpawnTool, OpenFile, Connect, ToolEnds, FileEnds, Flush,
           ToolDumpFails,
           FileDumpFails, FailDump, AnswerTool, AnswerFile, Finish, Fault
  <2>2. DumpTypeOK'
    BY <1>0, <2>1 DEF AllStreamed, DumpTypes, DumpTypeOK
  <2>3. QED
    BY <1>1, <2>2 DEF TypeOK, clientVars, workerVars, serviceVars
<1>2. ASSUME NEW d \in Dump, Notice(d) \/ ReadFails(d), EndLoads(Engine[d]) PROVE TypeOK'
  <2>1. faults' \in 0..MaxFaults /\ crashes' \in 0..MaxCrashes
    BY <1>2, DumpAssumption DEF Notice, ReadFails, Fault
  <2>2. DumpTypeOK'
    BY <1>0, <2>1 DEF AllStreamed, DumpTypes, DumpTypeOK
  <2>3. Engine[d] \in Engines
    BY DumpAssumption
  <2>4. QED
    BY <1>2, <2>2, <2>3, EndType
<1>3. ASSUME NEW d \in Dump, Damage(d) PROVE TypeOK'
  <2>1. faults' \in 0..MaxFaults /\ crashes' \in 0..MaxCrashes
    BY <1>3, DumpAssumption DEF Damage, Fault
  <2>2. DumpTypeOK'
    BY <1>0, <2>1 DEF AllStreamed, DumpTypes, DumpTypeOK
  <2>3. QED
    BY <1>3, <2>2 DEF Damage, TypeOK, clientVars, workerVars, serviceVars
<1>4. ASSUME NEW c \in Client, CommandNext(c) \/ QueueNext(c) \/ HandlerNext(c) PROVE TypeOK'
  BY <1>4, CommandsType, QueueType, HandlerType
<1>5. CASE LoadNext
  BY <1>5, LoadType DEF LoadNext
<1>6. ASSUME NEW e \in Engines, LockExpires(e) PROVE TypeOK'
  BY <1>6 DEF LockExpires, Elsewhere, dumpVars, workerVars, serviceVars, TypeOK, DumpTypeOK
<1>7. ASSUME NEW e \in Engines, ServiceDies(e) PROVE TypeOK'
  <2>1. faults' \in 0..MaxFaults /\ crashes' \in 0..MaxCrashes
    BY <1>7, DumpAssumption DEF ServiceDies
  <2>2. DumpTypeOK'
    BY <1>0, <2>1 DEF AllStreamed, DumpTypes, DumpTypeOK
  <2>3. QED
    BY <1>7, <2>2, EndType DEF ServiceDies
<1>8. CASE WorkerDies
  <2>1. \A l \in loads : Abandoned(l, Client) \in LoadRecords
    BY DEF TypeOK, Abandoned, LoadRecords
  <2>2. loads' \subseteq LoadRecords
    BY <1>8, <2>1 DEF WorkerDies, Abandon
  <2>3. QED
    BY <1>8, <2>2, DumpAssumption DEF WorkerDies, dumpVars, clientVars, TypeOK, DumpTypeOK
<1>9. ASSUME NEW c \in Client, GiveUpWait(c) PROVE TypeOK'
  BY <1>9, GiveUpType
<1>10. QED
  BY <1>1, <1>2, <1>3, <1>4, <1>5, <1>6, <1>7, <1>8, <1>9 DEF Next

\* What the queue commands of a restore do to its job.
LEMMA RestoreCommands ==
  ASSUME NEW j \in Jobs, NEW r \in Nat
  PROVE  /\ j.state # "absent" => Added(j) = j
         /\ Added(j).state # "completed" \/ Added(j) = j
         /\ Owns(Taken(j, r), r)
         /\ Promoted(j).state = "waiting"
         /\ Stalled(j, MaxStalled).state \in {"waiting", "failed"}
         /\ Owns(j, r) => Completed(j, r).state = "completed"
         /\ Owns(j, r) => Rejected(j, r, Attempts).state \in {"delayed", "failed"}
<1>1. j.state # "absent" => Added(j) = j
  BY DEF Added
<1>2. Added(j).state # "completed" \/ Added(j) = j
  BY DEF Added, NoJob
<1>3. Owns(Taken(j, r), r)
  BY DEF Owns, Taken, Jobs
<1>4. Promoted(j).state = "waiting"
  BY DEF Promoted, Jobs
<1>5. Stalled(j, MaxStalled).state \in {"waiting", "failed"}
  BY DEF Stalled
<1>6. Owns(j, r) => Completed(j, r).state = "completed"
  BY DEF Completed, Jobs
<1>7. Owns(j, r) => Rejected(j, r, Attempts).state \in {"delayed", "failed"}
  BY DEF Rejected
<1>8. QED
  BY <1>1, <1>2, <1>3, <1>4, <1>5, <1>6, <1>7

\* A step of the queue is about one job that is there and not done, and starts a handler
\* only when none is running.
LEMMA QueueIsLocal ==
  ASSUME AllWorked, NEW c \in Client, QueueNext(c)
  PROVE  /\ UNCHANGED <<dumpVars, staged, listed, stuck, loads, beside, target, crashes>>
         /\ \A o \in Client : o # c => UNCHANGED <<job[o], runs[o], handler[o]>>
         /\ job[c].state \notin {"absent", "completed"}
         /\ job'[c].state # "completed"
         /\ handler[c] = "idle"
         /\ \/ UNCHANGED <<runs, handler>> /\ job'[c].state # "absent"
            \/ /\ handler'[c] = "begin" /\ runs'[c] = runs[c] + 1
               /\ Owns(job'[c], runs'[c])
               /\ \A o \in Client : handler[o] = "idle"
<1> TypeOK /\ Worked(c)
  BY DEF AllWorked
<1>1. job[c] \in Jobs
  BY DEF TypeOK
<1>2. runs[c] + 1 \in Nat
  BY DEF TypeOK
<1>3. CASE TakeJob(c)
  <2>1. Owns(Taken(job[c], runs[c] + 1), runs[c] + 1)
    BY <1>1, <1>2, RestoreCommands
  <2>2. QED
    BY <1>3, <2>1 DEF TakeJob, Goto, OutOfWorker, NoFileWork, serviceVars, TypeOK, Owns
<1>4. CASE PromoteJob(c)
  <2>1. Promoted(job[c]).state = "waiting"
    BY <1>1, RestoreCommands
  <2>2. handler[c] = "idle"
    BY <1>4 DEF PromoteJob, Worked, Owns
  <2>3. QED
    BY <1>4, <2>1, <2>2 DEF PromoteJob, OutOfWorker, NoFileWork, serviceVars, TypeOK
<1>5. CASE StallJob(c)
  <2>1. Stalled(job[c], MaxStalled).state \in {"waiting", "failed"}
    BY <1>1, RestoreCommands
  <2>2. QED
    BY <1>5, <2>1 DEF StallJob, OutOfWorker, NoFileWork, serviceVars, TypeOK
<1>6. QED
  BY <1>3, <1>4, <1>5 DEF QueueNext

\* A step of a handler leaves the others alone, and only its last one touches its job.
LEMMA HandlerIsLocal ==
  ASSUME AllWorked, NEW c \in Client, HandlerNext(c)
  PROVE  /\ UNCHANGED <<dumpVars, runs, beside, target, crashes>>
         /\ \A o \in Client :
              o # c => UNCHANGED <<job[o], handler[o], staged[o], listed[o], stuck[o]>>
         /\ handler[c] # "idle"
         /\ ~AskService(c) => UNCHANGED loads
         /\ \/ EndHandler(c) /\ handler'[c] = "idle"
               /\ \/ handler[c] = "return" /\ job'[c].state = "completed"
                  \/ handler[c] = "throw" /\ job'[c].state \in {"delayed", "failed"}
            \/ UNCHANGED job /\ ~EndHandler(c)
<1> TypeOK /\ Worked(c)
  BY DEF AllWorked
<1>1. CASE EndHandler(c)
  <2>1. job[c] \in Jobs /\ runs[c] \in Nat
    BY DEF TypeOK
  <2>2. Owns(job[c], runs[c])
    BY <1>1 DEF EndHandler, Worked
  <2>3. Completed(job[c], runs[c]).state = "completed"
    BY <2>1, <2>2, RestoreCommands
  <2>4. Rejected(job[c], runs[c], Attempts).state \in {"delayed", "failed"}
    BY <2>1, <2>2, RestoreCommands
  <2>5. handler[c] = "return" => job'[c].state = "completed"
    BY <1>1, <2>3 DEF EndHandler, TypeOK
  <2>6. handler[c] = "throw" => job'[c].state \in {"delayed", "failed"}
    BY <1>1, <2>4 DEF EndHandler, TypeOK
  <2>7. UNCHANGED stuck \/ \E file \in listed[c] : stuck' = [stuck EXCEPT ![c] = @ \cup {file}]
    BY <1>1 DEF EndHandler
  <2>8. \A o \in Client : o # c => stuck'[o] = stuck[o]
    BY <2>7 DEF TypeOK
  <2>9. \A o \in Client : o # c => staged'[o] = staged[o]
    BY <1>1 DEF EndHandler, TypeOK
  <2>10. QED
    BY <1>1, <2>5, <2>6, <2>8, <2>9 DEF EndHandler, Goto, NoFileWork, serviceVars, TypeOK
<1>2. CASE ~EndHandler(c)
  BY <1>2 DEF HandlerNext, BeginHandler, Download, Verify, Decrypt, DecryptFails, Unpack,
      AskService,
     NoteSuccess, Catch, Stage, Pass, Goto, OutOfWorker, NoFileWork, serviceVars, TypeOK
<1>3. QED
  BY <1>1, <1>2

\* A command adds a job, for a recorded backup, or leaves the worker alone.
LEMMA CommandIsLocal ==
  ASSUME AllWorked, NEW c \in Client, CommandNext(c)
  PROVE  /\ UNCHANGED <<dumpVars, runs, handler, staged, listed, stuck, loads, beside, target,
                       crashes>>
         /\ \A o \in Client :
              \/ job'[o] = job[o]
              \/ /\ job[o].state = "absent" /\ reply[Wants[o]] = "ok"
                 /\ job'[o].state # "completed"
<1> TypeOK
  BY DEF AllWorked
<1>1. CASE Post(c)
  <2>1. job[c] \in Jobs
    BY DEF TypeOK
  <2>2. job[c].state # "absent" => Added(job[c]) = job[c]
    BY <2>1, RestoreCommands
  <2>3. Added(job[c]).state # "completed" \/ Added(job[c]) = job[c]
    BY <2>1, RestoreCommands
  <2>4. UNCHANGED <<dumpVars, runs, handler, staged, listed, stuck, loads, beside, target,
                       crashes>>
    BY <1>1 DEF Post, serviceVars
  <2>5. UNCHANGED job \/ (reply[Wants[c]] = "ok" /\ job' = [job EXCEPT ![c] = Added(@)])
    BY <1>1 DEF Post
  <2>6. DOMAIN job = Client
    BY DEF TypeOK
  <2>7. QED
    BY <2>2, <2>3, <2>4, <2>5, <2>6
<1>2. CASE AcquireLock(c) \/ Answer(c) \/ DryRun(c) \/ Poll(c) \/ Release(c)
  BY <1>2 DEF AcquireLock, Answer, DryRun, Poll, Release, Elsewhere, workerVars, serviceVars
<1>3. QED
  BY <1>1, <1>2 DEF CommandNext

\* A load answers the handler run that asked for it, and then it is over.
LEMMA LoadIsLocal ==
  ASSUME AllWorked, NEW l \in loads,
         LoadArchive(l) \/ CopyBeside(l) \/ RemoveTarget(l) \/ CopyIntoPlace(l)
  PROVE  /\ UNCHANGED <<dumpVars, job, runs, staged, listed, stuck, crashes>>
         /\ \/ UNCHANGED handler
            \/ /\ loads' = loads \ {l}
               /\ handler[l.of] = "wait" /\ runs[l.of] = l.run
               /\ \A o \in Client : o # l.of => handler'[o] = handler[o]
               /\ handler'[l.of] \in {"note", "catch"}
         /\ loads' = loads \ {l} \/ UNCHANGED handler
<1> TypeOK /\ l.of \in Client
  BY DEF AllWorked, TypeOK, LoadRecords
<1>1. handler \in [Client -> {"idle", "begin", "download", "verify", "decrypt", "unpack",
                             "post", "wait", "note", "catch", "return", "throw"}]
  BY DEF TypeOK
<1> USE DEF OutOfService, Tell
<1>2. CASE LoadArchive(l)
  BY <1>1, <1>2 DEF LoadArchive
<1>3. CASE CopyBeside(l)
  BY <1>1, <1>3 DEF CopyBeside
<1>4. CASE RemoveTarget(l)
  BY <1>1, <1>4 DEF RemoveTarget
<1>5. CASE CopyIntoPlace(l)
  BY <1>1, <1>5 DEF CopyIntoPlace
<1>6. QED
  BY <1>2, <1>3, <1>4, <1>5

\* A successful reply is not taken back.
LEMMA RepliesKept ==
  ASSUME AllStreamed, NEW d \in Dump, reply[d] = "ok", Next
  PROVE  reply'[d] = "ok"
<1> DumpTypes /\ Streamed(d)
  BY DEF AllStreamed
<1>1. ASSUME NEW e, EndProcess(e) PROVE reply'[d] = "ok"
  BY <1>1 DEF EndProcess, Busy, Streamed
<1>2. ASSUME NEW z \in Dump, DumpStep(z) PROVE reply'[d] = "ok"
  BY <1>2 DEF DumpStep, Refuse, SpawnTool, OpenFile, Connect, ToolEnds, FileEnds, Flush,
      ToolDumpFails,
           FileDumpFails, FailDump, AnswerTool, AnswerFile, Finish, DumpTypes, Streamed
<1>3. CASE UNCHANGED reply
  BY <1>3
<1>4. QED
  <2>1. ASSUME NEW c \in Client, CommandNext(c) PROVE UNCHANGED reply
    BY <2>1 DEF CommandNext, AcquireLock, Answer, Post, DryRun, Poll, Release, Elsewhere, dumpVars
  <2>2. ASSUME NEW c \in Client, QueueNext(c) PROVE UNCHANGED reply
    BY <2>2 DEF QueueNext, TakeJob, PromoteJob, StallJob, OutOfWorker, NoFileWork, dumpVars
  <2>3. ASSUME NEW c \in Client, HandlerNext(c) PROVE UNCHANGED reply
    BY <2>3 DEF HandlerNext, BeginHandler, Download, Verify, Decrypt, DecryptFails, Unpack,
                AskService, NoteSuccess, Catch, EndHandler, Stage, Pass, OutOfWorker,
                NoFileWork, dumpVars
  <2>4. LoadNext => UNCHANGED reply
    BY DEF LoadNext, LoadArchive, CopyBeside, RemoveTarget, CopyIntoPlace, OutOfService, dumpVars
  <2>5. ASSUME NEW e \in Engines, LockExpires(e) PROVE UNCHANGED reply
    BY <2>5 DEF LockExpires, Elsewhere, dumpVars
  <2>6. ASSUME NEW e \in Engines, ServiceDies(e) PROVE EndProcess(e)
    BY <2>6 DEF ServiceDies
  <2>7. ASSUME NEW z \in Dump, Notice(z) \/ ReadFails(z) PROVE \E e : EndProcess(e)
    BY <2>7 DEF Notice, ReadFails
  <2>8. ASSUME NEW z \in Dump, Damage(z) PROVE UNCHANGED reply
    BY <2>8 DEF Damage
  <2>9. WorkerDies => UNCHANGED reply
    BY DEF WorkerDies, dumpVars
  <2>10. ASSUME NEW c \in Client, GiveUpWait(c) PROVE UNCHANGED reply
    BY <2>10 DEF GiveUpWait, dumpVars
  <2>11. QED
    BY <1>1, <1>2, <1>3, <2>1, <2>2, <2>3, <2>4, <2>5, <2>6, <2>7, <2>8, <2>9, <2>10 DEF Next

\* Every step keeps the handlers and their jobs together.
LEMMA NextKeepsWorked == AllWorked /\ Next => AllWorked'
<1> SUFFICES ASSUME AllWorked, Next PROVE AllWorked'
  OBVIOUS
<1> TypeOK /\ AllStreamed /\ OneHandler
  BY DEF AllWorked
<1>1. TypeOK' /\ AllStreamed'
  BY NextKeepsType, NextKeepsStreamed
<1>2. ASSUME NEW c \in Client PROVE Worked(c) /\ Wants[c] \in Dump
  BY RestoreAssumption DEF AllWorked
<1>3. ASSUME UNCHANGED <<job, runs>>,
             \A c \in Client : handler'[c] # "idle" => handler[c] # "idle"
      PROVE  OneHandler' /\ \A c \in Client : Worked(c)'
  <2>1. OneHandler'
    BY <1>3 DEF OneHandler
  <2>2. ASSUME NEW c \in Client PROVE Worked(c)'
    BY <1>2, <1>3, RepliesKept DEF Worked
  <2>3. QED
    BY <2>1, <2>2
<1>4. ASSUME NEW c \in Client, CommandNext(c) PROVE OneHandler' /\ \A o \in Client : Worked(o)'
  <2>1. UNCHANGED <<handler, runs>>
    BY <1>4, CommandIsLocal
  <2>2. ASSUME NEW o \in Client PROVE Worked(o)'
    <3>1. job'[o] = job[o] \/ (job[o].state = "absent" /\ reply[Wants[o]] = "ok")
      BY <1>4, CommandIsLocal
    <3>2. job[o].state = "absent" => handler[o] = "idle"
      BY <1>2 DEF Worked, Owns
    <3>3. reply[Wants[o]] = "ok" => reply'[Wants[o]] = "ok"
      BY <1>2, RepliesKept
    <3>4. QED
      BY <1>2, <2>1, <3>1, <3>2, <3>3 DEF Worked
  <2>3. QED
    BY <2>1, <2>2 DEF OneHandler
<1>5. ASSUME NEW c \in Client, QueueNext(c) PROVE OneHandler' /\ \A o \in Client : Worked(o)'
  <2>1. /\ \A o \in Client : o # c => UNCHANGED <<job[o], runs[o], handler[o]>>
        /\ job[c].state \notin {"absent", "completed"}
        /\ handler[c] = "idle"
        /\ \/ UNCHANGED <<runs, handler>> /\ job'[c].state # "absent"
           \/ /\ handler'[c] = "begin" /\ runs'[c] = runs[c] + 1
              /\ Owns(job'[c], runs'[c])
              /\ \A o \in Client : handler[o] = "idle"
    BY <1>5, QueueIsLocal
  <2>2. OneHandler'
    BY <2>1 DEF OneHandler
  <2>3. ASSUME NEW o \in Client PROVE Worked(o)'
    <3>1. Worked(o) /\ (reply[Wants[o]] = "ok" => reply'[Wants[o]] = "ok")
      BY <1>2, RepliesKept
    <3>2. QED
      BY <2>1, <3>1 DEF Worked, Owns
  <2>4. QED
    BY <2>2, <2>3
<1>6. ASSUME NEW c \in Client, HandlerNext(c) PROVE OneHandler' /\ \A o \in Client : Worked(o)'
  <2>1. /\ UNCHANGED runs
        /\ \A o \in Client : o # c => UNCHANGED <<job[o], handler[o]>>
        /\ handler[c] # "idle"
        /\ handler'[c] = "idle" \/ UNCHANGED job
    BY <1>6, HandlerIsLocal
  <2>2. OneHandler'
    BY <2>1 DEF OneHandler
  <2>3. ASSUME NEW o \in Client PROVE Worked(o)'
    <3>1. Worked(o) /\ (reply[Wants[o]] = "ok" => reply'[Wants[o]] = "ok")
      BY <1>2, RepliesKept
    <3>2. handler[c] # "idle" => job[c].state # "absent"
      BY <1>2 DEF Worked, Owns
    <3>3. QED
      BY <2>1, <3>1, <3>2 DEF Worked, Owns
  <2>4. QED
    BY <2>2, <2>3
<1>7. ASSUME LoadNext PROVE OneHandler' /\ \A o \in Client : Worked(o)'
  <2>1. PICK l \in loads : LoadArchive(l) \/ CopyBeside(l) \/ RemoveTarget(l) \/ CopyIntoPlace(l)
    BY <1>7 DEF LoadNext
  <2>2. UNCHANGED <<job, runs>> /\ \A c \in Client : handler'[c] # "idle" => handler[c] # "idle"
    BY <2>1, LoadIsLocal
  <2>3. QED
    BY <1>3, <2>2
<1>8. ASSUME NEW e, EndLoads(e) PROVE OneHandler' /\ \A o \in Client : Worked(o)'
  <2>1. UNCHANGED <<job, runs>> /\ \A c \in Client : handler'[c] # "idle" => handler[c] # "idle"
    BY <1>8 DEF EndLoads, TypeOK
  <2>2. QED
    BY <1>3, <2>1
<1>9. ASSUME UNCHANGED <<clientVars, workerVars, serviceVars>> PROVE OneHandler'
    /\ \A o \in Client : Worked(o)'
  BY <1>3, <1>9 DEF workerVars
<1>10. ASSUME NEW d \in Dump, Damage(d) PROVE OneHandler' /\ \A o \in Client : Worked(o)'
  BY <1>9, <1>10 DEF Damage
<1>11. ASSUME NEW e \in Engines, LockExpires(e) PROVE OneHandler' /\ \A o \in Client : Worked(o)'
  BY <1>3, <1>11 DEF LockExpires, Elsewhere, workerVars
<1>12. ASSUME NEW e \in Engines, ServiceDies(e) PROVE OneHandler' /\ \A o \in Client : Worked(o)'
  BY <1>8, <1>12 DEF ServiceDies
<1>13. ASSUME WorkerDies PROVE OneHandler' /\ \A o \in Client : Worked(o)'
  BY <1>3, <1>13 DEF WorkerDies
<1>14. ASSUME NEW c \in Client, GiveUpWait(c)
       PROVE  OneHandler' /\ \A o \in Client : Worked(o)'
  <2>1. UNCHANGED <<job, runs>> /\ \A o \in Client : handler'[o] # "idle" => handler[o] # "idle"
    BY <1>14 DEF GiveUpWait, Goto, TypeOK
  <2>2. QED
    BY <1>3, <2>1
<1>15. OneHandler' /\ \A o \in Client : Worked(o)'
  BY <1>4, <1>5, <1>6, <1>7, <1>8, <1>9, <1>10, <1>11, <1>12, <1>13, <1>14 DEF Next
<1>16. QED
  BY <1>1, <1>15 DEF AllWorked

-----------------------------------------------------------------------------
(***************************************************************************)
(* A file can have been staged only by a restore that needs it, and a run  *)
(* passes the statement that stages it only with the file listed: at its   *)
(* end everything staged, by earlier runs too, is listed, and removed or   *)
(* stuck.                                                                  *)
(***************************************************************************)
AfterDownload == {"verify", "decrypt", "unpack", "post", "wait", "note", "return"}
AfterDecrypt  == {"unpack", "post", "wait", "note", "return"}
AfterUnpack   == {"post", "wait", "note", "return"}

Staging(c) ==
  /\ "download" \in staged[c] => Wants[c] \in Remote
  /\ "plain" \in staged[c] => c \in Keyed
  /\ handler[c] \in AfterDownload /\ Wants[c] \in Remote => "download" \in listed[c]
  /\ handler[c] \in AfterDecrypt /\ c \in Keyed => "plain" \in listed[c]
  /\ handler[c] \in AfterUnpack => "unpacked" \in listed[c]
  /\ job[c].state = "completed" => staged[c] \subseteq stuck[c]

AllStaged == AllWorked /\ \A c \in Client : Staging(c)

\* Nothing is staged at first.
LEMMA StagedInit == Init => AllStaged
BY WorkedInit DEF Init, AllStaged, Staging, AfterDownload, AfterDecrypt, AfterUnpack, NoJob

\* The steps of a handler between its first statement and its last stage files, and pass
\* a statement only when its file is listed.
LEMMA HandlerKeepsStaged ==
  ASSUME AllStaged, NEW c \in Client, HandlerNext(c)
  PROVE  Staging(c)'
<1> AllWorked /\ Staging(c) /\ Worked(c) /\ TypeOK
  BY DEF AllStaged, AllWorked
<1>0. /\ handler \in [Client -> {"idle", "begin", "download", "verify", "decrypt", "unpack",
                                 "post", "wait", "note", "catch", "return", "throw"}]
      /\ staged \in [Client -> SUBSET Files] /\ listed \in [Client -> SUBSET Files]
  BY DEF TypeOK
<1>1. CASE EndHandler(c)
  <2>1. /\ handler'[c] = "idle"
        /\ \/ handler[c] = "return" /\ job'[c].state = "completed"
           \/ handler[c] = "throw" /\ job'[c].state \in {"delayed", "failed"}
    BY <1>1, HandlerIsLocal
  <2>2. /\ staged'[c] \subseteq staged[c]
        /\ staged'[c] \subseteq (staged[c] \ listed[c]) \cup stuck'[c]
    <3>1. CASE staged' = [staged EXCEPT ![c] = @ \ listed[c]]
      BY <1>0, <3>1
    <3>2. ASSUME NEW file, staged' = [staged EXCEPT ![c] = @ \ (listed[c] \ {file})],
                 stuck' = [stuck EXCEPT ![c] = @ \cup {file}]
          PROVE  /\ staged'[c] \subseteq staged[c]
                 /\ staged'[c] \subseteq (staged[c] \ listed[c]) \cup stuck'[c]
      BY <1>0, <3>2 DEF TypeOK
    <3>3. QED
      BY <1>1, <3>1, <3>2 DEF EndHandler
  <2>3. handler[c] = "return" => staged[c] \subseteq listed[c]
    BY <1>0 DEF Staging, AfterDownload, AfterDecrypt, AfterUnpack, Files
  <2>4. QED
    BY <2>1, <2>2, <2>3 DEF Staging, AfterDownload, AfterDecrypt, AfterUnpack
<1>2. ASSUME ~EndHandler(c) PROVE UNCHANGED job /\ job[c].state # "completed"
  <2>1. UNCHANGED job /\ handler[c] # "idle"
    BY <1>2, HandlerIsLocal
  <2>2. QED
    BY <2>1 DEF Worked, Owns
<1> USE DEF Staging, AfterDownload, AfterDecrypt, AfterUnpack, Goto
<1>3. CASE BeginHandler(c)
  BY <1>0, <1>2, <1>3 DEF BeginHandler, EndHandler
<1>4. CASE Download(c)
  <2>1. ~EndHandler(c)
    BY <1>4 DEF Download, EndHandler
  <2>2. QED
    BY <1>0, <1>2, <1>4, <2>1 DEF Download, Stage, Pass
<1>5. CASE Verify(c)
  BY <1>0, <1>2, <1>5 DEF Verify, Pass, EndHandler
<1>6. CASE Decrypt(c)
  <2>1. ~EndHandler(c)
    BY <1>6 DEF Decrypt, EndHandler
  <2>2. QED
    BY <1>0, <1>2, <1>6, <2>1 DEF Decrypt, Stage, Pass
<1>7. CASE DecryptFails(c)
  <2>1. ~EndHandler(c)
    BY <1>7 DEF DecryptFails, EndHandler
  <2>2. QED
    BY <1>0, <1>2, <1>7, <2>1 DEF DecryptFails
<1>8. CASE Unpack(c)
  <2>1. ~EndHandler(c)
    BY <1>8 DEF Unpack, EndHandler
  <2>2. QED
    BY <1>0, <1>2, <1>8, <2>1 DEF Unpack, Stage
<1>9. CASE AskService(c) \/ NoteSuccess(c) \/ Catch(c)
  <2>1. ~EndHandler(c)
    BY <1>9 DEF AskService, NoteSuccess, Catch, EndHandler
  <2>2. QED
    BY <1>0, <1>2, <1>9, <2>1 DEF AskService, NoteSuccess, Catch, Pass
<1>10. QED
  BY <1>1, <1>3, <1>4, <1>5, <1>6, <1>7, <1>8, <1>9 DEF HandlerNext

\* Every step keeps the staging files accounted for.
LEMMA NextKeepsStaged == AllStaged /\ [Next]_vars => AllStaged'
<1> SUFFICES ASSUME AllStaged, [Next]_vars PROVE AllStaged'
  OBVIOUS
<1> AllWorked /\ TypeOK
  BY DEF AllStaged, AllWorked
<1>1. ASSUME NEW c \in Client PROVE Staging(c)
  BY DEF AllStaged
<1>2. ASSUME UNCHANGED <<job, staged, listed, stuck>>,
             \A c \in Client : \/ UNCHANGED handler[c]
                               \/ handler'[c] \in {"idle", "catch"}
                               \/ handler[c] = "wait" /\ handler'[c] = "note"
      PROVE  \A c \in Client : Staging(c)'
  BY <1>1, <1>2 DEF Staging, AfterDownload, AfterDecrypt, AfterUnpack
<1>3. ASSUME NEW c \in Client, CommandNext(c) PROVE \A o \in Client : Staging(o)'
  <2>1. /\ UNCHANGED <<handler, staged, listed, stuck>>
        /\ \A o \in Client : job'[o] = job[o] \/ job'[o].state # "completed"
    BY <1>3, CommandIsLocal
  <2>2. QED
    BY <1>1, <2>1 DEF Staging
<1>4. ASSUME NEW c \in Client, QueueNext(c) PROVE \A o \in Client : Staging(o)'
  <2>1. /\ UNCHANGED <<staged, listed, stuck>>
        /\ \A o \in Client : o # c => UNCHANGED <<job[o], handler[o]>>
        /\ job'[c].state # "completed"
        /\ UNCHANGED handler \/ handler'[c] = "begin"
    BY <1>4, QueueIsLocal
  <2>2. QED
    BY <1>1, <2>1 DEF Staging, AfterDownload, AfterDecrypt, AfterUnpack
<1>5. ASSUME NEW c \in Client, HandlerNext(c) PROVE \A o \in Client : Staging(o)'
  <2>1. \A o \in Client :
          o # c => UNCHANGED <<job[o], handler[o], staged[o], listed[o], stuck[o]>>
    BY <1>5, HandlerIsLocal
  <2>2. Staging(c)'
    BY <1>5, HandlerKeepsStaged
  <2>3. QED
    BY <1>1, <2>1, <2>2 DEF Staging
<1>6. ASSUME LoadNext PROVE \A o \in Client : Staging(o)'
  <2>1. PICK l \in loads : LoadArchive(l) \/ CopyBeside(l) \/ RemoveTarget(l) \/ CopyIntoPlace(l)
    BY <1>6 DEF LoadNext
  <2>2. UNCHANGED <<job, staged, listed, stuck>>
    BY <2>1, LoadIsLocal
  <2>3. UNCHANGED handler \/ (/\ handler[l.of] = "wait" /\ handler'[l.of] \in {"note", "catch"}
                              /\ \A o \in Client : o # l.of => handler'[o] = handler[o])
    BY <2>1, LoadIsLocal
  <2>4. QED
    BY <1>2, <2>2, <2>3
<1>7. ASSUME NEW e, EndLoads(e) PROVE \A o \in Client : Staging(o)'
  <2>1. UNCHANGED <<job, staged, listed, stuck>>
    BY <1>7 DEF EndLoads
  <2>2. \A c \in Client : UNCHANGED handler[c] \/ handler'[c] = "catch"
    BY <1>7 DEF EndLoads
  <2>3. QED
    BY <1>2, <2>1, <2>2
<1>8. ASSUME UNCHANGED workerVars PROVE \A o \in Client : Staging(o)'
  BY <1>2, <1>8 DEF workerVars
<1>9. ASSUME WorkerDies PROVE \A o \in Client : Staging(o)'
  BY <1>1, <1>9 DEF WorkerDies, Staging, AfterDownload, AfterDecrypt, AfterUnpack
<1>10. ASSUME NEW d \in Dump, Damage(d) PROVE UNCHANGED workerVars
  BY <1>10 DEF Damage
<1>11. ASSUME NEW e \in Engines, LockExpires(e) PROVE UNCHANGED workerVars
  BY <1>11 DEF LockExpires, Elsewhere
<1>12. ASSUME NEW e \in Engines, ServiceDies(e) PROVE EndLoads(e)
  BY <1>12 DEF ServiceDies
<1>17. ASSUME NEW c \in Client, GiveUpWait(c) PROVE \A o \in Client : Staging(o)'
  <2>1. UNCHANGED <<job, staged, listed, stuck>>
        /\ \A o \in Client : UNCHANGED handler[o] \/ handler'[o] = "catch"
    BY <1>17 DEF GiveUpWait, Goto, TypeOK
  <2>2. QED
    BY <1>2, <2>1
<1>13. Next => \A o \in Client : Staging(o)'
  BY <1>3, <1>4, <1>5, <1>6, <1>7, <1>8, <1>9, <1>10, <1>11, <1>12, <1>17 DEF Next
<1>14. CASE Next
  BY <1>13, <1>14, NextKeepsWorked DEF AllStaged
<1>15. CASE UNCHANGED vars
  <2>1. AllWorked'
    BY <1>15 DEF vars, dumpVars, clientVars, workerVars, serviceVars, AllWorked, TypeOK,
        DumpTypeOK, AllStreamed,
                 DumpTypes, Streamed, Written, OneHandler, Worked
  <2>2. QED
    BY <1>8, <1>15, <2>1 DEF vars, AllStaged
<1>16. QED
  BY <1>14, <1>15

(***************************************************************************)
(* Every variable of the restores keeps its type.                          *)
(***************************************************************************)
THEOREM RestoresTypeCorrect == Spec => []TypeOK
<1>1. AllStaged => TypeOK
  BY DEF AllStaged, AllWorked
<1>2. QED
  BY <1>1, StagedInit, NextKeepsStaged, PTL DEF Spec

(***************************************************************************)
(* The finally block of handleRestoreJob removes what its run has listed;  *)
(* a restore that completes leaves no file of its failed, dead or          *)
(* timed-out runs, but those that it could not remove.                     *)
(***************************************************************************)
THEOREM NothingStaysStaged == Spec => []SuccessLeavesNothing
<1>1. AllStaged => SuccessLeavesNothing
  BY DEF AllStaged, Staging, SuccessLeavesNothing
<1>2. QED
  BY <1>1, StagedInit, NextKeepsStaged, PTL DEF Spec

-----------------------------------------------------------------------------
(***************************************************************************)
(* The loads of the services: each was asked for by one handler run, which *)
(* waits for it unless that run or the service has died or the request     *)
(* has timed out; and the only load of SQLite that has copied its archive  *)
(* beside the database finds it there still, if its run waits.             *)
(***************************************************************************)
Asking     == {"begin", "download", "verify", "decrypt", "unpack", "post"}
Copying(l) == l.at \in {"copied", "removed"}

Served(l) ==
  /\ job[l.of].state # "absent"
  /\ l.run <= runs[l.of]
  /\ handler[l.of] \in Asking => l.run < runs[l.of]
  /\ Copying(l) => Kind(l.of) = "sqlite" /\ (beside \notin {"none", "part"} \/ l.left)
  /\ ~l.left /\ l.at # "orphan" => handler[l.of] = "wait" /\ runs[l.of] = l.run

Same(l, o) == l.of = o.of /\ l.run = o.run

AllServed ==
  /\ AllWorked
  /\ \A l \in loads : Served(l)
  /\ \A l, o \in loads : Same(l, o) \/ (Copying(l) /\ Copying(o)) => l = o

\* Nothing is loaded at first.
LEMMA ServedInit == Init => AllServed
BY WorkedInit DEF Init, AllServed

\* The archive of a restore under way is no torn one.
LEMMA ArchiveUsable ==
  ASSUME AllServed, NEW l \in loads
  PROVE  Archive(l.of) \notin {"none", "part"}
<1>1. l.of \in Client /\ job[l.of].state # "absent" /\ Worked(l.of)
  BY DEF AllServed, AllWorked, TypeOK, LoadRecords, Served
<1>2. Wants[l.of] \in Dump
  BY <1>1, RestoreAssumption
<1>3. reply[Wants[l.of]] = "ok" /\ Streamed(Wants[l.of])
  BY <1>1, <1>2 DEF Worked, AllServed, AllWorked, AllStreamed
<1>4. QED
  BY <1>3 DEF Streamed, Archive

\* SQLite copies the archive beside the database when no other load has done so; what it
\* copies is whole, unless the run that asked is gone.
LEMMA CopyKeepsServed ==
  ASSUME AllServed, NEW l \in loads, Kind(l.of) = "sqlite", l.at = "runs",
         \A o \in loads : ~Copying(o),
         loads' = (loads \ {l}) \cup {[l EXCEPT !.at = "copied"]},
         beside' \notin {"none", "part"} \/ l.left,
         UNCHANGED <<job, runs, handler>>, AllWorked'
  PROVE  AllServed'
<1> AllWorked /\ TypeOK /\ (\A z \in loads : Served(z))
  BY DEF AllServed, AllWorked
<1>1. l.of \in Client /\ loads \subseteq LoadRecords
  BY DEF TypeOK, LoadRecords
<1> DEFINE m == [l EXCEPT !.at = "copied"]
<1>2. m.of = l.of /\ m.run = l.run /\ m.at = "copied" /\ m.left = l.left
  BY <1>1 DEF LoadRecords
<1>3. Served(m)'
  BY <1>2 DEF Served, Copying, Kind
<1>4. ASSUME NEW o \in loads PROVE Served(o)'
  BY DEF Served, Copying, Kind
<1>5. ASSUME NEW a \in loads', NEW b \in loads', Same(a, b) \/ (Copying(a) /\ Copying(b))
      PROVE  a = b
  <2>1. CASE a = m /\ b # m
    BY <1>2, <1>5, <2>1 DEF AllServed, Same
  <2>2. CASE a # m /\ b = m
    BY <1>2, <1>5, <2>2 DEF AllServed, Same
  <2>3. CASE a # m /\ b # m
    BY <1>5, <2>3 DEF AllServed
  <2>4. QED
    BY <2>1, <2>2, <2>3
<1>6. \A o \in loads' : Served(o)'
  BY <1>3, <1>4
<1>7. QED
  BY <1>5, <1>6 DEF AllServed, Same, Copying

\* A load that ends tells the handler run that asked for it, or nobody, and no other load
\* is that run's; it leaves the copy beside the database alone unless no other uses it.
LEMMA AnswerKeepsServed ==
  ASSUME AllServed, NEW l \in loads, AllWorked', UNCHANGED <<job, runs>>,
         loads' = loads \ {l},
         UNCHANGED handler \/ Tell(l, "note") \/ Tell(l, "catch"),
         beside' = beside \/ \A o \in loads : Copying(o) => o = l
  PROVE  AllServed'
<1> AllWorked /\ TypeOK /\ l.of \in Client /\ (\A z \in loads : Served(z))
  BY DEF AllServed, AllWorked, TypeOK, LoadRecords
<1>1. ASSUME NEW o \in loads' PROVE Served(o)'
  <2>1. Served(o) /\ o # l /\ ~Same(l, o) /\ o.of \in Client
        /\ (Copying(o) => beside' = beside)
    BY <1>1 DEF AllServed, TypeOK, LoadRecords
  <2>2. handler'[o.of] = handler[o.of]
        \/ (/\ o.of = l.of /\ handler[o.of] = "wait" /\ runs[o.of] = l.run
            /\ handler'[o.of] \in {"note", "catch"})
    BY <2>1 DEF Tell, TypeOK
  <2>3. QED
    BY <2>1, <2>2 DEF Served, Asking, Same, Copying, Kind
<1>2. QED
  BY <1>1 DEF AllServed, Same, Copying

\* A load whose run dies or gives up is still that run's.
LEMMA AbandonKeepsServed ==
  ASSUME AllServed, AllWorked', NEW G \in SUBSET Client, Abandon(G),
         UNCHANGED <<job, runs, beside>>,
         \A c \in Client : handler'[c] \notin Asking \/ handler'[c] = handler[c],
         \A c \in Client \ G : handler'[c] = handler[c]
  PROVE  AllServed'
<1> AllWorked /\ TypeOK /\ (\A z \in loads : Served(z))
  BY DEF AllServed, AllWorked
<1> DEFINE A(l) == Abandoned(l, G)
<1>1. ASSUME NEW l \in loads
      PROVE  /\ A(l).of = l.of /\ A(l).run = l.run /\ A(l).at = l.at
             /\ A(l).left = (l.left \/ l.of \in G) /\ l.of \in Client
  BY DEF Abandoned, TypeOK, LoadRecords
<1>2. \A z \in loads' : \E l \in loads : z = A(l)
  BY DEF Abandon
<1> HIDE DEF A
<1>3. ASSUME NEW z \in loads' PROVE Served(z)'
  <2>1. PICK l \in loads : z = A(l)
    BY <1>2
  <2>2. /\ z.of = l.of /\ z.run = l.run /\ z.at = l.at /\ l.of \in Client
        /\ (~z.left => ~l.left /\ l.of \notin G) /\ (l.left => z.left)
    BY <1>1, <2>1
  <2>3. Served(l)
    OBVIOUS
  <2>4. QED
    BY <2>2, <2>3 DEF Served, Copying, Kind
<1>4. ASSUME NEW a \in loads', NEW b \in loads', Same(a, b) \/ (Copying(a) /\ Copying(b))
      PROVE  a = b
  <2>1. PICK x \in loads : a = A(x)
    BY <1>2
  <2>2. PICK y \in loads : b = A(y)
    BY <1>2
  <2>3. Same(x, y) \/ (Copying(x) /\ Copying(y))
    BY <1>1, <1>4, <2>1, <2>2 DEF Same, Copying
  <2>4. QED
    BY <2>1, <2>2, <2>3 DEF AllServed
<1>5. QED
  BY <1>3, <1>4 DEF AllServed, Same, Copying

\* The load that has copied the archive removes the database.
LEMMA RemoveKeepsServed ==
  ASSUME AllServed, NEW l \in loads, RemoveTarget(l), AllWorked'
  PROVE  AllServed'
<1> AllWorked /\ TypeOK /\ (\A z \in loads : Served(z))
  BY DEF AllServed, AllWorked
<1> DEFINE m == [l EXCEPT !.at = "removed"]
<1>1. loads \subseteq LoadRecords
  BY DEF TypeOK
<1>2. m.of = l.of /\ m.run = l.run /\ m.at = "removed" /\ l.at = "copied" /\ m.left = l.left
  BY <1>1 DEF RemoveTarget, LoadRecords
<1>3. /\ UNCHANGED <<job, runs, handler, beside>>
      /\ loads' = (loads \ {l}) \cup {m}
  BY DEF RemoveTarget, OutOfService
<1>4. Served(m)'
  BY <1>2, <1>3 DEF Served, Copying, Kind
<1>5. ASSUME NEW o \in loads PROVE Served(o)'
  BY <1>3 DEF Served, Copying, Kind
<1>6. ASSUME NEW a \in loads', NEW b \in loads', Same(a, b) \/ (Copying(a) /\ Copying(b))
      PROVE  a = b
  <2>1. CASE a = m /\ b # m
    BY <1>2, <1>3, <1>6, <2>1 DEF AllServed, Same, Copying
  <2>2. CASE a # m /\ b = m
    BY <1>2, <1>3, <1>6, <2>2 DEF AllServed, Same, Copying
  <2>3. CASE a # m /\ b # m
    BY <1>3, <1>6, <2>3 DEF AllServed
  <2>4. QED
    BY <2>1, <2>2, <2>3
<1>7. QED
  BY <1>3, <1>4, <1>5, <1>6 DEF AllServed, Same, Copying

\* A process that ends takes the loads of SQLite with it, and leaves those of the others
\* behind without their handlers.
LEMMA EndKeepsServed ==
  ASSUME AllServed, NEW e \in Engines, EndLoads(e), AllWorked'
  PROVE  AllServed'
<1> AllWorked /\ TypeOK /\ (\A z \in loads : Served(z))
  BY DEF AllServed, AllWorked
<1>1. loads \subseteq LoadRecords
  BY DEF TypeOK
<1>2. /\ UNCHANGED <<job, runs>>
      /\ \A c \in Client : handler'[c] = IF handler[c] = "wait"
          /\ Kind(c) = e THEN "catch" ELSE handler[c]
  BY DEF EndLoads
<1>4. ASSUME NEW o \in loads, o \notin LoadsOf(e), Copying(o) => beside' = beside PROVE Served(o)'
  <2>1. Served(o) /\ o.of \in Client /\ (Kind(o.of) # e \/ o.at = "orphan")
    BY <1>1, <1>4 DEF LoadsOf, LoadRecords
  <2>2. QED
    BY <1>2, <1>4, <2>1 DEF Served, Asking, Copying, Kind
<1>5. CASE e = "sqlite"
  <2>1. loads' = loads \ LoadsOf(e)
    BY <1>5 DEF EndLoads
  <2>2. \A o \in loads' : ~Copying(o)
    BY <2>1, <1>5 DEF LoadsOf, Served, Copying
  <2>3. \A o \in loads' : Served(o)'
    BY <1>4, <2>1, <2>2
  <2>4. QED
    BY <2>1, <2>3 DEF AllServed, Same, Copying
<1>6. CASE e # "sqlite"
  <2> DEFINE O(l) == [l EXCEPT !.at = "orphan"]
  <2>1. loads' = (loads \ LoadsOf(e)) \cup {O(l) : l \in LoadsOf(e)} /\ beside' = beside
    BY <1>6 DEF EndLoads
  <2>2. ASSUME NEW l \in LoadsOf(e) PROVE /\ l \in loads /\ O(l).of = l.of /\ O(l).run = l.run
                                          /\ ~Copying(O(l)) /\ O(l).at = "orphan"
                                              /\ l.of \in Client
    BY <1>1 DEF LoadsOf, Copying, LoadRecords
  <2>3. ASSUME NEW l \in LoadsOf(e) PROVE Served(O(l))'
    <3>1. Served(l)
      BY <2>2
    <3> HIDE DEF O
    <3>2. QED
      BY <1>2, <2>2, <3>1 DEF Served, Asking
  <2>4. \A o \in loads' : Served(o)'
    <3>1. \A o \in loads \ LoadsOf(e) : Served(o)'
      BY <1>4, <2>1
    <3> HIDE DEF O
    <3>2. QED
      BY <2>1, <2>3, <3>1
  <2>6. ASSUME NEW a \in loads', NEW b \in loads', Same(a, b) \/ (Copying(a) /\ Copying(b))
        PROVE  a = b
    <3> HIDE DEF O
    <3>0. \A z \in loads' : (z \in loads
        /\ z \notin LoadsOf(e)) \/ (\E w \in LoadsOf(e) : z = O(w))
      BY <2>1
    <3>1. PICK x \in loads : Same(a, x) /\ (Copying(a) => a = x)
             /\ ((a = x /\ x \notin LoadsOf(e)) \/ (a = O(x) /\ x \in LoadsOf(e)))
      BY <3>0, <2>2 DEF Same
    <3>2. PICK y \in loads : Same(b, y) /\ (Copying(b) => b = y)
             /\ ((b = y /\ y \notin LoadsOf(e)) \/ (b = O(y) /\ y \in LoadsOf(e)))
      BY <3>0, <2>2 DEF Same
    <3>3. x = y
      BY <2>6, <3>1, <3>2 DEF Same, AllServed
    <3>4. QED
      BY <3>1, <3>2, <3>3
  <2>7. QED
    BY <2>4, <2>6 DEF AllServed, Same, Copying
<1>7. QED
  BY <1>5, <1>6

\* Jobs, once there, stay.
LEMMA RestKeepsServed ==
  ASSUME AllServed, AllWorked', UNCHANGED <<runs, handler, loads, beside>>,
         \A o \in Client : job[o].state # "absent" => job'[o].state # "absent"
  PROVE  AllServed'
<1>1. \A l \in loads : l.of \in Client
  BY DEF AllServed, AllWorked, TypeOK, LoadRecords
<1>2. ASSUME NEW l \in loads PROVE Served(l)'
  BY <1>1 DEF AllServed, Served, Copying, Kind
<1>3. QED
  BY <1>2 DEF AllServed, Same, Copying

\* The new run of a job is none that a load was asked for by.
LEMMA QueueKeepsServed ==
  ASSUME AllServed, NEW c \in Client, QueueNext(c), AllWorked'
  PROVE  AllServed'
<1> AllWorked /\ TypeOK
  BY DEF AllServed, AllWorked
<1>1. /\ UNCHANGED <<loads, beside>>
      /\ \A o \in Client : o # c => UNCHANGED <<job[o], runs[o], handler[o]>>
      /\ handler[c] = "idle" /\ job'[c].state # "absent"
      /\ \/ UNCHANGED <<runs, handler>>
         \/ handler'[c] = "begin" /\ runs'[c] = runs[c] + 1
  BY QueueIsLocal DEF Owns
<1>2. ASSUME NEW l \in loads PROVE Served(l)'
  <2>1. Served(l) /\ l.of \in Client /\ l.run \in Nat /\ runs[l.of] \in Nat
    BY DEF AllServed, TypeOK, LoadRecords
  <2>2. CASE l.of # c
    BY <1>1, <2>1, <2>2 DEF Served, Copying, Kind
  <2>3. CASE l.of = c
    BY <1>1, <2>1, <2>3 DEF Served, Asking, Copying, Kind
  <2>4. QED
    BY <2>2, <2>3
<1>3. QED
  BY <1>1, <1>2 DEF AllServed, Same, Copying

\* A handler asks for one load, and then waits.
LEMMA HandlerKeepsServed ==
  ASSUME AllServed, NEW c \in Client, HandlerNext(c), AllWorked'
  PROVE  AllServed'
<1> AllWorked /\ TypeOK
  BY DEF AllServed, AllWorked
<1>1. /\ UNCHANGED <<runs, beside>>
      /\ \A o \in Client : o # c => UNCHANGED <<job[o], handler[o]>>
      /\ ~AskService(c) => UNCHANGED loads
      /\ UNCHANGED job \/ job'[c].state # "absent"
  BY HandlerIsLocal
<1>2. /\ handler \in [Client -> {"idle", "begin", "download", "verify", "decrypt", "unpack",
                                 "post", "wait", "note", "catch", "return", "throw"}]
      /\ loads \subseteq LoadRecords
      /\ runs \in [Client -> Nat]
  BY DEF TypeOK
<1>3. handler[c] # "wait" /\ (handler'[c] \in Asking => handler[c] \in Asking)
  BY <1>2 DEF HandlerNext, BeginHandler, Download, Verify, Decrypt, DecryptFails, Unpack,
      AskService,
     NoteSuccess, Catch, EndHandler, Stage, Pass, Goto, Asking
<1>4. ASSUME NEW l \in loads PROVE Served(l)'
  <2>1. Served(l) /\ l.of \in Client /\ (l.of = c => handler[l.of] # "wait")
    BY <1>2, <1>3 DEF AllServed, LoadRecords
  <2>2. CASE l.of # c
    BY <1>1, <2>1, <2>2 DEF Served, Copying, Kind
  <2>3. CASE l.of = c
    BY <1>1, <1>3, <2>1, <2>3 DEF Served, Copying, Kind
  <2>4. QED
    BY <2>2, <2>3
<1>5. CASE ~AskService(c)
  BY <1>1, <1>4, <1>5 DEF AllServed, Same, Copying
<1>6. CASE AskService(c)
  <2>0. PICK m : m = [of |-> c, run |-> runs[c], at |-> "runs", left |-> FALSE]
    OBVIOUS
  <2>1. /\ loads' = loads \cup {m} /\ handler[c] = "post" /\ handler'[c] = "wait" /\ UNCHANGED job
    BY <1>2, <1>6, <2>0 DEF AskService, Goto
  <2>2. m.of = c /\ m.run = runs[c] /\ m.at = "runs" /\ runs[c] \in Nat
    BY <1>2, <2>0
  <2>3. job[c].state # "absent"
    BY <2>1 DEF AllWorked, Worked, Owns
  <2>4. Served(m)'
    BY <1>1, <2>1, <2>2, <2>3 DEF Served, Asking, Copying
  <2>5. ASSUME NEW a \in loads PROVE ~Same(a, m) /\ ~Same(m, a)
    <3>1. Served(a) /\ a.run \in Nat
      BY <1>2 DEF AllServed, LoadRecords
    <3>2. QED
      BY <2>1, <2>2, <3>1 DEF Served, Asking, Same
  <2>6. ASSUME NEW a \in loads', NEW b \in loads', Same(a, b) \/ (Copying(a) /\ Copying(b))
        PROVE  a = b
    BY <2>1, <2>2, <2>5, <2>6 DEF AllServed, Copying
  <2>7. QED
    BY <1>4, <2>1, <2>4, <2>6 DEF AllServed, Same, Copying
<1>7. QED
  BY <1>5, <1>6

\* The steps of the loads.
LEMMA LoadKeepsServed ==
  ASSUME AllServed, NEW l \in loads, AllWorked',
         LoadArchive(l) \/ CopyBeside(l) \/ RemoveTarget(l) \/ CopyIntoPlace(l)
  PROVE  AllServed'
<1>1. UNCHANGED <<job, runs>>
  BY DEF LoadArchive, CopyBeside, RemoveTarget, CopyIntoPlace, OutOfService
<1>2. CASE LoadArchive(l)
  <2>1. UNCHANGED handler \/ Tell(l, "note") \/ Tell(l, "catch")
    BY <1>2 DEF LoadArchive
  <2>2. loads' = loads \ {l} /\ beside' = beside
    BY <1>2 DEF LoadArchive
  <2>3. QED
    BY <1>1, <2>1, <2>2, AnswerKeepsServed
<1>3. CASE CopyBeside(l)
  <2>1. Kind(l.of) = "sqlite" /\ l.at = "runs" /\ \A o \in loads : ~Copying(o)
    BY <1>3 DEF CopyBeside, Copying
  <2>2. CASE /\ loads' = (loads \ {l}) \cup {[l EXCEPT !.at = "copied"]}
             /\ beside' = Archive(l.of) \/ l.left
             /\ UNCHANGED handler
    BY <1>1, <2>1, <2>2, ArchiveUsable, CopyKeepsServed
  <2>3. CASE loads' = loads \ {l} /\ (UNCHANGED handler \/ Tell(l, "catch"))
    BY <1>1, <2>1, <2>3, AnswerKeepsServed
  <2>4. QED
    BY <1>3, <2>2, <2>3 DEF CopyBeside
<1>4. CASE RemoveTarget(l)
  BY <1>4, RemoveKeepsServed
<1>5. CASE CopyIntoPlace(l)
  <2>1. UNCHANGED handler \/ Tell(l, "note") \/ Tell(l, "catch")
    BY <1>5 DEF CopyIntoPlace
  <2>2. loads' = loads \ {l} /\ Copying(l)
    BY <1>5 DEF CopyIntoPlace, Copying
  <2>3. \A o \in loads : Copying(o) => o = l
    BY <2>2 DEF AllServed
  <2>4. QED
    BY <1>1, <2>1, <2>2, <2>3, AnswerKeepsServed
<1>6. QED
  BY <1>2, <1>3, <1>4, <1>5

\* Every step keeps the loads served.
LEMMA NextKeepsServed == AllServed /\ [Next]_vars => AllServed'
<1> SUFFICES ASSUME AllServed, [Next]_vars PROVE AllServed'
  OBVIOUS
<1> AllWorked /\ TypeOK
  BY DEF AllServed, AllWorked
<1>1. AllWorked'
  <2>1. CASE Next
    BY <2>1, NextKeepsWorked
  <2>2. CASE UNCHANGED vars
    BY <2>2 DEF vars, dumpVars, clientVars, workerVars, serviceVars, AllWorked, TypeOK,
        DumpTypeOK, AllStreamed,
                DumpTypes, Streamed, Written, OneHandler, Worked
  <2>3. QED
    BY <2>1, <2>2
<1>2. ASSUME UNCHANGED <<workerVars, serviceVars>> PROVE AllServed'
  BY <1>1, <1>2, RestKeepsServed DEF workerVars, serviceVars
<1>3. ASSUME NEW d \in Dump, DumpStep(d), UNCHANGED <<workerVars, serviceVars>> PROVE AllServed'
  BY <1>2, <1>3
<1>4. ASSUME NEW d \in Dump, Notice(d) \/ ReadFails(d), EndLoads(Engine[d]) PROVE AllServed'
  <2>1. Engine[d] \in Engines
    BY DumpAssumption
  <2>2. QED
    BY <1>1, <1>4, <2>1, EndKeepsServed
<1>5. ASSUME NEW d \in Dump, Damage(d) PROVE AllServed'
  BY <1>2, <1>5 DEF Damage
<1>6. ASSUME NEW c \in Client, CommandNext(c) PROVE AllServed'
  <2>1. /\ UNCHANGED <<runs, handler, loads, beside>>
        /\ \A o \in Client : job'[o] = job[o] \/ job[o].state = "absent"
    BY <1>6, CommandIsLocal
  <2>2. QED
    BY <1>1, <2>1, RestKeepsServed
<1>7. ASSUME NEW c \in Client, QueueNext(c) \/ HandlerNext(c) PROVE AllServed'
  BY <1>1, <1>7, QueueKeepsServed, HandlerKeepsServed
<1>8. ASSUME LoadNext PROVE AllServed'
  BY <1>1, <1>8, LoadKeepsServed DEF LoadNext
<1>9. ASSUME NEW e \in Engines, LockExpires(e) PROVE AllServed'
  BY <1>2, <1>9 DEF LockExpires, Elsewhere
<1>10. ASSUME NEW e \in Engines, ServiceDies(e) PROVE AllServed'
  BY <1>1, <1>10, EndKeepsServed DEF ServiceDies
<1>11. ASSUME WorkerDies PROVE AllServed'
  <2>1. /\ UNCHANGED <<job, runs, beside>> /\ Abandon(Client)
        /\ \A c \in Client : handler'[c] = "idle"
    BY <1>11 DEF WorkerDies
  <2>2. QED
    BY <1>1, <2>1, AbandonKeepsServed DEF Asking
<1>14. ASSUME NEW c \in Client, GiveUpWait(c) PROVE AllServed'
  <2>1. /\ UNCHANGED <<job, runs, beside>> /\ Abandon({c})
        /\ handler' = [handler EXCEPT ![c] = "catch"]
    BY <1>14 DEF GiveUpWait, Goto
  <2>2. handler'[c] = "catch" /\ \A o \in Client \ {c} : handler'[o] = handler[o]
    BY <2>1 DEF TypeOK
  <2>3. QED
    BY <1>1, <2>1, <2>2, AbandonKeepsServed DEF Asking
<1>12. CASE UNCHANGED vars
  BY <1>2, <1>12 DEF vars
<1>13. QED
  BY <1>3, <1>4, <1>5, <1>6, <1>7, <1>8, <1>9, <1>10, <1>11, <1>12, <1>14 DEF Next

(***************************************************************************)
(* At most one performRestore has a handler run that waits for it:         *)
(* MAX_CONCURRENT_RESTORES of one is what separates two restores of a      *)
(* database whose commands have stopped polling.  The loads of a run that  *)
(* died or gave up, and those a service left behind, go on beside it.      *)
(***************************************************************************)
THEOREM OneLoad == Spec => []OneLoadAtATime
<1>1. AllServed => OneLoadAtATime
  <2> SUFFICES ASSUME AllServed
               PROVE  Cardinality({l \in loads : l.at # "orphan" /\ ~l.left}) <= 1
    BY DEF AllServed, AllWorked, OneLoadAtATime
  <2> DEFINE Live == {l \in loads : l.at # "orphan" /\ ~l.left}
  <2>1. ASSUME NEW a \in Live, NEW b \in Live PROVE a = b
    <3>1. a.of \in Client /\ b.of \in Client
      BY DEF AllServed, AllWorked, TypeOK, LoadRecords
    <3>2. /\ handler[a.of] = "wait" /\ runs[a.of] = a.run
          /\ handler[b.of] = "wait" /\ runs[b.of] = b.run
      BY DEF AllServed, Served
    <3>3. a.of = b.of
      BY <3>1, <3>2 DEF AllServed, AllWorked, OneHandler
    <3>4. QED
      BY <3>2, <3>3 DEF AllServed, Same
  <2>2. CASE Live = {}
    BY <2>2, FS_EmptySet
  <2>3. CASE Live # {}
    <3>1. PICK a : a \in Live
      BY <2>3
    <3>2. Live = {a}
      BY <2>1, <3>1
    <3>3. Cardinality(Live) = 1
      BY <3>2, FS_Singleton
    <3>4. QED
      BY <3>3
  <2>4. QED
    BY <2>2, <2>3
<1>2. QED
  BY <1>1, ServedInit, NextKeepsServed, PTL DEF Spec

(***************************************************************************)
(* A SQLite database is removed only with the whole archive beside it,     *)
(* whatever fails and whichever process dies in between, or for a load     *)
(* whose run died or gave up.                                              *)
(***************************************************************************)
THEOREM NeverWithoutACopy == Spec => ReplacedSafely
<1> DEFINE Step == target["sqlite"] # "gone" /\ target'["sqlite"] = "gone"
                     => \/ beside' \notin {"none", "part"}
                        \/ \E l \in loads : l.at = "copied" /\ l.left
<1>1. AllServed /\ [Next]_vars => [Step]_vars
  <2> SUFFICES ASSUME AllServed, Next, target["sqlite"] # "gone", target'["sqlite"] = "gone"
               PROVE  \/ beside' \notin {"none", "part"}
                      \/ \E l \in loads : l.at = "copied" /\ l.left
    BY DEF vars, serviceVars
  <2> AllWorked /\ TypeOK
    BY DEF AllServed, AllWorked
  <2>0. target \in [Engines -> Contents \cup {"old", "gone"}] /\ beside \in Contents
        /\ "sqlite" \in Engines
    BY DEF TypeOK, Engines
  <2>1. ASSUME UNCHANGED target PROVE FALSE
    BY <2>1
  <2>2. ASSUME NEW l \in loads, LoadArchive(l) PROVE FALSE
    <3>1. Kind(l.of) # "sqlite"
      BY <2>2 DEF LoadArchive
    <3>2. target'["sqlite"] = target["sqlite"]
      BY <2>0, <2>2, <3>1 DEF LoadArchive, Into
    <3>3. QED
      BY <3>2
  <2>3. ASSUME NEW l \in loads, CopyBeside(l) PROVE FALSE
    BY <2>1, <2>3 DEF CopyBeside
  <2>4. ASSUME NEW l \in loads, RemoveTarget(l)
        PROVE  l.at = "copied" /\ (beside' \notin {"none", "part"} \/ l.left)
    BY <2>4 DEF RemoveTarget, AllServed, Served, Copying
  <2>5. ASSUME NEW l \in loads, CopyIntoPlace(l) PROVE FALSE
    <3>1. target'["sqlite"] \in {target["sqlite"], beside}
      BY <2>0, <2>5 DEF CopyIntoPlace, Into
    <3>2. QED
      BY <2>0, <3>1 DEF Contents
  <2>6. ASSUME NEW d \in Dump, \/ DumpStep(d) /\ UNCHANGED <<clientVars, workerVars, serviceVars>>
                               \/ (Notice(d) \/ ReadFails(d)) /\ EndLoads(Engine[d])
                               \/ Damage(d)
        PROVE  FALSE
    BY <2>1, <2>6 DEF serviceVars, EndLoads, Damage
  <2>7. ASSUME NEW c \in Client,
               CommandNext(c) \/ QueueNext(c) \/ HandlerNext(c) \/ GiveUpWait(c)
        PROVE  FALSE
    BY <2>1, <2>7, CommandIsLocal, QueueIsLocal, HandlerIsLocal DEF GiveUpWait
  <2>8. ASSUME NEW e \in Engines, LockExpires(e) \/ ServiceDies(e) PROVE FALSE
    BY <2>1, <2>8 DEF LockExpires, Elsewhere, ServiceDies, EndLoads, serviceVars
  <2>9. ASSUME WorkerDies PROVE FALSE
    BY <2>1, <2>9 DEF WorkerDies, serviceVars
  <2>10. QED
    BY <2>2, <2>3, <2>4, <2>5, <2>6, <2>7, <2>8, <2>9 DEF Next, LoadNext
<1>2. QED
  BY <1>1, ServedInit, NextKeepsServed, PTL DEF Spec, ReplacedSafely
=============================================================================
