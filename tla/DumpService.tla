---------------------------- MODULE DumpService ----------------------------
(***************************************************************************)
(* performBackup of the PostgreSQL, MongoDB and SQLite services: a dump    *)
(* tool, or the database file, streams through gzip, the checksum and the  *)
(* cipher into its destination.  The steps are the events of the streams;  *)
(* each service is one process, that an unhandled 'error' event ends.      *)
(*                                                                         *)
(* Of the bytes it matters whether they are the whole database ("whole"),  *)
(* end early ("short"), or were read while it changed ("mixed").           *)
(***************************************************************************)
EXTENDS Naturals, FiniteSets

CONSTANTS
  Dump,        \* the backup requests of the services
  Engine,      \* engine of each: "postgresql", "mongodb" or "sqlite"
  Encrypted,   \* the requests with options.encrypt
  MaxFaults,   \* bound on failing calls, tools and files
  MaxCrashes   \* bound on deaths of a process by a cause outside the code

Engines == {"postgresql", "mongodb", "sqlite"}

ASSUME DumpAssumption ==
  /\ Engine \in [Dump -> Engines] /\ Encrypted \subseteq Dump
  /\ MaxFaults \in Nat /\ MaxCrashes \in Nat

VARIABLES
  at,       \* statement of each request
  tool,     \* the dump tool: "none", "runs", "zero" or "nonzero" exit, or "killed"
  stored,   \* content of the destination
  sum,      \* content whose checksum the reply carries
  reply,    \* "none", "ok", "error", or "lost" with the service
  faults,
  crashes

dumpVars == <<at, tool, stored, sum, reply>>

Fault  == faults < MaxFaults /\ faults' = faults + 1
Busy(e) == {d \in Dump : Engine[d] = e /\ at[d] \in {"stream", "flush", "reply"}}

DumpInit ==
  /\ at = [d \in Dump |-> "new"]
  /\ tool = [d \in Dump |-> "none"]
  /\ stored = [d \in Dump |-> "none"]
  /\ sum = [d \in Dump |-> "none"]
  /\ reply = [d \in Dump |-> "none"]
  /\ faults = 0 /\ crashes = 0

-----------------------------------------------------------------------------
(* No database file under any of its names, or no key to encrypt with *)
Refuse(d) ==
  /\ at[d] = "new"
  /\ Engine[d] = "sqlite" \/ d \in Encrypted
  /\ at' = [at EXCEPT ![d] = "over"]
  /\ reply' = [reply EXCEPT ![d] = "error"]
  /\ UNCHANGED <<tool, stored, sum, faults, crashes>>

Connect(d, source) ==
  /\ at[d] = "new"
  /\ at' = [at EXCEPT ![d] = "stream"]
  /\ tool' = [tool EXCEPT ![d] = source]
  /\ stored' = [stored EXCEPT ![d] = "part"]
  /\ UNCHANGED <<sum, reply, faults, crashes>>

(* pg_dump or mongodump is spawned, its stdout connected to the destination *)
SpawnTool(d) == Engine[d] # "sqlite" /\ Connect(d, "runs")

(* The database file of SQLite is opened and connected to the destination *)
OpenFile(d) == Engine[d] = "sqlite" /\ Connect(d, "none")

(* Its stdout ends, after the whole database or, when the tool fails, early *)
ToolEnds(d) ==
  /\ at[d] = "stream" /\ tool[d] = "runs"
  /\ \/ tool' = [tool EXCEPT ![d] = "zero"] /\ UNCHANGED faults
     \/ tool' = [tool EXCEPT ![d] = "nonzero"] /\ Fault
  /\ at' = [at EXCEPT ![d] = "flush"]
  /\ UNCHANGED <<stored, sum, reply, crashes>>

(* The database file has been read, while the application may have written it *)
FileEnds(d) ==
  /\ at[d] = "stream" /\ tool[d] = "none"
  /\ at' = [at EXCEPT ![d] = "reply"]
  /\ \E c \in {"whole", "mixed"} : stored' = [stored EXCEPT ![d] = c]
  /\ UNCHANGED <<tool, sum, reply, faults, crashes>>

(* What the tool has written *)
Written(d) == IF tool[d] = "zero" THEN "whole" ELSE "short"

(* Mutant of Flush: the end of the pipeline is not awaited. *)
FlushUnawaited(d) ==
  /\ at[d] = "flush"
  /\ at' = [at EXCEPT ![d] = "reply"]
  /\ \E c \in {"part", Written(d)} :
       stored' = [stored EXCEPT ![d] = c]
  /\ UNCHANGED <<tool, sum, reply, faults, crashes>>

(* pipeline() resolves: the destination holds what the tool wrote *)
Flush(d) ==
  /\ at[d] = "flush"
  /\ at' = [at EXCEPT ![d] = "reply"]
  /\ stored' = [stored EXCEPT ![d] = Written(d)]
  /\ UNCHANGED <<tool, sum, reply, faults, crashes>>

(* Every request that an ended process was serving gets no reply *)
EndProcess(e) ==
  /\ at' = [d \in Dump |-> IF d \in Busy(e) THEN "over" ELSE at[d]]
  /\ reply' = [d \in Dump |-> IF d \in Busy(e) THEN "lost" ELSE reply[d]]

(* A failed tool is noticed: pg_dump by its exit code, mongodump by a word on
   stderr.  The PassThrough is destroyed with an error that nobody listens for.
   Once it has been read to its end that does nothing, and Flush goes on. *)
Notice(d) ==
  /\ \/ at[d] = "flush" /\ tool[d] = "nonzero" /\ UNCHANGED tool
     \/ tool[d] = "killed" /\ tool' = [tool EXCEPT ![d] = "none"]
  /\ EndProcess(Engine[d])
  /\ UNCHANGED <<stored, sum, faults, crashes>>

(* Nor does anybody listen for an error of the file that is read *)
ReadFails(d) ==
  /\ at[d] = "stream" /\ tool[d] = "none" /\ Fault
  /\ EndProcess("sqlite")
  /\ UNCHANGED <<tool, stored, sum, crashes>>

FailDump(d) ==
  /\ at[d] \in {"stream", "flush"} /\ Fault
  /\ at' = [at EXCEPT ![d] = "over"]
  /\ reply' = [reply EXCEPT ![d] = "error"]
  /\ UNCHANGED <<stored, sum, crashes>>

(* The destination cannot be written: the pipeline rejects, and the tool is killed if it
   has not ended *)
ToolDumpFails(d) ==
  /\ FailDump(d) /\ tool[d] \in {"runs", "zero", "nonzero"}
  /\ tool' = [tool EXCEPT ![d] = IF @ = "zero" THEN "zero" ELSE "killed"]

FileDumpFails(d) == FailDump(d) /\ tool[d] = "none" /\ UNCHANGED tool

Finish(d, content) ==
  /\ at[d] = "reply"
  /\ at' = [at EXCEPT ![d] = "over"]
  /\ reply' = [reply EXCEPT ![d] = "ok"]
  /\ sum' = [sum EXCEPT ![d] = content]
  /\ UNCHANGED <<tool, stored, faults, crashes>>

(* The checksum is that of the bytes before the cipher *)
AnswerTool(d) == Engine[d] # "sqlite" /\ Finish(d, Written(d))

AnswerFile(d) == Engine[d] = "sqlite" /\ Finish(d, stored[d])

(* A step of one request that leaves the process alone *)
DumpStep(d) ==
  \/ Refuse(d) \/ SpawnTool(d) \/ OpenFile(d) \/ ToolEnds(d) \/ FileEnds(d) \/ Flush(d)
  \/ ToolDumpFails(d) \/ FileDumpFails(d) \/ AnswerTool(d) \/ AnswerFile(d)

-----------------------------------------------------------------------------
DumpTypeOK ==
  /\ at \in [Dump -> {"new", "stream", "flush", "reply", "over"}]
  /\ tool \in [Dump -> {"none", "runs", "zero", "nonzero", "killed"}]
  /\ stored \in [Dump -> {"none", "part", "short", "mixed", "whole", "damaged"}]
  /\ sum \in [Dump -> {"none", "short", "mixed", "whole"}]
  /\ reply \in [Dump -> {"none", "ok", "error", "lost"}]
  /\ faults \in 0..MaxFaults /\ crashes \in 0..MaxCrashes

(* The checksum of a successful reply is that of the archive: a plain archive nobody has
   touched since passes the check of its own restore. *)
ReportedIsStored ==
  \A d \in Dump : reply[d] = "ok" /\ stored[d] # "damaged" => sum[d] = stored[d]
=============================================================================
