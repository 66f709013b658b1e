-------------------------- MODULE IncrementalChain --------------------------
(***************************************************************************)
(* Physical full backups of a PostgreSQL server and incremental backups on *)
(* top of them (services/postgres-incremental.service.ts), run by the      *)
(* backup worker, and the restore of a chain.  A position in the server's  *)
(* log is a number.  BackupPipeline has the queue in full; here a job is   *)
(* taken, dies, fails or succeeds, and may come back.                      *)
(***************************************************************************)
EXTENDS Naturals, Sequences, FiniteSets

CONSTANTS
  Full,        \* ids of physical full backups
  Incr,        \* ids of incremental backups
  Asks,        \* parent that the request of an incremental backup names
  None,        \* no backup; the request names no parent
  MaxWal,      \* bound on the positions of the log
  MaxRuns,     \* attempts of a job
  MaxFaults    \* bound on failing calls and deaths of the worker

Jobs == Full \cup Incr
Dump == [of : Jobs \cup {None}, on : 0..MaxRuns, start : 0..MaxWal, kept : BOOLEAN]

ASSUME ChainAssumption ==
  /\ Full \cap Incr = {} /\ None \notin Jobs
  /\ Asks \in [Incr -> Jobs \cup {None}]
  /\ MaxWal \in Nat /\ MaxRuns \in Nat \ {0} /\ MaxFaults \in Nat

VARIABLES
  wal,       \* position of the server's log
  summaries, \* position from which the server summarizes its log
  pc,        \* next statement of each backup
  parent,    \* parent that a running incremental backup has chosen
  made,      \* what each run of a job dumped: its parent, the parent's run
             \* whose manifest it was taken against, where it starts, and
             \* whether its success was recorded
  scratch,   \* backups whose directory in /tmp has been left behind
  manifest,  \* manifestsDir: run whose manifest is cached for a backup
  row,       \* its BackupJob row: status, and the run whose archive it names
  order,     \* ids by the startedAt of their rows, oldest first
  walk,      \* restoreBackupChain: ids read so far, the target first, and the
             \* parent link of the row read last
  runs,      \* attempts of each job
  faults     \* failing calls and deaths so far

server == <<wal, summaries>>
vars == <<server, pc, parent, made, scratch, manifest, row, order, walk, runs, faults>>

Never  == MaxWal + 1              \* later than every position
NoWalk == [ids |-> <<>>, next |-> None]
NoRow  == [status |-> "none", run |-> 0]

Fault == faults < MaxFaults /\ faults' = faults + 1
Successes == {i \in Jobs : row[i].status = "success"}
Named(i) == made[i][row[i].run]           \* the archive that a job's row names
Place(i) == CHOOSE n \in 1..Len(order) : order[n] = i

Init ==
  /\ wal = 0 /\ summaries = Never
  /\ pc = [i \in Jobs |-> "new"]
  /\ parent = [i \in Incr |-> None]
  /\ made = [i \in Jobs |-> [k \in 1..MaxRuns |->
                [of |-> None, on |-> 0, start |-> 0, kept |-> FALSE]]]
  /\ scratch = {}
  /\ manifest = [i \in Jobs |-> 0]
  /\ row = [i \in Jobs |-> NoRow]
  /\ order = <<>>
  /\ walk = NoWalk
  /\ runs = [i \in Jobs |-> 0]
  /\ faults = 0

-----------------------------------------------------------------------------
(* The server writes its log *)
WriteLog ==
  /\ wal < MaxWal
  /\ wal' = wal + 1
  /\ UNCHANGED <<summaries, pc, parent, made, scratch, manifest, row, order, walk, runs, faults>>

(* POST /backup creates the row; its startedAt stays that of the request *)
Request(i) ==
  /\ pc[i] = "new"
  /\ pc' = [pc EXCEPT ![i] = "queued"]
  /\ row' = [row EXCEPT ![i].status = "running"]
  /\ order' = Append(order, i)
  /\ UNCHANGED <<server, parent, made, scratch, manifest, walk, runs, faults>>

(* The worker takes the job, for the first time or again: after a failure, a death, or a
   success whose recording was the last thing it did, or lost its reply *)
Take(i) ==
  /\ \/ pc[i] \in {"queued", "failed"} /\ UNCHANGED faults
     \/ pc[i] = "kept" /\ Fault
  /\ runs[i] < MaxRuns
  /\ runs' = [runs EXCEPT ![i] = @ + 1]
  /\ pc' = [pc EXCEPT ![i] = "verify"]
  /\ row' = [row EXCEPT ![i].status = "running"]
  /\ UNCHANGED <<server, parent, made, scratch, manifest, order, walk>>

-----------------------------------------------------------------------------
(* performIncrementalBackup                                                *)

(* verifyPostgresRequirements switches WAL summaries on when they are off *)
Verify(i) ==
  /\ pc[i] = "verify"
  /\ summaries' = IF summaries = Never THEN wal ELSE summaries
  /\ pc' = [pc EXCEPT ![i] = IF i \in Incr THEN "parent" ELSE "dump"]
  /\ UNCHANGED <<wal, parent, made, scratch, manifest, row, order, walk, runs, faults>>

(* The newest successful physical backup *)
NewestOf(S) == {p \in S : \A q \in S : Place(q) <= Place(p)}

(* Mutant of Candidates: a requested parent need not have succeeded. *)
CandidatesUnchecked(i) ==
  IF Asks[i] # None THEN {Asks[i]} ELSE NewestOf(Successes)

(* getParentBackup: the requested one when it succeeded, or the newest *)
Candidates(i) ==
  IF Asks[i] # None THEN {Asks[i]} \cap Successes ELSE NewestOf(Successes)

(* getParentManifestPath prefers the manifest cached for the parent's id *)
PickParent(i) ==
  /\ pc[i] = "parent"
  /\ \E p \in Candidates(i) :
       /\ manifest[p] # 0
       /\ parent' = [parent EXCEPT ![i] = p]
  /\ pc' = [pc EXCEPT ![i] = "dump"]
  /\ UNCHANGED <<server, made, scratch, manifest, row, order, walk, runs, faults>>

(* pg_basebackup reads the manifest that is cached for the parent by now.  The
   server refuses if its summaries do not reach back to the parent's start, the
   client if the directory is not empty. *)
Against(i) == IF i \in Incr THEN manifest[parent[i]] ELSE 0

Dumpable(i) ==
  /\ i \notin scratch
  /\ i \in Incr => summaries <= made[parent[i]][Against(i)].start

RunBaseBackup(i) ==
  /\ pc[i] = "dump" /\ Dumpable(i)
  /\ made' = [made EXCEPT ![i][runs[i]] =
                [of |-> IF i \in Incr THEN parent[i] ELSE None, on |-> Against(i), start |-> wal,
                 kept |-> FALSE]]
  /\ scratch' = scratch \cup {i}
  /\ pc' = [pc EXCEPT ![i] = "cache"]
  /\ UNCHANGED <<server, parent, manifest, row, order, walk, runs, faults>>

(* Its own manifest is cached under the backup's id, before it is packed *)
CacheManifest(i) ==
  /\ pc[i] = "cache"
  /\ manifest' = [manifest EXCEPT ![i] = runs[i]]
  /\ pc' = [pc EXCEPT ![i] = "pack"]
  /\ UNCHANGED <<server, parent, made, scratch, row, order, walk, runs, faults>>

(* tar, checksum, removal of the directory: the service's reply *)
Pack(i) ==
  /\ pc[i] = "pack"
  /\ scratch' = scratch \ {i}
  /\ pc' = [pc EXCEPT ![i] = "record"]
  /\ UNCHANGED <<server, parent, made, manifest, row, order, walk, runs, faults>>

(* The worker's update of the row *)
RecordSuccess(i) ==
  /\ pc[i] = "record"
  /\ row' = [row EXCEPT ![i] = [status |-> "success", run |-> runs[i]]]
  /\ pc' = [pc EXCEPT ![i] = "kept"]
  /\ parent' = [j \in Incr |-> IF j = i THEN None ELSE parent[j]]
  /\ made' = [made EXCEPT ![i][runs[i]].kept = TRUE]
  /\ UNCHANGED <<server, scratch, manifest, order, walk, runs, faults>>

(* A call throws, there is no parent or no manifest, the server or the client
   refuses: the directory is removed once it is used, and the row marked *)
JobFails(i) ==
  /\ \/ /\ pc[i] \in {"verify", "parent", "dump", "cache", "pack", "record"}
        /\ Fault
     \/ /\ pc[i] = "parent" /\ \A p \in Candidates(i) : manifest[p] = 0
        /\ UNCHANGED faults
     \/ /\ pc[i] = "dump" /\ ~Dumpable(i)
        /\ UNCHANGED faults
  /\ pc' = [pc EXCEPT ![i] = "failed"]
  /\ row' = [row EXCEPT ![i].status = "failed"]
  /\ scratch' = IF pc[i] \in {"dump", "cache", "pack"} THEN scratch \ {i} ELSE scratch
  /\ parent' = [j \in Incr |-> IF j = i THEN None ELSE parent[j]]
  /\ UNCHANGED <<server, made, manifest, order, walk, runs>>

(* The service or the worker dies: the job is stalled and taken again, beside
   what the run left behind *)
JobDies(i) ==
  /\ pc[i] \in {"verify", "parent", "dump", "cache", "pack", "record"} /\ Fault
  /\ pc' = [pc EXCEPT ![i] = "queued"]
  /\ parent' = [j \in Incr |-> IF j = i THEN None ELSE parent[j]]
  /\ UNCHANGED <<server, made, scratch, manifest, row, order, walk, runs>>

-----------------------------------------------------------------------------
(* restoreBackupChain reads one row after the other                        *)

ReadTarget ==
  /\ walk = NoWalk
  /\ \E i \in Successes : walk' = [ids |-> <<i>>, next |-> Named(i).of]
  /\ UNCHANGED <<server, pc, parent, made, scratch, manifest, row, order, runs, faults>>

(* A parent that is not there or did not succeed ends the restore *)
ReadParent ==
  /\ walk.next # None
  /\ Len(walk.ids) <= Cardinality(Jobs)
  /\ walk' = IF walk.next \in Successes
             THEN [ids |-> Append(walk.ids, walk.next), next |-> Named(walk.next).of]
             ELSE NoWalk
  /\ UNCHANGED <<server, pc, parent, made, scratch, manifest, row, order, runs, faults>>

(* pg_combinebackup and the load into the target database *)
Combine ==
  /\ walk.ids # <<>> /\ walk.next = None
  /\ walk' = NoWalk
  /\ UNCHANGED <<server, pc, parent, made, scratch, manifest, row, order, runs, faults>>

-----------------------------------------------------------------------------
JobNext(i) ==
  \/ Request(i) \/ Take(i) \/ Verify(i) \/ RunBaseBackup(i)
  \/ CacheManifest(i) \/ Pack(i) \/ RecordSuccess(i) \/ JobFails(i) \/ JobDies(i)

Next ==
  \/ WriteLog
  \/ \E i \in Jobs : JobNext(i)
  \/ \E i \in Incr : PickParent(i)
  \/ ReadTarget \/ ReadParent \/ Combine

Spec == Init /\ [][Next]_vars

-----------------------------------------------------------------------------
Statements == {"verify", "parent", "dump", "cache", "pack", "record"}

(* Types of the variables; a row that reports success names an archive, and a
   backup about to be taken on a parent has one whose manifest is cached. *)
TypeOK ==
  /\ wal \in 0..MaxWal /\ summaries \in 0..Never
  /\ pc \in [Jobs -> Statements \cup {"new", "queued", "kept", "failed"}]
  /\ parent \in [Incr -> Jobs \cup {None}]
  /\ \A i \in Incr : pc[i] = "dump" => parent[i] # None /\ manifest[parent[i]] # 0
  /\ made \in [Jobs -> [1..MaxRuns -> Dump]]
  /\ scratch \subseteq Jobs
  /\ manifest \in [Jobs -> 0..MaxRuns]
  /\ row \in [Jobs -> [status : {"none", "running", "success", "failed"}, run : 0..MaxRuns]]
  /\ \A i \in Successes : row[i].run # 0
  /\ order \in Seq(Jobs)
  /\ walk \in [ids : Seq(Jobs), next : Jobs \cup {None}]
  /\ runs \in [Jobs -> 0..MaxRuns] /\ faults \in 0..MaxFaults

(* A chain can be combined: the parent of a recorded incremental backup succeeded, and
   its row names the archive whose manifest the backup was taken against, unless the
   parent's job came back after its success. *)
ChainFits(i) ==
  LET p == Named(i).of IN
  /\ p # None /\ \E k \in 1..MaxRuns : made[p][k].kept
  /\ (\A k \in 1..runs[p] : made[p][k].kept <=> k = runs[p])
       => p \in Successes /\ row[p].run = Named(i).on

ChainsFit == TypeOK /\ \A i \in Successes \cap Incr : ChainFits(i)
=============================================================================
