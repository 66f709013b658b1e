------------------------- MODULE PointInTimeRecovery -------------------------
(***************************************************************************)
(* Point-in-time recovery of a PostgreSQL server                           *)
(* (services/postgres-pitr.service.ts and the `pitr` commands): the        *)
(* archive of its write-ahead log, base backups, and a recovery.           *)
(*                                                                         *)
(* A position in the log is a number of completed segments, and stands for *)
(* time as well: the target of a recovery is a position.  A base backup is *)
(* consistent from the position at which its copy ended.                   *)
(***************************************************************************)
EXTENDS Naturals, Sequences, FiniteSets

CONSTANTS
  Base,        \* base backups
  Store,       \* storage locations
  None,        \* no base backup
  Atomic,      \* those where an upload appears when it is complete (S3); the others show
               \* the file while it is copied (local)
  MaxWal,      \* bound on the segments that the server completes
  MaxChanges,  \* bound on changes of the default storage location
  MaxFaults,   \* bound on failing calls
  MaxCrashes   \* bound on deaths of the archive command

ASSUME PointInTimeAssumption ==
  /\ Store # {} /\ None \notin Base /\ Atomic \subseteq Store
  /\ MaxWal \in Nat \ {0} /\ MaxChanges \in Nat
  /\ MaxFaults \in Nat /\ MaxCrashes \in Nat

VARIABLES
  wal,       \* segments that the server has completed
  mode,      \* archiving in the server: "off", "pending" its restart, or "on"
  segment,   \* what the server thinks of each segment
  default,   \* the default storage location
  object,    \* segments in each storage location
  archiver,  \* statement of the archive command, its segment and location
  pc,        \* statement of each `pitr backup`
  span,      \* of a base backup: positions of startedAt and of its end
  kept,      \* storage location that the row of a base backup names
  rows,      \* recorded base backups
  begun,     \* base backups by their startedAt
  recovery,  \* restorePitr: statement, target, base, and the recovering
             \* server: its state and the position it has replayed
  budget     \* faults, crashes and changes used

server  == <<wal, mode, segment>>
archive == <<default, object, archiver>>
bases   == <<pc, span, kept, rows, begun>>
vars    == <<server, archive, bases, recovery, budget>>

Segment == 1..MaxWal
Fault   == budget.faults < MaxFaults
Spend   == budget' = [budget EXCEPT !.faults = @ + 1]
Idle    == [pc |-> "idle", seg |-> 0, at |-> default]
Resting == [pc |-> "idle", target |-> 0, base |-> None, server |-> "none", at |-> 0]

Init ==
  /\ wal = 0 /\ mode = "off"
  /\ segment = [k \in Segment |-> "none"]
  /\ default \in Store
  /\ object = [s \in Store |-> [k \in Segment |-> "none"]]
  /\ archiver = Idle
  /\ pc = [b \in Base |-> "new"]
  /\ span = [b \in Base |-> [start |-> 0, end |-> 0]]
  /\ kept = [b \in Base |-> default]
  /\ rows = {} /\ begun = <<>>
  /\ recovery = Resting
  /\ budget = [faults |-> 0, crashes |-> 0, changes |-> 0]

-----------------------------------------------------------------------------
(* The server and its operator                                             *)

(* A segment is complete; the archiver will be given it if archiving is on *)
CompleteSegment ==
  /\ wal < MaxWal
  /\ wal' = wal + 1
  /\ segment' = [segment EXCEPT ![wal + 1] = IF mode = "on" THEN "ready" ELSE "skipped"]
  /\ UNCHANGED <<mode, archive, bases, recovery, budget>>

(* setupPitr with autoConfigure: ALTER SYSTEM, which waits for a restart *)
SetupPitr ==
  /\ mode = "off"
  /\ mode' = "pending"
  /\ UNCHANGED <<wal, segment, archive, bases, recovery, budget>>

RestartServer ==
  /\ mode = "pending"
  /\ mode' = "on"
  /\ UNCHANGED <<wal, segment, archive, bases, recovery, budget>>

(* `storage use`: resolveStorageProvider reads the default at every call *)
ChangeDefault(s) ==
  /\ s # default /\ budget.changes < MaxChanges
  /\ default' = s
  /\ budget' = [budget EXCEPT !.changes = @ + 1]
  /\ UNCHANGED <<server, object, archiver, bases, recovery>>

-----------------------------------------------------------------------------
(* archiveWal, run by the server for its oldest segment until it succeeds   *)

Ready == {k \in Segment : segment[k] = "ready"}

(* Mutant of CheckArchive: a segment that is listed makes the command fail. *)
CheckArchiveRefusing ==
  /\ archiver.pc = "idle"
  /\ \E k \in Ready :
       /\ \A l \in Ready : k <= l
       /\ object[default][k] = "none"
       /\ archiver' = [pc |-> "upload", seg |-> k, at |-> default]
  /\ UNCHANGED <<server, default, object, bases, recovery, budget>>

(* The location is listed: a segment that is there already is archived.  When
   the list cannot be read the segment is uploaded again. *)
CheckArchive ==
  /\ archiver.pc = "idle"
  /\ \E k \in Ready :
       /\ \A l \in Ready : k <= l
       /\ \/ /\ object[default][k] # "none"
             /\ segment' = [segment EXCEPT ![k] = "done"]
             /\ UNCHANGED <<archiver, budget>>
          \/ /\ object[default][k] = "none"
             /\ archiver' = [pc |-> "upload", seg |-> k, at |-> default]
             /\ UNCHANGED <<segment, budget>>
          \/ /\ Fault /\ Spend
             /\ archiver' = [pc |-> "upload", seg |-> k, at |-> default]
             /\ UNCHANGED segment
  /\ UNCHANGED <<wal, mode, default, object, bases, recovery>>

(* copyFileSync of the local provider shows the file before it is whole *)
BeginUpload ==
  /\ archiver.pc = "upload"
  /\ archiver' = [archiver EXCEPT !.pc = "copy"]
  /\ object' = IF archiver.at \in Atomic THEN object
                ELSE [object EXCEPT ![archiver.at][archiver.seg] = "partial"]
  /\ UNCHANGED <<server, default, bases, recovery, budget>>

(* Mutant of EndUpload: a failed upload does not set the exit code. *)
EndUploadAnyway ==
  /\ archiver.pc = "copy"
  /\ archiver' = [archiver EXCEPT !.pc = "exit"]
  /\ \/ /\ object' = [object EXCEPT ![archiver.at][archiver.seg] = "whole"]
        /\ UNCHANGED budget
     \/ /\ Fault /\ Spend
        /\ UNCHANGED object
  /\ UNCHANGED <<server, default, bases, recovery>>

EndUpload ==
  /\ archiver.pc = "copy"
  /\ archiver' = [archiver EXCEPT !.pc = "exit"]
  /\ object' = [object EXCEPT ![archiver.at][archiver.seg] = "whole"]
  /\ UNCHANGED <<server, default, bases, recovery, budget>>

(* What a copy that does not come to its end leaves where files are written in place *)
CutShort ==
  object' = IF archiver.pc = "copy" /\ archiver.at \notin Atomic
            THEN [object EXCEPT ![archiver.at][archiver.seg] = "cut"] ELSE object

(* A failed upload is exit code 1: the server will run the command again *)
UploadFails ==
  /\ archiver.pc \in {"upload", "copy"} /\ Fault /\ Spend
  /\ archiver' = Idle
  /\ CutShort
  /\ UNCHANGED <<server, default, bases, recovery>>

(* Exit code 0: the server may remove the segment *)
ExitArchive ==
  /\ archiver.pc = "exit"
  /\ segment' = [segment EXCEPT ![archiver.seg] = "done"]
  /\ archiver' = Idle
  /\ UNCHANGED <<wal, mode, default, object, bases, recovery, budget>>

(* The command, the server or the machine dies at any of these statements *)
ArchiveDies ==
  /\ archiver.pc # "idle" /\ budget.crashes < MaxCrashes
  /\ archiver' = Idle
  /\ budget' = [budget EXCEPT !.crashes = @ + 1]
  /\ CutShort
  /\ UNCHANGED <<server, default, bases, recovery>>

-----------------------------------------------------------------------------
(* createBaseBackup                                                        *)

(* Mutant of BeginBase: the settings of the configuration file are enough. *)
BeginBaseConfigured(b) ==
  /\ pc[b] = "new" /\ mode # "off"
  /\ pc' = [pc EXCEPT ![b] = "copy"]
  /\ span' = [span EXCEPT ![b].start = wal]
  /\ begun' = Append(begun, b)
  /\ UNCHANGED <<server, archive, kept, rows, recovery, budget>>

(* setupPitr reports the running settings: no base backup without them *)
BeginBase(b) ==
  /\ pc[b] = "new" /\ mode = "on"
  /\ pc' = [pc EXCEPT ![b] = "copy"]
  /\ span' = [span EXCEPT ![b].start = wal]
  /\ begun' = Append(begun, b)
  /\ UNCHANGED <<server, archive, kept, rows, recovery, budget>>

(* pg_basebackup ends; it has streamed the segments of its own duration *)
CopyEnds(b) ==
  /\ pc[b] = "copy"
  /\ pc' = [pc EXCEPT ![b] = "upload"]
  /\ span' = [span EXCEPT ![b].end = wal]
  /\ UNCHANGED <<server, archive, kept, rows, begun, recovery, budget>>

UploadBase(b) ==
  /\ pc[b] = "upload"
  /\ pc' = [pc EXCEPT ![b] = "record"]
  /\ kept' = [kept EXCEPT ![b] = default]
  /\ UNCHANGED <<server, archive, span, rows, begun, recovery, budget>>

(* createJob is refused when the duration is not a whole number of seconds, and
   its reply may be lost *)
RecordBase(b) ==
  /\ pc[b] = "record"
  /\ pc' = [pc EXCEPT ![b] = "ended"]
  /\ rows' \in {rows, rows \cup {b}}
  /\ UNCHANGED <<server, archive, span, kept, begun, recovery, budget>>

BaseFails(b) ==
  /\ pc[b] \in {"copy", "upload"} /\ Fault /\ Spend
  /\ pc' = [pc EXCEPT ![b] = "ended"]
  /\ UNCHANGED <<server, archive, span, kept, rows, begun, recovery>>

-----------------------------------------------------------------------------
(* restorePitr                                                             *)

Eligible(t) == {b \in rows : span[b].start <= t}
Place(b)    == CHOOSE n \in 1..Len(begun) : begun[n] = b

(* The newest base backup that was started before the target *)
BaseFor(t) == {b \in Eligible(t) : \A c \in Eligible(t) : Place(c) <= Place(b)}

BeginRecovery(t) ==
  /\ recovery.pc = "idle"
  /\ \E b \in BaseFor(t) :
       recovery' = [recovery EXCEPT !.pc = "extract", !.target = t, !.base = b]
  /\ UNCHANGED <<server, archive, bases, budget>>

(* The base is downloaded, extracted and configured; pg_ctl returns when the
   server has begun to recover, as it does not wait for connections *)
StartCluster ==
  /\ recovery.pc = "extract"
  /\ recovery' = [recovery EXCEPT !.pc = "poll", !.server = "recovering",
                                  !.at = span[recovery.base].end]
  /\ UNCHANGED <<server, archive, bases, budget>>

(* fetchWal, called by the recovering server, asks the location of the base *)
FetchWal(k) == object[kept[recovery.base]][k]

Replay ==
  /\ recovery.server = "recovering" /\ recovery.at < recovery.target
  /\ FetchWal(recovery.at + 1) = "whole"
  /\ recovery' = [recovery EXCEPT !.at = @ + 1]
  /\ UNCHANGED <<server, archive, bases, budget>>

Promote ==
  /\ recovery.server = "recovering" /\ recovery.at = recovery.target
  /\ recovery' = [recovery EXCEPT !.server = "promoted"]
  /\ UNCHANGED <<server, archive, bases, budget>>

(* The log ends, or is damaged, before the target; or the target is behind the
   end of the base *)
GiveUpRecovery ==
  /\ recovery.server = "recovering"
  /\ \/ recovery.target < recovery.at
     \/ /\ recovery.at < recovery.target
        /\ FetchWal(recovery.at + 1) # "whole"
  /\ recovery' = [recovery EXCEPT !.server = "dead"]
  /\ UNCHANGED <<server, archive, bases, budget>>

(* The poll ends when it sees the promoted server, or after thirty attempts:
   either way the command reports success *)
ReportSuccess ==
  /\ recovery.pc = "poll"
  /\ recovery' = [recovery EXCEPT !.pc = "success"]
  /\ UNCHANGED <<server, archive, bases, budget>>

RecoveryFails ==
  /\ recovery.pc = "extract" /\ Fault /\ Spend
  /\ recovery' = Resting
  /\ UNCHANGED <<server, archive, bases>>

-----------------------------------------------------------------------------
ArchiveNext ==
  CheckArchive \/ BeginUpload \/ EndUpload \/ UploadFails \/ ExitArchive

BaseNext(b) ==
  BeginBase(b) \/ CopyEnds(b) \/ UploadBase(b) \/ RecordBase(b) \/ BaseFails(b)

RecoveryNext ==
  \/ \E t \in 0..wal : BeginRecovery(t)
  \/ StartCluster \/ Replay \/ Promote \/ GiveUpRecovery
  \/ ReportSuccess \/ RecoveryFails

Next ==
  \/ CompleteSegment \/ SetupPitr \/ RestartServer
  \/ \E s \in Store : ChangeDefault(s)
  \/ ArchiveNext \/ ArchiveDies
  \/ \E b \in Base : BaseNext(b)
  \/ RecoveryNext

Spec == Init /\ [][Next]_vars

(* The server runs its archive command again until it succeeds *)
FairSpec == Spec /\ WF_vars(ArchiveNext)

-----------------------------------------------------------------------------
(* Types of the variables; a recovery that has begun has a base to begin from. *)
TypeOK ==
  /\ wal \in 0..MaxWal /\ mode \in {"off", "pending", "on"}
  /\ segment \in [Segment -> {"none", "skipped", "ready", "done"}]
  /\ default \in Store
  /\ object \in [Store -> [Segment -> {"none", "partial", "cut", "whole"}]]
  /\ archiver \in [pc : {"idle", "upload", "copy", "exit"}, seg : 0..MaxWal, at : Store]
  /\ archiver.pc # "idle" => archiver.seg \in Segment
  /\ pc \in [Base -> {"new", "copy", "upload", "record", "ended"}]
  /\ span \in [Base -> [start : 0..MaxWal, end : 0..MaxWal]]
  /\ kept \in [Base -> Store] /\ rows \subseteq Base /\ begun \in Seq(Base)
  /\ recovery \in [pc : {"idle", "extract", "poll", "success"}, target : 0..MaxWal,
                   base : Base \cup {None}, server : {"none", "recovering", "promoted", "dead"},
                   at : 0..MaxWal]
  /\ recovery.pc # "idle" => recovery.base \in Base
  /\ budget \in [faults : 0..MaxFaults, crashes : 0..MaxCrashes, changes : 0..MaxChanges]

(* A segment that the archive command reported as archived, and that the server may
   therefore remove, is whole in some location, or a copy of it to a location that writes
   files in place was cut short: its partial file is then listed, and taken for archived.
   No other failure, death, retry or change of the location loses a segment. *)
ArchivedIsWhole ==
  TypeOK /\ \A k \in Segment : segment[k] = "done" =>
    \/ \E s \in Store : object[s][k] = "whole"
    \/ \E s \in Store \ Atomic : object[s][k] = "cut"

(* The log behind a recorded base backup has no hole: every segment completed since the
   backup began is archived or waits for the archiver. *)
NoGapBehindBase ==
  \A b \in rows : \A k \in (span[b].start + 1)..wal : segment[k] \in {"ready", "done"}

(* Every segment that is completed while archiving is on is reported archived in the end. *)
WalIsArchived == []<>(Ready = {})
=============================================================================
