---------------------- MODULE PointInTimeRecoveryProofs ----------------------
(***************************************************************************)
(* The archive of the write-ahead log loses no segment but by a copy in    *)
(* place that is cut short, and the log behind a base backup has no hole:  *)
(* for any number of segments, base backups and locations, failing calls,  *)
(* crashes and changes of the default location.                            *)
(***************************************************************************)
EXTENDS PointInTimeRecovery, TLAPS

-----------------------------------------------------------------------------
(***************************************************************************)
(* Types, one part of the state after the other.                           *)
(***************************************************************************)

ServerTypes ==
  /\ wal \in 0..MaxWal /\ mode \in {"off", "pending", "on"}
  /\ segment \in [Segment -> {"none", "skipped", "ready", "done"}]

ArchiverTypes ==
  /\ archiver \in [pc : {"idle", "upload", "copy", "exit"}, seg : 0..MaxWal, at : Store]
  /\ archiver.pc # "idle" => archiver.seg \in Segment

ObjectTypes ==
  /\ default \in Store
  /\ object \in [Store -> [Segment -> {"none", "partial", "cut", "whole"}]]

BaseTypes ==
  /\ pc \in [Base -> {"new", "copy", "upload", "record", "ended"}]
  /\ span \in [Base -> [start : 0..MaxWal, end : 0..MaxWal]]
  /\ kept \in [Base -> Store] /\ rows \subseteq Base /\ begun \in Seq(Base)

RecoveryTypes ==
  /\ recovery \in [pc : {"idle", "extract", "poll", "success"}, target : 0..MaxWal,
                   base : Base \cup {None}, server : {"none", "recovering", "promoted", "dead"},
                   at : 0..MaxWal]
  /\ recovery.pc # "idle" => recovery.base \in Base

BudgetTypes ==
  budget \in [faults : 0..MaxFaults, crashes : 0..MaxCrashes, changes : 0..MaxChanges]

\* The parts make up the type invariant.
LEMMA TypeParts ==
  TypeOK <=> /\ ServerTypes /\ ArchiverTypes /\ ObjectTypes
             /\ BaseTypes /\ RecoveryTypes /\ BudgetTypes
BY DEF TypeOK, ServerTypes, ArchiverTypes, ObjectTypes, BaseTypes, RecoveryTypes, BudgetTypes

LEMMA TypesInit == Init => TypeOK
BY PointInTimeAssumption DEF Init, TypeOK, Idle, Resting, Segment

\* What the server knows of its log.
LEMMA ServerTyped == TypeOK /\ [Next]_vars => ServerTypes'
<1> SUFFICES ASSUME ServerTypes, ArchiverTypes, [Next]_vars PROVE ServerTypes'
  BY TypeParts
<1> USE PointInTimeAssumption
<1>1. CASE CompleteSegment
  BY <1>1 DEF ServerTypes, Segment, CompleteSegment
<1>2. CASE SetupPitr \/ RestartServer
  BY <1>2 DEF ServerTypes, SetupPitr, RestartServer
<1>3. CASE CheckArchive
  BY <1>3 DEF ServerTypes, CheckArchive, Ready
<1>4. CASE ExitArchive
  BY <1>4 DEF ServerTypes, ExitArchive
<1>5. CASE UNCHANGED server
  BY <1>5 DEF ServerTypes, server
<1>6. QED
  <2>1. ASSUME NEW b \in Base, BaseNext(b) PROVE UNCHANGED server
    BY <2>1 DEF BaseNext, BeginBase, CopyEnds, UploadBase, RecordBase, BaseFails
  <2>2. ASSUME RecoveryNext PROVE UNCHANGED server
    BY <2>2 DEF RecoveryNext, BeginRecovery, StartCluster, Replay, Promote, GiveUpRecovery,
                ReportSuccess, RecoveryFails
  <2>3. ASSUME BeginUpload \/ EndUpload \/ UploadFails \/ ArchiveDies PROVE UNCHANGED server
    BY <2>3 DEF BeginUpload, EndUpload, UploadFails, ArchiveDies
  <2>4. ASSUME NEW s \in Store, ChangeDefault(s) PROVE UNCHANGED server
    BY <2>4 DEF ChangeDefault
  <2>5. QED
    BY <1>1, <1>2, <1>3, <1>4, <1>5, <2>1, <2>2, <2>3, <2>4 DEF Next, ArchiveNext, vars

\* The archive command.
LEMMA ArchiverTyped == TypeOK /\ [Next]_vars => ArchiverTypes'
<1> SUFFICES ASSUME ServerTypes, ArchiverTypes, ObjectTypes, [Next]_vars PROVE ArchiverTypes'
  BY TypeParts
<1> USE PointInTimeAssumption
<1>1. CASE CheckArchive
  <2>1. \/ UNCHANGED archiver
        \/ \E k \in Segment : archiver' = [pc |-> "upload", seg |-> k, at |-> default]
    BY <1>1 DEF CheckArchive, Ready
  <2>2. QED
    BY <2>1 DEF ArchiverTypes, ObjectTypes, Segment
<1>2. CASE BeginUpload \/ EndUpload
  BY <1>2 DEF ArchiverTypes, BeginUpload, EndUpload
<1>3. CASE UploadFails \/ ExitArchive \/ ArchiveDies
  BY <1>3 DEF ArchiverTypes, ObjectTypes, UploadFails, ExitArchive, ArchiveDies, Idle
<1>4. CASE UNCHANGED archiver
  BY <1>4 DEF ArchiverTypes
<1>5. QED
  <2>1. ASSUME NEW b \in Base, BaseNext(b) PROVE UNCHANGED archiver
    BY <2>1 DEF BaseNext, BeginBase, CopyEnds, UploadBase, RecordBase, BaseFails, archive
  <2>2. ASSUME RecoveryNext PROVE UNCHANGED archiver
    BY <2>2 DEF RecoveryNext, BeginRecovery, StartCluster, Replay, Promote, GiveUpRecovery,
                ReportSuccess, RecoveryFails, archive
  <2>3. ASSUME CompleteSegment \/ SetupPitr \/ RestartServer PROVE UNCHANGED archiver
    BY <2>3 DEF CompleteSegment, SetupPitr, RestartServer, archive
  <2>4. ASSUME NEW s \in Store, ChangeDefault(s) PROVE UNCHANGED archiver
    BY <2>4 DEF ChangeDefault
  <2>5. QED
    BY <1>1, <1>2, <1>3, <1>4, <2>1, <2>2, <2>3, <2>4 DEF Next, ArchiveNext, vars, archive

\* The storage locations.
LEMMA ObjectsTyped == TypeOK /\ [Next]_vars => ObjectTypes'
<1> SUFFICES ASSUME ArchiverTypes, ObjectTypes, [Next]_vars PROVE ObjectTypes'
  BY TypeParts
<1>1. CASE BeginUpload \/ EndUpload \/ UploadFails \/ ArchiveDies
  BY <1>1 DEF ArchiverTypes, ObjectTypes, BeginUpload, EndUpload, UploadFails, ArchiveDies,
              CutShort
<1>2. ASSUME NEW s \in Store, ChangeDefault(s) PROVE ObjectTypes'
  BY <1>2 DEF ObjectTypes, ChangeDefault
<1>3. CASE UNCHANGED <<default, object>>
  BY <1>3 DEF ObjectTypes
<1>4. QED
  <2>1. ASSUME NEW b \in Base, BaseNext(b) PROVE UNCHANGED <<default, object>>
    BY <2>1 DEF BaseNext, BeginBase, CopyEnds, UploadBase, RecordBase, BaseFails, archive
  <2>2. ASSUME RecoveryNext PROVE UNCHANGED <<default, object>>
    BY <2>2 DEF RecoveryNext, BeginRecovery, StartCluster, Replay, Promote, GiveUpRecovery,
                ReportSuccess, RecoveryFails, archive
  <2>3. ASSUME CompleteSegment \/ SetupPitr \/ RestartServer PROVE UNCHANGED <<default, object>>
    BY <2>3 DEF CompleteSegment, SetupPitr, RestartServer, archive
  <2>4. ASSUME CheckArchive \/ ExitArchive PROVE UNCHANGED <<default, object>>
    BY <2>4 DEF CheckArchive, ExitArchive
  <2>5. QED
    BY <1>1, <1>2, <1>3, <2>1, <2>2, <2>3, <2>4 DEF Next, ArchiveNext, vars, archive

\* The base backups.
LEMMA BasesTyped == TypeOK /\ [Next]_vars => BaseTypes'
<1> SUFFICES ASSUME ServerTypes, ObjectTypes, BaseTypes, [Next]_vars PROVE BaseTypes'
  BY TypeParts
<1>1. ASSUME NEW b \in Base, BaseNext(b) PROVE BaseTypes'
  <2>1. CASE BeginBase(b)
    <3>1. begun' \in Seq(Base)
      BY <2>1 DEF BaseTypes, BeginBase
    <3>2. QED
      BY <2>1, <3>1 DEF BaseTypes, ServerTypes, BeginBase
  <2>2. CASE CopyEnds(b)
    BY <2>2 DEF BaseTypes, ServerTypes, CopyEnds
  <2>3. CASE UploadBase(b)
    BY <2>3 DEF BaseTypes, ObjectTypes, UploadBase
  <2>4. CASE RecordBase(b) \/ BaseFails(b)
    BY <2>4 DEF BaseTypes, RecordBase, BaseFails
  <2>5. QED
    BY <1>1, <2>1, <2>2, <2>3, <2>4 DEF BaseNext
<1>2. CASE UNCHANGED bases
  BY <1>2 DEF BaseTypes, bases
<1>3. QED
  <2>1. ASSUME RecoveryNext PROVE UNCHANGED bases
    BY <2>1 DEF RecoveryNext, BeginRecovery, StartCluster, Replay, Promote, GiveUpRecovery,
                ReportSuccess, RecoveryFails
  <2>2. ASSUME CompleteSegment \/ SetupPitr \/ RestartServer PROVE UNCHANGED bases
    BY <2>2 DEF CompleteSegment, SetupPitr, RestartServer
  <2>3. ASSUME ArchiveNext \/ ArchiveDies PROVE UNCHANGED bases
    BY <2>3 DEF ArchiveNext, CheckArchive, BeginUpload, EndUpload, UploadFails, ExitArchive,
                ArchiveDies
  <2>4. ASSUME NEW s \in Store, ChangeDefault(s) PROVE UNCHANGED bases
    BY <2>4 DEF ChangeDefault
  <2>5. QED
    BY <1>1, <1>2, <2>1, <2>2, <2>3, <2>4 DEF Next, vars

\* The recovery.
LEMMA RecoveryTyped == TypeOK /\ [Next]_vars => RecoveryTypes'
<1> SUFFICES ASSUME ServerTypes, BaseTypes, RecoveryTypes, [Next]_vars PROVE RecoveryTypes'
  BY TypeParts
<1> USE PointInTimeAssumption
<1>1. ASSUME NEW t \in 0..wal, BeginRecovery(t) PROVE RecoveryTypes'
  <2>1. t \in 0..MaxWal
    BY DEF ServerTypes
  <2>2. PICK b \in Base :
          recovery' = [recovery EXCEPT !.pc = "extract", !.target = t, !.base = b]
    BY <1>1 DEF BeginRecovery, BaseFor, Eligible, BaseTypes
  <2>3. QED
    BY <2>1, <2>2 DEF RecoveryTypes
<1>2. CASE StartCluster
  BY <1>2 DEF RecoveryTypes, BaseTypes, StartCluster
<1>3. CASE Replay
  BY <1>3 DEF RecoveryTypes, Replay
<1>4. CASE Promote \/ GiveUpRecovery \/ ReportSuccess
  BY <1>4 DEF RecoveryTypes, Promote, GiveUpRecovery, ReportSuccess
<1>5. CASE RecoveryFails
  BY <1>5 DEF RecoveryTypes, RecoveryFails, Resting
<1>6. CASE UNCHANGED recovery
  BY <1>6 DEF RecoveryTypes
<1>7. QED
  <2>1. ASSUME NEW b \in Base, BaseNext(b) PROVE UNCHANGED recovery
    BY <2>1 DEF BaseNext, BeginBase, CopyEnds, UploadBase, RecordBase, BaseFails
  <2>2. ASSUME CompleteSegment \/ SetupPitr \/ RestartServer PROVE UNCHANGED recovery
    BY <2>2 DEF CompleteSegment, SetupPitr, RestartServer
  <2>3. ASSUME ArchiveNext \/ ArchiveDies PROVE UNCHANGED recovery
    BY <2>3 DEF ArchiveNext, CheckArchive, BeginUpload, EndUpload, UploadFails, ExitArchive,
                ArchiveDies
  <2>4. ASSUME NEW s \in Store, ChangeDefault(s) PROVE UNCHANGED recovery
    BY <2>4 DEF ChangeDefault
  <2>5. QED
    BY <1>1, <1>2, <1>3, <1>4, <1>5, <1>6, <2>1, <2>2, <2>3, <2>4
       DEF Next, RecoveryNext, vars

\* What has been used of the bounds.
LEMMA BudgetTyped == TypeOK /\ [Next]_vars => BudgetTypes'
<1> SUFFICES ASSUME BudgetTypes, [Next]_vars PROVE BudgetTypes'
  BY TypeParts
<1> DEFINE Used ==
      \/ UNCHANGED budget
      \/ Fault /\ Spend
      \/ /\ budget.crashes < MaxCrashes
         /\ budget' = [budget EXCEPT !.crashes = @ + 1]
      \/ /\ budget.changes < MaxChanges
         /\ budget' = [budget EXCEPT !.changes = @ + 1]
<1>1. Used
  <2>1. ASSUME NEW b \in Base, BaseNext(b) PROVE Used
    BY <2>1 DEF BaseNext, BeginBase, CopyEnds, UploadBase, RecordBase, BaseFails
  <2>2. ASSUME RecoveryNext PROVE Used
    BY <2>2 DEF RecoveryNext, BeginRecovery, StartCluster, Replay, Promote, GiveUpRecovery,
                ReportSuccess, RecoveryFails
  <2>3. ASSUME CompleteSegment \/ SetupPitr \/ RestartServer PROVE Used
    BY <2>3 DEF CompleteSegment, SetupPitr, RestartServer
  <2>4. ASSUME ArchiveNext \/ ArchiveDies PROVE Used
    BY <2>4 DEF ArchiveNext, CheckArchive, BeginUpload, EndUpload, UploadFails, ExitArchive,
                ArchiveDies
  <2>5. ASSUME NEW s \in Store, ChangeDefault(s) PROVE Used
    BY <2>5 DEF ChangeDefault
  <2>6. QED
    BY <2>1, <2>2, <2>3, <2>4, <2>5 DEF Next, vars
<1>2. QED
  BY <1>1, PointInTimeAssumption DEF BudgetTypes, Fault, Spend

LEMMA TypesKept == TypeOK /\ [Next]_vars => TypeOK'
<1> SUFFICES ASSUME TypeOK, [Next]_vars PROVE TypeOK'
  OBVIOUS
<1>1. /\ ServerTypes' /\ ArchiverTypes' /\ ObjectTypes'
      /\ BaseTypes' /\ RecoveryTypes' /\ BudgetTypes'
  BY ServerTyped, ArchiverTyped, ObjectsTyped, BasesTyped, RecoveryTyped, BudgetTyped
<1>2. QED
  BY <1>1 DEF TypeOK, ServerTypes, ArchiverTypes, ObjectTypes, BaseTypes, RecoveryTypes,
              BudgetTypes

(***************************************************************************)
(* Every variable keeps its type, and a recovery that has begun has a base *)
(* backup to begin from.                                                   *)
(***************************************************************************)
THEOREM PitrTypeCorrect == Spec => []TypeOK
BY TypesInit, TypesKept, PTL DEF Spec

-----------------------------------------------------------------------------
(***************************************************************************)
(* The archive.  An upload that ended well has left a whole segment where  *)
(* it was meant to go.  A partial file belongs to the copy that writes it, *)
(* until that is cut short; and what the archive command writes is never a *)
(* segment that was reported as archived before.                           *)
(***************************************************************************)

Archived(k) ==
  \/ \E s \in Store : object[s][k] = "whole"
  \/ \E s \in Store \ Atomic : object[s][k] = "cut"

Writing(s, k) == archiver.pc = "copy" /\ archiver.at = s /\ archiver.seg = k

Stored ==
  /\ \A k \in Segment : segment[k] = "done" => Archived(k)
  /\ archiver.pc = "exit" => object[archiver.at][archiver.seg] = "whole"
  /\ archiver.pc # "idle" => segment[archiver.seg] # "done"
  /\ \A s \in Store, k \in Segment : object[s][k] = "partial" => Writing(s, k) /\ s \notin Atomic
  /\ \A s \in Store, k \in Segment : object[s][k] = "cut" => s \notin Atomic

\* A step of the upload writes one file, that of a segment that is not yet archived.
LEMMA UploadKeepsStored ==
  ASSUME TypeOK, Stored, BeginUpload \/ EndUpload \/ UploadFails \/ ArchiveDies
  PROVE  Stored'
<1> ServerTypes /\ ArchiverTypes /\ ObjectTypes
  BY TypeParts
<1> DEFINE s == archiver.at
           k == archiver.seg
<1>1. archiver.pc # "idle" /\ s \in Store /\ k \in Segment /\ segment[k] # "done"
  BY DEF BeginUpload, EndUpload, UploadFails, ArchiveDies, ArchiverTypes, Stored
<1>2. UNCHANGED segment
  BY DEF BeginUpload, EndUpload, UploadFails, ArchiveDies, server
<1>3. ASSUME NEW t \in Store, NEW l \in Segment, t # s \/ l # k
      PROVE  object'[t][l] = object[t][l]
  BY <1>1, <1>3 DEF BeginUpload, EndUpload, UploadFails, ArchiveDies, CutShort, ObjectTypes
<1>4. \A l \in Segment : segment'[l] = "done" => Archived(l)'
  BY <1>1, <1>2, <1>3 DEF Stored, Archived
<1>5. CASE BeginUpload
  <2>1. /\ archiver' = [archiver EXCEPT !.pc = "copy"]
        /\ object'[s][k] = IF s \in Atomic THEN object[s][k] ELSE "partial"
    BY <1>1, <1>5 DEF BeginUpload, ObjectTypes
  <2>2. archiver.pc = "upload"
    BY <1>5 DEF BeginUpload
  <2>3. archiver'.pc = "copy" /\ archiver'.at = s /\ archiver'.seg = k
    BY <2>1 DEF ArchiverTypes
  <2>4. ASSUME NEW t \in Store, NEW l \in Segment PROVE
          /\ object'[t][l] = "partial" => Writing(t, l)' /\ t \notin Atomic
          /\ object'[t][l] = "cut" => t \notin Atomic
    <3>1. /\ object[t][l] = "partial" => Writing(t, l) /\ t \notin Atomic
          /\ object[t][l] = "cut" => t \notin Atomic
      BY DEF Stored
    <3>2. CASE t = s /\ l = k
      BY <2>1, <2>3, <3>1, <3>2 DEF Writing
    <3>3. CASE t # s \/ l # k
      BY <1>3, <2>2, <3>1, <3>3 DEF Writing
    <3>4. QED
      BY <3>2, <3>3
  <2>5. QED
    BY <1>1, <1>2, <1>4, <2>3, <2>4 DEF Stored
<1>6. CASE EndUpload
  <2>1. archiver'.pc = "exit" /\ archiver'.at = s /\ archiver'.seg = k
    BY <1>6 DEF EndUpload, ArchiverTypes
  <2>2. object'[s][k] = "whole"
    BY <1>1, <1>6 DEF EndUpload, ObjectTypes
  <2>3. ASSUME NEW t \in Store, NEW l \in Segment PROVE
          object'[t][l] # "partial" /\ (object'[t][l] = "cut" => t \notin Atomic)
    <3>1. /\ object[t][l] = "partial" => t = s /\ l = k
          /\ object[t][l] = "cut" => t \notin Atomic
      BY DEF Stored, Writing
    <3>2. QED
      BY <1>3, <2>2, <3>1
  <2>4. QED
    BY <1>1, <1>2, <1>4, <2>1, <2>2, <2>3 DEF Stored
<1>7. CASE UploadFails \/ ArchiveDies
  <2>1. archiver'.pc = "idle" /\ CutShort
    BY <1>7 DEF UploadFails, ArchiveDies, Idle
  <2>2. object'[s][k] = IF archiver.pc = "copy" /\ s \notin Atomic THEN "cut" ELSE object[s][k]
    BY <1>1, <2>1 DEF CutShort, ObjectTypes
  <2>3. ASSUME NEW t \in Store, NEW l \in Segment PROVE
          object'[t][l] # "partial" /\ (object'[t][l] = "cut" => t \notin Atomic)
    <3>1. /\ object[t][l] = "partial" => archiver.pc = "copy" /\ t = s /\ l = k /\ t \notin Atomic
          /\ object[t][l] = "cut" => t \notin Atomic
      BY DEF Stored, Writing
    <3>2. QED
      BY <1>3, <2>2, <3>1
  <2>4. QED
    BY <1>4, <2>1, <2>3 DEF Stored
<1>8. QED
  BY <1>5, <1>6, <1>7

\* Every step keeps the archive sound.
LEMMA StoredKept == TypeOK /\ Stored /\ [Next]_vars => Stored'
<1> SUFFICES ASSUME TypeOK, Stored, [Next]_vars PROVE Stored'
  OBVIOUS
<1> ServerTypes /\ ArchiverTypes /\ ObjectTypes
  BY TypeParts
<1>1. CASE BeginUpload \/ EndUpload \/ UploadFails \/ ArchiveDies
  BY <1>1, UploadKeepsStored
<1>2. CASE CheckArchive
  <2>1. UNCHANGED object /\ archiver.pc = "idle" /\ default \in Store
    BY <1>2 DEF CheckArchive, ObjectTypes
  <2>2. PICK k \in Segment :
          /\ segment[k] = "ready"
          /\ \/ /\ object[default][k] # "none" /\ UNCHANGED archiver
                /\ segment' = [segment EXCEPT ![k] = "done"]
             \/ UNCHANGED segment /\ archiver' = [pc |-> "upload", seg |-> k, at |-> default]
    BY <1>2 DEF CheckArchive, Ready
  <2>3. ASSUME object[default][k] # "none" PROVE Archived(k)
    <3>1. object[default][k] \in {"whole", "cut"}
      BY <2>1, <2>3 DEF ObjectTypes, Stored, Writing
    <3>2. QED
      BY <2>1, <3>1 DEF Stored, Archived
  <2>4. CASE object[default][k] # "none" /\ UNCHANGED archiver
               /\ segment' = [segment EXCEPT ![k] = "done"]
    BY <2>1, <2>3, <2>4 DEF Stored, Archived, Writing, ServerTypes
  <2>5. CASE UNCHANGED segment /\ archiver' = [pc |-> "upload", seg |-> k, at |-> default]
    BY <2>1, <2>2, <2>5 DEF Stored, Archived, Writing
  <2>6. QED
    BY <2>2, <2>4, <2>5
<1>3. CASE ExitArchive
  <2>1. /\ UNCHANGED object /\ archiver.pc = "exit" /\ archiver'.pc = "idle"
        /\ segment' = [segment EXCEPT ![archiver.seg] = "done"]
    BY <1>3 DEF ExitArchive, Idle
  <2>2. archiver.seg \in Segment /\ archiver.at \in Store /\ Archived(archiver.seg)
    BY <2>1 DEF ArchiverTypes, Stored, Archived
  <2>3. QED
    BY <2>1, <2>2 DEF Stored, Archived, Writing, ServerTypes
<1>4. CASE CompleteSegment
  <2>1. UNCHANGED <<object, archiver>>
    BY <1>4 DEF CompleteSegment, archive
  <2>2. \A k \in Segment : segment'[k] = segment[k] \/ segment'[k] # "done"
    BY <1>4 DEF CompleteSegment, ServerTypes
  <2>3. archiver.pc # "idle" => archiver.seg \in Segment
    BY DEF ArchiverTypes
  <2>4. QED
    BY <2>1, <2>2, <2>3 DEF Stored, Archived, Writing
<1>5. CASE UNCHANGED <<segment, object, archiver>>
  BY <1>5 DEF Stored, Archived, Writing
<1>6. QED
  <2>1. ASSUME NEW b \in Base, BaseNext(b) PROVE UNCHANGED <<segment, object, archiver>>
    BY <2>1 DEF BaseNext, BeginBase, CopyEnds, UploadBase, RecordBase, BaseFails, archive, server
  <2>2. ASSUME RecoveryNext PROVE UNCHANGED <<segment, object, archiver>>
    BY <2>2 DEF RecoveryNext, BeginRecovery, StartCluster, Replay, Promote, GiveUpRecovery,
                ReportSuccess, RecoveryFails, archive, server
  <2>3. ASSUME SetupPitr \/ RestartServer PROVE UNCHANGED <<segment, object, archiver>>
    BY <2>3 DEF SetupPitr, RestartServer, archive
  <2>4. ASSUME NEW l \in Store, ChangeDefault(l) PROVE UNCHANGED <<segment, object, archiver>>
    BY <2>4 DEF ChangeDefault, server
  <2>5. QED
    BY <1>1, <1>2, <1>3, <1>4, <1>5, <2>1, <2>2, <2>3, <2>4
       DEF Next, ArchiveNext, vars, archive, server

(***************************************************************************)
(* A segment that was reported as archived is whole in some location, or   *)
(* lies where a copy in place was cut short: no listing that fails, upload *)
(* that is repeated, death of the command or change of the location loses  *)
(* it in any other way, whichever locations write in place.                *)
(***************************************************************************)
THEOREM NoSegmentLost == Spec => []ArchivedIsWhole
<1>1. Init => Stored
  BY DEF Init, Stored, Idle
<1>2. TypeOK /\ Stored => ArchivedIsWhole
  BY DEF Stored, Archived, ArchivedIsWhole
<1>3. QED
  BY <1>1, <1>2, StoredKept, TypesInit, TypesKept, PTL DEF Spec

-----------------------------------------------------------------------------
(***************************************************************************)
(* The log behind a base backup.  A base backup begins when archiving is   *)
(* on, and nothing turns it off again.                                     *)
(***************************************************************************)

Covered ==
  /\ rows \subseteq {b \in Base : pc[b] = "ended"}
  /\ \A b \in Base :
       pc[b] # "new" =>
         /\ mode = "on" /\ span[b].start <= wal
         /\ \A k \in (span[b].start + 1)..wal : segment[k] \in {"ready", "done"}

LEMMA CoveredKept == TypeOK /\ Covered /\ [Next]_vars => Covered'
<1> SUFFICES ASSUME TypeOK, Covered, [Next]_vars PROVE Covered'
  OBVIOUS
<1> ServerTypes /\ ArchiverTypes /\ BaseTypes
  BY TypeParts
<1> USE PointInTimeAssumption
<1>1. ASSUME NEW b \in Base, BaseNext(b) PROVE Covered'
  <2>1. UNCHANGED server
    BY <1>1 DEF BaseNext, BeginBase, CopyEnds, UploadBase, RecordBase, BaseFails
  <2>2. CASE BeginBase(b)
    BY <2>1, <2>2 DEF BeginBase, Covered, BaseTypes, ServerTypes, server
  <2>3. CASE CopyEnds(b)
    BY <2>1, <2>3 DEF CopyEnds, Covered, BaseTypes, server
  <2>4. CASE UploadBase(b)
    BY <2>1, <2>4 DEF UploadBase, Covered, BaseTypes, server
  <2>5. CASE RecordBase(b)
    BY <2>1, <2>5 DEF RecordBase, Covered, BaseTypes, server
  <2>6. CASE BaseFails(b)
    BY <2>1, <2>6 DEF BaseFails, Covered, BaseTypes, server
  <2>7. QED
    BY <1>1, <2>2, <2>3, <2>4, <2>5, <2>6 DEF BaseNext
<1>2. CASE CompleteSegment
  BY <1>2 DEF CompleteSegment, Covered, BaseTypes, ServerTypes, Segment, bases
<1>3. CASE SetupPitr \/ RestartServer
  BY <1>3 DEF SetupPitr, RestartServer, Covered, BaseTypes, bases
<1>0. ASSUME UNCHANGED <<wal, mode, bases>>,
             \A k \in Segment : segment'[k] = segment[k] \/ segment'[k] = "done"
      PROVE  Covered'
  <2>1. UNCHANGED <<pc, span, rows>>
    BY <1>0 DEF bases
  <2>2. ASSUME NEW b \in Base, pc[b] # "new", NEW k \in (span[b].start + 1)..wal
        PROVE  segment'[k] \in {"ready", "done"}
    <3>1. span[b].start \in Nat /\ wal \in 0..MaxWal
      BY DEF BaseTypes, ServerTypes
    <3>2. k \in Segment
      BY <3>1 DEF Segment
    <3>3. QED
      BY <1>0, <2>2, <3>2 DEF Covered
  <2>3. QED
    BY <1>0, <2>1, <2>2 DEF Covered
<1>4. CASE CheckArchive
  <2>1. \A k \in Segment : segment'[k] = segment[k] \/ segment'[k] = "done"
    BY <1>4 DEF CheckArchive, Ready, ServerTypes
  <2>2. UNCHANGED <<wal, mode, bases>>
    BY <1>4 DEF CheckArchive
  <2>3. QED
    BY <1>0, <2>1, <2>2
<1>5. CASE ExitArchive
  <2>1. \A k \in Segment : segment'[k] = segment[k] \/ segment'[k] = "done"
    BY <1>5 DEF ExitArchive, ServerTypes
  <2>2. UNCHANGED <<wal, mode, bases>>
    BY <1>5 DEF ExitArchive
  <2>3. QED
    BY <1>0, <2>1, <2>2
<1>6. CASE UNCHANGED <<server, bases>>
  BY <1>6 DEF Covered, server, bases
<1>7. QED
  <2>1. ASSUME RecoveryNext PROVE UNCHANGED <<server, bases>>
    BY <2>1 DEF RecoveryNext, BeginRecovery, StartCluster, Replay, Promote, GiveUpRecovery,
                ReportSuccess, RecoveryFails
  <2>2. ASSUME BeginUpload \/ EndUpload \/ UploadFails \/ ArchiveDies
        PROVE  UNCHANGED <<server, bases>>
    BY <2>2 DEF BeginUpload, EndUpload, UploadFails, ArchiveDies
  <2>3. ASSUME NEW l \in Store, ChangeDefault(l) PROVE UNCHANGED <<server, bases>>
    BY <2>3 DEF ChangeDefault
  <2>4. QED
    BY <1>1, <1>2, <1>3, <1>4, <1>5, <1>6, <2>1, <2>2, <2>3 DEF Next, ArchiveNext, vars

(***************************************************************************)
(* Every segment completed since a recorded base backup began is archived, *)
(* or waits for the archiver.                                              *)
(***************************************************************************)
THEOREM LogBehindBase == Spec => []NoGapBehindBase
<1>1. Init => Covered
  BY DEF Init, Covered
<1>2. TypeOK /\ Covered => NoGapBehindBase
  BY DEF TypeOK, Covered, NoGapBehindBase
<1>3. QED
  BY <1>1, <1>2, CoveredKept, TypesInit, TypesKept, PTL DEF Spec
=============================================================================
