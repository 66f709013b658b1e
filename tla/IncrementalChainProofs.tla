------------------------ MODULE IncrementalChainProofs ------------------------
(***************************************************************************)
(* Chains of incremental backups can be combined, for any backups, any     *)
(* number of attempts, failures and deaths.                                *)
(***************************************************************************)
EXTENDS IncrementalChain, TLAPS

-----------------------------------------------------------------------------
(***************************************************************************)
(* Types.  A parent's manifest is cached for good, by a run that has a     *)
(* number, so that the types need the runs to be counted.                  *)
(***************************************************************************)

Under == Statements \cup {"kept"}       \* a run is under way, or was the last one

ServerTypes == wal \in 0..MaxWal /\ summaries \in 0..Never

JobTypes ==
  /\ pc \in [Jobs -> Under \cup {"new", "queued", "failed"}]
  /\ row \in [Jobs -> [status : {"none", "running", "success", "failed"}, run : 0..MaxRuns]]
  /\ runs \in [Jobs -> 0..MaxRuns]
  /\ manifest \in [Jobs -> 0..MaxRuns]
  /\ \A j \in Jobs : pc[j] \in Under => runs[j] # 0
  /\ \A j \in Successes : row[j].run # 0

ParentTypes ==
  /\ parent \in [Incr -> Jobs \cup {None}]
  /\ \A i \in Incr : pc[i] = "dump" => parent[i] # None /\ manifest[parent[i]] # 0

MadeTypes == made \in [Jobs -> [1..MaxRuns -> Dump]]

OtherTypes ==
  /\ scratch \subseteq Jobs
  /\ order \in Seq(Jobs)
  /\ walk \in [ids : Seq(Jobs), next : Jobs \cup {None}]
  /\ faults \in 0..MaxFaults

Typed == ServerTypes /\ JobTypes /\ ParentTypes /\ MadeTypes /\ OtherTypes

LEMMA TypedTypes == Typed => TypeOK
BY DEF Typed, TypeOK, ServerTypes, JobTypes, ParentTypes, MadeTypes, OtherTypes, Under

LEMMA TypedInit == Init => Typed
<1> SUFFICES ASSUME Init PROVE Typed
  OBVIOUS
<1> USE ChainAssumption
<1>1. ServerTypes
  BY DEF Init, ServerTypes, Never
<1>2. JobTypes
  BY DEF Init, JobTypes, NoRow, Successes, Under, Statements
<1>3. ParentTypes
  BY DEF Init, ParentTypes, Jobs
<1>4. MadeTypes
  <2>1. [of |-> None, on |-> 0, start |-> 0, kept |-> FALSE] \in Dump
    BY DEF Dump
  <2>2. QED
    BY <2>1 DEF Init, MadeTypes
<1>5. OtherTypes
  BY DEF Init, OtherTypes, NoWalk
<1>6. QED
  BY <1>1, <1>2, <1>3, <1>4, <1>5 DEF Typed

LEMMA JobsTyped == Typed /\ [Next]_vars => JobTypes'
<1> SUFFICES ASSUME JobTypes, [Next]_vars PROVE JobTypes'
  BY DEF Typed
<1> USE ChainAssumption DEF JobTypes, Successes, Under, Statements
<1>1. ASSUME NEW i \in Jobs, Request(i) PROVE JobTypes'
  BY <1>1 DEF Request
<1>2. ASSUME NEW i \in Jobs, Take(i) PROVE JobTypes'
  BY <1>2 DEF Take
<1>3. ASSUME NEW i \in Jobs, Verify(i) \/ RunBaseBackup(i) \/ Pack(i) PROVE JobTypes'
  BY <1>3 DEF Verify, RunBaseBackup, Pack
<1>4. ASSUME NEW i \in Jobs, CacheManifest(i) PROVE JobTypes'
  BY <1>4 DEF CacheManifest
<1>5. ASSUME NEW i \in Jobs, RecordSuccess(i) PROVE JobTypes'
  BY <1>5 DEF RecordSuccess
<1>6. ASSUME NEW i \in Jobs, JobFails(i) PROVE JobTypes'
  BY <1>6 DEF JobFails
<1>7. ASSUME NEW i \in Jobs, JobDies(i) PROVE JobTypes'
  BY <1>7 DEF JobDies
<1>8. ASSUME NEW i \in Incr, PickParent(i) PROVE JobTypes'
  BY <1>8 DEF PickParent, Jobs
<1>9. CASE UNCHANGED <<pc, row, runs, manifest>>
  BY <1>9
<1>10. QED
  <2>1. WriteLog \/ ReadTarget \/ ReadParent \/ Combine => UNCHANGED <<pc, row, runs, manifest>>
    BY DEF WriteLog, ReadTarget, ReadParent, Combine
  <2>2. QED
    BY <1>1, <1>2, <1>3, <1>4, <1>5, <1>6, <1>7, <1>8, <1>9, <2>1 DEF Next, JobNext, vars

\* A parent is chosen among the backups that succeeded.
LEMMA ParentSucceeded ==
  ASSUME Typed, NEW i \in Incr, PickParent(i)
  PROVE  \E p \in Successes : manifest[p] # 0 /\ parent' = [parent EXCEPT ![i] = p]
BY DEF PickParent, Candidates, NewestOf

LEMMA ParentsTyped == Typed /\ [Next]_vars => ParentTypes'
<1> SUFFICES ASSUME Typed, [Next]_vars PROVE ParentTypes'
  OBVIOUS
<1> JobTypes /\ ParentTypes
  BY DEF Typed
<1> USE ChainAssumption
<1> DEFINE Forgets(i) == parent' = [j \in Incr |-> IF j = i THEN None ELSE parent[j]]
<1>1. ASSUME NEW i \in Incr, PickParent(i) PROVE ParentTypes'
  <2>1. PICK p \in Successes : manifest[p] # 0 /\ parent' = [parent EXCEPT ![i] = p]
    BY <1>1, ParentSucceeded
  <2>2. QED
    BY <1>1, <2>1 DEF PickParent, ParentTypes, JobTypes, Successes, Jobs
<1>2. ASSUME NEW i \in Jobs, CacheManifest(i) PROVE ParentTypes'
  <2>1. manifest' = [manifest EXCEPT ![i] = runs[i]] /\ runs[i] # 0 /\ UNCHANGED parent
    BY <1>2 DEF CacheManifest, JobTypes, Under, Statements
  <2>2. \A j \in Incr : pc'[j] = "dump" => pc[j] = "dump"
    BY <1>2 DEF CacheManifest, JobTypes, Jobs
  <2>3. \A p \in Jobs : manifest[p] # 0 => manifest'[p] # 0
    BY <2>1 DEF JobTypes
  <2>4. QED
    BY <2>1, <2>2, <2>3 DEF ParentTypes
<1>3. ASSUME NEW i \in Jobs, Verify(i) PROVE ParentTypes'
  BY <1>3 DEF Verify, ParentTypes, JobTypes
<1>4. ASSUME NEW i \in Jobs, Request(i) \/ Take(i) \/ RunBaseBackup(i) \/ Pack(i)
      PROVE ParentTypes'
  BY <1>4 DEF Request, Take, RunBaseBackup, Pack, ParentTypes, JobTypes, Jobs
<1>5. ASSUME NEW i \in Jobs, RecordSuccess(i) \/ JobFails(i) \/ JobDies(i) PROVE ParentTypes'
  <2>1. Forgets(i) /\ UNCHANGED manifest
    BY <1>5 DEF RecordSuccess, JobFails, JobDies
  <2>2. \A j \in Incr : j # i => pc'[j] = pc[j]
    BY <1>5 DEF RecordSuccess, JobFails, JobDies, JobTypes, Jobs
  <2>3. pc'[i] # "dump"
    BY <1>5 DEF RecordSuccess, JobFails, JobDies, JobTypes
  <2>4. QED
    BY <2>1, <2>2, <2>3 DEF ParentTypes
<1>6. CASE UNCHANGED <<pc, parent, manifest>>
  BY <1>6 DEF ParentTypes
<1>7. QED
  <2>1. WriteLog \/ ReadTarget \/ ReadParent \/ Combine => UNCHANGED <<pc, parent, manifest>>
    BY DEF WriteLog, ReadTarget, ReadParent, Combine
  <2>2. QED
    BY <1>1, <1>2, <1>3, <1>4, <1>5, <1>6, <2>1 DEF Next, JobNext, vars

LEMMA MadeTyped == Typed /\ [Next]_vars => MadeTypes'
<1> SUFFICES ASSUME Typed, [Next]_vars PROVE MadeTypes'
  OBVIOUS
<1> ServerTypes /\ JobTypes /\ ParentTypes /\ MadeTypes
  BY DEF Typed
<1> USE ChainAssumption
<1>1. ASSUME NEW i \in Jobs, RunBaseBackup(i) PROVE MadeTypes'
  <2>1. runs[i] \in 1..MaxRuns
    BY <1>1 DEF RunBaseBackup, JobTypes, Under, Statements
  <2>2. Against(i) \in 0..MaxRuns
    BY <1>1 DEF RunBaseBackup, Against, JobTypes, ParentTypes
  <2>3. [of |-> IF i \in Incr THEN parent[i] ELSE None, on |-> Against(i), start |-> wal,
         kept |-> FALSE] \in Dump
    BY <2>2 DEF Dump, ParentTypes, ServerTypes
  <2>4. QED
    BY <1>1, <2>1, <2>3 DEF RunBaseBackup, MadeTypes
<1>2. ASSUME NEW i \in Jobs, RecordSuccess(i) PROVE MadeTypes'
  <2>1. runs[i] \in 1..MaxRuns
    BY <1>2 DEF RecordSuccess, JobTypes, Under, Statements
  <2>2. QED
    <3>1. made[i][runs[i]] \in Dump
      BY <2>1 DEF MadeTypes
    <3>2. [made[i][runs[i]] EXCEPT !.kept = TRUE] \in Dump
      BY <3>1 DEF Dump
    <3>3. made' = [made EXCEPT ![i] = [made[i] EXCEPT ![runs[i]] =
                     [made[i][runs[i]] EXCEPT !.kept = TRUE]]]
      BY <1>2 DEF RecordSuccess
    <3>4. QED
      BY <2>1, <3>2, <3>3 DEF MadeTypes
<1>3. CASE UNCHANGED made
  BY <1>3 DEF MadeTypes
<1>4. QED
  <2>1. WriteLog \/ ReadTarget \/ ReadParent \/ Combine => UNCHANGED made
    BY DEF WriteLog, ReadTarget, ReadParent, Combine
  <2>2. ASSUME NEW i \in Jobs, Request(i) \/ Take(i) \/ Verify(i) \/ CacheManifest(i) \/ Pack(i)
                               \/ JobFails(i) \/ JobDies(i)
        PROVE  UNCHANGED made
    BY <2>2 DEF Request, Take, Verify, CacheManifest, Pack, JobFails, JobDies
  <2>3. ASSUME NEW i \in Incr, PickParent(i) PROVE UNCHANGED made
    BY <2>3 DEF PickParent
  <2>4. QED
    BY <1>1, <1>2, <1>3, <2>1, <2>2, <2>3 DEF Next, JobNext, vars

LEMMA OthersTyped == Typed /\ [Next]_vars => ServerTypes' /\ OtherTypes'
<1> SUFFICES ASSUME Typed, [Next]_vars PROVE ServerTypes' /\ OtherTypes'
  OBVIOUS
<1> ServerTypes /\ OtherTypes /\ MadeTypes /\ JobTypes
  BY DEF Typed
<1> USE ChainAssumption
<1>1. ServerTypes'
  <2>1. \/ UNCHANGED server
        \/ wal < MaxWal /\ wal' = wal + 1 /\ UNCHANGED summaries
        \/ summaries' = wal /\ UNCHANGED wal
    BY DEF Next, JobNext, WriteLog, ReadTarget, ReadParent, Combine, Request, Take, Verify,
           RunBaseBackup, CacheManifest, Pack, RecordSuccess, JobFails, JobDies, PickParent,
           vars, server
  <2>2. QED
    BY <2>1 DEF ServerTypes, Never, server
<1>2. OtherTypes'
  <2>1. faults' \in 0..MaxFaults
    <3>1. UNCHANGED faults \/ Fault
      BY DEF Next, JobNext, WriteLog, ReadTarget, ReadParent, Combine, Request, Take, Verify,
             RunBaseBackup, CacheManifest, Pack, RecordSuccess, JobFails, JobDies, PickParent, vars
    <3>2. QED
      BY <3>1 DEF Fault, OtherTypes
  <2>2. order' \in Seq(Jobs)
    <3>1. UNCHANGED order \/ \E i \in Jobs : order' = Append(order, i)
      BY DEF Next, JobNext, WriteLog, ReadTarget, ReadParent, Combine, Request, Take, Verify,
             RunBaseBackup, CacheManifest, Pack, RecordSuccess, JobFails, JobDies, PickParent, vars
    <3>2. QED
      BY <3>1 DEF OtherTypes
  <2>3. scratch' \subseteq Jobs
    <3>1. scratch' \subseteq scratch \/ \E i \in Jobs : scratch' = scratch \cup {i}
      BY DEF Next, JobNext, WriteLog, ReadTarget, ReadParent, Combine, Request, Take, Verify,
             RunBaseBackup, CacheManifest, Pack, RecordSuccess, JobFails, JobDies, PickParent, vars
    <3>2. QED
      BY <3>1 DEF OtherTypes
  <2>4. walk' \in [ids : Seq(Jobs), next : Jobs \cup {None}]
    <3> DEFINE Walks == [ids : Seq(Jobs), next : Jobs \cup {None}]
    <3>1. \A j \in Successes : j \in Jobs /\ Named(j).of \in Jobs \cup {None}
      BY DEF Successes, Named, JobTypes, MadeTypes, Dump
    <3>2. NoWalk \in Walks
      BY DEF NoWalk
    <3>3. CASE ReadTarget
      <4>1. PICK j \in Successes : walk' = [ids |-> <<j>>, next |-> Named(j).of]
        BY <3>3 DEF ReadTarget
      <4>2. <<j>> \in Seq(Jobs)
        BY <3>1, <4>1
      <4>3. QED
        BY <3>1, <4>1, <4>2
    <3>4. CASE ReadParent
      <4>1. CASE walk.next \in Successes
        <5>1. walk' = [ids |-> Append(walk.ids, walk.next), next |-> Named(walk.next).of]
          BY <3>4, <4>1 DEF ReadParent
        <5>2. Append(walk.ids, walk.next) \in Seq(Jobs)
          BY <3>1, <4>1 DEF OtherTypes
        <5>3. QED
          BY <3>1, <4>1, <5>1, <5>2
      <4>2. CASE walk.next \notin Successes
        BY <3>2, <3>4, <4>2 DEF ReadParent
      <4>3. QED
        BY <4>1, <4>2
    <3>5. CASE Combine
      BY <3>2, <3>5 DEF Combine
    <3>6. CASE UNCHANGED walk
      BY <3>6 DEF OtherTypes
    <3>7. QED
      <4>1. ASSUME NEW i \in Jobs, JobNext(i) PROVE UNCHANGED walk
        BY <4>1 DEF JobNext, Request, Take, Verify, RunBaseBackup, CacheManifest, Pack,
                    RecordSuccess, JobFails, JobDies
      <4>2. ASSUME NEW i \in Incr, PickParent(i) PROVE UNCHANGED walk
        BY <4>2 DEF PickParent
      <4>3. WriteLog => UNCHANGED walk
        BY DEF WriteLog
      <4>4. QED
        BY <3>3, <3>4, <3>5, <3>6, <4>1, <4>2, <4>3 DEF Next, vars
  <2>5. QED
    BY <2>1, <2>2, <2>3, <2>4 DEF OtherTypes
<1>3. QED
  BY <1>1, <1>2

LEMMA TypedKept == Typed /\ [Next]_vars => Typed'
BY JobsTyped, ParentsTyped, MadeTyped, OthersTyped DEF Typed

(***************************************************************************)
(* Every variable keeps its type, and a backup about to be taken on a      *)
(* parent has one whose manifest is cached.                                *)
(***************************************************************************)
THEOREM ChainTypeCorrect == Spec => []TypeOK
BY TypedTypes, TypedInit, TypedKept, PTL DEF Spec

-----------------------------------------------------------------------------
(***************************************************************************)
(* What is recorded.  Only the last run of a job can have been recorded    *)
(* while the job is at rest after it, and its manifest is then the cached  *)
(* one; an archive taken on a parent that is recorded fits it, unless the  *)
(* parent's job has come back since.                                       *)
(***************************************************************************)

Recorded(j) == {k \in 1..MaxRuns : made[j][k].kept}

RunsAgree(j) ==
  /\ \A k \in Recorded(j) : k <= runs[j]
  /\ runs[j] \in Recorded(j) => pc[j] = "kept"
  /\ pc[j] = "kept" <=> row[j].status = "success"
  /\ pc[j] = "kept" => row[j].run = runs[j] /\ runs[j] \in Recorded(j)
  /\ pc[j] \in {"pack", "record", "kept"} => manifest[j] = runs[j]

Fits(d) == Recorded(d.of) # {} /\ (Recorded(d.of) = {runs[d.of]} => d.on = runs[d.of])

Based(i) ==
  /\ pc[i] = "dump" => Recorded(parent[i]) # {}
  /\ pc[i] \in {"cache", "pack", "record", "kept"} => made[i][runs[i]].of # None
  /\ \A k \in 1..MaxRuns : made[i][k].of # None => Fits(made[i][k])

Chained == Typed /\ (\A j \in Jobs : RunsAgree(j)) /\ (\A i \in Incr : Based(i))

LEMMA ChainedInit == Init => Chained
<1> SUFFICES ASSUME Init PROVE Chained
  OBVIOUS
<1>1. \A j \in Jobs, k \in 1..MaxRuns : made[j][k].kept = FALSE /\ made[j][k].of = None
  BY DEF Init
<1>2. \A j \in Jobs : RunsAgree(j)
  BY <1>1, ChainAssumption DEF Init, RunsAgree, Recorded, NoRow
<1>3. \A i \in Incr : Based(i)
  BY <1>1 DEF Init, Based, Jobs
<1>4. QED
  BY <1>2, <1>3, TypedInit DEF Chained

\* What a step does to the runs that are recorded.
LEMMA RecordedStep ==
  ASSUME Chained, [Next]_vars, NEW j \in Jobs
  PROVE  IF RecordSuccess(j)
         THEN Recorded(j)' = Recorded(j) \cup {runs[j]} /\ runs[j] \notin Recorded(j)
         ELSE Recorded(j)' = Recorded(j)
<1> JobTypes /\ MadeTypes /\ RunsAgree(j)
  BY DEF Chained, Typed
<1>1. ASSUME NEW i \in Jobs, RunBaseBackup(i) PROVE Recorded(j)' = Recorded(j)
  <2>1. pc[i] = "dump" /\ runs[i] \in 1..MaxRuns
    BY <1>1, ChainAssumption DEF RunBaseBackup, JobTypes, Under, Statements
  <2>2. ~made[i][runs[i]].kept
    BY <2>1 DEF Chained, RunsAgree, Recorded
  <2>3. ASSUME NEW k \in 1..MaxRuns PROVE made'[j][k].kept <=> made[j][k].kept
    <3>1. made'[j][k] = made[j][k] \/ (j = i /\ k = runs[i] /\ ~made'[j][k].kept)
      BY <1>1, <2>1 DEF RunBaseBackup, MadeTypes
    <3>2. QED
      BY <2>2, <3>1
  <2>4. QED
    BY <2>3 DEF Recorded
<1>2. ASSUME NEW i \in Jobs, RecordSuccess(i), i # j PROVE Recorded(j)' = Recorded(j)
  BY <1>2 DEF RecordSuccess, MadeTypes, Recorded
<1>3. ASSUME RecordSuccess(j)
      PROVE  Recorded(j)' = Recorded(j) \cup {runs[j]} /\ runs[j] \notin Recorded(j)
  <2>1. pc[j] = "record" /\ runs[j] \in 1..MaxRuns
    BY <1>3, ChainAssumption DEF RecordSuccess, JobTypes, Under, Statements
  <2>2. ASSUME NEW k \in 1..MaxRuns
        PROVE  made'[j][k].kept <=> k = runs[j] \/ made[j][k].kept
    <3>1. made[j][k] \in Dump
      BY DEF MadeTypes
    <3>2. CASE k = runs[j]
      BY <1>3, <2>1, <3>1, <3>2 DEF RecordSuccess, MadeTypes, Dump
    <3>3. CASE k # runs[j]
      BY <1>3, <2>1, <3>3 DEF RecordSuccess, MadeTypes
    <3>4. QED
      BY <3>2, <3>3
  <2>3. QED
    BY <2>1, <2>2 DEF Recorded, RunsAgree
<1>4. CASE UNCHANGED made
  <2>1. ~RecordSuccess(j)
    <3> SUFFICES ASSUME RecordSuccess(j) PROVE FALSE
      OBVIOUS
    <3>1. runs[j] \notin Recorded(j) /\ runs[j] \in Recorded(j)'
      BY <1>3
    <3>2. QED
      BY <1>4, <3>1 DEF Recorded
  <2>2. QED
    BY <1>4, <2>1 DEF Recorded
<1>5. ASSUME NEW i \in Jobs, RunBaseBackup(i) PROVE ~RecordSuccess(j)
  BY <1>5 DEF RunBaseBackup, RecordSuccess, JobTypes
<1>6. QED
  <2>1. WriteLog \/ ReadTarget \/ ReadParent \/ Combine => UNCHANGED made
    BY DEF WriteLog, ReadTarget, ReadParent, Combine
  <2>2. ASSUME NEW i \in Jobs, Request(i) \/ Take(i) \/ Verify(i) \/ CacheManifest(i) \/ Pack(i)
                               \/ JobFails(i) \/ JobDies(i)
        PROVE  UNCHANGED made
    BY <2>2 DEF Request, Take, Verify, CacheManifest, Pack, JobFails, JobDies
  <2>3. ASSUME NEW i \in Incr, PickParent(i) PROVE UNCHANGED made
    BY <2>3 DEF PickParent
  <2>4. QED
    BY <1>1, <1>2, <1>3, <1>4, <1>5, <2>1, <2>2, <2>3 DEF Next, JobNext, vars

\* The job of another backup is left alone.
LEMMA OthersAlone ==
  ASSUME Chained, NEW i \in Jobs, JobNext(i), NEW j \in Jobs, j # i
  PROVE  /\ pc'[j] = pc[j] /\ row'[j] = row[j]
         /\ runs'[j] = runs[j] /\ manifest'[j] = manifest[j]
BY DEF JobNext, Request, Take, Verify, RunBaseBackup, CacheManifest, Pack, RecordSuccess,
       JobFails, JobDies, Chained, Typed, JobTypes

LEMMA AgreeKept ==
  ASSUME Chained, [Next]_vars, NEW j \in Jobs
  PROVE  RunsAgree(j)'
<1> JobTypes /\ RunsAgree(j)
  BY DEF Chained, Typed, RunsAgree
<1>a. Recorded(j)' = Recorded(j) \/ RecordSuccess(j)
  BY RecordedStep
<1>b. runs[j] \in 0..MaxRuns /\ Recorded(j) \subseteq 1..MaxRuns
  BY DEF JobTypes, Recorded
<1> USE ChainAssumption
<1>1. CASE Request(j)
  BY <1>1, <1>a DEF Request, RecordSuccess, RunsAgree, JobTypes
<1>2. CASE Take(j)
  BY <1>2, <1>a, <1>b DEF Take, RecordSuccess, RunsAgree, JobTypes
<1>3. CASE Verify(j) \/ RunBaseBackup(j)
  BY <1>3, <1>a DEF Verify, RunBaseBackup, RecordSuccess, RunsAgree, JobTypes
<1>4. CASE CacheManifest(j) \/ Pack(j)
  BY <1>4, <1>a DEF CacheManifest, Pack, RecordSuccess, RunsAgree, JobTypes
<1>5. CASE RecordSuccess(j)
  <2>1. Recorded(j)' = Recorded(j) \cup {runs[j]}
    BY <1>5, RecordedStep
  <2>2. /\ pc[j] = "record" /\ pc'[j] = "kept" /\ row'[j] = [status |-> "success", run |-> runs[j]]
        /\ runs' = runs /\ manifest' = manifest
    BY <1>5 DEF RecordSuccess, JobTypes
  <2>3. runs[j] <= runs[j]
    BY <1>b
  <2>4. QED
    BY <2>1, <2>2, <2>3 DEF RunsAgree
<1>6. CASE JobFails(j) \/ JobDies(j)
  BY <1>6, <1>a DEF JobFails, JobDies, RecordSuccess, RunsAgree, JobTypes, Statements
<1>7. ASSUME NEW i \in Incr, PickParent(i) PROVE RunsAgree(j)'
  BY <1>7, <1>a DEF PickParent, RecordSuccess, RunsAgree, JobTypes, Jobs
<1>8. ASSUME NEW i \in Jobs, JobNext(i), i # j PROVE RunsAgree(j)'
  BY <1>8, <1>a, OthersAlone DEF RecordSuccess, RunsAgree, JobTypes
<1>9. CASE UNCHANGED <<pc, row, runs, manifest>>
  BY <1>9, <1>a DEF RecordSuccess, RunsAgree, JobTypes
<1>10. QED
  <2>1. WriteLog \/ ReadTarget \/ ReadParent \/ Combine => UNCHANGED <<pc, row, runs, manifest>>
    BY DEF WriteLog, ReadTarget, ReadParent, Combine
  <2>2. QED
    BY <1>1, <1>2, <1>3, <1>4, <1>5, <1>6, <1>7, <1>8, <1>9, <2>1 DEF Next, JobNext, vars

\* An archive that fits its parent goes on to do so.
LEMMA FitsStays ==
  ASSUME Chained, [Next]_vars, NEW d \in Dump, d.of \in Jobs, Fits(d)
  PROVE  Fits(d)'
<1> DEFINE p == d.of
<1> JobTypes /\ RunsAgree(p) /\ Recorded(p) # {}
  BY DEF Chained, Typed, Fits
<1>1. runs'[p] = runs[p] \/ Take(p)
  <2>1. ASSUME NEW i \in Jobs, JobNext(i), i # p PROVE runs'[p] = runs[p]
    BY <2>1, OthersAlone
  <2>2. JobNext(p) /\ ~Take(p) => runs' = runs
    BY DEF JobNext, Request, Verify, RunBaseBackup, CacheManifest, Pack, RecordSuccess,
           JobFails, JobDies
  <2>3. ASSUME NEW i \in Incr, PickParent(i) PROVE runs' = runs
    BY <2>3 DEF PickParent
  <2>4. WriteLog \/ ReadTarget \/ ReadParent \/ Combine => runs' = runs
    BY DEF WriteLog, ReadTarget, ReadParent, Combine
  <2>5. QED
    BY <2>1, <2>2, <2>3, <2>4 DEF Next, vars
<1>2. CASE RecordSuccess(p) /\ Recorded(p)' = Recorded(p) \cup {runs[p]} /\ runs[p] \notin Recorded(p)
  <2>1. runs' = runs
    BY <1>2 DEF RecordSuccess
  <2>2. PICK k \in Recorded(p) : k # runs[p]
    BY <1>2
  <2>3. k \in Recorded(p)'
    BY <1>2
  <2>4. QED
    BY <2>1, <2>2, <2>3 DEF Fits
<1>3. CASE Recorded(p)' = Recorded(p) /\ runs'[p] = runs[p]
  BY <1>3 DEF Fits
<1>4. CASE Recorded(p)' = Recorded(p) /\ Take(p)
  <2>1. runs'[p] = runs[p] + 1 /\ runs[p] \in Nat
    BY <1>4, ChainAssumption DEF Take, JobTypes
  <2>2. runs'[p] \notin Recorded(p)
    BY <2>1 DEF RunsAgree, Recorded
  <2>3. QED
    BY <1>4, <2>2 DEF Fits
<1>5. QED
  BY <1>1, <1>2, <1>3, <1>4, RecordedStep

\* What a step does to the parent and the manifest that an archive names.
LEMMA MadeStep ==
  ASSUME Chained, [Next]_vars, NEW i \in Incr, NEW k \in 1..MaxRuns
  PROVE  \/ made'[i][k].of = made[i][k].of /\ made'[i][k].on = made[i][k].on
         \/ /\ RunBaseBackup(i) /\ k = runs[i]
            /\ made'[i][k].of = parent[i] /\ made'[i][k].on = manifest[parent[i]]
<1> MadeTypes /\ JobTypes /\ i \in Jobs
  BY DEF Chained, Typed, Jobs
<1>1. ASSUME NEW j \in Jobs, RunBaseBackup(j), j # i PROVE made'[i] = made[i]
  BY <1>1 DEF RunBaseBackup, MadeTypes
<1>2. CASE RunBaseBackup(i)
  <2>1. CASE k = runs[i]
    BY <1>2, <2>1 DEF RunBaseBackup, Against, MadeTypes
  <2>2. CASE k # runs[i]
    BY <1>2, <2>2 DEF RunBaseBackup, MadeTypes
  <2>3. QED
    BY <2>1, <2>2
<1>3. ASSUME NEW j \in Jobs, RecordSuccess(j)
      PROVE  made'[i][k].of = made[i][k].of /\ made'[i][k].on = made[i][k].on
  <2>1. made[i][k] \in Dump
    BY DEF MadeTypes
  <2>2. made'[i][k] = made[i][k] \/ made'[i][k] = [made[i][k] EXCEPT !.kept = TRUE]
    BY <1>3 DEF RecordSuccess, MadeTypes
  <2>3. QED
    BY <2>1, <2>2 DEF Dump
<1>4. CASE UNCHANGED made
  BY <1>4
<1>5. QED
  <2>1. WriteLog \/ ReadTarget \/ ReadParent \/ Combine => UNCHANGED made
    BY DEF WriteLog, ReadTarget, ReadParent, Combine
  <2>2. ASSUME NEW j \in Jobs, Request(j) \/ Take(j) \/ Verify(j) \/ CacheManifest(j) \/ Pack(j)
                               \/ JobFails(j) \/ JobDies(j)
        PROVE  UNCHANGED made
    BY <2>2 DEF Request, Take, Verify, CacheManifest, Pack, JobFails, JobDies
  <2>3. ASSUME NEW j \in Incr, PickParent(j) PROVE UNCHANGED made
    BY <2>3 DEF PickParent
  <2>4. QED
    BY <1>1, <1>2, <1>3, <1>4, <2>1, <2>2, <2>3 DEF Next, JobNext, vars

LEMMA BasedKept ==
  ASSUME Chained, [Next]_vars, NEW i \in Incr
  PROVE  Based(i)'
<1> i \in Jobs /\ JobTypes /\ ParentTypes /\ MadeTypes /\ Based(i)
  BY DEF Chained, Typed, Jobs
<1>a. \A j \in Jobs : Recorded(j) \subseteq Recorded(j)'
  BY RecordedStep
<1>b. WriteLog \/ ReadTarget \/ ReadParent \/ Combine => UNCHANGED <<pc, parent, runs, made>>
  BY DEF WriteLog, ReadTarget, ReadParent, Combine
<1>1. ASSUME pc'[i] = "dump" PROVE Recorded(parent[i])' # {}
  <2>1. CASE PickParent(i)
    <3>1. PICK p \in Successes : parent' = [parent EXCEPT ![i] = p]
      BY <2>1, ParentSucceeded DEF Chained
    <3>2. p \in Jobs /\ RunsAgree(p) /\ row[p].status = "success"
      BY DEF Successes, Chained
    <3>3. Recorded(p) # {}
      BY <3>2 DEF RunsAgree
    <3>4. parent'[i] = p
      BY <3>1 DEF ParentTypes
    <3>5. QED
      BY <1>a, <3>2, <3>3, <3>4
  <2>2. CASE pc[i] = "dump" /\ parent'[i] = parent[i]
    <3>1. parent[i] \in Jobs /\ Recorded(parent[i]) # {}
      BY <2>2 DEF Based, ParentTypes
    <3>2. QED
      BY <1>a, <2>2, <3>1
  <2>3. QED
    <3>1. ASSUME JobNext(i) PROVE FALSE
      BY <1>1, <3>1 DEF JobNext, Request, Take, Verify, RunBaseBackup, CacheManifest, Pack,
                        RecordSuccess, JobFails, JobDies, JobTypes
    <3>2. ASSUME NEW j \in Jobs, j # i, JobNext(j) PROVE pc[i] = "dump" /\ parent'[i] = parent[i]
      BY <1>1, <3>2 DEF JobNext, Request, Take, Verify, RunBaseBackup, CacheManifest, Pack,
                        RecordSuccess, JobFails, JobDies, JobTypes, ParentTypes
    <3>3. ASSUME NEW j \in Incr, j # i, PickParent(j)
          PROVE  pc[i] = "dump" /\ parent'[i] = parent[i]
      BY <1>1, <3>3 DEF PickParent, JobTypes, ParentTypes
    <3>4. QED
      BY <1>1, <1>b, <2>1, <2>2, <3>1, <3>2, <3>3 DEF Next, vars
<1>2. ASSUME pc'[i] \in {"cache", "pack", "record", "kept"} PROVE made'[i][runs'[i]].of # None
  <2>1. CASE RunBaseBackup(i)
    <3>1. runs[i] \in 1..MaxRuns /\ runs' = runs /\ parent[i] # None
      BY <2>1, ChainAssumption DEF RunBaseBackup, JobTypes, ParentTypes, Under, Statements
    <3>2. made'[i][runs[i]].of = parent[i]
      BY <2>1, <3>1 DEF RunBaseBackup, MadeTypes
    <3>3. QED
      BY <3>1, <3>2
  <2>2. CASE pc[i] \in {"cache", "pack", "record", "kept"} /\ runs'[i] = runs[i]
    <3>1. runs[i] \in 1..MaxRuns /\ made[i][runs[i]].of # None
      BY <2>2, ChainAssumption DEF JobTypes, Under, Statements, Based
    <3>2. ~RunBaseBackup(i)
      BY <2>2 DEF RunBaseBackup
    <3>3. QED
      BY <2>2, <3>1, <3>2, MadeStep
  <2>3. QED
    <3>1. ASSUME JobNext(i), ~RunBaseBackup(i)
          PROVE  pc[i] \in {"cache", "pack", "record", "kept"} /\ runs'[i] = runs[i]
      BY <1>2, <3>1 DEF JobNext, Request, Take, Verify, CacheManifest, Pack,
                        RecordSuccess, JobFails, JobDies, JobTypes
    <3>2. ASSUME NEW j \in Jobs, j # i, JobNext(j) PROVE pc'[i] = pc[i] /\ runs'[i] = runs[i]
      BY <3>2, OthersAlone
    <3>3. ASSUME NEW j \in Incr, PickParent(j)
          PROVE  pc[i] \in {"cache", "pack", "record", "kept"} /\ runs'[i] = runs[i]
      BY <1>2, <3>3 DEF PickParent, JobTypes
    <3>4. QED
      BY <1>2, <1>b, <2>1, <2>2, <3>1, <3>2, <3>3 DEF Next, vars
<1>3. ASSUME NEW k \in 1..MaxRuns, made'[i][k].of # None PROVE Fits(made[i][k])'
  <2>1. CASE made'[i][k].of = made[i][k].of /\ made'[i][k].on = made[i][k].on
    <3>1. made[i][k] \in Dump
      BY DEF MadeTypes
    <3>2. PICK d \in Dump : d = made[i][k]
      BY <3>1
    <3>3. d.of \in Jobs /\ Fits(d)
      BY <1>3, <2>1, <3>2 DEF Dump, Based
    <3>4. Fits(d)'
      BY <3>3, FitsStays
    <3>5. made'[i][k].of = d.of /\ made'[i][k].on = d.on
      BY <2>1, <3>2
    <3>6. QED
      BY <3>4, <3>5 DEF Fits
  <2>2. CASE /\ RunBaseBackup(i) /\ k = runs[i]
             /\ made'[i][k].of = parent[i] /\ made'[i][k].on = manifest[parent[i]]
    <3>0. PICK p \in Jobs : p = parent[i]
      BY <2>2 DEF RunBaseBackup, ParentTypes
    <3>1. Recorded(p) # {} /\ runs' = runs
      BY <2>2, <3>0 DEF RunBaseBackup, Based
    <3>2. Recorded(p)' = Recorded(p)
      <4>1. ~RecordSuccess(p)
        BY <2>2 DEF RunBaseBackup, RecordSuccess, JobTypes
      <4>2. QED
        BY <4>1, RecordedStep
    <3>3. runs[p] \in Recorded(p) => manifest[p] = runs[p]
      BY DEF Chained, RunsAgree
    <3>4. QED
      BY <2>2, <3>0, <3>1, <3>2, <3>3 DEF Fits
  <2>3. QED
    BY <2>1, <2>2, MadeStep
<1>4. QED
  BY <1>1, <1>2, <1>3 DEF Based

LEMMA ChainedKept == Chained /\ [Next]_vars => Chained'
BY TypedKept, AgreeKept, BasedKept DEF Chained

LEMMA ChainedFits == Chained => ChainsFit
<1> SUFFICES ASSUME Chained, NEW i \in Successes \cap Incr PROVE ChainFits(i)
  BY TypedTypes DEF Chained, ChainsFit
<1> i \in Jobs /\ JobTypes /\ MadeTypes
  BY DEF Successes, Chained, Typed
<1> DEFINE p == Named(i).of
<1>1. pc[i] = "kept" /\ row[i].run = runs[i] /\ runs[i] \in 1..MaxRuns
  BY ChainAssumption DEF Chained, RunsAgree, Successes, JobTypes, Under
<1>2. p # None /\ Fits(Named(i)) /\ Named(i) \in Dump
  BY <1>1 DEF Named, Chained, Based, MadeTypes
<1>3. p \in Jobs
  BY <1>2 DEF Dump
<1>4. \E k \in 1..MaxRuns : made[p][k].kept
  BY <1>2 DEF Fits, Recorded
<1>5. ASSUME \A k \in 1..runs[p] : made[p][k].kept <=> k = runs[p]
      PROVE  p \in Successes /\ row[p].run = Named(i).on
  <2>1. RunsAgree(p) /\ runs[p] \in 0..MaxRuns
    BY <1>3 DEF Chained, JobTypes
  <2>2. \A k \in Recorded(p) : k \in 1..runs[p] /\ k = runs[p]
    BY <1>5, <2>1 DEF RunsAgree, Recorded
  <2>3. Recorded(p) = {runs[p]}
    BY <1>2, <2>2 DEF Fits
  <2>4. QED
    BY <1>2, <1>3, <2>1, <2>3 DEF RunsAgree, Fits, Successes
<1>6. QED
  BY <1>2, <1>4, <1>5 DEF ChainFits

(***************************************************************************)
(* The parent of every recorded increment was recorded, and is the archive *)
(* that the increment was taken against, unless its job came back: for any *)
(* backups, failures and deaths.                                           *)
(***************************************************************************)
THEOREM ChainsAlwaysFit == Spec => []ChainsFit
BY ChainedInit, ChainedKept, ChainedFits, PTL DEF Spec
=============================================================================
