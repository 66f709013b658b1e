------------------------- MODULE BackupCommandProofs -------------------------
(***************************************************************************)
(* What the commands of the CLI leave of the keystore and the container    *)
(* they share, for every set of processes, menu, fault and interruption.   *)
(***************************************************************************)
EXTENDS BackupCommand, TLAPS

-----------------------------------------------------------------------------
(***************************************************************************)
(* Types.                                                                  *)
(***************************************************************************)
Tasks == {"none", "restarted", "get", "delete", "import", "start", "upgrade", "stop",
          "restart", "backup", "infra start", "infra stop", "infra restart"}

Statements == {"new", "probe", "check", "inspect", "replace", "stop", "remove", "port",
               "owner", "start", "image", "up", "restart", "compose stop",
               "compose restart", "wait", "ready", "post", "poll", "keep", "discard",
               "drop", "kept", "lost", "key", "confirm", "over"}

ProcessesTyped ==
  /\ task \in [Proc -> Tasks] /\ asks \in [Proc -> Images] /\ at \in [Proc -> Statements]
  /\ saw \in [Proc -> {"missing", "stopped"}] /\ told \in [Proc -> {"none", "ok", "failed"}]

HostTyped == container \in Containers /\ foreign \in BOOLEAN

CountersTyped ==
  /\ exposed \subseteq Proc
  /\ faults \in 0..MaxFaults /\ crashes \in 0..MaxCrashes

\* The commands that have an entry, by name.
LEMMA Entries == DOMAIN Entry = RuntimeTasks \cup InfraTasks
  BY DEF Entry

\* The types by parts.
LEMMA TypesByParts ==
    TypeOK <=> KeystoreTypeOK /\ ProcessesTyped /\ HostTyped /\ CountersTyped
  <1>1. DOMAIN Entry \cup {"none", "restarted", "get", "delete", "import"} = Tasks
    BY Entries DEF Tasks, RuntimeTasks, InfraTasks
  <1>. QED
    BY <1>1 DEF TypeOK, ProcessesTyped, HostTyped, CountersTyped, Statements

\* The same, after a step.
LEMMA TypesByPartsNext ==
    TypeOK' <=> KeystoreTypeOK' /\ ProcessesTyped' /\ HostTyped' /\ CountersTyped'
  <1>1. DOMAIN Entry \cup {"none", "restarted", "get", "delete", "import"} = Tasks
    BY Entries DEF Tasks, RuntimeTasks, InfraTasks
  <1>. QED
    BY <1>1 DEF TypeOK, ProcessesTyped, HostTyped, CountersTyped, Statements

\* The statement at which a command begins is one.
LEMMA EntryIsStatement ==
    \A c \in DOMAIN Entry :
        Entry[c] \in {"check", "probe", "up", "compose stop", "compose restart"}
  BY DEF Entry, RuntimeTasks, InfraTasks

\* A process that goes on.
LEMMA GoTyped ==
    ASSUME NEW p \in Proc, NEW s \in Statements, ProcessesTyped, Go(p, s)
    PROVE  ProcessesTyped'
  BY DEF ProcessesTyped, Go

\* A process that ends.
LEMMA EndTyped ==
    ASSUME NEW p \in Proc, NEW o \in {"ok", "failed"}, ProcessesTyped, End(p, o)
    PROVE  ProcessesTyped'
  BY DEF ProcessesTyped, End, Images, Statements

\* A fault is counted within its bound.
LEMMA FaultTyped ==
    ASSUME CountersTyped, Fault
    PROVE  faults' \in 0..MaxFaults
  BY RuntimeAssumption DEF CountersTyped, Fault

\* A fault, or none.
LEMMA FaultsTyped ==
    ASSUME CountersTyped, faults' = faults \/ Fault, UNCHANGED <<exposed, crashes>>
    PROVE  CountersTyped'
  BY FaultTyped DEF CountersTyped

\* The steps of the runtime: what each leaves to the processes.
LEMMA RuntimeMoves ==
    ASSUME NEW p \in Proc, ProcessesTyped, HostTyped, RuntimeStep(p)
    PROVE  ProcessesTyped' /\ (faults' = faults \/ Fault)
  <1>1. CASE Probe(p)
    <2>1. PICK s \in Statements : Go(p, s)
      BY <1>1 DEF Probe, Statements
    <2>. QED BY <1>1, <2>1, GoTyped DEF Probe
  <1>2. CASE CheckPrerequisites(p)
    BY <1>2, GoTyped, EndTyped DEF CheckPrerequisites, Statements
  <1>3. CASE Inspect(p)
    <2>1. faults' = faults \/ Fault
      BY <1>3 DEF Inspect
    <2>2. PICK c \in {container, Missing}, outdated \in BOOLEAN : Decide(p, c, outdated)
      BY <1>3 DEF Inspect, Outdated
    <2>3. CASE \E s \in {"stop", "restart", "replace", "wait"} : Go(p, s)
      BY <2>1, <2>3, GoTyped DEF Statements
    <2>4. CASE End(p, "ok")
      BY <2>1, <2>4, EndTyped
    <2>5. CASE /\ task' = [task EXCEPT ![p] = "restarted"] /\ at' = [at EXCEPT ![p] = "check"]
               /\ UNCHANGED <<asks, saw, told>>
      BY <2>1, <2>5 DEF ProcessesTyped, Tasks, Statements
    <2>6. CASE /\ at' = [at EXCEPT ![p] = "port"] /\ saw' = [saw EXCEPT ![p] = c.state]
               /\ c.state # "running" /\ UNCHANGED <<task, asks, told>>
      <3>1. c.state \in {"missing", "stopped"}
        BY <2>6 DEF HostTyped, Containers, Missing
      <3>. QED BY <2>1, <2>6, <3>1 DEF ProcessesTyped, Statements
    <2>. QED BY <2>2, <2>3, <2>4, <2>5, <2>6 DEF Decide
  <1>4. CASE Replace(p)
    <2>1. CASE \E s \in {"stop", "remove"} : Go(p, s)
      BY <1>4, <2>1, GoTyped DEF Replace, Statements
    <2>. QED BY <1>4, <2>1, EndTyped DEF Replace
  <1>5. CASE Stop(p)
    BY <1>5, GoTyped, EndTyped DEF Stop, DockerFails, Statements
  <1>6. CASE ComposeStop(p)
    BY <1>6, EndTyped DEF ComposeStop, DockerFails
  <1>7. CASE Remove(p)
    BY <1>7, GoTyped DEF Remove, Statements
  <1>8. CASE ConnectPort(p)
    <2>1. PICK s \in {"owner", "start", "image"} : at' = [at EXCEPT ![p] = s]
      BY <1>8 DEF ConnectPort
    <2>. QED BY <1>8, <2>1 DEF ConnectPort, ProcessesTyped, Statements
  <1>9. CASE CheckOwner(p)
    <2>1. CASE End(p, "failed")
      BY <1>9, <2>1, EndTyped DEF CheckOwner
    <2>2. CASE \E s \in Statements : Go(p, s)
      BY <1>9, <2>2, GoTyped DEF CheckOwner
    <2>. QED BY <1>9, <2>1, <2>2 DEF CheckOwner, Statements
  <1>10. CASE Start(p)
    BY <1>10, GoTyped, EndTyped DEF Start, DockerFails, Statements
  <1>11. CASE EnsureImage(p)
    BY <1>11, GoTyped, EndTyped DEF EnsureImage, Statements
  <1>12. CASE ComposeUp(p)
    BY <1>12, GoTyped, EndTyped DEF ComposeUp, DockerFails, Statements
  <1>13. CASE Restart(p) \/ ComposeRestart(p)
    BY <1>13, GoTyped, EndTyped DEF Restart, ComposeRestart, RestartBy, DockerFails, Statements
  <1>14. CASE Wait(p)
    <2>1. CASE task' = [task EXCEPT ![p] = "start"] /\ UNCHANGED <<asks, at, saw, told>>
      BY <1>14, <2>1 DEF Wait, ProcessesTyped, Tasks
    <2>. QED BY <1>14, <2>1, EndTyped DEF Wait
  <1>15. CASE WaitForServices(p)
    BY <1>15, GoTyped, EndTyped DEF WaitForServices, Statements
  <1>. QED
    BY <1>1, <1>2, <1>3, <1>4, <1>5, <1>6, <1>7, <1>8, <1>9, <1>10, <1>11, <1>12, <1>13,
       <1>14, <1>15 DEF RuntimeStep

\* A container is a record of three fields.
LEMMA ContainerFields ==
    /\ \A c \in Containers : c.state \in {"missing", "stopped", "running"}
                             /\ c.image \in Images \cup {"none"} /\ c.healthy \in BOOLEAN
    /\ Missing \in Containers
    /\ \A i \in Images \cup {"none"} : Booting(i) \in Containers
  BY DEF Containers, Missing, Booting

\* What the docker commands make of a container is one.
LEMMA EffectsTyped ==
    ASSUME HostTyped, ProcessesTyped, NEW p \in Proc
    PROVE  Stopped \in Containers /\ Started \in Containers /\ Restarted \in Containers
           /\ Upped(p) \in Containers
  <1>1. container \in Containers /\ asks[p] \in Images
    BY DEF HostTyped, ProcessesTyped
  <1>2. Stopped \in Containers
    BY <1>1, ContainerFields DEF Stopped, Containers
  <1>3. Started \in Containers /\ Restarted \in Containers
    BY <1>1, ContainerFields DEF Started, Restarted
  <1>4. [state |-> "stopped", image |-> asks[p], healthy |-> FALSE] \in Containers
    BY <1>1 DEF Containers
  <1>5. Upped(p) \in Containers
    BY <1>1, <1>4, ContainerFields DEF Upped
  <1>. QED BY <1>2, <1>3, <1>5

\* What they leave of the container.
LEMMA RuntimeHost ==
    ASSUME NEW p \in Proc, HostTyped, ProcessesTyped, RuntimeStep(p)
    PROVE  HostTyped'
  <1>1. CASE Probe(p) \/ CheckPrerequisites(p) \/ Inspect(p) \/ Replace(p)
    BY <1>1 DEF HostTyped, Probe, CheckPrerequisites, Inspect, Replace
  <1>2. CASE Stop(p) \/ ComposeStop(p) \/ Remove(p)
    <2>1. container' \in {container, Stopped, Missing} /\ foreign' = foreign
      BY <1>2 DEF Stop, ComposeStop, Remove, DockerFails
    <2>. QED BY <2>1, ContainerFields, EffectsTyped DEF HostTyped
  <1>3. CASE ConnectPort(p) \/ CheckOwner(p) \/ EnsureImage(p) \/ Wait(p) \/ WaitForServices(p)
    BY <1>3 DEF HostTyped, ConnectPort, CheckOwner, EnsureImage, Wait, WaitForServices
  <1>4. CASE Start(p) \/ ComposeUp(p)
    <2>1. container' \in {container, Started, Upped(p)} /\ foreign' = foreign
      BY <1>4 DEF Start, ComposeUp, DockerFails
    <2>. QED BY <2>1, EffectsTyped DEF HostTyped
  <1>5. CASE Restart(p) \/ ComposeRestart(p)
    <2>1. container' \in {container, Restarted} /\ foreign' = foreign
      BY <1>5 DEF Restart, ComposeRestart, RestartBy, DockerFails
    <2>. QED BY <2>1, EffectsTyped DEF HostTyped
  <1>. QED
    BY <1>1, <1>2, <1>3, <1>4, <1>5 DEF RuntimeStep

(* The statements of each command, and what a process has told before it is over. *)
Docker == {"check", "inspect", "port", "owner", "start", "image", "up", "wait", "over"}

Kept == {"post", "poll", "keep", "discard", "drop", "kept", "lost"}

Placed(p) ==
  /\ task[p] = "none" <=> at[p] = "new"
  /\ task[p] \in {"start", "restarted"} => at[p] \in Docker
  /\ task[p] = "upgrade" => at[p] \in Docker \cup {"replace", "stop", "remove"}
  /\ task[p] = "stop" => at[p] \in {"check", "inspect", "stop", "over"}
  /\ task[p] = "restart" => at[p] \in {"check", "inspect", "restart", "wait", "over"}
  /\ task[p] = "backup" => at[p] \in {"probe", "up", "wait", "ready", "over"} \cup Kept
  /\ task[p] = "infra start" => at[p] \in {"up", "wait", "over"}
  /\ task[p] = "infra stop" => at[p] \in {"compose stop", "over"}
  /\ task[p] = "infra restart" => at[p] \in {"compose restart", "wait", "over"}
  /\ task[p] \in {"get", "delete", "import"} => at[p] \in {"key", "confirm", "kept", "over"}
  /\ told[p] # "none" => at[p] = "over"

\* What is imported are keys of backups; without this the types are not inductive, as an
\* import gives a key the name that it is kept under.
ImportsNamed == \A p \in Proc : todo[p].op = "import" => todo[p].ids \subseteq Proc

AllPlaced == \A p \in Proc : Placed(p)

\* The statements at which a call of the key manager is under way.
CallsPlaced ==
  \A p \in Proc : ks[p] # "idle" => at[p] \in {"post", "drop", "kept", "lost", "confirm"}

Typed == TypeOK /\ ImportsNamed /\ AllPlaced /\ CallsPlaced

\* What a call makes of a store is a store.
LEMMA ChangedTyped ==
    ASSUME NEW p \in Proc, NEW call, NEW s \in Stores,
           call.op = "import" => call.ids \subseteq Proc
    PROVE  Changed(p, call, s) \in Stores
  <1>1. CASE call.op = "add"
    BY <1>1 DEF Changed, Stores, Ids
  <1>2. CASE call.op = "delete"
    BY <1>2 DEF Changed, Stores, Ids
  <1>3. CASE call.op = "import"
    BY <1>3 DEF Changed, Stores, Ids
  <1>4. CASE call.op \notin {"add", "delete", "import"}
    BY <1>4 DEF Changed
  <1>. QED
    BY <1>1, <1>2, <1>3, <1>4

\* The empty store and no call are a store and a call.
LEMMA NothingTyped ==
    /\ Empty \in Stores
    /\ NoCall \in [op : {"none", "get", "add", "delete", "import"}, ids : SUBSET Ids]
    /\ NoCall.op = "none" /\ NoCall.ids = {}
  BY DEF Empty, Stores, Ids, NoCall

\* The rest of a call.
LEMMA ApplyTyped ==
    ASSUME NEW p \in Proc, NEW call, NEW s \in Stores, KeystoreTypeOK, ImportsNamed,
           call.op = "import" => call.ids \subseteq Proc, Apply(p, call, s)
    PROVE  /\ ks' \in [Proc -> {"idle", "load", "unlock", "master", "mint", "minted",
                                "open", "fill", "throw"}]
           /\ todo' \in [Proc -> [op : {"none", "get", "add", "delete", "import"},
                                  ids : SUBSET Ids]]
           /\ cache' \in [Proc -> Stores]
           /\ ImportsNamed'
  BY ChangedTyped, NothingTyped DEF Apply, KeystoreTypeOK, ImportsNamed

\* The steps of the key manager.
LEMMA KeystoreStepTyped ==
    ASSUME NEW p \in Proc, KeystoreTypeOK, ImportsNamed, KeystoreStep(p)
    PROVE  KeystoreTypeOK' /\ ImportsNamed'
  <1>0. todo[p].op = "import" => todo[p].ids \subseteq Proc
    BY DEF ImportsNamed
  <1>2. CASE Load(p)
    BY <1>2 DEF Load, KeystoreTypeOK, ImportsNamed
  <1>3. CASE Unlock(p)
    <2>1. cache[p] \in Stores
      BY DEF KeystoreTypeOK
    <2>2. CASE master = seen[p]
      BY <1>0, <1>3, <2>1, <2>2, ApplyTyped DEF Unlock, KeystoreTypeOK
    <2>3. CASE master # seen[p]
      BY <1>3, <2>3, NothingTyped DEF Unlock, KeystoreTypeOK, ImportsNamed
    <2>. QED BY <2>2, <2>3
  <1>4. CASE GetMaster(p)
    <2>1. CASE master # None
      <3>1. PICK s \in {"throw", "open"} : ks' = [ks EXCEPT ![p] = s]
        BY <1>4, <2>1 DEF GetMaster
      <3>. QED BY <1>4, <2>1, <3>1 DEF GetMaster, KeystoreTypeOK, ImportsNamed
    <2>2. CASE master = None
      BY <1>4, <2>2 DEF GetMaster, KeystoreTypeOK, ImportsNamed
    <2>. QED BY <2>1, <2>2
  <1>5. CASE MintMaster(p)
    BY <1>5 DEF MintMaster, KeystoreTypeOK, ImportsNamed
  <1>6. CASE FillMaster(p)
    BY <1>6 DEF FillMaster, KeystoreTypeOK, ImportsNamed
  <1>7. CASE OpenFile(p)
    BY <1>7, NothingTyped DEF OpenFile, KeystoreTypeOK, ImportsNamed
  <1>8. CASE FillFile(p)
    <2>1. cache[p] \in Stores
      BY DEF KeystoreTypeOK
    <2>2. file' \in [state : {"absent", "torn", "ok"}, keys : Stores,
                     under : Proc \cup {None, Torn}]
      BY <1>8, <2>1, NothingTyped DEF FillFile, KeystoreTypeOK
    <2>3. CASE todo[p] = NoCall
      BY <1>8, <2>2, <2>3 DEF FillFile, KeystoreTypeOK, ImportsNamed
    <2>4. CASE todo[p] # NoCall
      BY <1>0, <1>8, <2>1, <2>2, <2>4, ApplyTyped DEF FillFile, KeystoreTypeOK
    <2>. QED BY <2>3, <2>4
  <1>. QED
    BY <1>2, <1>3, <1>4, <1>5, <1>6, <1>7, <1>8 DEF KeystoreStep

\* A call, and the end of a process.
LEMMA CallTyped ==
    ASSUME NEW p \in Proc, NEW op \in {"none", "get", "add", "delete", "import"},
           NEW ids \in SUBSET Ids, op = "import" => ids \subseteq Proc,
           KeystoreTypeOK, ImportsNamed, Call(p, op, ids)
    PROVE  KeystoreTypeOK' /\ ImportsNamed'
  <1>. DEFINE call == [op |-> op, ids |-> ids]
  <1>1. CASE mkey[p] # None
    <2>1. Apply(p, call, cache[p]) /\ UNCHANGED <<file, master, seen, mkey>>
      BY <1>1 DEF Call
    <2>2. cache[p] \in Stores /\ (call.op = "import" => call.ids \subseteq Proc)
      BY DEF KeystoreTypeOK
    <2>. HIDE DEF call
    <2>. QED BY <2>1, <2>2, ApplyTyped DEF KeystoreTypeOK
  <1>2. CASE mkey[p] = None
    <2>1. /\ todo' = [todo EXCEPT ![p] = call] /\ ks' = [ks EXCEPT ![p] = "load"]
          /\ UNCHANGED <<file, master, cache, seen, mkey>>
      BY <1>2 DEF Call
    <2>2. call \in [op : {"none", "get", "add", "delete", "import"}, ids : SUBSET Ids]
      OBVIOUS
    <2>3. call.op = "import" => call.ids \subseteq Proc
      OBVIOUS
    <2>. HIDE DEF call
    <2>4. KeystoreTypeOK'
      BY <2>1, <2>2 DEF KeystoreTypeOK
    <2>5. ImportsNamed'
      BY <2>1, <2>3 DEF KeystoreTypeOK, ImportsNamed
    <2>. QED BY <2>4, <2>5
  <1>. QED BY <1>1, <1>2

\* A file call that fails.
LEMMA FailureTyped ==
    ASSUME NEW p \in Proc, KeystoreTypeOK, ImportsNamed, LoadFails(p) \/ CallThrows(p)
    PROVE  KeystoreTypeOK' /\ ImportsNamed'
  <1>1. CASE LoadFails(p)
    BY <1>1, NothingTyped DEF LoadFails, KeystoreTypeOK, ImportsNamed
  <1>2. CASE CallThrows(p)
    BY <1>2 DEF CallThrows, KeystoreTypeOK, ImportsNamed
  <1>. QED BY <1>1, <1>2

\* What a process knew of the keystore is forgotten with it.
LEMMA ForgetTyped ==
    ASSUME NEW p \in Proc, KeystoreTypeOK, ImportsNamed, Forget(p)
    PROVE  KeystoreTypeOK' /\ ImportsNamed'
  BY NothingTyped DEF Forget, KeystoreTypeOK, ImportsNamed

\* The first state.
LEMMA PlacedInit == Init => AllPlaced /\ CallsPlaced
  BY DEF Init, RuntimeInit, KeystoreInit, AllPlaced, Placed, CallsPlaced

\* A process that goes on or ends, with the statements that its task allows.
LEMMA GoPlaced ==
    ASSUME NEW p \in Proc, NEW s \in Statements \ {"new"}, ProcessesTyped, AllPlaced,
           Go(p, s), at[p] # "new", at[p] # "over",
           task[p] = "upgrade" => s \in Docker \cup {"replace", "stop", "remove"},
           task[p] \in {"start", "restarted"} => s \in Docker,
           task[p] = "stop" => s \in {"check", "inspect", "stop"},
           task[p] = "restart" => s \in {"check", "inspect", "restart", "wait"},
           task[p] = "backup" => s \in {"probe", "up", "wait", "ready"} \cup Kept,
           task[p] = "infra start" => s \in {"up", "wait"},
           task[p] = "infra stop" => s \in {"compose stop"},
           task[p] = "infra restart" => s \in {"compose restart", "wait"},
           task[p] \in {"get", "delete", "import"} => s \in {"key", "confirm", "kept"}
    PROVE  AllPlaced'
  <1>. SUFFICES ASSUME NEW q \in Proc PROVE Placed(q)'
    BY DEF AllPlaced
  <1>1. CASE q # p
    BY <1>1 DEF AllPlaced, Placed, Go, ProcessesTyped
  <1>2. CASE q = p
    <2>1. task'[p] = task[p] /\ told'[p] = told[p] /\ at'[p] = s /\ told[p] = "none"
      BY DEF AllPlaced, Placed, Go, ProcessesTyped
    <2>. QED BY <1>2, <2>1 DEF AllPlaced, Placed, Statements
  <1>. QED BY <1>1, <1>2

\* A process that ends.
LEMMA EndPlaced ==
    ASSUME NEW p \in Proc, NEW o \in {"ok", "failed"}, ProcessesTyped, AllPlaced,
           End(p, o), at[p] # "new"
    PROVE  AllPlaced'
  <1>. SUFFICES ASSUME NEW q \in Proc PROVE Placed(q)'
    BY DEF AllPlaced
  <1>1. CASE q # p
    BY <1>1 DEF AllPlaced, Placed, End, ProcessesTyped
  <1>2. CASE q = p
    <2>1. task'[p] = task[p] /\ told'[p] = o /\ at'[p] = "over"
      BY DEF End, ProcessesTyped
    <2>. QED BY <1>2, <2>1 DEF AllPlaced, Placed, Docker
  <1>. QED BY <1>1, <1>2

\* The steps of the runtime.
LEMMA RuntimePlaced ==
    ASSUME NEW p \in Proc, ProcessesTyped, AllPlaced, RuntimeStep(p)
    PROVE  AllPlaced'
  <1>0. Placed(p) /\ task[p] \in Tasks
    BY DEF AllPlaced, ProcessesTyped
  <1>1. CASE Probe(p)
    <2>1. PICK s \in {"ready", "up"} : Go(p, s)
      BY <1>1 DEF Probe
    <2>2. task[p] = "backup"
      BY <1>0, <1>1 DEF Probe, Placed, Tasks, Docker
    <2>. QED BY <1>1, <2>1, <2>2, GoPlaced DEF Probe, Statements
  <1>2. CASE CheckPrerequisites(p)
    <2>1. task[p] \in {"start", "restarted", "upgrade", "stop", "restart"}
      BY <1>0, <1>2 DEF CheckPrerequisites, Placed, Tasks, Kept
    <2>. QED BY <1>2, <2>1, GoPlaced, EndPlaced DEF CheckPrerequisites, Statements, Docker
  <1>3. CASE Inspect(p)
    <2>c. PICK c \in {container, Missing} : \E outdated \in Outdated(p, c) :
                                             Decide(p, c, outdated)
      BY <1>3 DEF Inspect
    <2>0. PICK outdated \in Outdated(p, c) : Decide(p, c, outdated)
      BY <2>c
    <2>t. at[p] = "inspect"
      BY <1>3 DEF Inspect
    <2>1. CASE task[p] = "stop" /\ Go(p, "stop")
      BY <2>t, <2>1, GoPlaced DEF Statements
    <2>2. CASE End(p, "ok")
      BY <2>t, <2>2, EndPlaced
    <2>3. CASE task[p] = "restart" /\ Go(p, "restart")
      BY <2>t, <2>3, GoPlaced DEF Statements
    <2>4. CASE /\ task[p] = "restart"
               /\ task' = [task EXCEPT ![p] = "restarted"] /\ at' = [at EXCEPT ![p] = "check"]
               /\ UNCHANGED <<asks, saw, told>>
      BY <1>0, <2>t, <2>4 DEF AllPlaced, Placed, ProcessesTyped, Docker
    <2>5. CASE task[p] = "upgrade" /\ Go(p, "replace")
      BY <2>t, <2>5, GoPlaced DEF Statements
    <2>6. CASE task[p] \in {"start", "restarted", "upgrade"} /\ Go(p, "wait")
      BY <2>t, <2>6, GoPlaced DEF Statements, Docker
    <2>7. CASE /\ task[p] \in {"start", "restarted", "upgrade"}
               /\ at' = [at EXCEPT ![p] = "port"] /\ UNCHANGED <<task, told>>
      BY <1>0, <2>t, <2>7 DEF AllPlaced, Placed, ProcessesTyped, Docker
    <2>8. outdated => task[p] = "upgrade"
      BY DEF Outdated
    <2>. QED
      BY <2>0, <2>1, <2>2, <2>3, <2>4, <2>5, <2>6, <2>7, <2>8 DEF Decide
  <1>4. CASE Replace(p)
    <2>1. CASE \E s \in {"stop", "remove"} : Go(p, s)
      <3>1. task[p] = "upgrade"
        BY <1>0, <1>4 DEF Replace, Placed, Tasks, Docker, Kept
      <3>. QED BY <1>4, <2>1, <3>1, GoPlaced DEF Replace, Statements
    <2>. QED BY <1>4, <2>1, EndPlaced DEF Replace
  <1>5. CASE Stop(p)
    <2>1. CASE \E o \in {"ok", "failed"} : End(p, o)
      BY <1>5, <2>1, EndPlaced DEF Stop
    <2>2. CASE task[p] = "upgrade" /\ Go(p, "remove")
      BY <1>5, <2>2, GoPlaced DEF Stop, Statements
    <2>. QED BY <1>5, <2>1, <2>2 DEF Stop, DockerFails
  <1>6. CASE ComposeStop(p)
    BY <1>6, EndPlaced DEF ComposeStop, DockerFails
  <1>7. CASE Remove(p)
    <2>1. task[p] = "upgrade"
      BY <1>0, <1>7 DEF Remove, Placed, Tasks, Docker, Kept
    <2>. QED BY <1>7, <2>1, GoPlaced DEF Remove, Statements, Docker
  <1>8. CASE ConnectPort(p)
    <2>1. task[p] \in {"start", "restarted", "upgrade"}
      BY <1>0, <1>8 DEF ConnectPort, Placed, Tasks, Kept
    <2>2. PICK s \in {"owner", "start", "image"} : at' = [at EXCEPT ![p] = s]
      BY <1>8 DEF ConnectPort
    <2>3. told[p] = "none"
      BY <1>0, <1>8 DEF ConnectPort, Placed
    <2>4. /\ UNCHANGED <<task, told>> /\ at'[p] \in {"owner", "start", "image"}
          /\ \A q \in Proc \ {p} : at'[q] = at[q]
      BY <1>8, <2>2 DEF ConnectPort, ProcessesTyped
    <2>5. Placed(p)'
      BY <2>1, <2>3, <2>4 DEF Placed, Docker
    <2>. QED BY <2>4, <2>5 DEF AllPlaced, Placed
  <1>9. CASE CheckOwner(p)
    <2>1. CASE End(p, "failed")
      BY <1>9, <2>1, EndPlaced DEF CheckOwner
    <2>2. CASE \E s \in {"start", "image"} : Go(p, s)
      <3>1. task[p] \in {"start", "restarted", "upgrade"}
        BY <1>0, <1>9 DEF CheckOwner, Placed, Tasks, Kept
      <3>. QED BY <1>9, <2>2, <3>1, GoPlaced DEF CheckOwner, Statements, Docker
    <2>. QED BY <1>9, <2>1, <2>2 DEF CheckOwner
  <1>10. CASE Start(p) \/ EnsureImage(p)
    <2>1. task[p] \in {"start", "restarted", "upgrade"}
      BY <1>0, <1>10 DEF Start, EnsureImage, Placed, Tasks, Kept
    <2>. QED
      BY <1>10, <2>1, GoPlaced, EndPlaced DEF Start, EnsureImage, DockerFails, Statements,
                                             Docker
  <1>11. CASE ComposeUp(p)
    <2>1. task[p] \in {"start", "restarted", "upgrade", "backup", "infra start"}
      BY <1>0, <1>11 DEF ComposeUp, Placed, Tasks
    <2>. QED
      BY <1>11, <2>1, GoPlaced, EndPlaced DEF ComposeUp, DockerFails, Statements, Docker
  <1>12. CASE Restart(p) \/ ComposeRestart(p)
    <2>1. task[p] \in {"restart", "infra restart"}
      BY <1>0, <1>12 DEF Restart, ComposeRestart, Placed, Tasks, Docker, Kept
    <2>. QED
      BY <1>12, <2>1, GoPlaced, EndPlaced DEF Restart, ComposeRestart, RestartBy, DockerFails,
                                             Statements
  <1>13. CASE Wait(p)
    <2>1. CASE /\ task[p] = "restarted" /\ task' = [task EXCEPT ![p] = "start"]
               /\ UNCHANGED <<asks, at, saw, told>>
      BY <1>0, <1>13, <2>1 DEF Wait, AllPlaced, Placed, ProcessesTyped, Docker
    <2>. QED BY <1>13, <2>1, EndPlaced DEF Wait
  <1>14. CASE WaitForServices(p)
    BY <1>14, GoPlaced, EndPlaced DEF WaitForServices, Statements
  <1>. QED
    BY <1>1, <1>2, <1>3, <1>4, <1>5, <1>6, <1>7, <1>8, <1>9, <1>10, <1>11, <1>12, <1>13,
       <1>14 DEF RuntimeStep

\* The steps of a command.
LEMMA CommandPlaced ==
    ASSUME NEW p \in Proc, ProcessesTyped, AllPlaced, CallsPlaced, CommandNext(p)
    PROVE  AllPlaced'
  <1>0. Placed(p) /\ task[p] \in Tasks
    BY DEF AllPlaced, ProcessesTyped
  <1>1. CASE Begin(p)
    <2>1. PICK c \in Menu[p] :
            /\ task' = [task EXCEPT ![p] = c]
            /\ at' = [at EXCEPT ![p] = IF c \in DOMAIN Entry THEN Entry[c] ELSE "key"]
      BY <1>1 DEF Begin
    <2>2. c \in RuntimeTasks \cup InfraTasks \cup {"get", "delete", "import"}
      BY BackupCommandAssumption, Entries
    <2>3. told' = told /\ told[p] = "none"
      BY <1>0, <1>1 DEF Begin, Placed
    <2>4. Placed(p)'
      <3>1. task'[p] = c /\ told'[p] = "none"
            /\ at'[p] = IF c \in DOMAIN Entry THEN Entry[c] ELSE "key"
        BY <2>1, <2>3 DEF ProcessesTyped
      <3>2. CASE c \in RuntimeTasks
        BY <3>1, <3>2, Entries DEF Placed, Entry, RuntimeTasks, InfraTasks, Docker
      <3>3. CASE c \in InfraTasks
        BY <3>1, <3>3, Entries DEF Placed, Entry, RuntimeTasks, InfraTasks, Docker
      <3>4. CASE c \in {"get", "delete", "import"}
        BY <3>1, <3>4, Entries DEF Placed, RuntimeTasks, InfraTasks, Docker
      <3>. QED BY <2>2, <3>2, <3>3, <3>4
    <2>5. ASSUME NEW q \in Proc, q # p PROVE Placed(q)'
      BY <2>1, <2>3, <2>5 DEF AllPlaced, Placed, ProcessesTyped
    <2>. QED BY <2>4, <2>5 DEF AllPlaced
  <1>2. CASE KeepPending(p) \/ KeepKey(p) \/ DropPending(p)
    <2>1. task[p] = "backup"
      BY <1>0, <1>2 DEF KeepPending, KeepKey, DropPending, Idle, Placed, Tasks, Docker
    <2>2. PICK s \in {"post", "drop", "kept", "lost"} : Go(p, s)
      BY <1>2 DEF KeepPending, KeepKey, DropPending, CallKeystore
    <2>3. at[p] \notin {"new", "over"}
      BY <1>2 DEF KeepPending, KeepKey, DropPending, Idle
    <2>. QED BY <2>1, <2>2, <2>3, GoPlaced DEF Statements, Kept
  <1>3. CASE UseKey(p) \/ Confirm(p)
    <2>1. task[p] \in {"get", "delete", "import"}
      BY <1>0, <1>3 DEF UseKey, Confirm, Idle, Placed, Tasks, Docker, Kept
    <2>2. PICK s \in {"kept", "confirm"} : Go(p, s)
      BY <1>3 DEF UseKey, Confirm, CallKeystore
    <2>3. at[p] \notin {"new", "over"}
      BY <1>3 DEF UseKey, Confirm, Idle
    <2>. QED BY <2>1, <2>2, <2>3, GoPlaced DEF Statements
  <1>4. CASE Post(p) \/ Poll(p)
    <2>1. CASE Exit(p, "failed")
      BY <1>4, <2>1, EndPlaced DEF Post, Poll, Idle, Exit
    <2>2. CASE \E s \in {"poll", "keep", "discard"} : Go(p, s)
      <3>1. task[p] = "backup"
        BY <1>0, <1>4 DEF Post, Poll, Idle, Placed, Tasks, Docker
      <3>. QED BY <1>4, <2>2, <3>1, GoPlaced DEF Post, Poll, Idle, Statements, Kept
    <2>. QED BY <1>4, <2>1, <2>2 DEF Post, Poll
  <1>5. CASE Finish(p) \/ Interrupt(p) \/ Decline(p)
    BY <1>5, EndPlaced DEF Finish, Interrupt, Decline, Idle, Exit
  <1>6. CASE Throw(p)
    <2>1. at[p] # "new"
      BY <1>6 DEF Throw, CallsPlaced
    <2>. QED BY <1>6, <2>1, EndPlaced DEF Throw, Exit
  <1>7. CASE FileFails(p)
    BY <1>7 DEF FileFails, runtimeVars, AllPlaced, Placed
  <1>. QED
    BY <1>1, <1>2, <1>3, <1>4, <1>5, <1>6, <1>7 DEF CommandNext

\* Who has a call under way.
LEMMA CallsPlacedNext ==
    ASSUME KeystoreTypeOK, ProcessesTyped, AllPlaced, CallsPlaced, [Next]_vars
    PROVE  CallsPlaced'
  <1>. USE DEF CallsPlaced
  <1>1. CASE \E p \in Proc : RuntimeStep(p) /\ RuntimeOnly
    <2>1. PICK p \in Proc : RuntimeStep(p) /\ RuntimeOnly
      BY <1>1
    <2>2. ks[p] = "idle" /\ ks' = ks
      BY <2>1 DEF RuntimeStep, Probe, CheckPrerequisites, Inspect, Replace, Stop, ComposeStop,
                  Remove, ConnectPort, CheckOwner, Start, EnsureImage, ComposeUp, Restart,
                  ComposeRestart, Wait, WaitForServices, RuntimeOnly, keyVars
    <2>3. ASSUME NEW q \in Proc, q # p PROVE at'[q] = at[q]
      <3>1. \/ at' = at
            \/ \E s \in Statements : at' = [at EXCEPT ![p] = s]
        BY <2>1 DEF RuntimeStep, Probe, CheckPrerequisites, Inspect, Replace, Stop,
                    ComposeStop, Remove, ConnectPort, CheckOwner, Start, EnsureImage,
                    ComposeUp, Restart, ComposeRestart, RestartBy, Wait, WaitForServices,
                    DockerFails, Decide, Go, End, Statements
      <3>. QED BY <2>3, <3>1 DEF ProcessesTyped
    <2>. QED BY <2>2, <2>3
  <1>2. CASE \E p \in Proc : KeystoreStep(p) /\ UNCHANGED <<runtimeVars, exposed, crashes,
                                                           faults>>
    <2>1. PICK p \in Proc : KeystoreStep(p) /\ UNCHANGED runtimeVars
      BY <1>2
    <2>2. ks[p] # "idle" /\ \A q \in Proc \ {p} : ks'[q] = ks[q]
      BY <2>1 DEF KeystoreStep, Load, Unlock, GetMaster, MintMaster, FillMaster,
                  OpenFile, FillFile, Apply, KeystoreTypeOK
    <2>. QED BY <2>1, <2>2 DEF runtimeVars
  <1>3. CASE \E p \in Proc : CommandNext(p)
    <2>1. PICK p \in Proc : CommandNext(p)
      BY <1>3
    <2>2. CASE Begin(p)
      <3>1. ks' = ks /\ ks[p] = "idle" /\ \A q \in Proc \ {p} : at'[q] = at[q]
        BY <2>2 DEF Begin, keyVars, ProcessesTyped
      <3>. QED BY <3>1
    <2>3. CASE \E op, ids : \E s \in {"post", "drop", "kept", "lost", "confirm"} :
                 CallKeystore(p, op, ids, s)
      <3>1. PICK op, ids : \E s \in {"post", "drop", "kept", "lost", "confirm"} :
                             Call(p, op, ids) /\ Go(p, s)
        BY <2>3 DEF CallKeystore
      <3>2. \A q \in Proc \ {p} : ks'[q] = ks[q]
        BY <3>1 DEF Call, Apply, KeystoreTypeOK
      <3>. QED BY <3>1, <3>2 DEF Go, ProcessesTyped
    <2>4. CASE \E o : Exit(p, o)
      BY <2>4 DEF Exit, End, Forget, ProcessesTyped, KeystoreTypeOK
    <2>5. CASE (Post(p) \/ Poll(p)) /\ UNCHANGED keyVars
      <3>1. ks' = ks /\ ks[p] = "idle"
        BY <2>5 DEF Post, Poll, Idle, keyVars
      <3>2. CASE \E s \in Statements : Go(p, s)
        BY <3>1, <3>2 DEF Go, ProcessesTyped
      <3>. QED BY <2>4, <2>5, <3>2 DEF Post, Poll, Statements
    <2>. QED
      <3>1. CASE KeepPending(p)
        BY <2>3, <3>1 DEF KeepPending
      <3>2. CASE KeepKey(p)
        BY <2>3, <3>2 DEF KeepKey
      <3>3. CASE DropPending(p)
        BY <2>3, <3>3 DEF DropPending
      <3>4. CASE UseKey(p) \/ Confirm(p)
        BY <2>3, <3>4 DEF UseKey, Confirm
      <3>5. CASE Post(p) \/ Poll(p)
        BY <2>4, <2>5, <3>5 DEF Post, Poll
      <3>6. CASE FileFails(p)
        <4>1. ks[p] # "idle" /\ (\A q \in Proc \ {p} : ks'[q] = ks[q]) /\ at' = at
          BY <3>6 DEF FileFails, LoadFails, CallThrows, KeystoreTypeOK, runtimeVars
        <4>. QED BY <4>1
      <3>. QED
        BY <2>1, <2>2, <2>4, <3>1, <3>2, <3>3, <3>4, <3>5, <3>6 DEF CommandNext, Finish, Throw,
                                                             Interrupt, Decline
  <1>4. CASE (Boot \/ Degrade) /\ RuntimeOnly
    BY <1>4 DEF Boot, Degrade, RuntimeOnly, keyVars
  <1>5. CASE UNCHANGED vars
    BY <1>5 DEF vars, runtimeVars, keyVars
  <1>. QED
    BY <1>1, <1>2, <1>3, <1>4, <1>5 DEF Next

\* Where the processes are.
LEMMA PlacedNext ==
    ASSUME ProcessesTyped, AllPlaced, CallsPlaced, [Next]_vars
    PROVE  AllPlaced'
  <1>1. CASE \E p \in Proc : RuntimeStep(p)
    BY <1>1, RuntimePlaced
  <1>2. CASE \E p \in Proc : CommandNext(p)
    BY <1>2, CommandPlaced
  <1>3. CASE UNCHANGED <<task, at, told>>
    BY <1>3 DEF AllPlaced, Placed
  <1>. QED
    BY <1>1, <1>2, <1>3 DEF Next, runtimeVars, vars, Boot, Degrade

\* The first state.
LEMMA TypedInit == Init => Typed
  <1>. SUFFICES ASSUME Init PROVE Typed
    OBVIOUS
  <1>1. KeystoreTypeOK /\ ImportsNamed
    BY NothingTyped DEF Init, KeystoreInit, KeystoreTypeOK, ImportsNamed
  <1>2. ProcessesTyped
    BY DEF Init, RuntimeInit, ProcessesTyped, Tasks, Statements, Images
  <1>3. HostTyped
    <2>1. [state |-> "stopped", image |-> "old", healthy |-> FALSE] \in Containers
      BY DEF Containers, Images
    <2>. QED BY <2>1, ContainerFields DEF Init, RuntimeInit, HostTyped
  <1>4. CountersTyped
    <2>1. MaxFaults \in Nat /\ MaxCrashes \in Nat
      BY RuntimeAssumption, BackupCommandAssumption
    <2>2. 0 \in 0..MaxFaults /\ 0 \in 0..MaxCrashes
      BY <2>1
    <2>. QED BY <2>2 DEF Init, RuntimeInit, CountersTyped
  <1>. QED
    BY <1>1, <1>2, <1>3, <1>4, TypesByParts, PlacedInit DEF Typed

\* The steps of a command.
LEMMA CommandTyped ==
    ASSUME NEW p \in Proc, Typed, CommandNext(p)
    PROVE  TypeOK' /\ ImportsNamed'
  <1>1. /\ KeystoreTypeOK /\ ImportsNamed /\ ProcessesTyped /\ HostTyped /\ CountersTyped
    BY TypesByParts DEF Typed
  <1>2. HostTyped'
    BY <1>1 DEF CommandNext, Begin, KeepPending, Post, Poll, KeepKey, DropPending, UseKey,
                Confirm, Decline, Finish, Throw, Interrupt, FileFails, CallKeystore,
                CommandOnly, runtimeVars, HostTyped
  <1>3. SUFFICES /\ KeystoreTypeOK' /\ ImportsNamed' /\ ProcessesTyped' /\ CountersTyped'
    BY <1>2, TypesByPartsNext
  <1>4. CASE Begin(p)
    <2>1. PICK c \in Menu[p], image \in {"default", "custom"} :
            /\ task' = [task EXCEPT ![p] = c] /\ asks' = [asks EXCEPT ![p] = image]
            /\ at' = [at EXCEPT ![p] = IF c \in DOMAIN Entry THEN Entry[c] ELSE "key"]
      BY <1>4 DEF Begin
    <2>2. c \in Tasks /\ image \in Images
      BY BackupCommandAssumption, Entries DEF Tasks, RuntimeTasks, InfraTasks, Images
    <2>3. (IF c \in DOMAIN Entry THEN Entry[c] ELSE "key") \in Statements
      BY EntryIsStatement DEF Statements
    <2>4. ProcessesTyped'
      BY <1>1, <1>4, <2>1, <2>2, <2>3 DEF Begin, ProcessesTyped
    <2>. QED
      BY <1>1, <1>4, <2>4 DEF Begin, CommandOnly, KeystoreTypeOK, ImportsNamed,
                              CountersTyped, keyVars
  <1>5. CASE \E op \in {"get", "add", "delete", "import"}, ids \in SUBSET Ids,
               s \in Statements :
               /\ op = "import" => ids \subseteq Proc
               /\ CallKeystore(p, op, ids, s)
    <2>1. exposed' \subseteq Proc
      BY <1>1, <1>5 DEF CallKeystore, CountersTyped, Done, InUse
    <2>. QED BY <1>1, <1>5, <2>1, CallTyped, GoTyped DEF CallKeystore, CountersTyped
  <1>6. CASE KeepPending(p) \/ KeepKey(p) \/ DropPending(p)
    <2>1. {"pending"} \in SUBSET Ids /\ {p} \in SUBSET Ids
      BY DEF Ids
    <2>. QED
      BY <1>5, <1>6, <2>1 DEF KeepPending, KeepKey, DropPending, Statements
  <1>7. CASE UseKey(p) \/ Confirm(p)
    <2>1. {} \in SUBSET Ids /\ (\A ids \in SUBSET Done : ids \in SUBSET Ids /\ ids \subseteq Proc)
          /\ (\A i \in Proc : {i} \in SUBSET Ids)
      BY DEF Ids, Done
    <2>2. CASE Confirm(p)
      BY <1>5, <2>1, <2>2 DEF Confirm, Statements
    <2>3. CASE UseKey(p)
      BY <1>5, <2>1, <2>3 DEF UseKey, Statements
    <2>. QED BY <1>7, <2>2, <2>3
  <1>8. CASE Post(p) \/ Poll(p)
    <2>1. ProcessesTyped'
      BY <1>1, <1>8, GoTyped, EndTyped DEF Post, Poll, Exit, Statements
    <2>2. KeystoreTypeOK' /\ ImportsNamed'
      <3>1. CASE UNCHANGED keyVars
        BY <1>1, <3>1 DEF KeystoreTypeOK, ImportsNamed, keyVars
      <3>. QED BY <1>1, <1>8, <3>1, ForgetTyped DEF Post, Poll, Exit
    <2>. QED
      BY <1>1, <1>8, <2>1, <2>2, FaultsTyped DEF Post, Poll, CommandOnly
  <1>9. CASE Finish(p) \/ Throw(p) \/ Decline(p)
    <2>1. PICK o \in {"ok", "failed"} : Exit(p, o)
      BY <1>9 DEF Finish, Throw, Decline
    <2>. QED
      BY <1>1, <1>9, <2>1, EndTyped, ForgetTyped DEF Finish, Throw, Decline, Exit, CommandOnly,
                                                    CountersTyped
  <1>10. CASE Interrupt(p)
    <2>1. crashes' \in 0..MaxCrashes
      BY <1>1, <1>10, BackupCommandAssumption DEF Interrupt, CountersTyped
    <2>2. exposed' \subseteq Proc
      BY <1>1, <1>10 DEF Interrupt, CountersTyped, Done
    <2>. QED
      BY <1>1, <1>10, <2>1, <2>2, EndTyped, ForgetTyped DEF Interrupt, Exit, CountersTyped
  <1>11. CASE FileFails(p)
    <2>1. KeystoreTypeOK' /\ ImportsNamed'
      BY <1>1, <1>11, FailureTyped DEF FileFails
    <2>2. exposed' \subseteq Proc
      BY <1>1, <1>11 DEF FileFails, CountersTyped, Done
    <2>3. CountersTyped'
      BY <1>1, <1>11, <2>2, FaultTyped DEF FileFails, CountersTyped
    <2>. QED BY <1>1, <1>11, <2>1, <2>3 DEF FileFails, runtimeVars, ProcessesTyped
  <1>. QED
    BY <1>4, <1>6, <1>7, <1>8, <1>9, <1>10, <1>11 DEF CommandNext

\* The types are kept by every step.
LEMMA TypedNext == Typed /\ [Next]_vars => Typed'
  <1>. SUFFICES ASSUME Typed, [Next]_vars PROVE TypeOK' /\ ImportsNamed'
    BY TypesByParts, PlacedNext, CallsPlacedNext DEF Typed
  <1>1. /\ KeystoreTypeOK /\ ImportsNamed /\ ProcessesTyped /\ HostTyped /\ CountersTyped
    BY TypesByParts DEF Typed
  <1>2. CASE \E p \in Proc : RuntimeStep(p) /\ RuntimeOnly
    <2>1. ProcessesTyped' /\ HostTyped' /\ CountersTyped'
      BY <1>1, <1>2, RuntimeMoves, RuntimeHost, FaultsTyped DEF RuntimeOnly
    <2>2. KeystoreTypeOK' /\ ImportsNamed'
      BY <1>1, <1>2 DEF RuntimeOnly, KeystoreTypeOK, ImportsNamed, keyVars
    <2>. QED BY <2>1, <2>2, TypesByPartsNext
  <1>3. CASE \E p \in Proc : KeystoreStep(p) /\ UNCHANGED <<runtimeVars, exposed, crashes,
                                                           faults>>
    <2>1. KeystoreTypeOK' /\ ImportsNamed'
      BY <1>1, <1>3, KeystoreStepTyped
    <2>2. ProcessesTyped' /\ HostTyped' /\ CountersTyped'
      BY <1>1, <1>3 DEF runtimeVars, ProcessesTyped, HostTyped, CountersTyped
    <2>. QED BY <2>1, <2>2, TypesByPartsNext
  <1>4. CASE \E p \in Proc : CommandNext(p)
    BY <1>4, CommandTyped
  <1>5. CASE (Boot \/ Degrade) /\ RuntimeOnly
    <2>1. HostTyped'
      BY <1>1, <1>5 DEF Boot, Degrade, HostTyped, Containers
    <2>2. KeystoreTypeOK' /\ ImportsNamed'
      BY <1>1, <1>5 DEF RuntimeOnly, KeystoreTypeOK, ImportsNamed, keyVars
    <2>3. ProcessesTyped'
      BY <1>1, <1>5 DEF Boot, Degrade, ProcessesTyped
    <2>4. CountersTyped'
      BY <1>1, <1>5, FaultsTyped DEF Boot, Degrade, RuntimeOnly
    <2>. QED BY <2>1, <2>2, <2>3, <2>4, TypesByPartsNext
  <1>6. CASE UNCHANGED vars
    <2>1. KeystoreTypeOK' /\ ImportsNamed'
      BY <1>1, <1>6 DEF vars, keyVars, KeystoreTypeOK, ImportsNamed
    <2>2. ProcessesTyped' /\ HostTyped' /\ CountersTyped'
      BY <1>1, <1>6 DEF vars, runtimeVars, ProcessesTyped, HostTyped, CountersTyped
    <2>. QED BY <2>1, <2>2, TypesByPartsNext
  <1>. QED
    BY <1>2, <1>3, <1>4, <1>5, <1>6 DEF Next

\* Always typed.
LEMMA AlwaysTyped == Spec => []Typed
  BY TypedInit, TypedNext, PTL DEF Spec

(***************************************************************************)
(* The variables of the commands have their types in every state.          *)
(***************************************************************************)
THEOREM CommandTypeCorrect == Spec => []TypeOK
  BY AlwaysTyped, PTL DEF Typed

-----------------------------------------------------------------------------
(***************************************************************************)
(* The container.  No other program holds the port of one that runs, and   *)
(* every process that was told that the services are up found them so:     *)
(* a container that is missing after that was removed by an upgrade.       *)
(***************************************************************************)
ContainerSound ==
  /\ container.healthy => container.state = "running"
  /\ container.state = "running" => ~foreign

Served(p) ==
  \/ task[p] = "backup" /\ at[p] \in {"ready"} \cup Kept
  \/ told[p] = "ok" /\ task[p] \in {"start", "upgrade", "backup"}

Upgrading(p) == task[p] = "upgrade" /\ told[p] # "ok"

ServiceKept ==
  container.state = "missing" /\ (\E p \in Proc : Served(p)) => \E u \in Proc : Upgrading(u)

HostSound == ContainerSound /\ ServiceKept

\* What the docker commands leave.
LEMMA ContainerStates ==
    /\ Missing.state = "missing" /\ ~Missing.healthy
    /\ \A i : Booting(i).state = "running" /\ ~Booting(i).healthy
    /\ HostTyped => /\ ~Stopped.healthy /\ Stopped.state # "running"
                    /\ Stopped.state = "missing" => container.state = "missing"
  BY DEF Missing, Booting, Stopped, HostTyped, Containers

\* A command that starts something leaves the container alone, or boots one on a free port;
\* or it leaves one stopped, as the port is taken.
LEMMA StartStates ==
    ASSUME NEW p \in Proc
    PROVE  /\ \/ Started = container
              \/ ~foreign /\ Started = Booting(container.image)
           /\ \/ Restarted = container
              \/ ~foreign /\ Restarted = Booting(container.image)
           /\ \/ Upped(p) = container
              \/ ~foreign /\ Upped(p) = Booting(asks[p])
              \/ Upped(p).state = "stopped" /\ ~Upped(p).healthy
  BY DEF Started, Restarted, Upped

\* The port of a running container is its own.
LEMMA ContainerSoundNext ==
    ASSUME HostTyped, ContainerSound, [Next]_vars
    PROVE  ContainerSound'
  <1>. USE DEF ContainerSound
  <1>1. CASE UNCHANGED <<container, foreign>>
    BY <1>1
  <1>2. ASSUME NEW p \in Proc, RuntimeStep(p) PROVE ContainerSound'
    <2>1. CASE Stop(p) \/ ComposeStop(p) \/ Remove(p)
      <3>1. foreign' = foreign
        BY <2>1 DEF Stop, ComposeStop, Remove
      <3>2. container' \in {container, Stopped, Missing}
        BY <2>1 DEF Stop, ComposeStop, Remove, DockerFails
      <3>. QED BY <3>1, <3>2, ContainerStates
    <2>2. CASE Start(p) \/ ComposeUp(p) \/ Restart(p) \/ ComposeRestart(p)
      <3>1. foreign' = foreign /\ container' \in {container, Started, Upped(p), Restarted}
        BY <2>2 DEF Start, ComposeUp, Restart, ComposeRestart, RestartBy, DockerFails
      <3>. QED BY <3>1, StartStates, ContainerStates
    <2>. QED
      BY <1>1, <1>2, <2>1, <2>2 DEF RuntimeStep, Probe, CheckPrerequisites,
         Inspect, Replace, ConnectPort, CheckOwner, EnsureImage, Wait, WaitForServices
  <1>3. CASE Boot \/ Degrade
    BY <1>3 DEF Boot, Degrade, HostTyped, Containers
  <1>4. ASSUME NEW p \in Proc, CommandNext(p) PROVE ContainerSound'
    BY <1>1, <1>4 DEF CommandNext, Begin, KeepPending, Post, Poll, KeepKey, DropPending,
                      UseKey, Confirm, Decline, Finish, Throw, Interrupt, FileFails,
                      CallKeystore, CommandOnly, runtimeVars
  <1>. QED
    BY <1>1, <1>2, <1>3, <1>4 DEF Next, vars, runtimeVars

(***************************************************************************)
(* What a step may do to the service: take the container away, find it     *)
(* healthy and tell a process so, or end an upgrade.                       *)
(***************************************************************************)
TakenByUpgrade ==
  container'.state = "missing" /\ container.state # "missing" => \E u \in Proc : Upgrading(u)'

FoundHealthy == container.healthy /\ container' = container

ServedNext == \A p \in Proc : Served(p)' => Served(p) \/ FoundHealthy

UpgradingNext == \A u \in Proc : Upgrading(u) => Upgrading(u)' \/ FoundHealthy

ServiceStep == TakenByUpgrade /\ ServedNext /\ UpgradingNext

\* The end of a process that has failed.
LEMMA FailureServes ==
    ASSUME NEW p \in Proc, ProcessesTyped, End(p, "failed")
    PROVE  ServedNext /\ UpgradingNext
  BY DEF End, ServedNext, UpgradingNext, Served, Upgrading, ProcessesTyped, Kept

\* A process that goes on to a statement at which it counts as served only if it did.
LEMMA GoServes ==
    ASSUME NEW p \in Proc, NEW s, ProcessesTyped, AllPlaced, Go(p, s),
           task[p] = "backup" /\ s \in {"ready"} \cup Kept
             => FoundHealthy \/ at[p] \in {"ready"} \cup Kept
    PROVE  ServedNext /\ UpgradingNext
  BY DEF Go, ServedNext, UpgradingNext, Served, Upgrading, ProcessesTyped, AllPlaced

\* A process that ends well.
LEMMA SuccessServes ==
    ASSUME NEW p \in Proc, ProcessesTyped, AllPlaced, End(p, "ok"),
           task[p] \in {"start", "upgrade", "backup"} => FoundHealthy \/ Served(p),
           task[p] = "upgrade" => FoundHealthy
    PROVE  ServedNext /\ UpgradingNext
  BY DEF End, ServedNext, UpgradingNext, Served, Upgrading, ProcessesTyped, AllPlaced, Kept

\* The steps of the runtime.
LEMMA RuntimeServes ==
    ASSUME NEW p \in Proc, ProcessesTyped, HostTyped, AllPlaced, RuntimeStep(p)
    PROVE  ServiceStep
  <1>0. Placed(p) /\ task[p] \in Tasks
    BY DEF AllPlaced, ProcessesTyped
  <1>t. SUFFICES TakenByUpgrade /\ ServedNext /\ UpgradingNext
    BY DEF ServiceStep
  <1>1. CASE Probe(p)
    BY <1>1, GoServes DEF Probe, Answering, FoundHealthy, TakenByUpgrade, Kept
  <1>2. CASE CheckPrerequisites(p)
    BY <1>2, GoServes, FailureServes DEF CheckPrerequisites, TakenByUpgrade, Kept
  <1>3. CASE Inspect(p)
    <2>0. TakenByUpgrade
      BY <1>3 DEF Inspect, TakenByUpgrade
    <2>t. told[p] = "none"
      BY <1>0, <1>3 DEF Inspect, Placed
    <2>c. PICK c \in {container, Missing} : \E outdated \in Outdated(p, c) :
                                             Decide(p, c, outdated)
      BY <1>3 DEF Inspect
    <2>1. CASE \E s \in {"stop", "restart", "replace", "wait"} : Go(p, s)
      BY <2>0, <2>1, GoServes DEF Kept
    <2>2. CASE task[p] = "stop" /\ End(p, "ok")
      BY <2>0, <2>2, SuccessServes
    <2>3. CASE /\ task[p] = "restart" /\ task' = [task EXCEPT ![p] = "restarted"]
               /\ at' = [at EXCEPT ![p] = "check"] /\ UNCHANGED told
      <3>1. \A q \in Proc \ {p} : task'[q] = task[q] /\ at'[q] = at[q]
        BY <2>3 DEF ProcessesTyped
      <3>2. task'[p] = "restarted" /\ told'[p] = "none"
        BY <2>3, <2>t DEF ProcessesTyped
      <3>. QED BY <2>0, <2>3, <3>1, <3>2 DEF ServedNext, UpgradingNext, Served, Upgrading
    <2>4. CASE UNCHANGED <<task, told>> /\ at' = [at EXCEPT ![p] = "port"]
      BY <2>0, <2>4 DEF ServedNext, UpgradingNext, Served, Upgrading, ProcessesTyped, Kept
    <2>. QED
      BY <2>c, <2>1, <2>2, <2>3, <2>4 DEF Decide
  <1>4. CASE Replace(p)
    BY <1>4, GoServes, FailureServes DEF Replace, TakenByUpgrade, Kept
  <1>5. CASE Stop(p)
    <2>1. TakenByUpgrade
      BY <1>5, ContainerStates DEF Stop, DockerFails, TakenByUpgrade
    <2>2. task[p] \in {"stop", "upgrade"}
      BY <1>0, <1>5 DEF Stop, Placed, Tasks, Docker, Kept
    <2>. QED
      BY <1>5, <2>1, <2>2, GoServes, SuccessServes, FailureServes DEF Stop, DockerFails, Kept
  <1>6. CASE ComposeStop(p)
    <2>1. TakenByUpgrade
      BY <1>6, ContainerStates DEF ComposeStop, DockerFails, TakenByUpgrade
    <2>2. task[p] = "infra stop"
      BY <1>0, <1>6 DEF ComposeStop, Placed, Tasks, Docker, Kept
    <2>. QED
      BY <1>6, <2>1, <2>2, SuccessServes, FailureServes DEF ComposeStop, DockerFails
  <1>7. CASE Remove(p)
    <2>1. task[p] = "upgrade" /\ told[p] = "none"
      BY <1>0, <1>7 DEF Remove, Placed, Tasks, Docker, Kept
    <2>2. Upgrading(p)'
      BY <1>7, <2>1 DEF Remove, Go, Upgrading
    <2>. QED BY <1>7, <2>2, GoServes DEF Remove, TakenByUpgrade, Kept
  <1>8. CASE ConnectPort(p)
    <2>1. PICK s \in {"owner", "start", "image"} : at' = [at EXCEPT ![p] = s]
      BY <1>8 DEF ConnectPort
    <2>. QED
      BY <1>8, <2>1 DEF ConnectPort, TakenByUpgrade, ServedNext, UpgradingNext, Served,
                        Upgrading, ProcessesTyped, Kept
  <1>9. CASE CheckOwner(p)
    BY <1>9, GoServes, FailureServes DEF CheckOwner, TakenByUpgrade, Kept
  <1>10. CASE Start(p)
    <2>1. TakenByUpgrade
      BY <1>10, ContainerStates, StartStates DEF Start, DockerFails, TakenByUpgrade
    <2>. QED BY <1>10, <2>1, GoServes, FailureServes DEF Start, DockerFails, Kept
  <1>11. CASE EnsureImage(p)
    BY <1>11, GoServes, FailureServes DEF EnsureImage, TakenByUpgrade, Kept
  <1>12. CASE ComposeUp(p)
    <2>1. TakenByUpgrade
      BY <1>12, ContainerStates, StartStates DEF ComposeUp, DockerFails, TakenByUpgrade
    <2>. QED BY <1>12, <2>1, GoServes, FailureServes DEF ComposeUp, DockerFails, Kept
  <1>13. CASE Restart(p) \/ ComposeRestart(p)
    <2>1. TakenByUpgrade
      BY <1>13, ContainerStates, StartStates DEF Restart, ComposeRestart, RestartBy,
                                                 DockerFails, TakenByUpgrade
    <2>. QED
      BY <1>13, <2>1, GoServes, FailureServes DEF Restart, ComposeRestart, RestartBy,
                                                  DockerFails, Kept
  <1>14. CASE Wait(p)
    <2>1. TakenByUpgrade
      BY <1>14 DEF Wait, TakenByUpgrade
    <2>2. CASE task[p] = "restarted" /\ task' = [task EXCEPT ![p] = "start"]
               /\ UNCHANGED <<at, told>>
      <3>1. told[p] = "none"
        BY <1>0, <1>14 DEF Wait, Placed
      <3>. QED
        BY <2>1, <2>2, <3>1 DEF ServedNext, UpgradingNext, Served, Upgrading, ProcessesTyped,
                                Kept
    <2>3. CASE Answering /\ End(p, "ok")
      BY <1>14, <2>1, <2>3, SuccessServes DEF Wait, Answering, FoundHealthy
    <2>. QED BY <1>14, <2>1, <2>2, <2>3, FailureServes DEF Wait
  <1>15. CASE WaitForServices(p)
    <2>1. TakenByUpgrade
      BY <1>15 DEF WaitForServices, TakenByUpgrade
    <2>2. CASE Answering /\ (Go(p, "ready") \/ End(p, "ok"))
      BY <1>15, <2>1, <2>2, GoServes, SuccessServes DEF WaitForServices, Answering,
                                                        FoundHealthy
    <2>. QED BY <1>15, <2>1, <2>2, FailureServes DEF WaitForServices
  <1>. QED
    BY <1>1, <1>2, <1>3, <1>4, <1>5, <1>6, <1>7, <1>8, <1>9, <1>10, <1>11, <1>12, <1>13,
       <1>14, <1>15 DEF RuntimeStep

\* The steps of a command, which leave the container alone.
LEMMA CommandServes ==
    ASSUME NEW p \in Proc, ProcessesTyped, AllPlaced, CommandNext(p)
    PROVE  ServiceStep
  <1>0. Placed(p) /\ task[p] \in Tasks
    BY DEF AllPlaced, ProcessesTyped
  <1>1. TakenByUpgrade
    BY DEF CommandNext, Begin, KeepPending, Post, Poll, KeepKey, DropPending, UseKey, Confirm,
           Decline, Finish, Throw, Interrupt, FileFails, CallKeystore, CommandOnly,
           runtimeVars, TakenByUpgrade
  <1>2. SUFFICES ServedNext /\ UpgradingNext
    BY <1>1 DEF ServiceStep
  <1>3. CASE Begin(p)
    <2>1. PICK c : task' = [task EXCEPT ![p] = c]
                   /\ at' = [at EXCEPT ![p] = IF c \in DOMAIN Entry THEN Entry[c] ELSE "key"]
      BY <1>3 DEF Begin
    <2>2. at'[p] \notin {"ready"} \cup Kept
      BY <2>1, EntryIsStatement DEF ProcessesTyped, Kept
    <2>3. told' = told /\ told[p] = "none" /\ task[p] = "none"
      BY <1>0, <1>3 DEF Begin, Placed
    <2>. QED
      BY <2>1, <2>2, <2>3 DEF ServedNext, UpgradingNext, Served, Upgrading, ProcessesTyped
  <1>4. CASE KeepPending(p) \/ KeepKey(p) \/ DropPending(p)
    <2>1. PICK s : Go(p, s)
      BY <1>4 DEF KeepPending, KeepKey, DropPending, CallKeystore
    <2>2. at[p] \in {"ready"} \cup Kept
      BY <1>4 DEF KeepPending, KeepKey, DropPending, Idle, Kept
    <2>. QED BY <2>1, <2>2, GoServes
  <1>5. CASE UseKey(p) \/ Confirm(p)
    <2>1. task[p] # "backup"
      BY <1>0, <1>5 DEF UseKey, Confirm, Idle, Placed, Kept
    <2>2. PICK s : Go(p, s)
      BY <1>5 DEF UseKey, Confirm, CallKeystore
    <2>. QED BY <2>1, <2>2, GoServes
  <1>6. CASE Post(p) \/ Poll(p)
    <2>1. at[p] \in {"ready"} \cup Kept
      BY <1>6 DEF Post, Poll, Idle, Kept
    <2>. QED BY <1>6, <2>1, GoServes, FailureServes DEF Post, Poll, Exit
  <1>7. CASE Finish(p)
    <2>1. task[p] = "backup" => Served(p)
      BY <1>7 DEF Finish, Served, Kept
    <2>2. task[p] \notin {"start", "upgrade"}
      BY <1>0, <1>7 DEF Finish, Placed, Docker
    <2>. QED BY <1>7, <2>1, <2>2, SuccessServes, FailureServes DEF Finish, Exit
  <1>8. CASE Throw(p) \/ Interrupt(p)
    BY <1>8, FailureServes DEF Throw, Interrupt, Exit
  <1>9. CASE Decline(p)
    <2>1. task[p] \notin {"start", "upgrade", "backup"}
      BY <1>0, <1>9 DEF Decline, Idle, Placed, Docker, Kept
    <2>. QED BY <1>9, <2>1, SuccessServes DEF Decline, Exit
  <1>10. CASE FileFails(p)
    BY <1>10 DEF FileFails, runtimeVars, ServedNext, UpgradingNext, Served, Upgrading
  <1>. QED
    BY <1>3, <1>4, <1>5, <1>6, <1>7, <1>8, <1>9, <1>10 DEF CommandNext

\* All steps.
LEMMA ServiceKeptNext ==
    ASSUME Typed, ContainerSound, ServiceKept, [Next]_vars
    PROVE  ServiceKept'
  <1>1. ProcessesTyped /\ HostTyped /\ AllPlaced
    BY TypesByParts DEF Typed
  <1>2. ServiceStep => ServiceKept'
    BY DEF ServiceStep, TakenByUpgrade, ServedNext, UpgradingNext, FoundHealthy, ServiceKept,
           ContainerSound
  <1>3. CASE \E p \in Proc : RuntimeStep(p) \/ CommandNext(p)
    BY <1>1, <1>2, <1>3, RuntimeServes, CommandServes
  <1>4. CASE UNCHANGED <<container, task, at, told>>
    BY <1>4 DEF ServiceKept, Served, Upgrading
  <1>5. CASE Boot \/ Degrade
    <2>1. container'.state # "missing" /\ UNCHANGED <<task, at, told>>
      BY <1>1, <1>5 DEF Boot, Degrade, HostTyped, Containers, ContainerSound
    <2>. QED BY <2>1 DEF ServiceKept
  <1>. QED
    BY <1>3, <1>4, <1>5 DEF Next, runtimeVars, vars

\* The first state.
LEMMA HostSoundInit == Init => HostSound
  <1>. SUFFICES ASSUME Init PROVE HostSound
    OBVIOUS
  <1>1. ContainerSound
    BY DEF Init, RuntimeInit, ContainerSound, Missing
  <1>2. ServiceKept
    BY DEF Init, RuntimeInit, ServiceKept, Served, Kept
  <1>. QED BY <1>1, <1>2 DEF HostSound

\* In every state.
LEMMA AlwaysHostSound == Spec => []HostSound
  <1>1. Typed /\ HostSound /\ [Next]_vars => HostSound'
    BY ContainerSoundNext, ServiceKeptNext, TypesByParts DEF HostSound, Typed
  <1>. QED
    BY <1>1, HostSoundInit, AlwaysTyped, PTL DEF Spec

(***************************************************************************)
(* The container that a start, an upgrade or a backup reported ready is    *)
(* missing only while an upgrade is at work, or has failed.                *)
(***************************************************************************)
THEOREM ServiceSurvives == Spec => []UpgradeKeepsService
  <1>1. HostSound => UpgradeKeepsService
    BY DEF HostSound, ServiceKept, UpgradeKeepsService, Served, Upgrading
  <1>. QED
    BY <1>1, AlwaysHostSound, PTL

(***************************************************************************)
(* No start, and no backup that ensures the infrastructure, interrupts a   *)
(* container that runs the image which it asks for itself.                 *)
(***************************************************************************)
StartSpares(p) ==
  /\ at'[p] # at[p]
  /\ task[p] \in {"start", "restarted", "infra start", "backup"}
  /\ container.state = "running" /\ container.image = asks[p]
  => container' = container

\* A step of the runtime.
LEMMA RuntimeSpares ==
    ASSUME NEW p \in Proc, ProcessesTyped, AllPlaced, ContainerSound, RuntimeStep(p),
           NEW q \in Proc
    PROVE  StartSpares(q)
  <1>1. CASE q # p
    <2>1. \/ at' = at
          \/ \E s \in Statements : at' = [at EXCEPT ![p] = s]
      BY DEF RuntimeStep, Probe, CheckPrerequisites, Inspect, Replace, Stop,
             ComposeStop, Remove, ConnectPort, CheckOwner, Start, EnsureImage,
             ComposeUp, Restart, ComposeRestart, RestartBy, Wait, WaitForServices,
             DockerFails, Decide, Go, End, Statements
    <2>. QED BY <1>1, <2>1 DEF StartSpares, ProcessesTyped
  <1>2. CASE q = p
    <2>. SUFFICES ASSUME task[p] \in {"start", "restarted", "infra start", "backup"},
                         container.state = "running", container.image = asks[p]
                  PROVE  container' = container
      BY <1>2 DEF StartSpares
    <2>1. at[p] \notin {"stop", "remove", "restart", "compose stop", "compose restart"}
      BY DEF AllPlaced, Placed, Docker, Kept
    <2>2. ~foreign
      BY DEF ContainerSound
    <2>3. CASE Start(p) \/ ComposeUp(p)
      <3>1. Started = container /\ Upped(p) = container
        BY <2>2 DEF Started, Upped
      <3>. QED BY <2>3, <3>1 DEF Start, ComposeUp, DockerFails
    <2>. QED
      BY <2>1, <2>3 DEF RuntimeStep, Probe, CheckPrerequisites, Inspect, Replace, Stop,
             ComposeStop, Remove, ConnectPort, CheckOwner, EnsureImage,
             Restart, ComposeRestart, Wait, WaitForServices
  <1>. QED BY <1>1, <1>2

(***************************************************************************)
(* What a start or a backup decides by may be stale; still, no command of  *)
(* theirs changes a running container of the image which they ask for, for *)
(* any number of processes, and whichever docker commands fail.            *)
(***************************************************************************)
THEOREM StartsSpareRunning == Spec => StartLeavesRunning
  <1>1. Typed /\ HostSound /\ [Next]_vars => [\A p \in Proc : StartSpares(p)]_vars
    <2>. SUFFICES ASSUME Typed, HostSound, [Next]_vars, vars' # vars, NEW p \in Proc
                  PROVE  StartSpares(p)
      OBVIOUS
    <2>1. ProcessesTyped /\ AllPlaced /\ ContainerSound
      BY TypesByParts DEF Typed, HostSound
    <2>2. CASE \E q \in Proc : RuntimeStep(q)
      BY <2>1, <2>2, RuntimeSpares
    <2>3. CASE \E q \in Proc : CommandNext(q)
      BY <2>3 DEF CommandNext, Begin, KeepPending, Post, Poll, KeepKey, DropPending, UseKey,
                  Confirm, Decline, Finish, Throw, Interrupt, FileFails, CallKeystore,
                  CommandOnly, runtimeVars, StartSpares
    <2>4. CASE UNCHANGED at
      BY <2>4 DEF StartSpares
    <2>. QED BY <2>2, <2>3, <2>4 DEF Next, runtimeVars, Boot, Degrade
  <1>2. [\A p \in Proc : StartSpares(p)]_vars
        <=> [\A p \in Proc :
               /\ at'[p] # at[p]
               /\ task[p] \in {"start", "restarted", "infra start", "backup"}
               /\ container.state = "running" /\ container.image = asks[p]
               => container' = container]_vars
    BY DEF StartSpares
  <1>. QED
    BY <1>1, <1>2, AlwaysTyped, AlwaysHostSound, PTL DEF Spec, StartLeavesRunning

-----------------------------------------------------------------------------
(***************************************************************************)
(* The keystore.  Where a process uses it, and what is known of the call   *)
(* that it makes and of the master keys.                                   *)
(***************************************************************************)
Using == Kept \cup {"confirm"}

Loading == {"load", "unlock", "master", "mint", "minted"}

\* An add names the process's own backup, or 'pending'; a key that is deleted is exposed;
\* a backup loads the store in its first call.
CallKnown(p) ==
  /\ Uses(p) <=> at[p] \in Using
  /\ todo[p].op = "add" => todo[p].ids \subseteq {p, "pending"}
  /\ todo[p].op = "delete" => todo[p].ids \subseteq exposed \cup {"pending"}
  /\ task[p] = "backup" /\ ks[p] \in Loading => at[p] = "post"

\* What is written is encrypted with the master key of some process.
KeyKnown(p) ==
  /\ ks[p] = "unlock" => seen[p] \in Proc
  /\ ks[p] \in {"open", "fill"} => mkey[p] \in Proc
  /\ ks[p] = "idle" => mkey[p] \in Proc \cup {None}
  /\ master = None => mkey[p] = None /\ ks[p] \notin {"unlock", "minted", "open", "fill"}

FileKnown == file.state = "ok" => file.under \in Proc /\ master # None

CallsKnown == \A p \in Proc : CallKnown(p)

KeysKnown == FileKnown /\ \A p \in Proc : KeyKnown(p)

\* The first state.
LEMMA KnownInit == Init => CallsKnown /\ KeysKnown
  BY NothingTyped DEF Init, RuntimeInit, KeystoreInit, CallsKnown, CallKnown, KeysKnown, KeyKnown,
     FileKnown, Uses, Using, Kept, Loading

\* What a step of one process leaves of the others.
Aside(p) ==
  \A q \in Proc \ {p} :
    /\ ks'[q] = ks[q] /\ todo'[q] = todo[q] /\ cache'[q] = cache[q]
    /\ seen'[q] = seen[q] /\ mkey'[q] = mkey[q]
    /\ at'[q] = at[q] /\ task'[q] = task[q] /\ told'[q] = told[q]

\* A step of the runtime moves a process that has no call under way.
LEMMA RuntimeAside ==
    ASSUME NEW p \in Proc, ProcessesTyped, CallsPlaced, RuntimeStep(p), UNCHANGED keyVars
    PROVE  /\ ks[p] = "idle" /\ at[p] \notin Using /\ at'[p] \notin Using
           /\ Aside(p)
  <1>1. at[p] \in Statements \ ({"ready", "key", "new", "over"} \cup Using)
    BY DEF RuntimeStep, Probe, CheckPrerequisites, Inspect, Replace, Stop, ComposeStop,
           Remove, ConnectPort, CheckOwner, Start, EnsureImage, ComposeUp, Restart,
           ComposeRestart, Wait, WaitForServices, Statements, Using, Kept
  <1>2. \/ at' = at
        \/ \E s \in Statements \ Using : at' = [at EXCEPT ![p] = s]
    BY DEF RuntimeStep, Probe, CheckPrerequisites, Inspect, Replace, Stop, ComposeStop,
           Remove, ConnectPort, CheckOwner, Start, EnsureImage, ComposeUp, Restart,
           ComposeRestart, RestartBy, Wait, WaitForServices, DockerFails, Decide, Go, End,
           Statements, Using, Kept
  <1>3. \/ task' = task
        \/ \E c \in Tasks : task' = [task EXCEPT ![p] = c]
    BY DEF RuntimeStep, Probe, CheckPrerequisites, Inspect, Replace, Stop, ComposeStop,
           Remove, ConnectPort, CheckOwner, Start, EnsureImage, ComposeUp, Restart,
           ComposeRestart, RestartBy, Wait, WaitForServices, DockerFails, Decide, Go, End, Tasks
  <1>4. \/ told' = told
        \/ \E o \in {"ok", "failed"} : told' = [told EXCEPT ![p] = o]
    BY DEF RuntimeStep, Probe, CheckPrerequisites, Inspect, Replace, Stop, ComposeStop,
           Remove, ConnectPort, CheckOwner, Start, EnsureImage, ComposeUp, Restart,
           ComposeRestart, RestartBy, Wait, WaitForServices, DockerFails, Decide, Go, End
  <1>5. ks[p] = "idle"
    BY <1>1 DEF CallsPlaced, Using, Kept
  <1>6. at'[p] \notin Using
    BY <1>1, <1>2 DEF ProcessesTyped
  <1>7. \A q \in Proc \ {p} : at'[q] = at[q] /\ task'[q] = task[q] /\ told'[q] = told[q]
    BY <1>2, <1>3, <1>4 DEF ProcessesTyped
  <1>. QED
    BY <1>1, <1>5, <1>6, <1>7 DEF Aside, keyVars

\* The backup command is not over when its infrastructure is up, and no other becomes one.
LEMMA BackupsGoOn ==
    ASSUME NEW p \in Proc, ProcessesTyped, AllPlaced, RuntimeStep(p)
    PROVE  task'[p] = "backup" => task[p] = "backup" /\ told'[p] # "ok"
  <1>. SUFFICES ASSUME task'[p] = "backup" PROVE task[p] = "backup" /\ told'[p] # "ok"
    OBVIOUS
  <1>0. Placed(p) /\ task[p] \in Tasks
    BY DEF AllPlaced, ProcessesTyped
  <1>1. task[p] = "backup"
    <2>1. \/ task' = task
          \/ \E c \in {"restarted", "start"} : task' = [task EXCEPT ![p] = c]
      BY DEF RuntimeStep, Probe, CheckPrerequisites, Inspect, Replace, Stop, ComposeStop,
             Remove, ConnectPort, CheckOwner, Start, EnsureImage, ComposeUp, Restart,
             ComposeRestart, RestartBy, Wait, WaitForServices, DockerFails, Decide, Go, End
    <2>. QED BY <2>1 DEF ProcessesTyped
  <1>2. at[p] \in {"probe", "up", "wait"} /\ told[p] # "ok"
    BY <1>0, <1>1 DEF Placed, Kept, RuntimeStep, Probe, CheckPrerequisites, Inspect, Replace,
           Stop, ComposeStop, Remove, ConnectPort, CheckOwner, Start, EnsureImage, ComposeUp,
           Restart, ComposeRestart, Wait, WaitForServices
  <1>3. told' = told \/ End(p, "failed")
    BY <1>1, <1>2 DEF RuntimeTasks, RuntimeStep, Probe, CheckPrerequisites, Inspect, Replace,
           Stop, ComposeStop, Remove, ConnectPort, CheckOwner, Start, EnsureImage, ComposeUp,
           Restart, ComposeRestart, Wait, WaitForServices, DockerFails, Go
  <1>. QED BY <1>1, <1>2, <1>3 DEF End, ProcessesTyped

\* What a step of the key manager leaves: the other processes, and the calls.
LEMMA KeystoreAside ==
    ASSUME NEW p \in Proc, KeystoreTypeOK, KeystoreStep(p), UNCHANGED runtimeVars
    PROVE  /\ ks[p] \notin {"idle", "throw"}
           /\ ks'[p] \in Loading => ks[p] \in Loading
           /\ todo'[p] \in {NoCall, todo[p]}
           /\ Aside(p)
  <1>. USE DEF KeystoreTypeOK, Aside, runtimeVars, Loading
  <1>2. CASE Load(p)
    BY <1>2 DEF Load
  <1>3. CASE Unlock(p)
    <2>1. CASE master = seen[p]
      BY <1>3, <2>1 DEF Unlock, Apply
    <2>2. CASE master # seen[p]
      BY <1>3, <2>2 DEF Unlock
    <2>. QED BY <2>1, <2>2
  <1>4. CASE GetMaster(p)
    <2>1. PICK s \in {"throw", "open", "mint"} : ks' = [ks EXCEPT ![p] = s]
      BY <1>4 DEF GetMaster
    <2>2. mkey' = mkey \/ mkey' = [mkey EXCEPT ![p] = master]
      BY <1>4 DEF GetMaster
    <2>. QED BY <1>4, <2>1, <2>2 DEF GetMaster
  <1>5. CASE MintMaster(p) \/ FillMaster(p)
    BY <1>5 DEF MintMaster, FillMaster
  <1>6. CASE OpenFile(p)
    BY <1>6 DEF OpenFile
  <1>7. CASE FillFile(p)
    <2>1. CASE todo[p] = NoCall
      BY <1>7, <2>1 DEF FillFile
    <2>2. CASE todo[p] # NoCall
      BY <1>7, <2>2 DEF FillFile, Apply
    <2>. QED BY <2>1, <2>2
  <1>. QED
    BY <1>2, <1>3, <1>4, <1>5, <1>6, <1>7 DEF KeystoreStep

(***************************************************************************)
(* What a command does of the keystore: it makes a call, ends, goes on     *)
(* without it, or has a file call fail.                                    *)
(***************************************************************************)
CallMade(p, op, ids, s) ==
  /\ CallKeystore(p, op, ids, s)
  /\ op = "add" => ids \subseteq {p, "pending"}
  /\ s \in {"drop", "kept"} /\ task[p] = "backup"
       => at[p] = "drop" \/ (at[p] = "keep" /\ op = "add" /\ p \in ids)
  /\ task[p] = "backup" => s = "post" \/ at[p] \in Using

Ended(p) ==
  /\ \E o \in {"ok", "failed"} : Exit(p, o)
  /\ exposed' = IF ks[p] = "fill" THEN exposed \cup Done ELSE exposed
  /\ told'[p] = "ok" /\ task[p] = "backup" => at[p] = "kept" /\ ks[p] = "idle"

GoneOn(p) ==
  /\ UNCHANGED <<keyVars, exposed>> /\ ks[p] = "idle"
  /\ at'[p] \in Using <=> at[p] \in Using
  /\ at'[p] \notin {"drop", "kept"} /\ told'[p] = told[p] /\ told[p] # "ok"
  /\ at[p] \in Using => task'[p] = task[p]
  /\ Aside(p)

\* The calls.
LEMMA CallsMade ==
    ASSUME NEW p \in Proc, Typed,
           \/ KeepPending(p) \/ KeepKey(p) \/ DropPending(p) \/ UseKey(p) \/ Confirm(p)
    PROVE  \E op \in {"get", "add", "delete", "import"}, ids \in SUBSET Ids,
              s \in {"post", "drop", "kept", "lost", "confirm"} : CallMade(p, op, ids, s)
  <1>0. ProcessesTyped /\ Placed(p)
    BY TypesByParts DEF Typed, AllPlaced
  <1>1. {"pending"} \in SUBSET Ids /\ {p} \in SUBSET Ids /\ {} \in SUBSET Ids
        /\ (\A ids \in SUBSET Done : ids \in SUBSET Ids) /\ (\A i \in Proc : {i} \in SUBSET Ids)
    BY DEF Ids, Done
  <1>2. CASE KeepPending(p)
    <2>1. CallMade(p, "add", {"pending"}, "post")
      BY <1>2 DEF KeepPending, CallMade
    <2>. QED BY <1>1, <2>1
  <1>3. CASE KeepKey(p)
    <2>1. CallMade(p, "add", {p}, "drop")
      BY <1>3 DEF KeepKey, Idle, CallMade, Using, Kept
    <2>. QED BY <1>1, <2>1
  <1>4. CASE DropPending(p)
    <2>1. CASE at[p] = "drop"
      <3>1. CallMade(p, "delete", {"pending"}, "kept")
        BY <1>4, <2>1 DEF DropPending, CallMade, Using, Kept
      <3>. QED BY <1>1, <3>1
    <2>2. CASE at[p] = "discard"
      <3>1. CallMade(p, "delete", {"pending"}, "lost")
        BY <1>4, <2>2 DEF DropPending, CallMade, Using, Kept
      <3>. QED BY <1>1, <3>1
    <2>. QED BY <1>4, <2>1, <2>2 DEF DropPending
  <1>5. CASE UseKey(p)
    <2>1. task[p] # "backup"
      BY <1>0, <1>5 DEF UseKey, Idle, Placed, Kept
    <2>2. CASE \E s \in {"kept", "confirm"} : CallKeystore(p, "get", {}, s)
      BY <1>1, <2>1, <2>2 DEF CallMade
    <2>3. CASE \E ids \in SUBSET Done : CallKeystore(p, "import", ids, "kept")
      BY <1>1, <2>1, <2>3 DEF CallMade
    <2>. QED BY <1>5, <2>2, <2>3 DEF UseKey
  <1>6. CASE Confirm(p)
    <2>1. task[p] # "backup"
      BY <1>0, <1>6 DEF Confirm, Idle, Placed, Kept
    <2>2. PICK i \in Proc : CallKeystore(p, "delete", {i}, "kept")
      BY <1>6 DEF Confirm
    <2>3. CallMade(p, "delete", {i}, "kept")
      BY <2>1, <2>2 DEF CallMade
    <2>. QED BY <1>1, <2>3
  <1>. QED BY <1>2, <1>3, <1>4, <1>5, <1>6

\* All of them.
LEMMA CommandCases ==
    ASSUME NEW p \in Proc, Typed, CommandNext(p)
    PROVE  \/ \E op \in {"get", "add", "delete", "import"}, ids \in SUBSET Ids,
                 s \in {"post", "drop", "kept", "lost", "confirm"} : CallMade(p, op, ids, s)
           \/ Ended(p)
           \/ GoneOn(p)
           \/ FileFails(p)
  <1>0. ProcessesTyped /\ Placed(p) /\ CallsPlaced
    BY TypesByParts DEF Typed, AllPlaced
  <1>1. CASE Begin(p)
    <2>1. PICK c : /\ task' = [task EXCEPT ![p] = c]
                   /\ at' = [at EXCEPT ![p] = IF c \in DOMAIN Entry THEN Entry[c] ELSE "key"]
      BY <1>1 DEF Begin
    <2>2. at'[p] \notin Using /\ at[p] \notin Using
      BY <1>0, <1>1, <2>1, EntryIsStatement DEF Begin, ProcessesTyped, Using, Kept
    <2>3. ks[p] = "idle" /\ told[p] # "ok"
      BY <1>0, <1>1 DEF Begin, CallsPlaced, Placed
    <2>4. Aside(p)
      BY <1>0, <1>1, <2>1 DEF Begin, keyVars, Aside, ProcessesTyped
    <2>5. UNCHANGED <<keyVars, exposed, told>>
      BY <1>1 DEF Begin, CommandOnly
    <2>. QED
      BY <2>2, <2>3, <2>4, <2>5 DEF GoneOn, Using, Kept
  <1>2. CASE Post(p) \/ Poll(p)
    <2>1. CASE Post(p) /\ Exit(p, "failed")
      BY <1>0, <2>1 DEF Post, Idle, CommandOnly, Ended, Exit, End, ProcessesTyped
    <2>2. CASE UNCHANGED keyVars /\ \E s \in {"poll", "keep", "discard"} : Go(p, s)
      <3>1. ks[p] = "idle" /\ told[p] # "ok" /\ UNCHANGED exposed /\ at[p] \in Using
        BY <1>0, <1>2 DEF Post, Poll, Idle, Placed, CommandOnly, Using, Kept
      <3>2. /\ at'[p] \in {"poll", "keep", "discard"} /\ told'[p] = told[p] /\ task'[p] = task[p]
            /\ Aside(p)
        BY <1>0, <2>2 DEF Go, ProcessesTyped, Aside, keyVars
      <3>. QED BY <2>2, <3>1, <3>2 DEF GoneOn, Using, Kept
    <2>. QED BY <1>2, <2>1, <2>2 DEF Post, Poll
  <1>3. CASE Finish(p)
    BY <1>0, <1>3 DEF Finish, CommandOnly, Ended, Exit, End, ProcessesTyped
  <1>4. CASE Throw(p) \/ Interrupt(p)
    BY <1>0, <1>4 DEF Throw, Interrupt, CommandOnly, Ended, Exit, End, ProcessesTyped
  <1>5. CASE KeepPending(p) \/ KeepKey(p) \/ DropPending(p) \/ UseKey(p) \/ Confirm(p)
    BY <1>5, CallsMade
  <1>6. CASE Decline(p)
    <2>1. task[p] # "backup"
      BY <1>0, <1>6 DEF Decline, Idle, Placed, Kept
    <2>. QED BY <1>6, <2>1 DEF Decline, Idle, CommandOnly, Ended
  <1>. QED BY <1>1, <1>2, <1>3, <1>4, <1>5, <1>6 DEF CommandNext

\* A call: the store is loaded, or what is cached of it is used.
LEMMA CallEffect ==
    ASSUME NEW p \in Proc, Typed, NEW op \in {"get", "add", "delete", "import"},
           NEW ids \in SUBSET Ids, NEW s \in {"post", "drop", "kept", "lost", "confirm"},
           CallMade(p, op, ids, s)
    PROVE  /\ ks[p] = "idle" /\ at'[p] = s /\ Aside(p)
           /\ UNCHANGED <<file, master, seen, mkey, task, told>>
           /\ mkey[p] = None => ks'[p] = "load" /\ todo'[p] = [op |-> op, ids |-> ids]
           /\ mkey[p] # None => LET call == [op |-> op, ids |-> ids] IN
                /\ todo'[p] = NoCall /\ cache'[p] = Changed(p, call, cache[p])
                /\ ks'[p] = IF Saves(p, call, cache[p]) THEN "open" ELSE "idle"
           /\ exposed \subseteq exposed'
           /\ op = "delete" => ids \subseteq exposed' \cup {"pending"}
           /\ (\E q \in Proc \ {p} : Uses(q)) => Done \cup InUse \cup {p} \subseteq exposed'
  <1>0. KeystoreTypeOK /\ ProcessesTyped
    BY TypesByParts DEF Typed
  <1>. DEFINE call == [op |-> op, ids |-> ids]
  <1>1. Call(p, op, ids) /\ Go(p, s)
    BY DEF CallMade, CallKeystore
  <1>2. /\ exposed \subseteq exposed'
        /\ op = "delete" => ids \subseteq exposed' \cup {"pending"}
        /\ (\E q \in Proc \ {p} : Uses(q)) => Done \cup InUse \cup {p} \subseteq exposed'
    BY DEF CallMade, CallKeystore, Ids
  <1>3. /\ ks[p] = "idle" /\ at'[p] = s /\ UNCHANGED <<file, master, seen, mkey, task, told>>
        /\ \A q \in Proc \ {p} : at'[q] = at[q]
    BY <1>0, <1>1 DEF Call, Go, ProcessesTyped
  <1>4. CASE mkey[p] = None
    <2>1. /\ todo' = [todo EXCEPT ![p] = call] /\ ks' = [ks EXCEPT ![p] = "load"]
          /\ cache' = cache
      BY <1>1, <1>4 DEF Call
    <2>. HIDE DEF call
    <2>2. todo'[p] = call /\ ks'[p] = "load" /\ Aside(p)
      BY <1>0, <1>3, <2>1 DEF Aside, KeystoreTypeOK
    <2>. QED BY <1>2, <1>3, <1>4, <2>2 DEF call
  <1>5. CASE mkey[p] # None
    <2>1. Apply(p, call, cache[p])
      BY <1>1, <1>5 DEF Call
    <2>. HIDE DEF call
    <2>2. /\ todo'[p] = NoCall /\ cache'[p] = Changed(p, call, cache[p])
          /\ ks'[p] = IF Saves(p, call, cache[p]) THEN "open" ELSE "idle"
          /\ Aside(p)
      BY <1>0, <1>3, <2>1 DEF Apply, Aside, KeystoreTypeOK
    <2>. QED BY <1>2, <1>3, <1>5, <2>2 DEF call
  <1>. QED BY <1>4, <1>5

\* The end of a process.
LEMMA EndEffect ==
    ASSUME NEW p \in Proc, Typed, Ended(p)
    PROVE  /\ ks'[p] = "idle" /\ mkey'[p] = None /\ todo'[p] = NoCall /\ at'[p] = "over"
           /\ Aside(p) /\ UNCHANGED <<file, master, task>> /\ exposed \subseteq exposed'
  <1>0. KeystoreTypeOK /\ ProcessesTyped
    BY TypesByParts DEF Typed
  <1>1. PICK o \in {"ok", "failed"} : End(p, o) /\ Forget(p)
    BY DEF Ended, Exit
  <1>2. exposed \subseteq exposed'
    BY DEF Ended
  <1>3. /\ ks'[p] = "idle" /\ mkey'[p] = None /\ todo'[p] = NoCall /\ at'[p] = "over"
        /\ UNCHANGED <<file, master, task>>
    BY <1>0, <1>1 DEF End, Forget, KeystoreTypeOK, ProcessesTyped
  <1>4. Aside(p)
    BY <1>0, <1>1 DEF End, Forget, KeystoreTypeOK, ProcessesTyped, Aside
  <1>. QED BY <1>2, <1>3, <1>4

\* A file call that fails.
LEMMA FailureEffect ==
    ASSUME NEW p \in Proc, Typed, FileFails(p)
    PROVE  /\ Aside(p) /\ UNCHANGED <<file, master, todo, mkey, at, task, told>>
           /\ \/ ks[p] \in {"load", "unlock"} /\ ks'[p] = "master"
              \/ ks[p] \in {"master", "mint", "minted", "open", "fill"} /\ ks'[p] = "throw"
           /\ ks[p] \in {"load", "unlock", "fill"} => Done \subseteq exposed'
           /\ exposed \subseteq exposed'
  <1>0. KeystoreTypeOK
    BY TypesByParts DEF Typed
  <1>1. UNCHANGED <<at, task, told>>
    BY DEF FileFails, runtimeVars
  <1>2. /\ ks[p] \in {"load", "unlock", "fill"} => Done \subseteq exposed'
        /\ exposed \subseteq exposed'
    BY DEF FileFails, Spoils
  <1>3. CASE LoadFails(p)
    BY <1>0, <1>1, <1>2, <1>3 DEF LoadFails, KeystoreTypeOK, Aside
  <1>4. CASE CallThrows(p)
    BY <1>0, <1>1, <1>2, <1>4 DEF CallThrows, KeystoreTypeOK, Aside
  <1>. QED BY <1>3, <1>4 DEF FileFails

\* What is known of a process that a step leaves aside.
LEMMA AsideKnown ==
    ASSUME NEW p \in Proc, NEW q \in Proc \ {p}, Aside(p), CallKnown(q), KeyKnown(q),
           exposed \subseteq exposed', master' = None => master = None
    PROVE  CallKnown(q)' /\ KeyKnown(q)'
  <1>1. CallKnown(q)'
    BY DEF Aside, CallKnown, Uses
  <1>2. KeyKnown(q)'
    BY DEF Aside, KeyKnown
  <1>. QED BY <1>1, <1>2

\* The step of one process, by what it leaves of that process.
LEMMA StepKnown ==
    ASSUME NEW p \in Proc, CallsKnown, KeysKnown, Aside(p), exposed \subseteq exposed',
           master' = None => master = None, CallKnown(p)', KeyKnown(p)', FileKnown'
    PROVE  (CallsKnown /\ KeysKnown)'
  <1>1. ASSUME NEW q \in Proc PROVE CallKnown(q)' /\ KeyKnown(q)'
    BY AsideKnown DEF CallsKnown, KeysKnown
  <1>. QED BY <1>1 DEF CallsKnown, KeysKnown

\* The steps of the key manager.
LEMMA KeystoreKnown ==
    ASSUME NEW p \in Proc, Typed, CallsKnown, KeysKnown, KeystoreStep(p),
           UNCHANGED <<runtimeVars, exposed>>
    PROVE  (CallsKnown /\ KeysKnown)'
  <1>0. KeystoreTypeOK /\ CallKnown(p) /\ KeyKnown(p) /\ FileKnown
        /\ None \notin Proc /\ Torn \notin Proc /\ None # Torn
    BY TypesByParts, BackupCommandAssumption DEF Typed, CallsKnown, KeysKnown
  <1>1. /\ ks[p] \notin {"idle", "throw"}
        /\ ks'[p] \in Loading => ks[p] \in Loading
        /\ todo'[p] \in {NoCall, todo[p]} /\ Aside(p)
    BY <1>0, KeystoreAside
  <1>2. UNCHANGED <<at, task, told, exposed>>
    BY DEF runtimeVars
  <1>3. KeyKnown(p)' /\ FileKnown' /\ (master' = None => master = None)
    <2>2. CASE Load(p)
      BY <1>0, <2>2 DEF Load, KeyKnown, FileKnown, KeystoreTypeOK
    <2>3. CASE Unlock(p)
      <3>1. /\ UNCHANGED <<file, master>> /\ mkey'[p] = master /\ master # None
            /\ seen[p] \in Proc
        BY <1>0, <2>3 DEF Unlock, KeyKnown, KeystoreTypeOK
      <3>2. CASE master = seen[p]
        <4>1. ks'[p] \in {"open", "idle"}
          BY <1>0, <2>3, <3>2 DEF Unlock, Apply, KeystoreTypeOK
        <4>. QED BY <1>0, <3>1, <3>2, <4>1 DEF KeyKnown, FileKnown
      <3>3. CASE master # seen[p]
        <4>1. ks'[p] = IF master = Torn THEN "throw" ELSE "open"
          BY <1>0, <2>3, <3>3 DEF Unlock, KeystoreTypeOK
        <4>2. master \in Proc \cup {None, Torn}
          BY <1>0 DEF KeystoreTypeOK
        <4>. QED BY <1>0, <3>1, <4>1, <4>2 DEF KeyKnown, FileKnown
      <3>. QED BY <3>2, <3>3
    <2>4. CASE GetMaster(p)
      <3>1. UNCHANGED <<file, master>> /\ master \in Proc \cup {None, Torn}
        BY <1>0, <2>4 DEF GetMaster, KeystoreTypeOK
      <3>2. CASE master = None
        BY <1>0, <2>4, <3>1, <3>2 DEF GetMaster, KeystoreTypeOK, KeyKnown, FileKnown
      <3>3. CASE master # None
        <4>1. mkey'[p] = master /\ ks'[p] = IF master = Torn THEN "throw" ELSE "open"
          BY <1>0, <2>4, <3>3 DEF GetMaster, KeystoreTypeOK
        <4>. QED BY <1>0, <3>1, <3>3, <4>1 DEF KeyKnown, FileKnown
      <3>. QED BY <3>2, <3>3
    <2>5. CASE MintMaster(p)
      BY <1>0, <2>5 DEF MintMaster, KeystoreTypeOK, KeyKnown, FileKnown
    <2>6. CASE FillMaster(p)
      BY <1>0, <2>6 DEF FillMaster, KeystoreTypeOK, KeyKnown, FileKnown
    <2>7. CASE OpenFile(p)
      BY <1>0, <2>7 DEF OpenFile, KeystoreTypeOK, KeyKnown, FileKnown
    <2>8. CASE FillFile(p)
      <3>1. /\ UNCHANGED <<master, mkey>> /\ mkey[p] \in Proc /\ master # None
            /\ file'.state = "ok" => file'.under = mkey[p]
        BY <1>0, <2>8 DEF FillFile, KeyKnown
      <3>2. ks'[p] \in {"open", "idle"}
        <4>1. CASE todo[p] = NoCall
          BY <1>0, <2>8, <4>1 DEF FillFile, KeystoreTypeOK
        <4>2. CASE todo[p] # NoCall
          BY <1>0, <2>8, <4>2 DEF FillFile, Apply, KeystoreTypeOK
        <4>. QED BY <4>1, <4>2
      <3>. QED BY <1>0, <3>1, <3>2 DEF KeyKnown, FileKnown
    <2>. QED
      BY <2>2, <2>3, <2>4, <2>5, <2>6, <2>7, <2>8 DEF KeystoreStep
  <1>4. Uses(p)'
    <2>1. CASE ks'[p] = "idle"
      <3>1. mkey'[p] # None
        <4>1. CASE Unlock(p)
          BY <1>0, <2>1, <4>1 DEF Unlock, KeyKnown, KeystoreTypeOK
        <4>2. CASE FillFile(p)
          BY <1>0, <4>2 DEF FillFile, KeyKnown
        <4>3. CASE ~Unlock(p) /\ ~FillFile(p)
          BY <1>0, <2>1, <4>3 DEF KeystoreStep, Load, GetMaster, MintMaster, FillMaster, OpenFile,
                                  KeystoreTypeOK
        <4>. QED BY <4>1, <4>2, <4>3
      <3>. QED BY <3>1 DEF Uses
    <2>. QED BY <2>1 DEF Uses
  <1>5. CallKnown(p)'
    <2>1. at[p] \in Using
      BY <1>0, <1>1 DEF CallKnown, Uses
    <2>2. task[p] = "backup" /\ ks'[p] \in Loading => at[p] = "post"
      BY <1>0, <1>1 DEF CallKnown
    <2>3. /\ todo'[p].op = "add" => todo'[p].ids \subseteq {p, "pending"}
          /\ todo'[p].op = "delete" => todo'[p].ids \subseteq exposed \cup {"pending"}
      BY <1>0, <1>1, NothingTyped DEF CallKnown
    <2>. QED BY <1>2, <1>4, <2>1, <2>2, <2>3 DEF CallKnown
  <1>. QED BY <1>1, <1>2, <1>3, <1>5, StepKnown

\* Where no store is kept or forgotten.
LEMMA UntouchedKnown ==
    ASSUME NEW p \in Proc, CallsKnown, KeysKnown, UNCHANGED <<keyVars, exposed>>, Aside(p),
           ks[p] = "idle", at'[p] \in Using <=> at[p] \in Using
    PROVE  (CallsKnown /\ KeysKnown)'
  <1>1. UNCHANGED <<file, master, ks, todo, cache, seen, mkey>>
    BY DEF keyVars
  <1>2. CallKnown(p)'
    BY <1>1 DEF CallsKnown, CallKnown, Uses, Loading
  <1>3. KeyKnown(p)' /\ FileKnown'
    BY <1>1 DEF KeysKnown, KeyKnown, FileKnown
  <1>. QED BY <1>1, <1>2, <1>3, StepKnown

\* Every step keeps what is known.
LEMMA KnownNext ==
    ASSUME Typed, CallsKnown, KeysKnown, [Next]_vars
    PROVE  (CallsKnown /\ KeysKnown)'
  <1>0. KeystoreTypeOK /\ ProcessesTyped /\ CallsPlaced
        /\ None \notin Proc /\ Torn \notin Proc /\ None # Torn
    BY TypesByParts, BackupCommandAssumption DEF Typed
  <1>1. ASSUME NEW p \in Proc, RuntimeStep(p), RuntimeOnly
        PROVE  (CallsKnown /\ KeysKnown)'
    <2>1. UNCHANGED <<keyVars, exposed>>
      BY <1>1 DEF RuntimeOnly
    <2>. QED BY <1>0, <1>1, <2>1, RuntimeAside, UntouchedKnown
  <1>2. ASSUME NEW p \in Proc, KeystoreStep(p), UNCHANGED <<runtimeVars, exposed>>
        PROVE  (CallsKnown /\ KeysKnown)'
    BY <1>2, KeystoreKnown
  <1>3. ASSUME NEW p \in Proc, CommandNext(p)
        PROVE  (CallsKnown /\ KeysKnown)'
    <2>0. CallKnown(p) /\ KeyKnown(p) /\ FileKnown
      BY DEF CallsKnown, KeysKnown
    <2>1. ASSUME NEW op \in {"get", "add", "delete", "import"}, NEW ids \in SUBSET Ids,
                 NEW s \in {"post", "drop", "kept", "lost", "confirm"}, CallMade(p, op, ids, s)
          PROVE  (CallsKnown /\ KeysKnown)'
      <3>1. /\ ks[p] = "idle" /\ at'[p] = s /\ Aside(p)
            /\ UNCHANGED <<file, master, seen, mkey, task, told>>
            /\ mkey[p] = None => ks'[p] = "load" /\ todo'[p] = [op |-> op, ids |-> ids]
            /\ mkey[p] # None => todo'[p] = NoCall /\ ks'[p] \in {"open", "idle"}
            /\ exposed \subseteq exposed'
            /\ op = "delete" => ids \subseteq exposed' \cup {"pending"}
        BY <2>1, CallEffect
      <3>2. s \in Using
        BY DEF Using, Kept
      <3>3. Uses(p)' /\ KeyKnown(p)'
        BY <1>0, <2>0, <3>1 DEF Uses, KeyKnown
      <3>4. task[p] = "backup" /\ mkey[p] = None => s = "post"
        BY <2>0, <2>1, <3>1 DEF CallMade, CallKnown, Uses
      <3>5. CallKnown(p)'
        <4>1. op = "add" => ids \subseteq {p, "pending"}
          BY <2>1 DEF CallMade
        <4>2. CASE mkey[p] = None
          BY <3>1, <3>2, <3>3, <3>4, <4>1, <4>2 DEF CallKnown
        <4>3. CASE mkey[p] # None
          BY <3>1, <3>2, <3>3, <4>3, NothingTyped DEF CallKnown, Loading
        <4>. QED BY <4>2, <4>3
      <3>6. FileKnown'
        BY <2>0, <3>1 DEF FileKnown
      <3>. QED BY <3>1, <3>3, <3>5, <3>6, StepKnown
    <2>2. CASE Ended(p)
      <3>1. /\ ks'[p] = "idle" /\ mkey'[p] = None /\ todo'[p] = NoCall /\ at'[p] = "over"
            /\ Aside(p) /\ UNCHANGED <<file, master, task>> /\ exposed \subseteq exposed'
        BY <2>2, EndEffect
      <3>2. KeyKnown(p)' /\ FileKnown'
        BY <2>0, <3>1 DEF KeyKnown, FileKnown
      <3>3. CallKnown(p)'
        BY <3>1, NothingTyped DEF CallKnown, Uses, Using, Kept, Loading
      <3>. QED BY <3>1, <3>2, <3>3, StepKnown
    <2>3. CASE GoneOn(p)
      BY <2>3, UntouchedKnown DEF GoneOn
    <2>4. CASE FileFails(p)
      <3>1. /\ Aside(p) /\ UNCHANGED <<file, master, todo, mkey, at, task>>
            /\ \/ ks[p] \in {"load", "unlock"} /\ ks'[p] = "master"
               \/ ks[p] \in {"master", "mint", "minted", "open", "fill"} /\ ks'[p] = "throw"
            /\ exposed \subseteq exposed'
        BY <2>4, FailureEffect
      <3>2. KeyKnown(p)' /\ FileKnown'
        BY <2>0, <3>1 DEF KeyKnown, FileKnown
      <3>3. CallKnown(p)'
        BY <2>0, <3>1 DEF CallKnown, Uses, Loading
      <3>. QED BY <3>1, <3>2, <3>3, StepKnown
    <2>. QED BY <1>3, <2>1, <2>2, <2>3, <2>4, CommandCases
  <1>4. ASSUME UNCHANGED <<keyVars, exposed, task, at, told>>
        PROVE  (CallsKnown /\ KeysKnown)'
    <2>1. UNCHANGED <<file, master, ks, todo, cache, seen, mkey>>
      BY <1>4 DEF keyVars
    <2>2. CallsKnown'
      BY <1>4, <2>1 DEF CallsKnown, CallKnown, Uses
    <2>3. KeysKnown'
      BY <2>1 DEF KeysKnown, KeyKnown, FileKnown
    <2>. QED BY <2>2, <2>3
  <1>. QED
    BY <1>1, <1>2, <1>3, <1>4 DEF Next, Boot, Degrade, RuntimeOnly, vars, runtimeVars

(***************************************************************************)
(* As long as there is a backup whose key is still heeded, done or using   *)
(* the keystore and not exposed, at most one process uses the keystore, it *)
(* has the master key of the file, and the key of every backup that is     *)
(* reported, or about to be, is in what the file holds or is about to.     *)
(***************************************************************************)
Heeded == (Done \cup InUse) \ exposed

OneUser == \A p, q \in Proc : Uses(p) /\ Uses(q) => p = q

InStep(q) ==
  /\ mkey[q] # None /\ ks[q] \in {"idle", "open", "fill"} => mkey[q] = master
  /\ ks[q] = "fill" => file.state = "torn"

AllInStep == \A q \in Proc : InStep(q)

InOrder == Heeded # {} => OneUser /\ AllInStep

\* A backup whose key has been handed to the key manager, and is not exposed.
Promised(i) ==
  /\ task[i] = "backup" /\ i \notin exposed
  /\ told[i] = "ok" \/ (at[i] \in {"drop", "kept"} /\ ks[i] # "throw")

\* Whoever uses the store has the key in what it has cached of it.
HeldBy(q, i) ==
  /\ ks[q] \notin {"master", "mint", "minted"}
  /\ ks[q] = "unlock" => cache[q][i] = i /\ seen[q] = master
  /\ ks[q] \in {"idle", "open", "fill"} /\ mkey[q] # None => cache[q][i] = i

Stored(i) == Readable(i) \/ (\E q \in Proc : ks[q] = "fill") \/ ks[i] = "open"

Held(i) == Stored(i) /\ \A q \in Proc : HeldBy(q, i)

PromisesHeld == \A i \in Proc : Promised(i) => Held(i)

\* The first state.
LEMMA OrderInit == Init => InOrder /\ PromisesHeld
  BY DEF Init, RuntimeInit, KeystoreInit, InOrder, Heeded, Done, InUse, PromisesHeld, Promised

\* A process that does not use the keystore is in step.
LEMMA UnusedInStep ==
    ASSUME NEW q \in Proc, ~Uses(q)
    PROVE  InStep(q) /\ \A i \in Proc : HeldBy(q, i)
  BY DEF Uses, InStep, HeldBy

\* The same, after a step.
LEMMA UnusedInStepNext ==
    ASSUME NEW q \in Proc, ~Uses(q)'
    PROVE  InStep(q)' /\ \A i \in Proc : HeldBy(q, i)'
  BY DEF Uses, InStep, HeldBy

\* A process that is left aside uses the keystore as before.
LEMMA AsideUses ==
    ASSUME NEW p \in Proc, NEW q \in Proc \ {p}, Aside(p)
    PROVE  Uses(q)' <=> Uses(q)
  BY DEF Aside, Uses

\* Backups that are done use it no more, those whose key is promised are heeded.
LEMMA Heeds ==
    ASSUME Typed, CallsKnown
    PROVE  /\ \A i \in Done : ~Uses(i) /\ at[i] = "over"
           /\ \A i \in Proc : Promised(i) => i \in Heeded /\ (i \in Done \/ Uses(i))
  <1>1. ASSUME NEW i \in Done PROVE ~Uses(i) /\ at[i] = "over"
    <2>1. i \in Proc /\ told[i] = "ok"
      BY DEF Done
    <2>2. at[i] = "over"
      BY <2>1 DEF Typed, AllPlaced, Placed
    <2>. QED BY <2>1, <2>2 DEF CallsKnown, CallKnown, Using, Kept
  <1>2. ASSUME NEW i \in Proc, Promised(i) PROVE i \in Heeded /\ (i \in Done \/ Uses(i))
    <2>1. CASE told[i] = "ok"
      BY <1>2, <2>1 DEF Promised, Heeded, Done
    <2>2. CASE at[i] \in {"drop", "kept"}
      <3>1. Uses(i)
        BY <2>2 DEF CallsKnown, CallKnown, Using, Kept
      <3>. QED BY <1>2, <3>1 DEF Promised, Heeded, InUse
    <2>. QED BY <1>2, <2>1, <2>2 DEF Promised
  <1>. QED BY <1>1, <1>2

\* Where nothing of the keystore changes, and no backup is heeded or promised anew.
LEMMA UntouchedInOrder ==
    ASSUME InOrder, PromisesHeld, UNCHANGED <<keyVars, exposed>>,
           Heeded' \subseteq Heeded, \A i \in Proc : Promised(i)' => Promised(i)
    PROVE  (InOrder /\ PromisesHeld)'
  <1>1. UNCHANGED <<file, master, ks, todo, cache, seen, mkey>>
    BY DEF keyVars
  <1>2. InOrder'
    BY <1>1 DEF InOrder, OneUser, Uses, AllInStep, InStep
  <1>3. PromisesHeld'
    BY <1>1 DEF PromisesHeld, Held, Stored, HeldBy, Readable
  <1>. QED BY <1>2, <1>3

\* The step of one process that alone uses the keystore.
LEMMA SoleInOrder ==
    ASSUME NEW p \in Proc, Aside(p), \A q \in Proc \ {p} : ~Uses(q),
           Heeded' # {} => InStep(p)',
           \A i \in Proc : Promised(i)' => HeldBy(p, i)' /\ Stored(i)'
    PROVE  (InOrder /\ PromisesHeld)'
  <1>1. \A q \in Proc \ {p} : ~Uses(q)'
    BY AsideUses
  <1>2. OneUser'
    BY <1>1 DEF OneUser
  <1>3. Heeded' # {} => AllInStep'
    BY <1>1, UnusedInStepNext DEF AllInStep
  <1>4. PromisesHeld'
    BY <1>1, UnusedInStepNext DEF PromisesHeld, Held
  <1>. QED BY <1>2, <1>3, <1>4 DEF InOrder

\* A call leaves the key of a backup in a store that has it, unless it is to be deleted.
LEMMA ChangedKeeps ==
    ASSUME NEW p \in Proc, NEW call, NEW s \in Stores, NEW i \in Proc, s[i] = i,
           call.op = "add" => call.ids \subseteq {p, "pending"},
           call.op = "delete" => i \notin call.ids
    PROVE  Changed(p, call, s)[i] = i
  <1>1. i \in Ids /\ i # "pending" /\ i # None
    BY BackupCommandAssumption DEF Ids
  <1>2. CASE call.op = "add"
    BY <1>1, <1>2 DEF Changed
  <1>3. CASE call.op = "delete"
    BY <1>1, <1>3 DEF Changed
  <1>4. CASE call.op = "import"
    BY <1>1, <1>4 DEF Changed
  <1>5. CASE call.op \notin {"add", "delete", "import"}
    BY <1>5 DEF Changed
  <1>. QED BY <1>2, <1>3, <1>4, <1>5

\* The rest of the call that a process works on keeps the promised keys.
LEMMA ApplyKeeps ==
    ASSUME NEW p \in Proc, Typed, CallsKnown, Apply(p, todo[p], cache[p]),
           NEW i \in Proc, i \notin exposed, cache[p][i] = i
    PROVE  cache'[p][i] = i /\ ks'[p] \in {"open", "idle"}
  <1>0. KeystoreTypeOK /\ CallKnown(p) /\ i # "pending"
    BY TypesByParts, BackupCommandAssumption DEF Typed, CallsKnown
  <1>1. cache[p] \in Stores
    BY <1>0 DEF KeystoreTypeOK
  <1>2. cache'[p] = Changed(p, todo[p], cache[p]) /\ ks'[p] \in {"open", "idle"}
    BY <1>0 DEF Apply, KeystoreTypeOK
  <1>3. /\ todo[p].op = "add" => todo[p].ids \subseteq {p, "pending"}
        /\ todo[p].op = "delete" => i \notin todo[p].ids
    BY <1>0 DEF CallKnown
  <1>. QED BY <1>1, <1>2, <1>3, ChangedKeeps

\* A step of the key manager: the process remains in step.
LEMMA KeystoreInStep ==
    ASSUME NEW p \in Proc, Typed, InStep(p), KeystoreStep(p)
    PROVE  InStep(p)'
  <1>0. KeystoreTypeOK
    BY TypesByParts DEF Typed
  <1>. USE DEF InStep
  <1>2. CASE Load(p)
    BY <1>0, <1>2 DEF Load, KeystoreTypeOK
  <1>3. CASE Unlock(p)
    <2>1. UNCHANGED <<file, master>> /\ mkey'[p] = master
      BY <1>0, <1>3 DEF Unlock, KeystoreTypeOK
    <2>2. ks'[p] # "fill"
      <3>1. CASE master = seen[p]
        BY <1>0, <1>3, <3>1 DEF Unlock, Apply, KeystoreTypeOK
      <3>2. CASE master # seen[p]
        BY <1>0, <1>3, <3>2 DEF Unlock, KeystoreTypeOK
      <3>. QED BY <3>1, <3>2
    <2>. QED BY <2>1, <2>2
  <1>4. CASE GetMaster(p)
    <2>1. CASE master = None
      BY <1>0, <1>4, <2>1 DEF GetMaster, KeystoreTypeOK
    <2>2. CASE master # None
      <3>1. mkey'[p] = master /\ master' = master /\ ks'[p] \in {"throw", "open"}
        BY <1>0, <1>4, <2>2 DEF GetMaster, KeystoreTypeOK
      <3>. QED BY <3>1
    <2>. QED BY <2>1, <2>2
  <1>5. CASE MintMaster(p) \/ FillMaster(p)
    BY <1>0, <1>5 DEF MintMaster, FillMaster, KeystoreTypeOK
  <1>6. CASE OpenFile(p)
    BY <1>0, <1>6 DEF OpenFile, KeystoreTypeOK
  <1>7. CASE FillFile(p)
    <2>1. UNCHANGED <<master, mkey>> /\ (mkey[p] # None => mkey[p] = master)
      BY <1>7 DEF FillFile
    <2>2. ks'[p] # "fill"
      <3>1. CASE todo[p] = NoCall
        BY <1>0, <1>7, <3>1 DEF FillFile, KeystoreTypeOK
      <3>2. CASE todo[p] # NoCall
        BY <1>0, <1>7, <3>2 DEF FillFile, Apply, KeystoreTypeOK
      <3>. QED BY <3>1, <3>2
    <2>. QED BY <2>1, <2>2
  <1>. QED
    BY <1>2, <1>3, <1>4, <1>5, <1>6, <1>7 DEF KeystoreStep

\* And what was promised is kept, by the one process that uses the keystore.
LEMMA KeystoreHolds ==
    ASSUME NEW p \in Proc, Typed, CallsKnown, KeysKnown, InStep(p), KeystoreStep(p),
           UNCHANGED exposed, NEW i \in Proc, i \notin exposed, HeldBy(p, i),
           Readable(i) \/ ks[p] = "fill" \/ (i = p /\ ks[p] = "open")
    PROVE  /\ HeldBy(p, i)'
           /\ Readable(i)' \/ ks'[p] = "fill" \/ (i = p /\ ks'[p] = "open")
  <1>0. KeystoreTypeOK /\ KeyKnown(p) /\ None \notin Proc
    BY TypesByParts, BackupCommandAssumption DEF Typed, KeysKnown
  <1>1. ~GetMaster(p) /\ ~MintMaster(p) /\ ~FillMaster(p)
    BY DEF HeldBy, GetMaster, MintMaster, FillMaster
  <1>2. CASE Load(p)
    <2>1. Readable(i)
      BY <1>2 DEF Load
    <2>2. /\ ks'[p] = "unlock" /\ cache'[p] = file.keys /\ seen'[p] = file.under
          /\ UNCHANGED <<file, master>>
      BY <1>0, <1>2, <2>1 DEF Load, Readable, KeystoreTypeOK
    <2>. QED BY <2>1, <2>2 DEF Readable, HeldBy
  <1>3. CASE Unlock(p)
    <2>1. Readable(i) /\ cache[p][i] = i /\ seen[p] = master
      BY <1>3 DEF Unlock, HeldBy
    <2>2. Apply(p, todo[p], cache[p]) /\ UNCHANGED <<file, master>>
      BY <1>3, <2>1 DEF Unlock
    <2>3. cache'[p][i] = i /\ ks'[p] \in {"open", "idle"}
      BY <2>1, <2>2, ApplyKeeps
    <2>. QED BY <2>1, <2>2, <2>3 DEF Readable, HeldBy
  <1>4. CASE OpenFile(p)
    <2>1. ks[p] = "open" /\ ks'[p] = "fill" /\ UNCHANGED <<cache, mkey>>
      BY <1>0, <1>4 DEF OpenFile, KeystoreTypeOK
    <2>. QED BY <2>1 DEF HeldBy
  <1>5. CASE FillFile(p)
    <2>1. ks[p] = "fill" /\ mkey[p] # None /\ mkey[p] = master /\ cache[p][i] = i
      BY <1>0, <1>5 DEF FillFile, KeyKnown, InStep, HeldBy
    <2>2. file' = [state |-> "ok", keys |-> cache[p], under |-> mkey[p]] /\ master' = master
      BY <1>5 DEF FillFile, InStep
    <2>3. Readable(i)'
      BY <2>1, <2>2 DEF Readable
    <2>4. cache'[p][i] = i /\ ks'[p] \in {"open", "idle"}
      <3>1. CASE todo[p] = NoCall
        BY <1>0, <1>5, <2>1, <3>1 DEF FillFile, KeystoreTypeOK
      <3>2. CASE todo[p] # NoCall
        BY <1>5, <2>1, <3>2, ApplyKeeps DEF FillFile
      <3>. QED BY <3>1, <3>2
    <2>. QED BY <2>3, <2>4 DEF HeldBy
  <1>. QED
    BY <1>1, <1>2, <1>3, <1>4, <1>5 DEF KeystoreStep

\* What a step may do to who is done and who uses the keystore.
LEMMA HeededStep ==
    ASSUME NEW p \in Proc, Aside(p), exposed \subseteq exposed',
           told'[p] = "ok" /\ task'[p] = "backup" => p \in Done \cup InUse,
           Uses(p)' /\ task'[p] = "backup" => p \in InUse
    PROVE  Heeded' \subseteq Heeded
  <1>. SUFFICES ASSUME NEW i \in Proc, i \in (Done \cup InUse)' PROVE i \in Done \cup InUse
    BY DEF Heeded, Done, InUse
  <1>1. CASE i = p
    BY <1>1 DEF Done, InUse
  <1>2. CASE i # p
    BY <1>2, AsideUses DEF Aside, Done, InUse
  <1>. QED BY <1>1, <1>2

\* The steps of the key manager.
LEMMA KeystoreInOrder ==
    ASSUME NEW p \in Proc, Typed, CallsKnown, KeysKnown, InOrder, PromisesHeld,
           KeystoreStep(p), UNCHANGED <<runtimeVars, exposed>>
    PROVE  (InOrder /\ PromisesHeld)'
  <1>1. ks[p] \notin {"idle", "throw"} /\ Aside(p)
    BY KeystoreAside, TypesByParts DEF Typed
  <1>2. UNCHANGED <<task, at, told, exposed>> /\ Uses(p)
    BY <1>1 DEF runtimeVars, Uses
  <1>3. Heeded' \subseteq Heeded
    BY <1>1, <1>2, HeededStep DEF Done, InUse
  <1>4. \A i \in Proc : Promised(i)' => Promised(i)
    <2>. SUFFICES ASSUME NEW i \in Proc, Promised(i)' PROVE Promised(i)
      OBVIOUS
    <2>1. ks'[i] # "throw" => ks[i] # "throw"
      BY <1>1 DEF Aside
    <2>. QED BY <1>2, <2>1 DEF Promised
  <1>5. CASE Heeded = {}
    <2>1. \A i \in Proc : ~Promised(i)'
      BY <1>4, <1>5, Heeds
    <2>. QED BY <1>3, <1>5, <2>1 DEF InOrder, PromisesHeld
  <1>6. CASE Heeded # {}
    <2>1. (\A q \in Proc \ {p} : ~Uses(q)) /\ InStep(p)
      BY <1>2, <1>6 DEF InOrder, OneUser, AllInStep
    <2>2. InStep(p)'
      BY <2>1, KeystoreInStep
    <2>3. ASSUME NEW i \in Proc, Promised(i)' PROVE HeldBy(p, i)' /\ Stored(i)'
      <3>1. Held(i) /\ i \notin exposed
        BY <1>4, <2>3 DEF PromisesHeld, Promised
      <3>2. HeldBy(p, i) /\ (Readable(i) \/ ks[p] = "fill" \/ (i = p /\ ks[p] = "open"))
        BY <2>1, <3>1 DEF Held, Stored, Uses
      <3>3. HeldBy(p, i)' /\ (Readable(i)' \/ ks'[p] = "fill" \/ (i = p /\ ks'[p] = "open"))
        BY <1>2, <2>1, <3>1, <3>2, KeystoreHolds
      <3>. QED BY <3>3 DEF Stored
    <2>. QED BY <1>1, <2>1, <2>2, <2>3, SoleInOrder
  <1>. QED BY <1>5, <1>6

\* A call.  When another process uses the keystore, no key is heeded any more.
LEMMA CallInOrder ==
    ASSUME NEW p \in Proc, Typed, CallsKnown, KeysKnown, InOrder, PromisesHeld,
           NEW op \in {"get", "add", "delete", "import"}, NEW ids \in SUBSET Ids,
           NEW s \in {"post", "drop", "kept", "lost", "confirm"}, CallMade(p, op, ids, s),
           (CallsKnown /\ Typed)'
    PROVE  (InOrder /\ PromisesHeld)'
  <1>0. KeystoreTypeOK /\ CallKnown(p)
    BY TypesByParts DEF Typed, CallsKnown
  <1>. DEFINE call == [op |-> op, ids |-> ids]
  <1>1. /\ ks[p] = "idle" /\ at'[p] = s /\ Aside(p)
        /\ UNCHANGED <<file, master, seen, mkey, task, told>>
        /\ mkey[p] = None => ks'[p] = "load" /\ todo'[p] = call
        /\ mkey[p] # None =>
             /\ todo'[p] = NoCall /\ cache'[p] = Changed(p, call, cache[p])
             /\ ks'[p] = IF Saves(p, call, cache[p]) THEN "open" ELSE "idle"
        /\ exposed \subseteq exposed'
        /\ op = "delete" => ids \subseteq exposed' \cup {"pending"}
        /\ (\E q \in Proc \ {p} : Uses(q)) => Done \cup InUse \cup {p} \subseteq exposed'
    BY CallEffect
  <1>2. call.op = op /\ call.ids = ids
    OBVIOUS
  <1>. HIDE DEF call
  <1>3. Done' = Done /\ InUse' \subseteq InUse \cup {p}
    BY <1>1, AsideUses DEF Done, InUse
  <1>4. \A i \in Proc : Promised(i)' => i \in Heeded'
    <2>1. \A i \in Proc : Promised(i)' => told'[i] = "ok" \/ at'[i] \in {"drop", "kept"}
      BY DEF Promised
    <2>2. \A i \in Proc : at'[i] \in {"drop", "kept"} => Uses(i)'
      BY DEF CallsKnown, CallKnown, Using, Kept
    <2>. QED BY <2>1, <2>2 DEF Promised, Heeded, Done, InUse
  <1>5. CASE \E q \in Proc \ {p} : Uses(q)
    <2>1. Heeded' = {}
      BY <1>1, <1>3, <1>5 DEF Heeded
    <2>. QED BY <1>4, <2>1 DEF InOrder, PromisesHeld
  <1>6. CASE \A q \in Proc \ {p} : ~Uses(q)
    <2>1. ASSUME Heeded' # {} PROVE InStep(p)'
      <3>1. CASE mkey[p] = None
        BY <1>1, <3>1 DEF InStep
      <3>2. CASE mkey[p] # None
        <4>1. Heeded # {}
          <5>1. PICK i \in Heeded' : TRUE
            BY <2>1
          <5>2. i \in Done \cup InUse \cup {p} /\ i \notin exposed
            BY <1>1, <1>3, <5>1 DEF Heeded
          <5>3. i = p => task[p] = "backup" /\ Uses(p)
            <6>1. i = p => task'[p] = "backup"
              BY <5>1 DEF Heeded, Done, InUse
            <6>. QED BY <1>1, <3>2, <6>1 DEF Uses
          <5>. QED BY <5>2, <5>3 DEF Heeded, InUse
        <4>2. mkey[p] = master
          BY <1>1, <3>2, <4>1 DEF InOrder, AllInStep, InStep
        <4>3. ks'[p] # "fill"
          BY <1>1, <3>2
        <4>. QED BY <1>1, <4>2, <4>3 DEF InStep
      <3>. QED BY <3>1, <3>2
    <2>2. ASSUME NEW i \in Proc, Promised(i)' PROVE HeldBy(p, i)' /\ Stored(i)'
      <3>0. i \notin exposed' /\ i \notin exposed /\ task[i] = "backup"
        BY <1>1, <2>2 DEF Promised
      <3>1. ASSUME Promised(i) PROVE HeldBy(p, i)' /\ Stored(i)'
        <4>1. HeldBy(p, i) /\ Stored(i)
          BY <3>1 DEF PromisesHeld, Held
        <4>2. Readable(i)
          BY <1>1, <1>6, <4>1 DEF Stored, Uses
        <4>3. Stored(i)'
          BY <1>1, <4>2 DEF Stored, Readable
        <4>4. CASE mkey[p] = None
          BY <1>1, <4>3, <4>4 DEF HeldBy
        <4>5. CASE mkey[p] # None
          <5>1. cache[p][i] = i /\ cache[p] \in Stores
            BY <1>0, <1>1, <4>1, <4>5 DEF HeldBy, KeystoreTypeOK
          <5>2. /\ call.op = "add" => call.ids \subseteq {p, "pending"}
                /\ call.op = "delete" => i \notin call.ids
            BY <1>1, <1>2, <3>0, BackupCommandAssumption DEF CallMade
          <5>3. cache'[p][i] = i
            BY <1>1, <4>5, <5>1, <5>2, ChangedKeeps
          <5>. QED BY <1>1, <4>3, <4>5, <5>3 DEF HeldBy
        <4>. QED BY <4>4, <4>5
      <3>2. CASE told[i] = "ok" \/ i # p
        <4>1. Promised(i)
          BY <1>1, <2>2, <3>0, <3>2 DEF Promised, Aside
        <4>. QED BY <3>1, <4>1
      <3>3. CASE told[i] # "ok" /\ i = p
        <4>1. s \in {"drop", "kept"} /\ task[p] = "backup"
          BY <1>1, <2>2, <3>0, <3>3 DEF Promised
        <4>2. CASE at[p] = "drop"
          BY <1>1, <3>0, <3>1, <3>3, <4>2 DEF Promised
        <4>3. CASE at[p] = "keep" /\ op = "add" /\ p \in ids
          <5>1. mkey[p] # None
            BY <1>0, <1>1, <4>3 DEF CallKnown, Uses, Using, Kept
          <5>2. cache'[p][p] = p
            BY <1>1, <1>2, <4>3, <5>1 DEF Changed, Ids
          <5>3. ks'[p] = "open"
            BY <1>1, <1>2, <4>3, <5>1 DEF Saves
          <5>. QED BY <3>3, <5>2, <5>3 DEF HeldBy, Stored
        <4>. QED BY <4>1, <4>2, <4>3 DEF CallMade
      <3>. QED BY <3>2, <3>3
    <2>. QED BY <1>1, <1>6, <2>1, <2>2, SoleInOrder
  <1>. QED BY <1>5, <1>6

\* The end of a process.
LEMMA EndInOrder ==
    ASSUME NEW p \in Proc, Typed, CallsKnown, KeysKnown, InOrder, PromisesHeld, Ended(p)
    PROVE  (InOrder /\ PromisesHeld)'
  <1>1. /\ ks'[p] = "idle" /\ mkey'[p] = None /\ at'[p] = "over"
        /\ Aside(p) /\ UNCHANGED <<file, master, task>> /\ exposed \subseteq exposed'
    BY EndEffect
  <1>2. ~Uses(p)'
    BY <1>1 DEF Uses
  <1>3. told'[p] = "ok" /\ task[p] = "backup" => at[p] = "kept" /\ ks[p] = "idle" /\ Uses(p)
    BY DEF Ended, CallsKnown, CallKnown, Using, Kept
  <1>4. Heeded' \subseteq Heeded
    BY <1>1, <1>2, <1>3, HeededStep DEF InUse
  <1>5. InOrder'
    <2>. SUFFICES ASSUME Heeded' # {} PROVE OneUser' /\ AllInStep'
      BY DEF InOrder
    <2>1. OneUser /\ AllInStep
      BY <1>4 DEF InOrder
    <2>2. OneUser'
      BY <1>1, <1>2, <2>1, AsideUses DEF OneUser
    <2>3. ASSUME NEW q \in Proc PROVE InStep(q)'
      <3>1. CASE q = p
        BY <1>2, <3>1, UnusedInStepNext
      <3>2. CASE q # p
        BY <1>1, <2>1, <3>2 DEF AllInStep, InStep, Aside
      <3>. QED BY <3>1, <3>2
    <2>. QED BY <2>2, <2>3 DEF AllInStep
  <1>6. ASSUME NEW i \in Proc, Promised(i)' PROVE Held(i)'
    <2>0. i \notin exposed' /\ i \notin exposed
      BY <1>1, <1>6 DEF Promised
    <2>1. Promised(i) /\ (i = p => ks[p] = "idle")
      <3>1. CASE i # p
        BY <1>1, <1>6, <3>1 DEF Promised, Aside
      <3>2. CASE i = p
        <4>1. told'[p] = "ok" /\ task[p] = "backup"
          BY <1>1, <1>6, <3>2 DEF Promised
        <4>. QED BY <1>3, <2>0, <3>2, <4>1 DEF Promised
      <3>. QED BY <3>1, <3>2
    <2>2. Held(i)
      BY <2>1 DEF PromisesHeld
    <2>3. ks[p] # "fill"
      <3>. SUFFICES ASSUME ks[p] = "fill" PROVE FALSE
        OBVIOUS
      <3>1. Uses(p) /\ i \notin Done /\ i # p
        BY <2>0, <2>1 DEF Ended, Uses
      <3>2. Uses(i) /\ Heeded # {}
        BY <2>1, <3>1, Heeds
      <3>. QED BY <3>1, <3>2 DEF InOrder, OneUser
    <2>4. Stored(i)'
      <3>1. CASE Readable(i)
        BY <1>1, <3>1 DEF Readable, Stored
      <3>2. CASE \E q \in Proc : ks[q] = "fill"
        BY <1>1, <2>3, <3>2 DEF Aside, Stored
      <3>3. CASE ks[i] = "open"
        BY <1>1, <2>1, <3>3 DEF Aside, Stored
      <3>. QED BY <2>2, <3>1, <3>2, <3>3 DEF Held, Stored
    <2>5. ASSUME NEW q \in Proc PROVE HeldBy(q, i)'
      <3>1. CASE q = p
        BY <1>2, <3>1, UnusedInStepNext
      <3>2. CASE q # p
        BY <1>1, <2>2, <3>2 DEF Held, HeldBy, Aside
      <3>. QED BY <3>1, <3>2
    <2>. QED BY <2>4, <2>5 DEF Held
  <1>. QED BY <1>5, <1>6 DEF PromisesHeld

\* A file call that fails.  What was done when the file could not be read, or was cut short,
\* is heeded no more; and the process that uses it ends.
LEMMA FailureInOrder ==
    ASSUME NEW p \in Proc, Typed, CallsKnown, KeysKnown, InOrder, PromisesHeld, FileFails(p)
    PROVE  (InOrder /\ PromisesHeld)'
  <1>1. /\ Aside(p) /\ UNCHANGED <<file, master, todo, mkey, at, task, told>>
        /\ \/ ks[p] \in {"load", "unlock"} /\ ks'[p] = "master"
           \/ ks[p] \in {"master", "mint", "minted", "open", "fill"} /\ ks'[p] = "throw"
        /\ ks[p] \in {"load", "unlock", "fill"} => Done \subseteq exposed'
        /\ exposed \subseteq exposed'
    BY FailureEffect
  <1>2. Uses(p)
    BY <1>1 DEF Uses
  <1>3. Heeded' \subseteq Heeded
    BY <1>1, <1>2, HeededStep DEF Done, InUse
  <1>4. \A i \in Proc : Promised(i)' => Promised(i)
    <2>. SUFFICES ASSUME NEW i \in Proc, Promised(i)' PROVE Promised(i)
      OBVIOUS
    <2>1. ks'[i] # "throw" => ks[i] # "throw"
      BY <1>1 DEF Aside
    <2>. QED BY <1>1, <2>1 DEF Promised
  <1>5. CASE Heeded = {}
    <2>1. \A i \in Proc : ~Promised(i)'
      BY <1>4, <1>5, Heeds
    <2>. QED BY <1>3, <1>5, <2>1 DEF InOrder, PromisesHeld
  <1>6. CASE Heeded # {}
    <2>1. (\A q \in Proc \ {p} : ~Uses(q)) /\ InStep(p)
      BY <1>2, <1>6 DEF InOrder, OneUser, AllInStep
    <2>2. InStep(p)'
      BY <1>1 DEF InStep
    <2>3. ASSUME NEW i \in Proc, Promised(i)' PROVE HeldBy(p, i)' /\ Stored(i)'
      <3>1. Held(i) /\ Promised(i) /\ i \notin exposed'
        BY <1>4, <2>3 DEF PromisesHeld, Promised
      <3>2. i \in Done
        <4>. SUFFICES ASSUME i \notin Done PROVE FALSE
          OBVIOUS
        <4>1. i = p
          BY <2>1, <3>1, Heeds
        <4>2. ks'[p] # "throw" /\ told[p] # "ok" /\ task[p] = "backup"
          BY <1>1, <2>3, <4>1 DEF Promised, Done
        <4>3. at[p] = "post"
          BY <1>1, <4>2 DEF CallsKnown, CallKnown, Loading
        <4>. QED BY <3>1, <4>1, <4>2, <4>3 DEF Promised
      <3>3. ks[p] \notin {"load", "unlock", "fill", "master", "mint", "minted"}
        BY <1>1, <3>1, <3>2 DEF Held, HeldBy
      <3>4. ks[p] = "open" /\ ks'[p] = "throw"
        BY <1>1, <3>3
      <3>5. i # p
        BY <1>2, <3>2, Heeds
      <3>6. Readable(i)
        BY <2>1, <3>1, <3>4, <3>5 DEF Held, Stored, Uses
      <3>. QED BY <1>1, <3>4, <3>6 DEF HeldBy, Stored, Readable
    <2>. QED BY <1>1, <2>1, <2>2, <2>3, SoleInOrder
  <1>. QED BY <1>5, <1>6

\* All steps.
LEMMA OrderNext ==
    ASSUME Typed, CallsKnown, KeysKnown, InOrder, PromisesHeld, [Next]_vars,
           (Typed /\ CallsKnown)'
    PROVE  (InOrder /\ PromisesHeld)'
  <1>0. ProcessesTyped /\ CallsPlaced /\ AllPlaced
    BY TypesByParts DEF Typed
  <1>1. ASSUME NEW p \in Proc, RuntimeStep(p), RuntimeOnly
        PROVE  (InOrder /\ PromisesHeld)'
    <2>1. UNCHANGED <<keyVars, exposed>>
      BY <1>1 DEF RuntimeOnly
    <2>2. ks[p] = "idle" /\ at[p] \notin Using /\ at'[p] \notin Using /\ Aside(p)
      BY <1>0, <1>1, <2>1, RuntimeAside
    <2>3. task'[p] = "backup" => told'[p] # "ok"
      BY <1>0, <1>1, BackupsGoOn
    <2>4. ~Uses(p)'
      BY <2>2 DEF CallsKnown, CallKnown
    <2>5. Heeded' \subseteq Heeded
      BY <2>1, <2>2, <2>3, <2>4, HeededStep
    <2>6. ASSUME NEW i \in Proc, Promised(i)' PROVE Promised(i)
      <3>1. i # p
        BY <2>2, <2>3, <2>6 DEF Promised, Using, Kept
      <3>. QED BY <2>1, <2>2, <2>6, <3>1 DEF Promised, Aside
    <2>. QED BY <2>1, <2>5, <2>6, UntouchedInOrder
  <1>2. ASSUME NEW p \in Proc, KeystoreStep(p), UNCHANGED <<runtimeVars, exposed>>
        PROVE  (InOrder /\ PromisesHeld)'
    BY <1>2, KeystoreInOrder
  <1>3. ASSUME NEW p \in Proc, CommandNext(p)
        PROVE  (InOrder /\ PromisesHeld)'
    <2>1. CASE \E op \in {"get", "add", "delete", "import"}, ids \in SUBSET Ids,
                  s \in {"post", "drop", "kept", "lost", "confirm"} : CallMade(p, op, ids, s)
      BY <2>1, CallInOrder
    <2>2. CASE Ended(p)
      BY <2>2, EndInOrder
    <2>3. CASE GoneOn(p)
      <3>1. /\ UNCHANGED <<keyVars, exposed>> /\ ks[p] = "idle"
            /\ at'[p] \in Using <=> at[p] \in Using
            /\ at'[p] \notin {"drop", "kept"} /\ told'[p] # "ok"
            /\ at[p] \in Using => task'[p] = task[p]
            /\ Aside(p)
        BY <2>3 DEF GoneOn
      <3>2. Uses(p)' => Uses(p) /\ task'[p] = task[p]
        BY <3>1 DEF CallsKnown, CallKnown
      <3>3. Heeded' \subseteq Heeded
        BY <3>1, <3>2, HeededStep DEF InUse
      <3>4. ASSUME NEW i \in Proc, Promised(i)' PROVE Promised(i)
        <4>1. i # p
          BY <3>1, <3>4 DEF Promised
        <4>. QED BY <3>1, <3>4, <4>1 DEF Promised, Aside
      <3>. QED BY <3>1, <3>3, <3>4, UntouchedInOrder
    <2>4. CASE FileFails(p)
      BY <2>4, FailureInOrder
    <2>. QED BY <1>3, <2>1, <2>2, <2>3, <2>4, CommandCases
  <1>4. ASSUME UNCHANGED <<keyVars, exposed, task, at, told>>
        PROVE  (InOrder /\ PromisesHeld)'
    <2>1. UNCHANGED <<ks, mkey, exposed, task, at, told>>
      BY <1>4 DEF keyVars
    <2>2. Heeded' = Heeded /\ \A i \in Proc : Promised(i)' => Promised(i)
      BY <2>1 DEF Heeded, Done, InUse, Uses, Promised
    <2>. QED BY <1>4, <2>2, UntouchedInOrder
  <1>. QED
    BY <1>1, <1>2, <1>3, <1>4 DEF Next, Boot, Degrade, RuntimeOnly, vars, runtimeVars

\* In every state.
LEMMA AlwaysInOrder == Spec => [](CallsKnown /\ KeysKnown /\ InOrder /\ PromisesHeld)
  <1>1. Init => CallsKnown /\ KeysKnown /\ InOrder /\ PromisesHeld
    BY KnownInit, OrderInit
  <1>2. Typed /\ Typed' /\ (CallsKnown /\ KeysKnown /\ InOrder /\ PromisesHeld) /\ [Next]_vars
          => (CallsKnown /\ KeysKnown /\ InOrder /\ PromisesHeld)'
    BY KnownNext, OrderNext
  <1>. QED
    BY <1>1, <1>2, AlwaysTyped, PTL DEF Spec

(***************************************************************************)
(* The key of every backup reported as done is in the keystore until a     *)
(* user deletes it, as long as the commands that use the keystore come one *)
(* after the other and, from then on, none of them fails to read it or is  *)
(* cut short once it has truncated it.  Every other failing call, and an   *)
(* interruption anywhere else, leaves the key there.                       *)
(***************************************************************************)
THEOREM KeysStay == Spec => []KeysKept
  <1>1. Typed /\ CallsKnown /\ PromisesHeld => KeysKept
    <2>. SUFFICES ASSUME Typed, CallsKnown, PromisesHeld, NEW p \in Done, p \notin exposed
                  PROVE  Readable(p) \/ \E q \in Proc : ks[q] = "fill"
      BY DEF KeysKept, Typed
    <2>1. Promised(p) /\ p \in Proc
      BY DEF Promised, Done
    <2>2. ks[p] # "open"
      BY Heeds DEF Uses
    <2>. QED BY <2>1, <2>2 DEF PromisesHeld, Held, Stored
  <1>. QED
    BY <1>1, AlwaysTyped, AlwaysInOrder, PTL
==============================================================================
