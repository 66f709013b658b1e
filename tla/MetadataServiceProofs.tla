------------------------ MODULE MetadataServiceProofs ------------------------
(***************************************************************************)
(* The metadata service, for any number of schedules, storage locations,   *)
(* channels, commands and repetitions: the scheduler's map always has the  *)
(* tasks that run, and a schedule that was stopped stays so; the default   *)
(* location and the notification settings that a command reports stand,    *)
(* although handlers interleave and requests are sent again.               *)
(***************************************************************************)
EXTENDS MetadataService, TLAPS

-----------------------------------------------------------------------------
(* The schedules                                                           *)

(***************************************************************************)
(* A task has one cause: a creation that is over, or the list of rows that *)
(* a restarted process has gone through, and then its row is the wizard's. *)
(* A list holds rows of schedules that were enabled when it was read; one  *)
(* that was stopped since is marked as overtaken.                          *)
(***************************************************************************)
Caused(s) ==
    /\ tasks[s] > 0 <=> mapped[s]
    /\ origin[s] \in {"wizard", "misspelt"} => create[s] = "idle"
    /\ create[s] = "made" => tasks[s] = 0 /\ row[s] # "absent"
    /\ create[s] = "idle" /\ loading # "over" => tasks[s] = 0
    /\ loading # "loop" => s \notin listed
    /\ row[s] = "absent"
         => origin[s] = "none" /\ tasks[s] = 0 /\ stop[s] = "idle" /\ s \notin listed
    /\ stop[s] \in {"done", "overtaken"} => row[s] = "disabled"
    /\ stop[s] = "done" => s \notin listed

AllCaused == TypeOK /\ \A s \in Schedule : Caused(s)

\* At the start there is no row and no task.
LEMMA CausedInit == Init => AllCaused
BY RegistryAssumption DEF Init, AllCaused, TypeOK, Caused

\* The requests and rows of one schedule.
LEMMA RequestsKeepCaused ==
    ASSUME AllCaused, NEW s \in Schedule,
           CreateRow(s) \/ WizardRow(s) \/ StartTask(s) \/ StopTask(s) \/ MarkStopped(s)
    PROVE  AllCaused'
<1> USE RegistryAssumption
<1>0. \A by \in {"scheduler", "wizard", "misspelt"} : Insert(s, by) =>
        /\ row' = [row EXCEPT ![s] = "enabled"]
        /\ origin' = [origin EXCEPT ![s] = by]
        /\ made' \in Seq(Schedule)
  <2>1. <<s>> \in Seq(Schedule)
    OBVIOUS
  <2>2. <<s>> \o made \in Seq(Schedule)
    BY <2>1 DEF AllCaused, TypeOK
  <2>3. QED
    BY <2>2 DEF Insert
<1>1. CASE CreateRow(s)
  <2> create[s] = "idle" /\ row[s] = "absent" /\ stop[s] = "idle"
    BY <1>1 DEF CreateRow, AllCaused, TypeOK, Caused
  <2>1. CASE Insert(s, "scheduler") /\ create' = [create EXCEPT ![s] = "made"] /\ UNCHANGED faults
    <3>1. TypeOK'
      BY <1>0, <1>1, <2>1 DEF CreateRow, AllCaused, TypeOK
    <3>2. ASSUME NEW z \in Schedule PROVE Caused(z)'
      <4>1. /\ z # s => create'[z] = create[z] /\ row'[z] = row[z] /\ origin'[z] = origin[z]
            /\ UNCHANGED <<stop, tasks, mapped, loading, listed>>
        BY <1>0, <1>1, <2>1 DEF CreateRow, AllCaused, TypeOK
      <4>2. CASE z = s
        BY <1>0, <1>1, <2>1, <4>1, <4>2 DEF AllCaused, TypeOK, Caused
      <4>3. CASE z # s
        BY <4>1, <4>3 DEF AllCaused, Caused
      <4>4. QED
        BY <4>2, <4>3
    <3>3. QED
      BY <3>1, <3>2 DEF AllCaused
  <2>2. CASE /\ Insert(s, "scheduler") \/ UNCHANGED <<row, origin, made>>
             /\ Fault /\ create' = [create EXCEPT ![s] = "failed"]
    <3>1. TypeOK'
      <4>1. /\ row' \in [Schedule -> {"absent", "enabled", "disabled"}]
            /\ origin' \in [Schedule -> {"none", "scheduler", "wizard", "misspelt"}]
            /\ made' \in Seq(Schedule)
        BY <1>0, <2>2 DEF AllCaused, TypeOK
      <4>2. UNCHANGED <<stop, tasks, mapped, loading, listed, restarts>>
        BY <1>1 DEF CreateRow
      <4>3. faults' \in 0 .. MaxFaults
        BY <2>2 DEF Fault, AllCaused, TypeOK
      <4>4. create' \in [Schedule -> {"idle", "made", "done", "failed"}]
        BY <2>2 DEF AllCaused, TypeOK
      <4>5. QED
        BY <4>1, <4>2, <4>3, <4>4 DEF AllCaused, TypeOK
    <3>2. ASSUME NEW z \in Schedule PROVE Caused(z)'
      <4>1. /\ z # s => create'[z] = create[z] /\ row'[z] = row[z] /\ origin'[z] = origin[z]
            /\ UNCHANGED <<stop, tasks, mapped, loading, listed>>
        BY <1>0, <1>1, <2>2 DEF CreateRow, AllCaused, TypeOK
      <4>2. CASE z = s
        <5>1. create'[s] = "failed" /\ create[s] = "idle" /\ row[s] = "absent" /\ tasks[s] = 0
          BY <2>2 DEF AllCaused, TypeOK, Caused
        <5>2. \/ row'[s] = "enabled" /\ origin'[s] = "scheduler"
              \/ row'[s] = "absent" /\ origin'[s] = "none"
          BY <1>0, <2>2 DEF AllCaused, TypeOK, Caused
        <5>3. QED
          BY <4>1, <4>2, <5>1, <5>2 DEF AllCaused, Caused
      <4>3. CASE z # s
        BY <4>1, <4>3 DEF AllCaused, Caused
      <4>4. QED
        BY <4>2, <4>3
    <3>3. QED
      BY <3>1, <3>2 DEF AllCaused
  <2>3. QED
    BY <1>1, <2>1, <2>2 DEF CreateRow
<1>2. CASE WizardRow(s)
  <2>1. TypeOK'
    BY <1>0, <1>2 DEF WizardRow, AllCaused, TypeOK
  <2>2. ASSUME NEW z \in Schedule PROVE Caused(z)'
    BY <1>0, <1>2 DEF WizardRow, AllCaused, TypeOK, Caused
  <2>3. QED
    BY <2>1, <2>2 DEF AllCaused
<1>3. CASE StartTask(s)
  BY <1>3 DEF StartTask, AllCaused, TypeOK, Caused
<1>4. CASE StopTask(s)
  <2>1. mapped[s] => tasks[s] = 1
    BY DEF AllCaused, TypeOK, Caused
  <2>2. CASE mapped[s]
    <3>1. tasks' = [tasks EXCEPT ![s] = 0] /\ mapped' = [mapped EXCEPT ![s] = FALSE]
      BY <1>4, <2>1, <2>2 DEF StopTask, AllCaused, TypeOK
    <3>2. QED
      BY <1>4, <3>1 DEF StopTask, AllCaused, TypeOK, Caused
  <2>3. CASE ~mapped[s]
    BY <1>4, <2>3 DEF StopTask, AllCaused, TypeOK, Caused
  <2>4. QED
    BY <2>2, <2>3
<1>5. CASE MarkStopped(s)
  BY <1>5 DEF MarkStopped, Fault, AllCaused, TypeOK, Caused
<1>6. QED
  BY <1>1, <1>2, <1>3, <1>4, <1>5

\* A restart, and the list that follows it.
LEMMA RestartKeepsCaused ==
    ASSUME AllCaused, Restart \/ ListRows \/ StartListed
    PROVE  AllCaused'
<1> USE RegistryAssumption
<1>1. CASE Restart
  BY <1>1 DEF Restart, AllCaused, TypeOK, Caused
<1>2. CASE ListRows
  <2>1. Enabled \subseteq {s \in Schedule : row[s] = "enabled"}
    BY DEF Enabled
  <2>2. QED
    BY <1>2, <2>1 DEF ListRows, Fault, AllCaused, TypeOK, Caused
<1>3. CASE StartListed
  <2>1. PICK started \in SUBSET {s \in listed : origin[s] = "wizard"} :
          /\ tasks' = [s \in Schedule |-> IF s \in started THEN tasks[s] + 1 ELSE tasks[s]]
          /\ mapped' = [s \in Schedule |-> s \in started \/ mapped[s]]
    BY <1>3 DEF StartListed
  <2>2. \A s \in started : s \in Schedule /\ tasks[s] = 0 /\ create[s] = "idle"
    BY <1>3 DEF StartListed, AllCaused, TypeOK, Caused
  <2>3. tasks' \in [Schedule -> 0 .. 1] /\ mapped' \in [Schedule -> BOOLEAN]
    <3>1. ASSUME NEW s \in Schedule
          PROVE  (IF s \in started THEN tasks[s] + 1 ELSE tasks[s]) \in 0 .. 1
      <4>1. tasks[s] \in 0 .. 1
        BY DEF AllCaused, TypeOK
      <4>2. s \in started => tasks[s] + 1 = 1
        BY <2>2
      <4>3. QED
        BY <4>1, <4>2
    <3>2. \A s \in Schedule : (s \in started \/ mapped[s]) \in BOOLEAN
      BY Zenon DEF AllCaused, TypeOK
    <3>3. tasks' \in [Schedule -> 0 .. 1]
      BY <2>1, <3>1
    <3>4. mapped' \in [Schedule -> BOOLEAN]
      BY <2>1, <3>2
    <3>5. QED
      BY <3>3, <3>4
  <2>4. ASSUME NEW s \in Schedule PROVE tasks'[s] > 0 <=> mapped'[s]
    <3>1. tasks[s] \in 0 .. 1 /\ (tasks[s] > 0 <=> mapped[s])
      BY DEF AllCaused, TypeOK, Caused
    <3>2. CASE s \in started
      <4>1. tasks'[s] = tasks[s] + 1
        BY <2>1, <3>2
      <4>2. mapped'[s]
        BY <2>1, <3>2
      <4>3. QED
        BY <2>2, <3>2, <4>1, <4>2
    <3>3. CASE s \notin started
      BY <2>1, <3>1, <3>3
    <3>4. QED
      BY <3>2, <3>3
  <2>5. ASSUME NEW s \in Schedule PROVE create[s] = "made" => tasks'[s] = 0
    BY <2>1, <2>2 DEF AllCaused, Caused
  <2>6. UNCHANGED <<row, origin, made, create, stop, faults, restarts>> /\ loading' = "over"
        /\ listed' = {}
    BY <1>3 DEF StartListed
  <2>7. TypeOK'
    BY <2>3, <2>6 DEF AllCaused, TypeOK
  <2>8. ASSUME NEW s \in Schedule PROVE Caused(s)'
    <3>1. row[s] = "absent" => tasks'[s] = 0
      BY <2>1 DEF AllCaused, Caused
    <3>2. QED
      BY <2>4, <2>5, <2>6, <3>1 DEF AllCaused, Caused
  <2>9. QED
    BY <2>7, <2>8 DEF AllCaused
<1>4. QED
  BY <1>1, <1>2, <1>3

\* Every step of the scheduler keeps the causes.
LEMMA NextKeepsCaused == AllCaused /\ [Next]_vars => AllCaused'
<1> SUFFICES ASSUME AllCaused, [Next]_vars PROVE AllCaused'
  OBVIOUS
<1>1. CASE UNCHANGED vars
  BY <1>1 DEF vars, AllCaused, TypeOK, Caused
<1>2. QED
  BY <1>1, RequestsKeepCaused, RestartKeepsCaused DEF Next

(***************************************************************************)
(* Every cron task that runs can be found by a stop request, and nothing   *)
(* is found that does not run.                                             *)
(***************************************************************************)
THEOREM TasksFound == Spec => []TasksReachable
<1>1. AllCaused => TasksReachable
  BY DEF AllCaused, Caused, TasksReachable
<1>2. QED
  BY <1>1, CausedInit, NextKeepsCaused, PTL DEF Spec

\* Only a creation under way, or a list that still has the row, starts a task.
LEMMA StartsCaused ==
    ASSUME AllCaused, [Next]_vars, NEW s \in Schedule, stop[s] = "done", create[s] # "made"
    PROVE  tasks'[s] <= tasks[s]
<1> TypeOK /\ tasks[s] \in Nat
  BY DEF AllCaused, TypeOK
<1>1. ASSUME NEW z \in Schedule, StartTask(z) PROVE tasks'[s] = tasks[s]
  BY <1>1 DEF StartTask, TypeOK
<1>2. ASSUME NEW z \in Schedule, StopTask(z) PROVE tasks'[s] <= tasks[s]
  BY <1>2 DEF StopTask, TypeOK
<1>3. CASE Restart
  BY <1>3 DEF Restart
<1>4. CASE StartListed
  BY <1>4 DEF StartListed, AllCaused, Caused
<1>5. CASE UNCHANGED tasks
  BY <1>5
<1>6. QED
  <2>1. ASSUME NEW z \in Schedule, CreateRow(z) \/ WizardRow(z) \/ MarkStopped(z)
        PROVE  UNCHANGED tasks
    BY <2>1 DEF CreateRow, WizardRow, MarkStopped
  <2>2. ListRows => UNCHANGED tasks
    BY DEF ListRows
  <2>3. QED
    BY <1>1, <1>2, <1>3, <1>4, <1>5, <2>1, <2>2 DEF Next, vars

(***************************************************************************)
(* A schedule whose stop was answered with success does not start again.   *)
(***************************************************************************)
THEOREM StoppedForGood == Spec => StoppedStays
<1>1. AllCaused /\ [Next]_vars
      => [\A s \in Schedule :
             stop[s] = "done" /\ create[s] # "made" => tasks'[s] <= tasks[s]]_vars
  BY StartsCaused
<1>2. QED
  BY <1>1, CausedInit, NextKeepsCaused, PTL DEF Spec, StoppedStays

\* A request about the settings can fail where the others can, and takes one of the faults.
LEMMA SettingsFaults ==
  ASSUME TypeOK, SettingsNext
  PROVE  faults' \in 0 .. MaxFaults
<1> faults \in 0 .. MaxFaults /\ MaxFaults \in Nat
  BY RegistryAssumption DEF TypeOK
<1>1. Settings!Fault => faults' \in 0 .. MaxFaults
  BY DEF Settings!Fault
<1>2. ASSUME NEW c \in Client,
             \/ Settings!Lookup(c) \/ Settings!TimeOut(c) \/ Settings!ReadForSchedule(c)
      PROVE  faults' \in 0 .. MaxFaults
  BY <1>1, <1>2 DEF Settings!Lookup, Settings!TimeOut, Settings!ReadForSchedule
<1>3. ASSUME NEW c \in Client,
             \/ Settings!BeginAdd(c) \/ Settings!BeginSetDefault(c) \/ Settings!BeginRemove(c)
             \/ Settings!BeginBackup(c) \/ Settings!BeginWizard(c) \/ Settings!Decline(c)
             \/ Settings!Send(c) \/ Settings!BeginConfigure(c) \/ Settings!ConfigureInWizard(c)
             \/ Settings!BeginRemoveChannel(c) \/ Settings!BeginSchedule(c)
             \/ Settings!ReadForRemove(c)
      PROVE  UNCHANGED faults
  BY <1>3 DEF Settings!BeginAdd, Settings!BeginSetDefault, Settings!BeginRemove,
              Settings!BeginBackup, Settings!Begin, Settings!BeginWizard, Settings!Decline,
              Settings!Send, Settings!BeginConfigure, Settings!ConfigureInWizard,
              Settings!BeginRemoveChannel, Settings!BeginChange, Settings!BeginSchedule,
              Settings!ReadForRemove
<1>4. ASSUME NEW h \in handlers,
             \/ Settings!Find(h) \/ Settings!ClearDefaults(h) \/ Settings!Upsert(h)
             \/ Settings!SetDefault(h) \/ Settings!Delete(h) \/ Settings!UpsertSettings(h)
             \/ Settings!DeleteSettings(h)
      PROVE  UNCHANGED faults
  BY <1>4 DEF Settings!Find, Settings!ClearDefaults, Settings!Upsert, Settings!SetDefault,
              Settings!Delete, Settings!UpsertSettings, Settings!DeleteSettings
<1>5. ASSUME NEW h \in handlers, Settings!StatementFails(h)
      PROVE  faults' \in 0 .. MaxFaults
  BY <1>1, <1>5 DEF Settings!StatementFails
<1>6. QED
  BY <1>2, <1>3, <1>4, <1>5 DEF SettingsNext, Settings!StorageNext, Settings!ChannelStep

\* Nothing that is asked about the settings disturbs a schedule.
LEMMA ServiceKeepsCaused ==
  AllCaused /\ [MetadataNext]_<<vars, side, locationVars, channelVars>> => AllCaused'
<1> SUFFICES ASSUME AllCaused, [MetadataNext]_<<vars, side, locationVars, channelVars>>
             PROVE  AllCaused'
  OBVIOUS
<1>1. CASE [Next]_vars
  BY <1>1, NextKeepsCaused
<1>2. CASE SettingsNext /\ UNCHANGED scheduleVars
  <2>1. faults' \in 0 .. MaxFaults
    BY <1>2, SettingsFaults DEF AllCaused
  <2>2. UNCHANGED <<row, origin, made, create, stop, tasks, mapped, loading, listed, restarts>>
    BY <1>2 DEF scheduleVars
  <2>3. QED
    BY <2>1, <2>2 DEF AllCaused, TypeOK, Caused
<1>3. QED
  BY <1>1, <1>2 DEF MetadataNext

(***************************************************************************)
(* Both hold of the schedules of the whole service, whose other requests   *)
(* come in between and fail too.                                           *)
(***************************************************************************)
THEOREM SchedulesInService == MetadataSpec => []TasksReachable /\ StoppedStays
<1>1. MetadataInit => AllCaused
  BY CausedInit DEF MetadataInit
<1>2. AllCaused => TasksReachable
  BY DEF AllCaused, Caused, TasksReachable
<1>3. AllCaused /\ [MetadataNext]_<<vars, side, locationVars, channelVars>>
      => [\A s \in Schedule :
             stop[s] = "done" /\ create[s] # "made" => tasks'[s] <= tasks[s]]_vars
  <2> SUFFICES ASSUME AllCaused, MetadataNext
               PROVE  \A s \in Schedule :
                        stop[s] = "done" /\ create[s] # "made" => tasks'[s] <= tasks[s]
    BY DEF vars
  <2>1. CASE Next
    BY <2>1, StartsCaused
  <2>2. CASE UNCHANGED scheduleVars
    <3>1. UNCHANGED tasks /\ \A s \in Schedule : tasks[s] \in Nat
      BY <2>2 DEF scheduleVars, AllCaused, TypeOK
    <3>2. QED
      BY <3>1
  <2>3. QED
    BY <2>1, <2>2 DEF MetadataNext
<1>4. QED
  BY <1>1, <1>2, <1>3, ServiceKeepsCaused, PTL DEF MetadataSpec, StoppedStays

-----------------------------------------------------------------------------
(* The settings: what is invariant of commands, requests and handlers      *)

Changes       == {"configure", "remove channel"}
LocationKinds == {"add", "set default", "remove", "backup", "init"}
\* The statements of the handlers, and the types of the variables.
Statements    == {"find", "clear", "upsert", "set", "delete"} \cup Changes
Ids           == Client \cup Location \cup {Nobody}
Tasks         == {[kind |-> "none", at |-> "none"]} \cup [kind : LocationKinds, at : Location]
                   \cup [kind : Changes \cup {"schedule"}, at : Channel]
Phases        == {"new", "lookup", "settings", "send", "wait", "over"}

SettingsTypes ==
  /\ located \in [Location -> [id : Ids, default : BOOLEAN]]
  /\ asks \in [Client -> Tasks]
  /\ phase \in [Client -> Phases]
  /\ tries \in [Client -> 0 .. MaxRetries + 1]
  /\ handlers \subseteq [of : Client, try : Nat, id : Ids, at : Statements]
  /\ alone \in Client \cup {Nobody} /\ settled \in Location \cup {Nobody}
  /\ stored \in [Channel -> Client \cup Channel \cup {Nobody}]
  /\ copied \in [Client -> Client \cup Channel \cup {Nobody}]
  /\ lasting \in [Channel -> Client \cup {Nobody, Unknown}]

KindOf(c) == asks[c].kind
GoalOf(c) == asks[c].at

\* Where a request of a kind can be.
Steps(kind) ==
  CASE kind \in {"add", "backup"} -> {"upsert"}
    [] kind = "init" -> {"clear", "upsert"}
    [] kind = "set default" -> {"find", "clear", "set"}
    [] kind = "remove" -> {"find", "delete"}
    [] OTHER -> {kind} \cap Changes

\* A client has sent nothing before its first attempt, repeats a request at most
\* MaxRetries times, and one that has been alone so far is still the only one at work.
Asked(c) ==
  /\ phase[c] \in {"new", "lookup", "settings"} => tries[c] = 0
  /\ phase[c] = "send" => tries[c] <= MaxRetries
  /\ phase[c] \in {"send", "wait"} => KindOf(c) \in LocationKinds \cup Changes
  /\ phase[c] = "lookup" => KindOf(c) \in LocationKinds
  /\ phase[c] = "settings" => KindOf(c) \in {"remove channel", "schedule"}
  /\ phase[c] \in {"new", "settings"} => copied[c] = Nobody
  /\ alone = c => \A d \in Client : d # c => phase[d] \in {"new", "over"}

\* A handler belongs to an attempt that has been made, of the client that is alone if
\* one is, and is at a statement of its kind of request.
Handled(h) ==
  /\ phase[h.of] \in {"send", "wait", "over"}
  /\ h.try \in 1 .. tries[h.of]
  /\ alone # Nobody => h.of = alone
  /\ h.at \in Steps(KindOf(h.of))

AllAsked ==
  /\ SettingsTypes
  /\ \A c \in Client : Asked(c)
  /\ \A h \in handlers : Handled(h)

\* A request may be sent at least once.
LEMMA RetriesAllowed == 0 <= MaxRetries /\ MaxRetries \in Nat
BY MetadataAssumption

\* At the start no client is at work.
LEMMA AskedInit == MetadataInit => AllAsked
<1> SUFFICES ASSUME MetadataInit PROVE AllAsked
  OBVIOUS
<1> USE MetadataAssumption DEF MetadataInit, Settings!StorageInit, Settings!ChannelInit
<1>1. located \in [Location -> [id : Ids, default : BOOLEAN]]
  BY DEF Ids, Settings!NoRow
<1>2. stored \in [Channel -> Client \cup Channel \cup {Nobody}]
  OBVIOUS
<1>3. SettingsTypes
  BY <1>1, <1>2 DEF SettingsTypes, Tasks, Phases, Settings!NoTask
<1>4. QED
  BY <1>3 DEF AllAsked, Asked, Handled

\* A command that sets out changes nothing else.
LEMMA StartsAsked ==
  ASSUME AllAsked, NEW c \in Client, NEW task \in Tasks, NEW statement \in Phases,
         Settings!Start(c, task, statement),
         UNCHANGED <<located, tries, handlers, stored, copied>>,
         settled' \in {settled, Nobody}, lasting' \in {lasting, [n \in Channel |-> Unknown]},
         statement \in {"send", "wait"} => task.kind \in LocationKinds \cup Changes,
         statement = "lookup" => task.kind \in LocationKinds,
         statement = "settings" => task.kind \in {"remove channel", "schedule"},
         statement # "new"
  PROVE  AllAsked'
<1> SettingsTypes /\ Asked(c) /\ phase[c] = "new"
  BY DEF AllAsked, Settings!Start
<1> USE MetadataAssumption
<1>1. /\ asks' = [asks EXCEPT ![c] = task] /\ phase' = [phase EXCEPT ![c] = statement]
      /\ alone' \in {c, Nobody}
      /\ alone' = c => handlers = {} /\ \A d \in Client \ {c} : phase[d] \in {"new", "over"}
  BY DEF Settings!Start
<1>2. SettingsTypes'
  BY <1>1 DEF SettingsTypes
<1>3. ASSUME NEW d \in Client PROVE Asked(d)'
  <2>1. Asked(d)
    BY DEF AllAsked
  <2>2. CASE d = c
    <3>1. asks'[c] = task /\ phase'[c] = statement
      BY <1>1 DEF SettingsTypes
    <3>2. \A z \in Client : z # c => phase'[z] = phase[z]
      BY <1>1 DEF SettingsTypes
    <3>3. tries'[c] = 0 /\ copied'[c] = Nobody
      BY <2>1, <2>2 DEF Asked
    <3>6. 0 <= MaxRetries
      BY RetriesAllowed
    <3>4. alone' = c => \A z \in Client : z # c => phase'[z] \in {"new", "over"}
      BY <1>1, <3>2
    <3>5. QED
      BY <2>2, <3>1, <3>3, <3>4, <3>6 DEF Asked, KindOf
  <2>3. CASE d # c
    <3>1. asks'[d] = asks[d] /\ phase'[d] = phase[d] /\ alone' # d
      BY <1>1, <2>3 DEF SettingsTypes
    <3>2. QED
      BY <2>1, <3>1 DEF Asked, KindOf
  <2>4. QED
    BY <2>2, <2>3
<1>4. ASSUME NEW h \in handlers PROVE Handled(h)'
  <2>1. Handled(h) /\ h.of \in Client
    BY DEF AllAsked, SettingsTypes
  <2>2. h.of # c
    BY <2>1 DEF Handled
  <2>3. asks'[h.of] = asks[h.of] /\ phase'[h.of] = phase[h.of]
    BY <1>1, <2>1, <2>2 DEF SettingsTypes
  <2>4. QED
    BY <1>1, <2>1, <2>3 DEF Handled, KindOf
<1>5. QED
  BY <1>2, <1>3, <1>4 DEF AllAsked

\* A command that goes on sends nothing yet.
LEMMA MovesAsked ==
  ASSUME AllAsked, NEW c \in Client, NEW statement \in Phases,
         phase[c] \in {"lookup", "settings", "send", "wait"},
         phase' = [phase EXCEPT ![c] = statement],
         UNCHANGED <<located, asks, tries, handlers, alone, settled, stored, lasting>>,
         \/ statement = "over"
         \/ /\ statement = "send" /\ tries[c] <= MaxRetries
            /\ KindOf(c) \in LocationKinds \cup Changes,
         \/ UNCHANGED copied
         \/ /\ copied' = [copied EXCEPT ![c] = stored[GoalOf(c)]]
            /\ KindOf(c) = "schedule" /\ statement = "over"
  PROVE  AllAsked'
<1> SettingsTypes
  BY DEF AllAsked
<1> USE MetadataAssumption
<1>0. KindOf(c) = "schedule" => GoalOf(c) \in Channel
  <2>1. asks[c] \in Tasks
    BY DEF SettingsTypes
  <2>2. ASSUME NEW t \in Tasks, t.kind = "schedule" PROVE t.at \in Channel
    <3>1. CASE t \in [kind : LocationKinds, at : Location]
      <4>1. t.kind \in LocationKinds
        BY <3>1
      <4>2. QED
        BY <2>2, <4>1 DEF LocationKinds
    <3>2. CASE t \in [kind : Changes \cup {"schedule"}, at : Channel]
      BY <3>2
    <3>3. CASE t = [kind |-> "none", at |-> "none"]
      BY <2>2, <3>3
    <3>4. QED
      BY <3>1, <3>2, <3>3 DEF Tasks
  <2>3. QED
    BY <2>1, <2>2 DEF KindOf, GoalOf
<1>1. SettingsTypes'
  BY <1>0 DEF SettingsTypes
<1>2. ASSUME NEW d \in Client PROVE Asked(d)'
  <2>1. Asked(d)
    BY DEF AllAsked
  <2>2. \A z \in Client : phase'[z] = phase[z] \/ z = c
    BY DEF SettingsTypes
  <2>3. phase'[c] = statement /\ (copied'[d] = copied[d] \/ (d = c /\ statement = "over"))
    BY DEF SettingsTypes
  <2>4. \A z \in Client : alone = z /\ z # c => phase[c] \in {"new", "over"}
    BY DEF AllAsked, Asked
  <2>5. CASE d = c
    BY <2>1, <2>2, <2>3, <2>5 DEF Asked, KindOf
  <2>6. CASE d # c
    BY <2>1, <2>2, <2>3, <2>4, <2>6 DEF Asked, KindOf
  <2>7. QED
    BY <2>5, <2>6
<1>3. ASSUME NEW h \in handlers PROVE Handled(h)'
  <2>1. Handled(h) /\ h.of \in Client
    BY DEF AllAsked, SettingsTypes
  <2>2. phase'[h.of] = phase[h.of] \/ phase'[h.of] \in {"over", "send"}
    BY <2>1 DEF SettingsTypes
  <2>3. QED
    BY <2>1, <2>2 DEF Handled, KindOf
<1>4. QED
  BY <1>1, <1>2, <1>3 DEF AllAsked

\* A request is sent: a handler of its kind starts.
LEMMA SendAsked ==
  ASSUME AllAsked, NEW c \in Client, Settings!Send(c), UNCHANGED <<stored, copied, lasting>>
  PROVE  AllAsked'
<1> SettingsTypes /\ Asked(c)
  BY DEF AllAsked
<1>0. PICK m : m = [of |-> c, try |-> tries[c] + 1,
                    id |-> Nobody, at |-> Settings!Entry(asks[c].kind)]
  OBVIOUS
<1>1. /\ phase[c] = "send" /\ phase' = [phase EXCEPT ![c] = "wait"]
      /\ tries' = [tries EXCEPT ![c] = @ + 1]
      /\ handlers' = handlers \cup {m}
      /\ UNCHANGED <<located, asks, alone, settled, stored, copied, lasting>>
  BY <1>0 DEF Settings!Send
<1>2. m.of = c /\ m.try = tries[c] + 1 /\ m.id = Nobody /\ m.at = Settings!Entry(KindOf(c))
  BY <1>0 DEF KindOf
<1>3. KindOf(c) \in LocationKinds \cup Changes /\ tries[c] <= MaxRetries
  BY <1>1 DEF Asked
<1>4. m.at \in Steps(KindOf(c)) /\ m.at \in Statements
  BY <1>2, <1>3 DEF Steps, Settings!Entry, LocationKinds, Changes, Statements
<1>5. tries[c] \in 0 .. MaxRetries + 1
  BY DEF SettingsTypes
<1>6. tries[c] + 1 \in 0 .. MaxRetries + 1 /\ tries[c] + 1 \in Nat
  BY <1>3, <1>5, RetriesAllowed
<1>7. SettingsTypes'
  <2>1. m \in [of : Client, try : Nat, id : Ids, at : Statements]
    BY <1>0, <1>2, <1>4, <1>6 DEF Ids
  <2>2. handlers' \subseteq [of : Client, try : Nat, id : Ids, at : Statements]
    BY <1>1, <2>1 DEF SettingsTypes
  <2>3. tries' \in [Client -> 0 .. MaxRetries + 1]
    BY <1>1, <1>6 DEF SettingsTypes
  <2>4. phase' \in [Client -> Phases]
    BY <1>1 DEF SettingsTypes, Phases
  <2>5. QED
    BY <1>1, <2>2, <2>3, <2>4 DEF SettingsTypes
<1>8. /\ tries'[c] = tries[c] + 1 /\ phase'[c] = "wait"
      /\ \A d \in Client : d # c => tries'[d] = tries[d] /\ phase'[d] = phase[d]
  BY <1>1 DEF SettingsTypes
<1>9. alone # Nobody => alone = c
  BY <1>1 DEF AllAsked, Asked, SettingsTypes
<1>10. ASSUME NEW d \in Client PROVE Asked(d)'
  <2>1. Asked(d)
    BY DEF AllAsked
  <2>2. alone = d => d = c
    BY <1>9, MetadataAssumption
  <2>3. CASE d = c
    BY <1>1, <1>3, <1>8, <2>1, <2>3 DEF Asked, KindOf
  <2>4. CASE d # c
    BY <1>1, <1>8, <2>1, <2>2, <2>4 DEF Asked, KindOf
  <2>5. QED
    BY <2>3, <2>4
<1>11. ASSUME NEW h \in handlers' PROVE Handled(h)'
  <2>1. CASE h = m
    BY <1>1, <1>2, <1>4, <1>5, <1>6, <1>8, <1>9, <2>1 DEF Handled, KindOf
  <2>2. CASE h \in handlers
    <3>1. Handled(h) /\ h.of \in Client /\ h.try \in Nat /\ tries[h.of] \in Nat
      BY <2>2 DEF AllAsked, SettingsTypes
    <3>2. tries'[h.of] \in {tries[h.of], tries[h.of] + 1}
      BY <1>8, <3>1
    <3>3. phase'[h.of] \in {phase[h.of], "wait"}
      BY <1>8, <3>1
    <3>4. QED
      BY <1>1, <3>1, <3>2, <3>3 DEF Handled, KindOf
  <2>3. QED
    BY <1>1, <2>1, <2>2
<1>12. QED
  BY <1>7, <1>10, <1>11 DEF AllAsked

\* A statement of a handler: the handler goes on, or it is over and so may be its client.
LEMMA StatementsAsked ==
  ASSUME AllAsked, NEW h \in handlers, SettingsTypes', UNCHANGED <<asks, tries, alone, copied>>,
         UNCHANGED phase \/ phase' = [phase EXCEPT ![h.of] = "over"],
         NEW m, m.of = h.of, m.try = h.try, m.at \in Steps(KindOf(h.of)),
         handlers' \subseteq handlers \cup {m}
  PROVE  AllAsked'
<1> SettingsTypes /\ h.of \in Client
  BY DEF AllAsked, SettingsTypes
<1>1. /\ phase'[h.of] \in {phase[h.of], "over"}
      /\ \A d \in Client : d # h.of => phase'[d] = phase[d]
  BY DEF SettingsTypes
<1>2. ASSUME NEW d \in Client PROVE Asked(d)'
  <2>1. Asked(d)
    BY DEF AllAsked
  <2>2. \A z \in Client : phase'[z] \in {phase[z], "over"}
    BY <1>1
  <2>3. QED
    BY <2>1, <2>2 DEF Asked, KindOf
<1>3. ASSUME NEW x \in handlers \cup {m} PROVE Handled(x)'
  <2>1. Handled(h)
    BY DEF AllAsked
  <2>2. CASE x = m
    BY <1>1, <2>1, <2>2 DEF Handled, KindOf
  <2>3. CASE x \in handlers
    <3>1. Handled(x) /\ x.of \in Client
      BY <2>3 DEF AllAsked, SettingsTypes
    <3>2. phase'[x.of] \in {phase[x.of], "over"}
      BY <1>1, <3>1
    <3>3. QED
      BY <3>1, <3>2 DEF Handled, KindOf
  <2>4. QED
    BY <2>2, <2>3
<1>4. QED
  BY <1>2, <1>3 DEF AllAsked

\* What a handler's reply, or its next statement, does to the handlers and to its client.
Ended(h) ==
  /\ handlers' = handlers \ {h}
  /\ UNCHANGED phase \/ (phase[h.of] = "wait" /\ phase' = [phase EXCEPT ![h.of] = "over"])

\* A reply makes a default known only to the client that has been alone.
LEMMA RepliesEnd ==
  ASSUME SettingsTypes, NEW h \in handlers, NEW ok \in BOOLEAN, Settings!Reply(h, ok)
  PROVE  /\ Ended(h)
         /\ \/ settled' = settled
            \/ /\ ok /\ KindOf(h.of) \in {"set default", "init"} /\ alone = h.of
               /\ phase' = [phase EXCEPT ![h.of] = "over"] /\ settled' = GoalOf(h.of)
BY DEF Settings!Reply, Ended, KindOf, GoalOf, Settings!Target

\* A task about a location names one, a task about a channel names one.
LEMMA TaskGoals ==
  ASSUME NEW t \in Tasks
  PROVE  /\ t.kind \in LocationKinds => t.at \in Location
         /\ t.kind \in Changes \cup {"schedule"} => t.at \in Channel
<1>1. CASE t \in [kind : LocationKinds, at : Location]
  BY <1>1 DEF LocationKinds, Changes
<1>2. CASE t \in [kind : Changes \cup {"schedule"}, at : Channel]
  BY <1>2 DEF LocationKinds, Changes
<1>3. CASE t = [kind |-> "none", at |-> "none"]
  BY <1>3 DEF LocationKinds, Changes
<1>4. QED
  BY <1>1, <1>2, <1>3 DEF Tasks

\* The statement that a handler is at tells what its client was asked to do.
LEMMA HandlerGoals ==
  ASSUME AllAsked, NEW h \in handlers
  PROVE  /\ h.at \in {"find", "clear", "upsert", "set", "delete"}
              => KindOf(h.of) \in LocationKinds /\ GoalOf(h.of) \in Location
         /\ h.at \in Changes => KindOf(h.of) = h.at /\ GoalOf(h.of) \in Channel
         /\ h.at = "find" => KindOf(h.of) \in {"set default", "remove"}
         /\ h.at = "clear" => KindOf(h.of) \in {"set default", "init"}
         /\ h.at = "set" => KindOf(h.of) = "set default"
         /\ h.at = "delete" => KindOf(h.of) = "remove"
         /\ h.at = "upsert" => KindOf(h.of) \in {"add", "backup", "init"}
<1>1. Handled(h) /\ h.of \in Client /\ asks[h.of] \in Tasks
  BY DEF AllAsked, SettingsTypes
<1>2. /\ KindOf(h.of) \in LocationKinds => GoalOf(h.of) \in Location
      /\ KindOf(h.of) \in Changes => GoalOf(h.of) \in Channel
  BY <1>1, TaskGoals DEF KindOf, GoalOf
<1>3. QED
  BY <1>1, <1>2 DEF Handled, Steps, Changes, LocationKinds

\* The handlers, and one that goes on to its next statement.
HandlerSet == [of : Client, try : Nat, id : Ids, at : Statements]

Moved(h, statement, id) ==
  /\ handlers' = (handlers \ {h}) \cup {[h EXCEPT !.at = statement, !.id = id]}
  /\ UNCHANGED <<phase, settled>>

\* A handler that goes on to its next statement.
LEMMA MovedAsked ==
  ASSUME AllAsked, NEW h \in handlers, NEW statement \in Statements, NEW id \in Ids,
         Moved(h, statement, id), statement \in Steps(KindOf(h.of)),
         UNCHANGED <<asks, tries, alone, stored, copied, lasting>>,
         located' \in [Location -> [id : Ids, default : BOOLEAN]]
  PROVE  /\ AllAsked'
         /\ \E m : /\ m.of = h.of /\ m.try = h.try /\ m.id = id /\ m.at = statement
                   /\ handlers' = (handlers \ {h}) \cup {m}
<1> SettingsTypes /\ h \in HandlerSet
  BY DEF AllAsked, SettingsTypes, HandlerSet
<1>1. PICK m : m = [h EXCEPT !.at = statement, !.id = id]
  OBVIOUS
<1>2. m \in HandlerSet /\ m.of = h.of /\ m.try = h.try /\ m.id = id /\ m.at = statement
  BY <1>1 DEF HandlerSet
<1>3. handlers' = (handlers \ {h}) \cup {m} /\ UNCHANGED <<phase, settled>>
  BY <1>1 DEF Moved
<1>4. SettingsTypes'
  BY <1>2, <1>3 DEF SettingsTypes, HandlerSet
<1>5. AllAsked'
  <2>1. handlers' \subseteq handlers \cup {m}
    BY <1>3
  <2>2. m.at \in Steps(KindOf(h.of))
    BY <1>2
  <2>3. UNCHANGED phase
    BY <1>3
  <2>4. QED
    BY <1>2, <1>4, <2>1, <2>2, <2>3, StatementsAsked
<1>6. QED
  BY <1>2, <1>3, <1>5

\* A handler that is over.
LEMMA EndedAsked ==
  ASSUME AllAsked, NEW h \in handlers, Ended(h), UNCHANGED <<asks, tries, alone, copied>>,
         located' \in [Location -> [id : Ids, default : BOOLEAN]],
         settled' \in Location \cup {Nobody},
         stored' \in [Channel -> Client \cup Channel \cup {Nobody}],
         lasting' \in [Channel -> Client \cup {Nobody, Unknown}]
  PROVE  AllAsked'
<1> SettingsTypes
  BY DEF AllAsked
<1>1. phase' \in [Client -> Phases]
  BY DEF Ended, SettingsTypes, Phases
<1>2. SettingsTypes'
  BY <1>1 DEF SettingsTypes, Ended
<1>3. h.at \in Steps(KindOf(h.of))
  BY DEF AllAsked, Handled
<1>4. handlers' \subseteq handlers \cup {h}
  BY DEF Ended
<1>5. UNCHANGED phase \/ phase' = [phase EXCEPT ![h.of] = "over"]
  BY DEF Ended
<1>6. QED
  BY <1>2, <1>3, <1>4, <1>5, StatementsAsked

\* What each statement of a handler of the storage locations does, once it is known
\* that the task is one of a location.
FindEffect(h) ==
  LET l == GoalOf(h.of) IN
  /\ UNCHANGED located
  /\ \/ located[l].id # Nobody
        /\ Moved(h, IF KindOf(h.of) = "remove" THEN "delete" ELSE "clear", located[l].id)
     \/ located[l].id = Nobody /\ Ended(h) /\ UNCHANGED settled

\* findUnique of set default and remove: on to the next statement, or a 404.
LEMMA FindDoes ==
  ASSUME AllAsked, NEW h \in handlers, Settings!Find(h), UNCHANGED <<stored, copied, lasting>>
  PROVE  FindEffect(h) /\ AllAsked'
<1> SettingsTypes
  BY DEF AllAsked
<1>1. /\ h.at = "find" /\ UNCHANGED <<located, asks, tries, alone, faults>>
      /\ IF located[GoalOf(h.of)].id # Nobody
         THEN Moved(h, IF KindOf(h.of) = "remove" THEN "delete" ELSE "clear",
                    located[GoalOf(h.of)].id)
         ELSE Settings!Reply(h, FALSE)
  BY DEF Settings!Find, Settings!Exists, Settings!Target, Settings!Statement, Moved, KindOf, GoalOf
<1>2. GoalOf(h.of) \in Location /\ KindOf(h.of) \in {"set default", "remove"}
  BY <1>1, HandlerGoals
<1>3. located[GoalOf(h.of)].id \in Ids
  BY <1>2 DEF SettingsTypes
<1>4. CASE located[GoalOf(h.of)].id # Nobody
  <2>1. PICK s : s = (IF KindOf(h.of) = "remove" THEN "delete" ELSE "clear")
    OBVIOUS
  <2>2. s \in Statements /\ s \in Steps(KindOf(h.of))
    BY <1>2, <2>1 DEF Statements, Steps
  <2>3. Moved(h, s, located[GoalOf(h.of)].id)
    BY <1>1, <1>4, <2>1
  <2>4. located' \in [Location -> [id : Ids, default : BOOLEAN]]
    BY <1>1 DEF SettingsTypes
  <2>5. AllAsked'
    BY <1>1, <1>3, <2>2, <2>3, <2>4, MovedAsked
  <2>6. QED
    BY <1>1, <1>4, <2>1, <2>3, <2>5 DEF FindEffect
<1>5. CASE located[GoalOf(h.of)].id = Nobody
  <2>1. Settings!Reply(h, FALSE)
    BY <1>1, <1>5
  <2>2. Ended(h) /\ UNCHANGED settled
    BY <2>1, RepliesEnd
  <2>3. AllAsked'
    BY <1>1, <2>2, EndedAsked DEF SettingsTypes
  <2>4. QED
    BY <1>1, <1>5, <2>2, <2>3 DEF FindEffect
<1>6. QED
  BY <1>4, <1>5

\* Every default flag is cleared.
ClearEffect(h) ==
  /\ located' = [l \in Location |-> [located[l] EXCEPT !.default = FALSE]]
  /\ Moved(h, IF KindOf(h.of) = "init" THEN "upsert" ELSE "set", h.id)

\* updateMany: no location is the default, and the handler goes on.
LEMMA ClearDoes ==
  ASSUME AllAsked, NEW h \in handlers, Settings!ClearDefaults(h),
         UNCHANGED <<stored, copied, lasting>>
  PROVE  ClearEffect(h) /\ AllAsked'
<1> SettingsTypes
  BY DEF AllAsked
<1>1. /\ h.at = "clear" /\ UNCHANGED <<asks, tries, alone, faults>> /\ ClearEffect(h)
  BY DEF Settings!ClearDefaults, Settings!Statement, ClearEffect, Moved, KindOf
<1>2. KindOf(h.of) \in {"set default", "init"} /\ h.id \in Ids
  BY <1>1, HandlerGoals DEF SettingsTypes
<1>3. PICK s : s = (IF KindOf(h.of) = "init" THEN "upsert" ELSE "set")
  OBVIOUS
<1>4. s \in Statements /\ s \in Steps(KindOf(h.of))
  BY <1>2, <1>3 DEF Statements, Steps
<1>5. located' \in [Location -> [id : Ids, default : BOOLEAN]]
  BY <1>1 DEF ClearEffect, SettingsTypes
<1>6. Moved(h, s, h.id)
  BY <1>1, <1>3 DEF ClearEffect
<1>7. AllAsked'
  BY <1>1, <1>2, <1>4, <1>5, <1>6, MovedAsked
<1>8. QED
  BY <1>1, <1>7

\* A handler that replies with success.
Answered(h) ==
  /\ Ended(h)
  /\ \/ settled' = settled
     \/ /\ KindOf(h.of) \in {"set default", "init"} /\ alone = h.of
        /\ phase' = [phase EXCEPT ![h.of] = "over"] /\ settled' = GoalOf(h.of)

\* The row of the location is rewritten, under the id that it had.
UpsertEffect(h) ==
  LET l == GoalOf(h.of) IN
  /\ located' = [located EXCEPT ![l] = [id |-> IF located[l].id # Nobody THEN located[l].id
                                               ELSE h.of,
                                        default |-> KindOf(h.of) = "init"]]
  /\ Answered(h)

\* The flag is set on the row that was found, if it is still there.
SetEffect(h) ==
  LET l == GoalOf(h.of) IN
  \/ /\ located[l].id = h.id /\ located' = [located EXCEPT ![l].default = TRUE]
     /\ Answered(h)
  \/ /\ located[l].id # h.id /\ UNCHANGED <<located, settled>> /\ Ended(h)

\* The row that was found is removed, if it is still there.
DeleteEffect(h) ==
  /\ \/ located' = [located EXCEPT ![GoalOf(h.of)] = [id |-> Nobody, default |-> FALSE]]
     \/ UNCHANGED located
  /\ Ended(h) /\ UNCHANGED settled

\* A success leaves what is asked as it was.
LEMMA AnsweredAsked ==
  ASSUME AllAsked, NEW h \in handlers, Answered(h),
         UNCHANGED <<asks, tries, alone, stored, copied, lasting>>,
         located' \in [Location -> [id : Ids, default : BOOLEAN]],
         GoalOf(h.of) \in Location
  PROVE  AllAsked'
<1>1. settled' \in Location \cup {Nobody}
  BY DEF Answered, AllAsked, SettingsTypes
<1>2. /\ stored' \in [Channel -> Client \cup Channel \cup {Nobody}]
      /\ lasting' \in [Channel -> Client \cup {Nobody, Unknown}]
  BY DEF AllAsked, SettingsTypes
<1>3. QED
  BY <1>1, <1>2, EndedAsked DEF Answered

\* upsert of add, of a backup and of the wizard.
LEMMA UpsertDoes ==
  ASSUME AllAsked, NEW h \in handlers, Settings!Upsert(h), UNCHANGED <<stored, copied, lasting>>
  PROVE  UpsertEffect(h) /\ AllAsked'
<1> SettingsTypes /\ h.of \in Client
  BY DEF AllAsked, SettingsTypes
<1>0. h.at = "upsert"
  BY DEF Settings!Upsert
<1>1. GoalOf(h.of) \in Location
  BY <1>0, HandlerGoals
<1>2. Answered(h)
  BY RepliesEnd DEF Settings!Upsert, Answered
<1>3. located' = [located EXCEPT ![GoalOf(h.of)] =
                    [id |-> IF located[GoalOf(h.of)].id # Nobody THEN located[GoalOf(h.of)].id
                            ELSE h.of,
                     default |-> KindOf(h.of) = "init"]]
  BY <1>1 DEF Settings!Upsert, Settings!Exists, Settings!Target, KindOf, GoalOf, SettingsTypes
<1>4. (KindOf(h.of) = "init") \in BOOLEAN
  OBVIOUS
<1>5. located' \in [Location -> [id : Ids, default : BOOLEAN]]
  BY <1>1, <1>3 DEF SettingsTypes, Ids
<1>6. UNCHANGED <<asks, tries, alone>>
  BY DEF Settings!Upsert
<1>7. QED
  BY <1>1, <1>2, <1>3, <1>5, <1>6, AnsweredAsked DEF UpsertEffect

\* update of set default.
LEMMA SetDoes ==
  ASSUME AllAsked, NEW h \in handlers, Settings!SetDefault(h),
         UNCHANGED <<stored, copied, lasting>>
  PROVE  SetEffect(h) /\ AllAsked'
<1> SettingsTypes
  BY DEF AllAsked
<1>0. h.at = "set" /\ UNCHANGED <<asks, tries, alone>>
  BY DEF Settings!SetDefault
<1>1. GoalOf(h.of) \in Location
  BY <1>0, HandlerGoals
<1>2. CASE located[GoalOf(h.of)].id = h.id
  <2>1. located' = [located EXCEPT ![GoalOf(h.of)].default = TRUE] /\ Settings!Reply(h, TRUE)
    BY <1>2 DEF Settings!SetDefault, Settings!Target, GoalOf
  <2>2. Answered(h)
    BY <2>1, RepliesEnd DEF Answered
  <2>3. located' \in [Location -> [id : Ids, default : BOOLEAN]]
    BY <2>1 DEF SettingsTypes
  <2>4. QED
    BY <1>0, <1>1, <1>2, <2>1, <2>2, <2>3, AnsweredAsked DEF SetEffect
<1>3. CASE located[GoalOf(h.of)].id # h.id
  <2>1. UNCHANGED located /\ Settings!Reply(h, FALSE)
    BY <1>3 DEF Settings!SetDefault, Settings!Target, GoalOf
  <2>2. Ended(h) /\ UNCHANGED settled
    BY <2>1, RepliesEnd
  <2>3. QED
    BY <1>0, <1>3, <2>1, <2>2, EndedAsked DEF SetEffect, SettingsTypes
<1>4. QED
  BY <1>2, <1>3

\* delete of remove.
LEMMA DeleteDoes ==
  ASSUME AllAsked, NEW h \in handlers, Settings!Delete(h), UNCHANGED <<stored, copied, lasting>>
  PROVE  DeleteEffect(h) /\ AllAsked'
<1> SettingsTypes
  BY DEF AllAsked
<1>0. h.at = "delete" /\ UNCHANGED <<asks, tries, alone>>
  BY DEF Settings!Delete
<1>1. GoalOf(h.of) \in Location /\ KindOf(h.of) = "remove"
  BY <1>0, HandlerGoals
<1>2. Settings!Reply(h, TRUE) \/ Settings!Reply(h, FALSE)
  BY DEF Settings!Delete
<1>7. KindOf(h.of) \notin {"set default", "init"}
  BY <1>1
<1>8. \A ok \in BOOLEAN : Settings!Reply(h, ok) =>
        Ended(h) /\ (settled' = settled \/ KindOf(h.of) \in {"set default", "init"})
  BY RepliesEnd
<1>3. Ended(h) /\ UNCHANGED settled
  BY <1>2, <1>7, <1>8
<1>4. \/ located' = [located EXCEPT ![GoalOf(h.of)] = [id |-> Nobody, default |-> FALSE]]
      \/ UNCHANGED located
  BY DEF Settings!Delete, Settings!NoRow, Settings!Target, GoalOf
<1>5. located' \in [Location -> [id : Ids, default : BOOLEAN]]
  <2>1. [id |-> Nobody, default |-> FALSE] \in [id : Ids, default : BOOLEAN]
    BY DEF Ids
  <2>2. QED
    BY <1>4, <2>1 DEF SettingsTypes
<1>6. QED
  BY <1>0, <1>3, <1>4, <1>5, EndedAsked DEF DeleteEffect, SettingsTypes

\* Which reply a command reports: the one that it waits for, if it was alone.
ReportEffect(h, outcome) ==
  /\ Ended(h) /\ UNCHANGED settled
  /\ \/ lasting' = lasting
     \/ /\ alone = h.of /\ phase' = [phase EXCEPT ![h.of] = "over"]
        /\ lasting' = [lasting EXCEPT ![GoalOf(h.of)] = outcome]

\* A report about a channel says nothing of a default location.
LEMMA ReportDoes ==
  ASSUME AllAsked, NEW h \in handlers, h.at \in Changes, NEW outcome, Settings!Report(h, outcome)
  PROVE  ReportEffect(h, outcome)
<1>1. KindOf(h.of) \notin {"set default", "init"}
  BY HandlerGoals DEF Changes
<1>2. SettingsTypes /\ Settings!Reply(h, TRUE)
  BY DEF AllAsked, Settings!Report
<1>3. Ended(h) /\ UNCHANGED settled
  BY <1>1, <1>2, RepliesEnd
<1>4. \/ lasting' = lasting
      \/ /\ phase[h.of] = "wait" /\ tries[h.of] = h.try /\ alone = h.of
         /\ lasting' = [lasting EXCEPT ![GoalOf(h.of)] = outcome]
  BY DEF Settings!Report, Settings!Target, GoalOf
<1>5. phase[h.of] = "wait" /\ tries[h.of] = h.try => phase' = [phase EXCEPT ![h.of] = "over"]
  BY <1>2 DEF Settings!Reply
<1>6. QED
  BY <1>3, <1>4, <1>5 DEF ReportEffect

\* The settings become those of the client.
ConfigureEffect(h) ==
  /\ stored' = [stored EXCEPT ![GoalOf(h.of)] = h.of]
  /\ ReportEffect(h, h.of)

\* The settings are removed, or there were none.
RemoveEffect(h) ==
  \/ /\ stored[GoalOf(h.of)] = Nobody /\ UNCHANGED <<stored, lasting, settled>> /\ Ended(h)
  \/ /\ stored' = [stored EXCEPT ![GoalOf(h.of)] = Nobody]
     /\ ReportEffect(h, Nobody)

\* The handler of a configure request.
LEMMA ConfigureDoes ==
  ASSUME AllAsked, NEW h \in handlers, Settings!UpsertSettings(h)
  PROVE  ConfigureEffect(h) /\ AllAsked'
<1> SettingsTypes /\ h.of \in Client
  BY DEF AllAsked, SettingsTypes
<1>0. /\ h.at = "configure" /\ UNCHANGED <<located, asks, tries, alone, copied, faults>>
      /\ stored' = [stored EXCEPT ![GoalOf(h.of)] = h.of] /\ Settings!Report(h, h.of)
  BY DEF Settings!UpsertSettings, Settings!Target, GoalOf
<1>1. h.at \in Changes
  BY <1>0 DEF Changes
<1>2. ReportEffect(h, h.of)
  BY <1>0, <1>1, ReportDoes
<1>3. /\ lasting' \in [Channel -> Client \cup {Nobody, Unknown}]
      /\ stored' \in [Channel -> Client \cup Channel \cup {Nobody}]
  BY <1>0, <1>2 DEF ReportEffect, SettingsTypes
<1>4. settled' = settled /\ located' = located /\ Ended(h)
  BY <1>0, <1>2 DEF ReportEffect
<1>5. AllAsked'
  BY <1>0, <1>3, <1>4, EndedAsked DEF SettingsTypes
<1>6. QED
  BY <1>0, <1>2, <1>5 DEF ConfigureEffect

\* The handler of a remove request.
LEMMA RemoveDoes ==
  ASSUME AllAsked, NEW h \in handlers, Settings!DeleteSettings(h)
  PROVE  RemoveEffect(h) /\ AllAsked'
<1> SettingsTypes /\ h.of \in Client
  BY DEF AllAsked, SettingsTypes
<1>0. /\ h.at = "remove channel" /\ UNCHANGED <<located, asks, tries, alone, copied, faults>>
      /\ IF stored[GoalOf(h.of)] = Nobody
         THEN Settings!Reply(h, FALSE) /\ UNCHANGED <<stored, lasting>>
         ELSE stored' = [stored EXCEPT ![GoalOf(h.of)] = Nobody] /\ Settings!Report(h, Nobody)
  BY DEF Settings!DeleteSettings, Settings!Target, GoalOf
<1>1. h.at \in Changes
  BY <1>0 DEF Changes
<1>2. RemoveEffect(h)
  <2>1. CASE stored[GoalOf(h.of)] = Nobody
    <3>1. Settings!Reply(h, FALSE) /\ UNCHANGED <<stored, lasting>>
      BY <1>0, <2>1
    <3>2. Ended(h) /\ UNCHANGED settled
      BY <3>1, RepliesEnd
    <3>3. QED
      BY <2>1, <3>1, <3>2 DEF RemoveEffect
  <2>2. CASE stored[GoalOf(h.of)] # Nobody
    <3>1. ReportEffect(h, Nobody)
      BY <1>0, <1>1, <2>2, ReportDoes
    <3>2. QED
      BY <1>0, <2>2, <3>1 DEF RemoveEffect
  <2>3. QED
    BY <2>1, <2>2
<1>3. /\ lasting' \in [Channel -> Client \cup {Nobody, Unknown}]
      /\ stored' \in [Channel -> Client \cup Channel \cup {Nobody}]
  BY <1>2 DEF RemoveEffect, ReportEffect, SettingsTypes
<1>4. settled' = settled /\ located' = located /\ Ended(h)
  BY <1>0, <1>2 DEF RemoveEffect, ReportEffect
<1>5. AllAsked'
  BY <1>0, <1>3, <1>4, EndedAsked DEF SettingsTypes
<1>6. QED
  BY <1>2, <1>5

\* A statement that fails ends its handler and leaves the rows alone.
LEMMA FailureDoes ==
  ASSUME AllAsked, NEW h \in handlers, Settings!StatementFails(h),
         UNCHANGED <<stored, copied, lasting>>
  PROVE  Ended(h) /\ settled' = Nobody /\ located' = located /\ AllAsked'
<1>1. Ended(h) /\ settled' = Nobody /\ UNCHANGED <<located, asks, tries, alone>>
  BY DEF Settings!StatementFails, Ended
<1>2. QED
  BY <1>1, EndedAsked DEF AllAsked, SettingsTypes

\* A step that only a client takes, before it sends or while it waits.
Waits(c) ==
  /\ UNCHANGED <<located, asks, tries, handlers, alone, settled, stored, lasting>>
  /\ phase[c] \in {"lookup", "settings", "send", "wait"}
  /\ \E s \in {"send", "over"} : phase' = [phase EXCEPT ![c] = s]
                                   /\ (s = "send" => tries[c] <= MaxRetries
                                                      /\ KindOf(c) \in LocationKinds \cup Changes)
                                   /\ \/ UNCHANGED copied
                                      \/ /\ copied' = [copied EXCEPT ![c] = stored[GoalOf(c)]]
                                         /\ KindOf(c) = "schedule" /\ s = "over"

\* Such a step keeps what is asked in order.
LEMMA WaitsAsked ==
  ASSUME AllAsked, NEW c \in Client, Waits(c)
  PROVE  AllAsked'
<1>1. PICK s \in {"send", "over"} : phase' = [phase EXCEPT ![c] = s]
                                   /\ (s = "send" => tries[c] <= MaxRetries
                                                      /\ KindOf(c) \in LocationKinds \cup Changes)
                                   /\ \/ UNCHANGED copied
                                      \/ /\ copied' = [copied EXCEPT ![c] = stored[GoalOf(c)]]
                                         /\ KindOf(c) = "schedule" /\ s = "over"
  BY DEF Waits
<1>2. s \in Phases
  BY DEF Phases
<1>3. QED
  BY <1>1, <1>2, MovesAsked DEF Waits

\* The steps of a client between setting out and sending, and a time-out.
LEMMA ClientWaits ==
  ASSUME AllAsked, NEW c \in Client,
         \/ Settings!Lookup(c) /\ UNCHANGED <<stored, copied, lasting>>
         \/ Settings!Decline(c) /\ UNCHANGED <<stored, copied, lasting>>
         \/ Settings!TimeOut(c) /\ UNCHANGED <<stored, copied, lasting>>
         \/ Settings!ReadForRemove(c)
         \/ Settings!ReadForSchedule(c)
  PROVE  Waits(c)
<1> SettingsTypes /\ Asked(c)
  BY DEF AllAsked
<1>0. tries[c] \in 0 .. MaxRetries + 1 /\ 0 <= MaxRetries
  BY RetriesAllowed DEF SettingsTypes
<1>1. CASE Settings!Lookup(c) /\ UNCHANGED <<stored, copied, lasting>>
  <2>1. phase[c] = "lookup" /\ KindOf(c) \in LocationKinds /\ tries[c] = 0
    BY <1>1 DEF Settings!Lookup, Asked
  <2>2. \E s \in {"send", "over"} : phase' = [phase EXCEPT ![c] = s]
    BY <1>1 DEF Settings!Lookup
  <2>3. QED
    BY <1>0, <1>1, <2>1, <2>2 DEF Settings!Lookup, Waits
<1>2. CASE Settings!Decline(c) /\ UNCHANGED <<stored, copied, lasting>>
  BY <1>2 DEF Settings!Decline, Waits
<1>3. CASE Settings!TimeOut(c) /\ UNCHANGED <<stored, copied, lasting>>
  <2>1. phase[c] = "wait" /\ KindOf(c) \in LocationKinds \cup Changes
    BY <1>3 DEF Settings!TimeOut, Asked
  <2>2. phase' = [phase EXCEPT ![c] = IF tries[c] <= MaxRetries THEN "send" ELSE "over"]
    BY <1>3 DEF Settings!TimeOut
  <2>3. QED
    BY <1>3, <2>1, <2>2 DEF Settings!TimeOut, Waits
<1>4. CASE Settings!ReadForRemove(c)
  <2>1. phase[c] = "settings" /\ KindOf(c) \in Changes /\ tries[c] = 0
    BY <1>4 DEF Settings!ReadForRemove, Asked, KindOf, Changes
  <2>2. \E s \in {"send", "over"} : phase' = [phase EXCEPT ![c] = s]
    BY <1>4 DEF Settings!ReadForRemove
  <2>3. QED
    BY <1>0, <1>4, <2>1, <2>2 DEF Settings!ReadForRemove, Settings!channelVars, Waits
<1>5. CASE Settings!ReadForSchedule(c)
  BY <1>5 DEF Settings!ReadForSchedule, Settings!Target, Waits, KindOf, GoalOf
<1>6. QED
  BY <1>1, <1>2, <1>3, <1>4, <1>5

\* A step by which a client sets out.
Begins(c) ==
  /\ phase[c] = "new"
  /\ UNCHANGED <<located, tries, handlers, stored, copied>>
  /\ alone' = IF handlers = {} /\ \A d \in Client \ {c} : phase[d] \in {"new", "over"}
              THEN c ELSE Nobody
  /\ \E t \in Tasks, s \in {"lookup", "settings", "send", "over"} :
       /\ asks' = [asks EXCEPT ![c] = t] /\ phase' = [phase EXCEPT ![c] = s]
       /\ s \in {"lookup", "send"} => t.kind \in LocationKinds \cup Changes
       /\ s = "lookup" => t.kind \in LocationKinds
       /\ s = "settings" => t.kind \in {"remove channel", "schedule"}
       /\ t.kind \in LocationKinds => settled' = Nobody /\ UNCHANGED lasting
       /\ t.kind \in Changes => UNCHANGED settled /\ lasting' = [n \in Channel |-> Unknown]
       /\ \/ t.kind \in LocationKinds \cup Changes
          \/ t.kind = "schedule" /\ UNCHANGED <<settled, lasting>>

\* A client that sets out finds what is asked in order.
LEMMA BeginsAsked ==
  ASSUME AllAsked, NEW c \in Client, Begins(c)
  PROVE  AllAsked'
<1>1. PICK t \in Tasks, s \in {"lookup", "settings", "send", "over"} :
       /\ asks' = [asks EXCEPT ![c] = t] /\ phase' = [phase EXCEPT ![c] = s]
       /\ s \in {"lookup", "send"} => t.kind \in LocationKinds \cup Changes
       /\ s = "lookup" => t.kind \in LocationKinds
       /\ s = "settings" => t.kind \in {"remove channel", "schedule"}
       /\ t.kind \in LocationKinds => settled' = Nobody /\ UNCHANGED lasting
       /\ t.kind \in Changes => UNCHANGED settled /\ lasting' = [n \in Channel |-> Unknown]
       /\ \/ t.kind \in LocationKinds \cup Changes
          \/ t.kind = "schedule" /\ UNCHANGED <<settled, lasting>>
  BY DEF Begins
<1>2. s \in Phases
  BY DEF Phases
<1>3. Settings!Start(c, t, s)
  BY <1>1 DEF Begins, Settings!Start
<1>4. settled' \in {settled, Nobody} /\ lasting' \in {lasting, [n \in Channel |-> Unknown]}
  BY <1>1
<1>5. QED
  BY <1>1, <1>2, <1>3, <1>4, StartsAsked DEF Begins

\* The ways to set out.
LEMMA ClientBegins ==
  ASSUME NEW c \in Client,
         \/ /\ \/ Settings!BeginAdd(c) \/ Settings!BeginSetDefault(c) \/ Settings!BeginRemove(c)
               \/ Settings!BeginBackup(c) \/ Settings!BeginWizard(c)
            /\ UNCHANGED <<stored, copied, lasting>>
         \/ Settings!BeginConfigure(c) \/ Settings!ConfigureInWizard(c)
         \/ Settings!BeginRemoveChannel(c) \/ Settings!BeginSchedule(c)
  PROVE  Begins(c)
<1>1. ASSUME NEW k \in LocationKinds \ {"init"}, Settings!Begin(c, k),
             UNCHANGED <<stored, copied, lasting>>
      PROVE  Begins(c)
  <2>1. PICK l \in Location : Settings!Start(c, [kind |-> k, at |-> l], "lookup")
    BY <1>1 DEF Settings!Begin
  <2>2. [kind |-> k, at |-> l] \in Tasks
    BY <1>1 DEF Tasks
  <2>3. k \notin Changes
    BY <1>1 DEF LocationKinds, Changes
  <2>4. QED
    BY <1>1, <2>1, <2>2, <2>3 DEF Begins, Settings!Start, Settings!Begin
<1>2. CASE Settings!BeginWizard(c) /\ UNCHANGED <<stored, copied, lasting>>
  <2>1. PICK l \in Location : Settings!Start(c, [kind |-> "init", at |-> l], "send")
    BY <1>2 DEF Settings!BeginWizard
  <2>2. [kind |-> "init", at |-> l] \in Tasks
    BY DEF Tasks, LocationKinds
  <2>3. "init" \notin Changes /\ "init" \in LocationKinds
    BY DEF LocationKinds, Changes
  <2>4. QED
    BY <1>2, <2>1, <2>2, <2>3 DEF Begins, Settings!Start, Settings!BeginWizard
<1>3. ASSUME NEW k \in Changes, NEW s \in {"send", "over", "settings"},
             Settings!BeginChange(c, k, s),
             s = "settings" => k = "remove channel"
      PROVE  Begins(c)
  <2>1. PICK n \in Channel : Settings!Start(c, [kind |-> k, at |-> n], s)
    BY <1>3 DEF Settings!BeginChange
  <2>2. [kind |-> k, at |-> n] \in Tasks
    BY <1>3 DEF Tasks
  <2>3. k \notin LocationKinds
    BY <1>3 DEF LocationKinds, Changes
  <2>4. QED
    BY <1>3, <2>1, <2>2, <2>3 DEF Begins, Settings!Start, Settings!BeginChange, Settings!Forgotten
<1>4. CASE Settings!BeginSchedule(c)
  <2>1. PICK n \in Channel : Settings!Start(c, [kind |-> "schedule", at |-> n], "settings")
    BY <1>4 DEF Settings!BeginSchedule
  <2>2. [kind |-> "schedule", at |-> n] \in Tasks
    BY DEF Tasks
  <2>3. "schedule" \notin LocationKinds \cup Changes
    BY DEF LocationKinds, Changes
  <2>4. QED
    BY <1>4, <2>1, <2>2, <2>3
       DEF Begins, Settings!Start, Settings!BeginSchedule, Settings!channelVars
<1>5. QED
  <2>1. {"add", "set default", "remove", "backup"} \subseteq LocationKinds \ {"init"}
        /\ Changes = {"configure", "remove channel"}
    BY DEF LocationKinds, Changes
  <2>2. QED
    BY <1>1, <1>2, <1>3, <1>4, <2>1
       DEF Settings!BeginAdd, Settings!BeginSetDefault, Settings!BeginRemove, Settings!BeginBackup,
           Settings!BeginConfigure, Settings!ConfigureInWizard, Settings!BeginRemoveChannel

-----------------------------------------------------------------------------
(* The default location                                                    *)

\* No other location is the default.
OnlyDefault(l) == \A z \in Location : located[z].default => z = l

\* A handler whose request makes a location the default.
Making(h) == KindOf(h.of) \in {"set default", "init"}

\* Such a handler holds the id of the row, and once it has cleared the flags no other
\* location is the default.
OnTheWay(h) ==
  /\ KindOf(h.of) = "set default" /\ h.at \in {"clear", "set"}
       => h.id = located[GoalOf(h.of)].id /\ h.id # Nobody
  /\ h.at \in {"set", "upsert"} => OnlyDefault(GoalOf(h.of))

\* That is so for the client that is alone, and for the requests that it has repeated
\* once one of them was answered.
MakesIt(h) == Making(h) /\ (alone = h.of \/ settled # Nobody) => OnTheWay(h)

\* A default that was reported: nobody else is at work on the locations, the handlers
\* left over are of the same request, and whenever the flag is cleared one of them is
\* about to set it again.
SettledFor(l) ==
  /\ \A c \in Client : phase[c] \in {"lookup", "send", "wait"} => KindOf(c) \notin LocationKinds
  /\ \A h \in handlers : KindOf(h.of) \in LocationKinds => Making(h) /\ GoalOf(h.of) = l
  /\ located[l].id # Nobody /\ OnlyDefault(l)
  /\ located[l].default \/ \E h \in handlers : Making(h) /\ h.at \in {"set", "upsert"}

\* The invariant of the default.  Without the handlers left over it is not inductive: a
\* repeated request clears the flag of the location that its first attempt had made the
\* default, and only what is known of the handler tells that it sets it again.
DefaultMade ==
  /\ \A h \in handlers : MakesIt(h)
  /\ settled # Nobody => SettledFor(settled)

\* A step that is not about the locations.
LEMMA QuietDefault ==
  ASSUME AllAsked, AllAsked', DefaultMade, UNCHANGED <<located, asks, alone>>,
         settled' \in {settled, Nobody},
         \A c \in Client : phase'[c] \in {"lookup", "send", "wait"}
              => phase[c] \in {"lookup", "send", "wait"} \/ KindOf(c) \notin LocationKinds,
         \A h \in handlers' : h \in handlers
              \/ (h.of \in Client /\ KindOf(h.of) \notin LocationKinds),
         settled' # Nobody =>
              \A h \in handlers : Making(h) /\ h.at \in {"set", "upsert"} => h \in handlers'
  PROVE  DefaultMade'
<1> SettingsTypes
  BY DEF AllAsked
<1>1. ASSUME NEW h \in handlers' PROVE MakesIt(h)'
  <2>1. CASE h \in handlers
    <3>1. MakesIt(h)
      BY <2>1 DEF DefaultMade
    <3>2. QED
      BY <3>1 DEF MakesIt, Making, OnTheWay, OnlyDefault, KindOf, GoalOf
  <2>2. CASE KindOf(h.of) \notin LocationKinds
    BY <2>2 DEF MakesIt, Making, KindOf, LocationKinds
  <2>3. QED
    BY <2>1, <2>2
<1>2. ASSUME settled' # Nobody PROVE SettledFor(settled)'
  <2>1. SettledFor(settled) /\ settled' = settled
    BY <1>2 DEF DefaultMade
  <2>2. QED
    BY <1>2, <2>1 DEF SettledFor, Making, OnlyDefault, KindOf, GoalOf
<1>3. QED
  BY <1>1, <1>2 DEF DefaultMade

\* A client that sets out to change a location forgets the default that was reported.
LEMMA BeginsDefault ==
  ASSUME AllAsked, AllAsked', DefaultMade, NEW c \in Client, Begins(c)
  PROVE  DefaultMade'
<1> SettingsTypes
  BY DEF AllAsked
<1>1. PICK t \in Tasks, s \in {"lookup", "settings", "send", "over"} :
       /\ asks' = [asks EXCEPT ![c] = t] /\ phase' = [phase EXCEPT ![c] = s]
       /\ t.kind \in LocationKinds => settled' = Nobody
       /\ settled' \in {settled, Nobody}
  BY DEF Begins
<1>2. /\ \A d \in Client : d # c => asks'[d] = asks[d] /\ phase'[d] = phase[d]
      /\ asks'[c] = t
  BY <1>1 DEF SettingsTypes
<1>3. ASSUME NEW h \in handlers PROVE h.of \in Client /\ h.of # c /\ asks'[h.of] = asks[h.of]
                                      /\ alone' # h.of
  <2>1. Handled(h) /\ h.of \in Client
    BY DEF AllAsked, SettingsTypes
  <2>2. h.of # c
    BY <2>1 DEF Handled, Begins
  <2>3. alone' # h.of
    BY <2>1, <2>2, MetadataAssumption DEF Begins
  <2>4. QED
    BY <1>2, <2>1, <2>2, <2>3
<1>4. UNCHANGED <<located, handlers>>
  BY DEF Begins
<1>5. ASSUME NEW h \in handlers' PROVE MakesIt(h)'
  <2>1. MakesIt(h) /\ asks'[h.of] = asks[h.of] /\ alone' # h.of
    BY <1>3, <1>4 DEF DefaultMade
  <2>2. QED
    BY <1>1, <1>4, <2>1 DEF MakesIt, Making, OnTheWay, OnlyDefault, KindOf, GoalOf
<1>6. ASSUME settled' # Nobody PROVE SettledFor(settled)'
  <2>1. SettledFor(settled) /\ settled' = settled /\ t.kind \notin LocationKinds
    BY <1>1, <1>6 DEF DefaultMade
  <2>2. \A d \in Client : phase'[d] \in {"lookup", "send", "wait"}
              => asks'[d].kind \notin LocationKinds
    BY <1>2, <2>1 DEF SettledFor, KindOf
  <2>3. QED
    BY <1>3, <1>4, <2>1, <2>2 DEF SettledFor, Making, OnlyDefault, KindOf, GoalOf
<1>7. QED
  BY <1>5, <1>6 DEF DefaultMade

\* A request that is sent starts at its first statement and has nothing to hold yet.
LEMMA SendsDefault ==
  ASSUME AllAsked, AllAsked', DefaultMade, NEW c \in Client, Settings!Send(c)
  PROVE  DefaultMade'
<1> SettingsTypes
  BY DEF AllAsked
<1>0. PICK m : m = [of |-> c, try |-> tries[c] + 1,
                    id |-> Nobody, at |-> Settings!Entry(asks[c].kind)]
  OBVIOUS
<1>1. /\ phase[c] = "send" /\ phase' = [phase EXCEPT ![c] = "wait"]
      /\ handlers' = handlers \cup {m}
      /\ UNCHANGED <<located, asks, alone, settled>>
  BY <1>0 DEF Settings!Send
<1>2. m.of = c /\ m.at = Settings!Entry(KindOf(c))
  BY <1>0 DEF KindOf
<1>3. \/ ~Making(m)
      \/ KindOf(c) = "set default" /\ m.at = "find"
      \/ KindOf(c) = "init" /\ m.at = "clear"
  BY <1>2 DEF Making, Settings!Entry
<1>4. ASSUME NEW h \in handlers' PROVE MakesIt(h)'
  <2>1. CASE h = m
    BY <1>1, <1>2, <1>3, <2>1 DEF MakesIt, Making, OnTheWay, KindOf, GoalOf
  <2>2. CASE h \in handlers
    <3>1. MakesIt(h)
      BY <2>2 DEF DefaultMade
    <3>2. QED
      BY <1>1, <3>1 DEF MakesIt, Making, OnTheWay, OnlyDefault, KindOf, GoalOf
  <2>3. QED
    BY <1>1, <2>1, <2>2
<1>5. ASSUME settled' # Nobody PROVE SettledFor(settled)'
  <2>1. SettledFor(settled) /\ KindOf(c) \notin LocationKinds
    BY <1>1, <1>5 DEF DefaultMade, SettledFor
  <2>2. \A d \in Client : phase'[d] \in {"lookup", "send", "wait"}
               => KindOf(d) \notin LocationKinds
    BY <1>1, <2>1 DEF SettledFor, SettingsTypes
  <2>3. QED
    BY <1>1, <1>2, <2>1, <2>2 DEF SettledFor, Making, OnlyDefault, KindOf, GoalOf
<1>6. QED
  BY <1>4, <1>5 DEF DefaultMade

\* While a command is alone, every handler is one of its requests.
LEMMA AloneOwns ==
  ASSUME AllAsked, NEW h \in handlers, NEW x \in handlers, alone = x.of
  PROVE  h.of = x.of
<1>1. Handled(h) /\ x.of \in Client
  BY DEF AllAsked, SettingsTypes
<1>2. QED
  BY <1>1, MetadataAssumption DEF Handled

\* The id that is found is that of the row.
LEMMA FindDefault ==
  ASSUME AllAsked, AllAsked', DefaultMade, NEW h \in handlers, h.at = "find", FindEffect(h),
         UNCHANGED <<asks, alone>>
  PROVE  DefaultMade'
<1> SettingsTypes /\ h.of \in Client
  BY DEF AllAsked, SettingsTypes
<1>0. KindOf(h.of) \in {"set default", "remove"}
  BY HandlerGoals
<1>1. CASE Ended(h) /\ UNCHANGED <<located, settled>>
  <2>1. \A c \in Client : phase'[c] \in {phase[c], "over"}
    BY <1>1 DEF Ended, SettingsTypes
  <2>2. QED
    BY <1>1, <2>1, QuietDefault DEF Ended
<1>2. CASE /\ located[GoalOf(h.of)].id # Nobody /\ UNCHANGED located
           /\ Moved(h, IF KindOf(h.of) = "remove" THEN "delete" ELSE "clear",
                       located[GoalOf(h.of)].id)
  <2>1. PICK m : m = [h EXCEPT !.at = IF KindOf(h.of) = "remove" THEN "delete" ELSE "clear",
                               !.id = located[GoalOf(h.of)].id]
    OBVIOUS
  <2>2. /\ m.of = h.of /\ m.at = (IF KindOf(h.of) = "remove" THEN "delete" ELSE "clear")
        /\ m.id = located[GoalOf(h.of)].id
    BY <2>1 DEF SettingsTypes
  <2>3. handlers' = (handlers \ {h}) \cup {m} /\ UNCHANGED <<phase, settled>>
    BY <1>2, <2>1 DEF Moved
  <2>4. ASSUME NEW x \in handlers' PROVE MakesIt(x)'
    <3>1. CASE x = m
      BY <1>0, <1>2, <2>2, <2>3, <3>1 DEF MakesIt, Making, OnTheWay, KindOf, GoalOf
    <3>2. CASE x \in handlers
      <4>1. MakesIt(x)
        BY <3>2 DEF DefaultMade
      <4>2. QED
        BY <1>2, <2>3, <4>1 DEF MakesIt, Making, OnTheWay, OnlyDefault, KindOf, GoalOf
    <3>3. QED
      BY <2>3, <3>1, <3>2
  <2>5. ASSUME settled' # Nobody PROVE SettledFor(settled)'
    <3>1. SettledFor(settled)
      BY <2>3, <2>5 DEF DefaultMade
    <3>2. QED
      BY <1>2, <2>2, <2>3, <3>1 DEF SettledFor, Making, OnlyDefault, KindOf, GoalOf
  <2>6. QED
    BY <2>4, <2>5 DEF DefaultMade
<1>3. QED
  BY <1>1, <1>2 DEF FindEffect

\* After the flags are cleared no other location is the default.
LEMMA ClearDefault ==
  ASSUME AllAsked, AllAsked', DefaultMade, NEW h \in handlers, h.at = "clear", ClearEffect(h),
         UNCHANGED <<asks, alone>>
  PROVE  DefaultMade'
<1> SettingsTypes /\ h.of \in Client
  BY DEF AllAsked, SettingsTypes
<1>0. KindOf(h.of) \in {"set default", "init"} /\ GoalOf(h.of) \in Location
  BY HandlerGoals
<1>1. PICK m : m = [h EXCEPT !.at = IF KindOf(h.of) = "init" THEN "upsert" ELSE "set", !.id = h.id]
  OBVIOUS
<1>2. /\ m.of = h.of /\ m.at = (IF KindOf(h.of) = "init" THEN "upsert" ELSE "set") /\ m.id = h.id
  BY <1>1 DEF SettingsTypes
<1>3. handlers' = (handlers \ {h}) \cup {m} /\ UNCHANGED <<phase, settled>>
  BY <1>1 DEF ClearEffect, Moved
<1>4. \A z \in Location : located'[z].id = located[z].id /\ ~located'[z].default
  BY DEF ClearEffect, SettingsTypes
<1>5. ASSUME NEW x \in handlers
      PROVE MakesIt(x) /\ x.of \in Client /\ (Making(x) => GoalOf(x.of) \in Location)
  <2>1. asks[x.of] \in Tasks /\ x.of \in Client
    BY DEF SettingsTypes
  <2>2. QED
    BY <2>1, TaskGoals DEF DefaultMade, Making, KindOf, GoalOf, LocationKinds
<1>6. ASSUME NEW x \in handlers' PROVE MakesIt(x)'
  <2>1. CASE x = m
    BY <1>0, <1>2, <1>3, <1>4, <1>5, <2>1
       DEF MakesIt, Making, OnTheWay, OnlyDefault, KindOf, GoalOf
  <2>2. CASE x \in handlers
    BY <1>3, <1>4, <1>5, <2>2 DEF MakesIt, Making, OnTheWay, OnlyDefault, KindOf, GoalOf
  <2>3. QED
    BY <1>3, <2>1, <2>2
<1>7. ASSUME settled' # Nobody PROVE SettledFor(settled)'
  <2>1. SettledFor(settled) /\ settled \in Location
    BY <1>3, <1>7 DEF DefaultMade, SettingsTypes
  <2>2. QED
    BY <1>0, <1>2, <1>3, <1>4, <2>1 DEF SettledFor, Making, OnlyDefault, KindOf, GoalOf
<1>8. QED
  BY <1>6, <1>7 DEF DefaultMade

\* An upsert, or the statement that sets the default: the location it is about.
MadeDefault(h) ==
  LET l == GoalOf(h.of) IN
  /\ located'[l].default /\ located'[l].id # Nobody
  /\ \A z \in Location : z # l => located'[z] = located[z]
  /\ located[l].id # Nobody => located'[l].id = located[l].id

\* When the flag is set, the location is the only default; the handlers left over are of
\* the same location and find the row as it was.
LEMMA MadeDefaultStands ==
  ASSUME AllAsked, AllAsked', DefaultMade, NEW h \in handlers,
         Making(h), h.at \in {"set", "upsert"},
         MadeDefault(h), Answered(h), UNCHANGED <<asks, alone>>
  PROVE  DefaultMade'
<1> SettingsTypes /\ h.of \in Client
  BY DEF AllAsked, SettingsTypes
<1> DEFINE l == GoalOf(h.of)
<1>0. KindOf(h.of) \in {"set default", "init"} /\ l \in Location /\ KindOf(h.of) \in LocationKinds
  BY HandlerGoals DEF Making
<1>1. /\ handlers' = handlers \ {h}
      /\ \A c \in Client : phase'[c] \in {phase[c], "over"}
  BY DEF Answered, Ended, SettingsTypes
<1>2. settled' = settled \/ (alone = h.of /\ settled' = l /\ phase'[h.of] = "over")
  BY DEF Answered, SettingsTypes
<1>3. settled # Nobody => settled = l
  BY <1>0 DEF DefaultMade, SettledFor
<1>4. settled' \in {Nobody, l} /\ l # Nobody
  BY <1>0, <1>2, <1>3, MetadataAssumption
<1>5. alone = h.of \/ settled # Nobody => OnlyDefault(l)
  BY DEF DefaultMade, MakesIt, OnTheWay
<1>6. ASSUME NEW x \in handlers' PROVE MakesIt(x)'
  <2>1. MakesIt(x) /\ x \in handlers /\ x.of \in Client
    BY <1>1 DEF DefaultMade, SettingsTypes
  <2>2. CASE Making(x) /\ (alone = x.of \/ settled' # Nobody)
    <3>1. /\ GoalOf(x.of) = l
          /\ alone = h.of \/ settled # Nobody
          /\ alone = x.of \/ settled # Nobody
      <4>1. CASE alone = x.of
        BY <2>1, <4>1, AloneOwns
      <4>2. CASE settled # Nobody
        BY <1>3, <2>1, <2>2, <4>2 DEF DefaultMade, SettledFor, Making, LocationKinds
      <4>3. CASE settled = Nobody /\ alone # x.of
        <5>1. alone = h.of
          BY <1>2, <2>2, <4>3
        <5>2. x.of = h.of
          BY <2>1, <5>1, AloneOwns
        <5>3. QED
          BY <4>3, <5>1, <5>2
      <4>4. QED
        BY <4>1, <4>2, <4>3
    <3>2. OnTheWay(x) /\ OnlyDefault(l)
      BY <1>5, <2>1, <2>2, <3>1 DEF MakesIt
    <3>3. OnlyDefault(l)'
      BY <3>2 DEF OnlyDefault, MadeDefault, GoalOf
    <3>4. OnTheWay(x)'
      BY <1>0, <3>1, <3>2, <3>3 DEF OnTheWay, MadeDefault, KindOf, GoalOf
    <3>5. QED
      BY <3>4 DEF MakesIt
  <2>3. CASE ~(Making(x) /\ (alone = x.of \/ settled' # Nobody))
    BY <2>3 DEF MakesIt, Making, KindOf
  <2>4. QED
    BY <2>2, <2>3
<1>7. ASSUME settled' # Nobody PROVE SettledFor(settled)'
  <2>1. settled' = l /\ (alone = h.of \/ settled # Nobody)
    BY <1>2, <1>4, <1>7
  <2>2. OnlyDefault(l)'
    BY <1>5, <2>1 DEF OnlyDefault, MadeDefault, GoalOf
  <2>3. located'[l].id # Nobody /\ located'[l].default
    BY DEF MadeDefault
  <2>4. CASE settled # Nobody
    <3>1. SettledFor(settled) /\ settled = l
      BY <1>3, <2>4 DEF DefaultMade
    <3>2. QED
      BY <1>1, <2>1, <2>2, <2>3, <3>1 DEF SettledFor, Making, OnlyDefault, KindOf, GoalOf
  <2>5. CASE settled = Nobody
    <3>1. alone = h.of /\ phase'[h.of] = "over"
      BY <1>2, <1>7, <2>5
    <3>2. \A c \in Client : phase'[c] \notin {"lookup", "send", "wait"}
      <4>1. \A c \in Client : c # h.of => phase[c] \in {"new", "over"}
        BY <3>1 DEF AllAsked, Asked
      <4>2. QED
        BY <1>1, <3>1, <4>1
    <3>3. \A x \in handlers' : x.of = h.of
      <4>1. ASSUME NEW x \in handlers PROVE x.of = h.of
        BY <3>1, AloneOwns
      <4>2. QED
        BY <1>1, <4>1
    <3>4. QED
      BY <2>1, <2>2, <2>3, <3>2, <3>3 DEF SettledFor, Making, OnlyDefault, KindOf, GoalOf
  <2>6. QED
    BY <2>4, <2>5
<1>8. QED
  BY <1>6, <1>7 DEF DefaultMade

\* A statement of a command that is no making of a default: then none is reported.
LEMMA OtherStatements ==
  ASSUME AllAsked, AllAsked', DefaultMade, NEW h \in handlers, KindOf(h.of) \in LocationKinds,
         ~Making(h),
         handlers' = handlers \ {h}, settled' = settled, UNCHANGED <<asks, alone>>
  PROVE  DefaultMade'
<1>1. settled = Nobody
  BY DEF DefaultMade, SettledFor
<1>2. ASSUME NEW x \in handlers', Making(x) PROVE alone # x.of
  <2>1. x \in handlers
    BY <1>2
  <2>2. alone = x.of => h.of = x.of
    BY <2>1, AloneOwns
  <2>3. QED
    BY <1>2, <2>2 DEF Making
<1>3. QED
  BY <1>1, <1>2 DEF DefaultMade, MakesIt, Making, KindOf

\* The upsert of the wizard makes a default, the others do not.
LEMMA UpsertDefault ==
  ASSUME AllAsked, AllAsked', DefaultMade, NEW h \in handlers, h.at = "upsert", UpsertEffect(h),
         UNCHANGED <<asks, alone>>
  PROVE  DefaultMade'
<1> SettingsTypes /\ h.of \in Client
  BY DEF AllAsked, SettingsTypes
<1>0. KindOf(h.of) \in {"add", "backup", "init"} /\ GoalOf(h.of) \in Location
      /\ KindOf(h.of) \in LocationKinds
  BY HandlerGoals
<1>1. CASE KindOf(h.of) = "init"
  <2>1. MadeDefault(h)
    BY <1>0, <1>1, MetadataAssumption DEF UpsertEffect, MadeDefault, SettingsTypes
  <2>2. QED
    BY <1>1, <2>1, MadeDefaultStands DEF Making, UpsertEffect
<1>2. CASE KindOf(h.of) # "init"
  <2>1. ~Making(h) /\ Ended(h) /\ settled' = settled
    BY <1>0, <1>2 DEF Making, UpsertEffect, Answered
  <2>2. QED
    BY <1>0, <2>1, OtherStatements DEF Ended
<1>3. QED
  BY <1>1, <1>2

\* A location is removed only when no default is reported.
LEMMA DeleteDefault ==
  ASSUME AllAsked, AllAsked', DefaultMade, NEW h \in handlers, h.at = "delete", DeleteEffect(h),
         UNCHANGED <<asks, alone>>
  PROVE  DefaultMade'
<1>0. KindOf(h.of) = "remove" /\ KindOf(h.of) \in LocationKinds
  BY HandlerGoals
<1>1. ~Making(h) /\ handlers' = handlers \ {h} /\ settled' = settled
  BY <1>0 DEF Making, DeleteEffect, Ended
<1>2. QED
  BY <1>0, <1>1, OtherStatements

\* The flag is set on the row that was found.
LEMMA SetDefaultMade ==
  ASSUME AllAsked, AllAsked', DefaultMade, NEW h \in handlers, h.at = "set", SetEffect(h),
         UNCHANGED <<asks, alone>>
  PROVE  DefaultMade'
<1> SettingsTypes /\ h.of \in Client
  BY DEF AllAsked, SettingsTypes
<1> DEFINE l == GoalOf(h.of)
<1>0. KindOf(h.of) = "set default" /\ l \in Location /\ Making(h) /\ MakesIt(h)
  BY HandlerGoals DEF Making, DefaultMade
<1>1. alone = h.of \/ settled # Nobody => h.id = located[l].id /\ h.id # Nobody
  BY <1>0 DEF MakesIt, OnTheWay
<1>2. \A z \in Location : located[z] \in [id : Ids, default : BOOLEAN]
  BY DEF SettingsTypes
<1>3. CASE settled # Nobody \/ alone = h.of
  <2>1. located[l].id = h.id /\ located' = [located EXCEPT ![l].default = TRUE] /\ Answered(h)
    BY <1>1, <1>3 DEF SetEffect
  <2>2. MadeDefault(h)
    BY <1>0, <1>1, <1>2, <1>3, <2>1 DEF MadeDefault, SettingsTypes
  <2>3. QED
    BY <1>0, <2>1, <2>2, MadeDefaultStands
<1>4. CASE settled = Nobody /\ alone # h.of
  <2>1. Ended(h) /\ settled' = Nobody
    BY <1>4 DEF SetEffect, Answered
  <2>2. ASSUME NEW x \in handlers' PROVE alone # x.of
    <3>1. x \in handlers
      BY <2>1 DEF Ended
    <3>2. alone = x.of => h.of = x.of
      BY <3>1, AloneOwns
    <3>3. QED
      BY <1>4, <3>2
  <2>3. QED
    BY <2>1, <2>2 DEF DefaultMade, MakesIt, Making, KindOf
<1>5. QED
  BY <1>3, <1>4

-----------------------------------------------------------------------------
(* The notification settings                                               *)

\* What the last command reported of a channel stands: no other change is under way, and
\* a handler left over does again what was reported.
Lasts(n) ==
  lasting[n] # Unknown =>
    /\ stored[n] = lasting[n]
    /\ \A c \in Client : phase[c] \in {"settings", "send", "wait"} => KindOf(c) \notin Changes
    /\ \A h \in handlers : GoalOf(h.of) = n =>
         /\ h.at = "configure" => h.of = lasting[n]
         /\ h.at = "remove channel" => lasting[n] = Nobody
    /\ \A c \in Client : asks[c] = [kind |-> "schedule", at |-> n] /\ alone = c
                           => copied[c] \in {Nobody, lasting[n]}

\* A step that is not about the channels.
LEMMA QuietLasts ==
  ASSUME AllAsked, NEW n \in Channel, Lasts(n),
         UNCHANGED <<asks, alone, stored, lasting>>,
         \A c \in Client : phase'[c] \in {"settings", "send", "wait"}
              => phase[c] \in {"settings", "send", "wait"} \/ KindOf(c) \notin Changes,
         \A h \in handlers' : h \in handlers \/ h.at \notin Changes \/ lasting[n] = Unknown,
         \A c \in Client : asks[c] = [kind |-> "schedule", at |-> n]
              => copied'[c] = copied[c] \/ copied'[c] = stored[n]
  PROVE  Lasts(n)'
BY DEF Lasts, KindOf, GoalOf, Changes

\* A client that sets out to change a channel forgets what was reported.
LEMMA BeginsLasts ==
  ASSUME AllAsked, NEW n \in Channel, Lasts(n), NEW c \in Client, Begins(c)
  PROVE  Lasts(n)'
<1> SettingsTypes /\ Asked(c) /\ phase[c] = "new"
  BY DEF AllAsked, Begins
<1>1. PICK t \in Tasks, s \in {"lookup", "settings", "send", "over"} :
       /\ asks' = [asks EXCEPT ![c] = t] /\ phase' = [phase EXCEPT ![c] = s]
       /\ t.kind \in Changes => lasting' = [z \in Channel |-> Unknown]
       /\ t.kind \notin Changes => UNCHANGED lasting
  BY DEF Begins
<1>2. CASE t.kind \in Changes
  BY <1>1, <1>2 DEF Lasts
<1>3. CASE t.kind \notin Changes
  <2>1. /\ UNCHANGED <<lasting, stored, copied, handlers>>
        /\ copied[c] = Nobody /\ alone' \in {c, Nobody}
    BY <1>1, <1>3 DEF Begins, Asked
  <2>2. /\ \A d \in Client : d # c => asks'[d] = asks[d] /\ phase'[d] = phase[d]
        /\ asks'[c] = t
    BY <1>1 DEF SettingsTypes
  <2>3. ASSUME NEW h \in handlers PROVE asks'[h.of] = asks[h.of]
    <3>1. Handled(h) /\ h.of \in Client
      BY DEF AllAsked, SettingsTypes
    <3>2. QED
      BY <2>2, <3>1 DEF Handled
  <2>4. \A d \in Client : alone' = d => d = c
    BY <2>1, MetadataAssumption
  <2>5. ASSUME lasting[n] # Unknown
        PROVE  \A d \in Client : phase'[d] \in {"settings", "send", "wait"}
                        => KindOf(d)' \notin Changes
    BY <1>3, <2>2, <2>5 DEF Lasts, KindOf
  <2>6. ASSUME NEW d \in Client, alone' = d PROVE copied'[d] = Nobody
    BY <2>1, <2>4, <2>6
  <2>7. QED
    BY <2>1, <2>3, <2>5, <2>6 DEF Lasts, GoalOf
<1>4. QED
  BY <1>2, <1>3

\* A change is carried out, for the first time or again.
LEMMA ReportLasts ==
  ASSUME AllAsked, NEW n \in Channel, Lasts(n), NEW h \in handlers, h.at \in Changes,
         NEW outcome, outcome = IF h.at = "configure" THEN h.of ELSE Nobody,
         stored' = [stored EXCEPT ![GoalOf(h.of)] = outcome], ReportEffect(h, outcome),
         UNCHANGED <<asks, alone, copied>>
  PROVE  Lasts(n)'
<1> SettingsTypes /\ h.of \in Client
  BY DEF AllAsked, SettingsTypes
<1>0. KindOf(h.of) = h.at /\ GoalOf(h.of) \in Channel
  BY HandlerGoals
<1>1. /\ handlers' = handlers \ {h}
      /\ \A c \in Client : phase'[c] \in {phase[c], "over"}
  BY DEF ReportEffect, Ended, SettingsTypes
<1>2. lasting[n] # Unknown => (GoalOf(h.of) = n => outcome = lasting[n]) /\ stored'[n] = lasting[n]
  BY <1>0 DEF Lasts, SettingsTypes, Changes
<1>3. CASE lasting'[n] = lasting[n]
  BY <1>1, <1>2, <1>3 DEF Lasts, KindOf, GoalOf
<1>4. CASE lasting'[n] # lasting[n]
  <2>1. /\ alone = h.of /\ phase'[h.of] = "over" /\ GoalOf(h.of) = n
        /\ lasting' = [lasting EXCEPT ![n] = outcome] /\ lasting'[n] = outcome
    BY <1>0, <1>4 DEF ReportEffect, SettingsTypes
  <2>2. stored'[n] = outcome
    BY <1>0, <2>1 DEF SettingsTypes
  <2>3. \A c \in Client : phase'[c] \notin {"settings", "send", "wait"}
    <3>1. \A c \in Client : c # h.of => phase[c] \in {"new", "over"}
      BY <2>1 DEF AllAsked, Asked
    <3>2. QED
      BY <1>1, <2>1, <3>1
  <2>4. ASSUME NEW x \in handlers' PROVE x.of = h.of /\ (x.at \in Changes => x.at = h.at)
    <3>1. x \in handlers
      BY <1>1
    <3>2. x.of = h.of
      BY <2>1, <3>1, AloneOwns
    <3>3. x.at \in Changes => KindOf(x.of) = x.at
      BY <3>1, HandlerGoals
    <3>4. QED
      BY <1>0, <3>2, <3>3
  <2>5. ASSUME NEW c \in Client, alone = c PROVE asks[c].kind # "schedule"
    BY <1>0, <2>1, <2>5 DEF KindOf, Changes
  <2>6. ASSUME NEW x \in handlers'
        PROVE  /\ x.at = "configure" => x.of = lasting'[n]
               /\ x.at = "remove channel" => lasting'[n] = Nobody
    BY <2>1, <2>4 DEF Changes
  <2>7. \A c \in Client : asks[c] = [kind |-> "schedule", at |-> n] => alone # c
    BY <2>5
  <2>8. QED
    BY <2>1, <2>2, <2>3, <2>6, <2>7 DEF Lasts, KindOf, GoalOf, Changes
<1>5. QED
  BY <1>3, <1>4

-----------------------------------------------------------------------------
(* All of it is invariant                                                  *)

\* The inductive invariant of the settings.
SettingsInv == AllAsked /\ DefaultMade /\ \A n \in Channel : Lasts(n)

\* A statement about a location is not about a channel.
LEMMA StatementLasts ==
  ASSUME AllAsked, NEW h \in handlers, UNCHANGED <<asks, alone, stored, lasting, copied>>,
         \/ Ended(h)
         \/ \E s \in Statements \ Changes, id \in Ids : Moved(h, s, id),
         NEW n \in Channel, Lasts(n)
  PROVE  Lasts(n)'
<1> SettingsTypes /\ h.of \in Client
  BY DEF AllAsked, SettingsTypes
<1>1. CASE Ended(h)
  <2>1. /\ handlers' \subseteq handlers
        /\ \A c \in Client : phase'[c] \in {phase[c], "over"}
    BY <1>1 DEF Ended, SettingsTypes
  <2>2. QED
    BY <2>1, QuietLasts
<1>2. CASE \E s \in Statements \ Changes, id \in Ids : Moved(h, s, id)
  <2>1. PICK s \in Statements \ Changes, id \in Ids : Moved(h, s, id)
    BY <1>2
  <2>2. PICK m : m = [h EXCEPT !.at = s, !.id = id]
    OBVIOUS
  <2>3. handlers' = (handlers \ {h}) \cup {m} /\ phase' = phase
    BY <2>1, <2>2 DEF Moved
  <2>4. m.at = s
    BY <2>2 DEF SettingsTypes
  <2>5. QED
    BY <2>3, <2>4, QuietLasts
<1>3. QED
  BY <1>1, <1>2

\* The steps of the clients.
LEMMA ClientsKeep ==
  ASSUME SettingsInv, NEW c \in Client,
         Begins(c) \/ Waits(c) \/ (Settings!Send(c) /\ UNCHANGED <<stored, copied, lasting>>)
  PROVE  SettingsInv'
<1> AllAsked /\ DefaultMade /\ SettingsTypes
  BY DEF SettingsInv, AllAsked
<1> Asked(c)
  BY DEF AllAsked
<1>1. CASE Begins(c)
  <2>1. AllAsked'
    BY <1>1, BeginsAsked
  <2>2. QED
    BY <1>1, <2>1, BeginsDefault, BeginsLasts DEF SettingsInv
<1>2. CASE Waits(c)
  <2>1. AllAsked'
    BY <1>2, WaitsAsked
  <2>2. PICK s \in {"send", "over"} :
          /\ phase' = [phase EXCEPT ![c] = s]
          /\ copied' = copied \/ copied' = [copied EXCEPT ![c] = stored[GoalOf(c)]]
    BY <1>2 DEF Waits
  <2>3. /\ phase[c] \in {"lookup", "settings", "send", "wait"}
        /\ UNCHANGED <<located, asks, tries, handlers, alone, settled, stored, lasting>>
    BY <1>2 DEF Waits
  <2>4. \A d \in Client : d # c => phase'[d] = phase[d]
    BY <2>2 DEF SettingsTypes
  <2>5. /\ phase[c] = "settings" => KindOf(c) \notin LocationKinds
        /\ phase[c] = "lookup" => KindOf(c) \notin Changes
    BY DEF Asked, LocationKinds, Changes
  <2>6. /\ \A d \in Client : phase'[d] \in {"lookup", "send", "wait"}
              => phase[d] \in {"lookup", "send", "wait"} \/ KindOf(d) \notin LocationKinds
        /\ \A d \in Client : phase'[d] \in {"settings", "send", "wait"}
              => phase[d] \in {"settings", "send", "wait"} \/ KindOf(d) \notin Changes
    BY <2>3, <2>4, <2>5
  <2>7. DefaultMade'
    BY <2>1, <2>3, <2>6, QuietDefault
  <2>8. ASSUME NEW n \in Channel PROVE Lasts(n)'
    <3>1. Lasts(n)
      BY DEF SettingsInv
    <3>2. \A d \in Client : asks[d] = [kind |-> "schedule", at |-> n]
              => copied'[d] = copied[d] \/ copied'[d] = stored[n]
      BY <2>2 DEF GoalOf, SettingsTypes
    <3>3. QED
      BY <2>3, <2>6, <3>1, <3>2, QuietLasts
  <2>9. QED
    BY <2>1, <2>7, <2>8 DEF SettingsInv
<1>3. CASE Settings!Send(c) /\ UNCHANGED <<stored, copied, lasting>>
  <2>1. AllAsked'
    BY <1>3, SendAsked
  <2>2. DefaultMade'
    BY <1>3, <2>1, SendsDefault
  <2>3. PICK m : m = [of |-> c, try |-> tries[c] + 1,
                      id |-> Nobody, at |-> Settings!Entry(asks[c].kind)]
    OBVIOUS
  <2>4. /\ phase[c] = "send" /\ phase' = [phase EXCEPT ![c] = "wait"]
        /\ handlers' = handlers \cup {m}
        /\ UNCHANGED <<asks, alone, stored, copied, lasting>>
    BY <1>3, <2>3 DEF Settings!Send
  <2>5. KindOf(c) \in LocationKinds \cup Changes /\ m.at = Settings!Entry(KindOf(c))
    BY <2>3, <2>4 DEF Asked, KindOf
  <2>6. m.at \in Changes => KindOf(c) \in Changes
    BY <2>5 DEF Settings!Entry, Changes, LocationKinds
  <2>7. ASSUME NEW n \in Channel PROVE Lasts(n)'
    <3>1. Lasts(n)
      BY DEF SettingsInv
    <3>2. m.at \in Changes => lasting[n] = Unknown
      BY <2>4, <2>6, <3>1 DEF Lasts
    <3>3. \A d \in Client : phase'[d] \in {"settings", "send", "wait"}
            => phase[d] \in {"settings", "send", "wait"}
      BY <2>4 DEF SettingsTypes
    <3>4. QED
      BY <2>4, <3>1, <3>2, <3>3, QuietLasts
  <2>8. QED
    BY <2>1, <2>2, <2>7 DEF SettingsInv
<1>4. QED
  BY <1>1, <1>2, <1>3

\* The statements of the handlers of the storage locations.
LEMMA StatementsKeep ==
  ASSUME SettingsInv, NEW h \in handlers, UNCHANGED <<stored, copied, lasting>>,
         \/ Settings!Find(h) \/ Settings!ClearDefaults(h) \/ Settings!Upsert(h)
         \/ Settings!SetDefault(h) \/ Settings!Delete(h) \/ Settings!StatementFails(h)
  PROVE  SettingsInv'
<1> AllAsked /\ DefaultMade /\ SettingsTypes /\ h \in HandlerSet
  BY DEF SettingsInv, AllAsked, SettingsTypes, HandlerSet
<1>0. UNCHANGED <<asks, alone>>
  BY DEF Settings!Find, Settings!ClearDefaults, Settings!Upsert, Settings!SetDefault,
         Settings!Delete, Settings!StatementFails
<1>1. ASSUME AllAsked', DefaultMade',
             \/ Ended(h)
             \/ \E s \in Statements \ Changes, id \in Ids : Moved(h, s, id)
      PROVE  SettingsInv'
  BY <1>0, <1>1, StatementLasts DEF SettingsInv
<1>2. {"find", "clear", "upsert", "set", "delete"} \subseteq Statements \ Changes
  BY DEF Statements, Changes
<1>3. CASE Settings!Find(h)
  <2>1. FindEffect(h) /\ AllAsked' /\ h.at = "find"
    BY <1>3, FindDoes DEF Settings!Find
  <2>2. DefaultMade'
    BY <1>0, <2>1, FindDefault
  <2>3. located[GoalOf(h.of)].id \in Ids
    <3>1. GoalOf(h.of) \in Location
      BY <2>1, HandlerGoals
    <3>2. QED
      BY <3>1 DEF SettingsTypes
  <2>4. Ended(h) \/ Moved(h, "delete", located[GoalOf(h.of)].id)
          \/ Moved(h, "clear", located[GoalOf(h.of)].id)
    BY <2>1 DEF FindEffect
  <2>5. QED
    BY <1>1, <1>2, <2>1, <2>2, <2>3, <2>4
<1>4. CASE Settings!ClearDefaults(h)
  <2>1. ClearEffect(h) /\ AllAsked' /\ h.at = "clear" /\ h.id \in Ids
    BY <1>4, ClearDoes DEF Settings!ClearDefaults, HandlerSet
  <2>2. DefaultMade'
    BY <1>0, <2>1, ClearDefault
  <2>3. Moved(h, "upsert", h.id) \/ Moved(h, "set", h.id)
    BY <2>1 DEF ClearEffect
  <2>4. QED
    BY <1>1, <1>2, <2>1, <2>2, <2>3
<1>5. CASE Settings!Upsert(h)
  <2>1. UpsertEffect(h) /\ AllAsked' /\ h.at = "upsert"
    BY <1>5, UpsertDoes DEF Settings!Upsert
  <2>2. DefaultMade'
    BY <1>0, <2>1, UpsertDefault
  <2>3. QED
    BY <1>1, <2>1, <2>2 DEF UpsertEffect, Answered
<1>6. CASE Settings!SetDefault(h)
  <2>1. SetEffect(h) /\ AllAsked' /\ h.at = "set"
    BY <1>6, SetDoes DEF Settings!SetDefault
  <2>2. DefaultMade'
    BY <1>0, <2>1, SetDefaultMade
  <2>3. Ended(h)
    BY <2>1 DEF SetEffect, Answered
  <2>4. QED
    BY <1>1, <2>1, <2>2, <2>3
<1>7. CASE Settings!Delete(h)
  <2>1. DeleteEffect(h) /\ AllAsked' /\ h.at = "delete"
    BY <1>7, DeleteDoes DEF Settings!Delete
  <2>2. DefaultMade'
    BY <1>0, <2>1, DeleteDefault
  <2>3. Ended(h)
    BY <2>1 DEF DeleteEffect
  <2>4. QED
    BY <1>1, <2>1, <2>2, <2>3
<1>8. CASE Settings!StatementFails(h)
  <2>1. Ended(h) /\ settled' = Nobody /\ located' = located /\ AllAsked'
    BY <1>8, FailureDoes
  <2>2. /\ handlers' \subseteq handlers
        /\ \A c \in Client : phase'[c] \in {phase[c], "over"}
    BY <2>1 DEF Ended, SettingsTypes
  <2>3. DefaultMade'
    BY <1>0, <2>1, <2>2, QuietDefault
  <2>4. QED
    BY <1>1, <2>1, <2>3
<1>9. QED
  BY <1>3, <1>4, <1>5, <1>6, <1>7, <1>8

\* The statements of the handlers of the notification settings.
LEMMA ChannelStatementsKeep ==
  ASSUME SettingsInv, NEW h \in handlers, Settings!UpsertSettings(h) \/ Settings!DeleteSettings(h)
  PROVE  SettingsInv'
<1> AllAsked /\ DefaultMade /\ SettingsTypes
  BY DEF SettingsInv, AllAsked
<1>0. UNCHANGED <<located, asks, alone, copied>> /\ h.at \in Changes
  BY DEF Settings!UpsertSettings, Settings!DeleteSettings, Changes
<1>1. KindOf(h.of) \notin LocationKinds
  BY <1>0, HandlerGoals DEF Changes, LocationKinds
<1>2. ASSUME AllAsked', Ended(h), UNCHANGED settled PROVE DefaultMade'
  <2>1. /\ handlers' = handlers \ {h}
        /\ \A c \in Client : phase'[c] \in {phase[c], "over"}
    BY <1>2 DEF Ended, SettingsTypes
  <2>2. ~Making(h)
    BY <1>1 DEF Making, LocationKinds
  <2>3. QED
    BY <1>0, <1>2, <2>1, <2>2, QuietDefault
<1>3. CASE Settings!UpsertSettings(h)
  <2>1. ConfigureEffect(h) /\ AllAsked' /\ h.at = "configure"
    BY <1>3, ConfigureDoes DEF Settings!UpsertSettings
  <2>2. stored' = [stored EXCEPT ![GoalOf(h.of)] = h.of] /\ ReportEffect(h, h.of)
    BY <2>1 DEF ConfigureEffect
  <2>3. DefaultMade'
    BY <1>2, <2>1, <2>2 DEF ReportEffect
  <2>4. ASSUME NEW n \in Channel PROVE Lasts(n)'
    <3>1. Lasts(n)
      BY DEF SettingsInv
    <3>2. QED
      BY <1>0, <2>1, <2>2, <3>1, ReportLasts
  <2>5. QED
    BY <2>1, <2>3, <2>4 DEF SettingsInv
<1>4. CASE Settings!DeleteSettings(h)
  <2>1. RemoveEffect(h) /\ AllAsked' /\ h.at = "remove channel"
    BY <1>4, RemoveDoes DEF Settings!DeleteSettings
  <2>2. Ended(h) /\ UNCHANGED settled
    BY <2>1 DEF RemoveEffect, ReportEffect
  <2>3. DefaultMade'
    BY <1>2, <2>1, <2>2
  <2>4. ASSUME NEW n \in Channel PROVE Lasts(n)'
    <3>1. Lasts(n)
      BY DEF SettingsInv
    <3>2. CASE UNCHANGED <<stored, lasting>>
      BY <1>0, <2>2, <3>1, <3>2, StatementLasts
    <3>3. CASE stored' = [stored EXCEPT ![GoalOf(h.of)] = Nobody] /\ ReportEffect(h, Nobody)
      BY <1>0, <2>1, <3>1, <3>3, ReportLasts
    <3>4. QED
      BY <2>1, <3>2, <3>3 DEF RemoveEffect
  <2>5. QED
    BY <2>1, <2>3, <2>4 DEF SettingsInv
<1>5. QED
  BY <1>3, <1>4

\* Every step keeps the invariant; what happens to the schedules does not touch it.
LEMMA SettingsKept ==
  SettingsInv /\ [MetadataNext]_<<vars, side, locationVars, channelVars>> => SettingsInv'
<1> SUFFICES ASSUME SettingsInv, [MetadataNext]_<<vars, side, locationVars, channelVars>>
             PROVE  SettingsInv'
  OBVIOUS
<1>1. CASE UNCHANGED <<locationVars, channelVars>>
  <2>1. UNCHANGED <<located, asks, phase, tries, handlers, alone, settled,
                    stored, copied, lasting>>
    BY <1>1 DEF locationVars, channelVars
  <2>2. AllAsked'
    BY <2>1 DEF SettingsInv, AllAsked, SettingsTypes, Asked, Handled, KindOf
  <2>3. DefaultMade'
    BY <2>1 DEF SettingsInv, DefaultMade, SettledFor, MakesIt, OnTheWay, Making, OnlyDefault,
                KindOf, GoalOf
  <2>4. \A n \in Channel : Lasts(n)'
    BY <2>1 DEF SettingsInv, Lasts, KindOf, GoalOf
  <2>5. QED
    BY <2>2, <2>3, <2>4 DEF SettingsInv
<1>2. CASE SettingsNext
  <2>1. ASSUME NEW c \in Client,
               \/ /\ \/ Settings!BeginAdd(c) \/ Settings!BeginSetDefault(c)
                     \/ Settings!BeginRemove(c) \/ Settings!BeginBackup(c)
                     \/ Settings!BeginWizard(c)
                  /\ UNCHANGED channelVars
               \/ Settings!BeginConfigure(c) \/ Settings!ConfigureInWizard(c)
               \/ Settings!BeginRemoveChannel(c) \/ Settings!BeginSchedule(c)
        PROVE  SettingsInv'
    <3>1. Begins(c)
      BY <2>1, ClientBegins DEF channelVars
    <3>2. QED
      BY <3>1, ClientsKeep
  <2>2. ASSUME NEW c \in Client,
               \/ /\ Settings!Lookup(c) \/ Settings!Decline(c) \/ Settings!TimeOut(c)
                  /\ UNCHANGED channelVars
               \/ Settings!ReadForRemove(c) \/ Settings!ReadForSchedule(c)
        PROVE  SettingsInv'
    <3>1. AllAsked
      BY DEF SettingsInv
    <3>2. Waits(c)
      BY <2>2, <3>1, ClientWaits DEF channelVars
    <3>3. QED
      BY <3>2, ClientsKeep
  <2>3. ASSUME NEW c \in Client, Settings!Send(c), UNCHANGED channelVars
        PROVE  SettingsInv'
    BY <2>3, ClientsKeep DEF channelVars
  <2>4. ASSUME NEW h \in handlers, UNCHANGED channelVars,
               \/ Settings!Find(h) \/ Settings!ClearDefaults(h) \/ Settings!Upsert(h)
               \/ Settings!SetDefault(h) \/ Settings!Delete(h) \/ Settings!StatementFails(h)
        PROVE  SettingsInv'
    BY <2>4, StatementsKeep DEF channelVars
  <2>5. ASSUME NEW h \in handlers, Settings!UpsertSettings(h) \/ Settings!DeleteSettings(h)
        PROVE  SettingsInv'
    BY <2>5, ChannelStatementsKeep
  <2>6. QED
    BY <1>2, <2>1, <2>2, <2>3, <2>4, <2>5
       DEF SettingsNext, Settings!StorageNext, Settings!ChannelStep
<1>3. QED
  BY <1>1, <1>2 DEF MetadataNext, vars, scheduleVars

\* It holds at the start.
LEMMA SettingsBegin == MetadataInit => SettingsInv
<1> SUFFICES ASSUME MetadataInit PROVE SettingsInv
  OBVIOUS
<1>1. AllAsked
  BY AskedInit
<1>2. handlers = {} /\ settled = Nobody /\ lasting = [n \in Channel |-> Unknown]
  BY DEF MetadataInit, Settings!StorageInit, Settings!ChannelInit
<1>3. QED
  BY <1>1, <1>2 DEF SettingsInv, DefaultMade, Lasts

\* It holds of every behaviour of the service.
LEMMA SettingsHeld == MetadataSpec => []SettingsInv
<1>1. QED
  BY SettingsBegin, SettingsKept, PTL DEF MetadataSpec

(***************************************************************************)
(* A new default that a command reported, and that ran alone, is the only  *)
(* default as soon as the handlers of its repeated requests are done, and  *)
(* until another command runs: repeating PUT /storage/:name/default, or    *)
(* the save of the wizard, ends where a single request does.               *)
(***************************************************************************)
THEOREM TheDefaultStands == MetadataSpec => []DefaultStands
<1>1. SettingsInv => DefaultStands
  <2> SUFFICES ASSUME SettingsInv PROVE DefaultStands
    OBVIOUS
  <2> SettingsTypes
    BY DEF SettingsInv, AllAsked
  <2>1. Settings!StorageTypeOK
    <3>1. \A h \in handlers : h.of \in Client /\ h.try \in 1 .. tries[h.of] /\ h.id \in Ids
      BY DEF SettingsInv, AllAsked, SettingsTypes, Handled
    <3>2. QED
      BY <3>1 DEF SettingsTypes, Ids, Settings!StorageTypeOK
  <2>2. ASSUME settled # Nobody, handlers = {} PROVE Settings!Defaults = {settled}
    <3>1. SettledFor(settled) /\ settled \in Location
      BY <2>2 DEF SettingsInv, DefaultMade, SettingsTypes
    <3>2. QED
      BY <2>2, <3>1 DEF SettledFor, OnlyDefault, Settings!Defaults
  <2>3. QED
    BY <2>1, <2>2 DEF DefaultStands, Settings!DefaultStands
<1>2. QED
  BY <1>1, SettingsHeld, PTL

(***************************************************************************)
(* The settings that a command reported of a channel, having run alone,    *)
(* stay until another one changes some, although its request may be        *)
(* carried out again after the report; a schedule that is asked for        *)
(* meanwhile gets these settings.                                          *)
(***************************************************************************)
THEOREM TheChannelsStand == MetadataSpec => []ChannelStands
<1>1. SettingsInv => ChannelStands
  <2> SUFFICES ASSUME SettingsInv PROVE ChannelStands
    OBVIOUS
  <2>1. SettingsTypes /\ \A n \in Channel : Lasts(n)
    BY DEF SettingsInv, AllAsked
  <2>2. Settings!ChannelTypeOK
    BY <2>1 DEF SettingsTypes, Tasks, Phases, LocationKinds, Changes, Settings!ChannelTypeOK,
                Settings!NoTask, Settings!Kinds, Settings!ChannelKinds
  <2>3. QED
    BY <2>1, <2>2 DEF Lasts, ChannelStands, Settings!ChannelStands
<1>2. QED
  BY <1>1, SettingsHeld, PTL
=============================================================================
