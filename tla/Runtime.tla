------------------------------- MODULE Runtime -------------------------------
(***************************************************************************)
(* DockerRuntime and InfrastructureManager: the commands that start, stop, *)
(* restart and upgrade the one container that all services run in, and the *)
(* check that a backup makes of it.  Every docker command is a step; the   *)
(* commands of other processes come between them.                          *)
(***************************************************************************)
EXTENDS Naturals, FiniteSets

CONSTANTS
  Proc,       \* processes of the CLI
  MaxFaults   \* bound on failing docker commands, services and calls

ASSUME RuntimeAssumption == MaxFaults \in Nat

VARIABLES
  container,  \* its state and image, and whether its services are all healthy
  foreign,    \* whether another program listens on the gateway's port
  task,       \* what each process was run for
  asks,       \* the image that it tells compose to run
  at,         \* its statement
  saw,        \* state of the container as it inspected it
  told,       \* what it reported
  faults

runtimeVars == <<container, foreign, task, asks, at, saw, told>>

Fault == faults < MaxFaults /\ faults' = faults + 1

(* The image of an earlier version, that of the compose file, and one that
   DB_BACKUP_IMAGE, DB_BACKUP_VERSION or docker.image asks for *)
Images == {"old", "default", "custom"}

Missing == [state |-> "missing", image |-> "none", healthy |-> FALSE]
Booting(image) == [state |-> "running", image |-> image, healthy |-> FALSE]

RuntimeInit ==
  /\ container \in {Missing, [state |-> "stopped", image |-> "old", healthy |-> FALSE]}
  /\ foreign \in BOOLEAN
  /\ task = [p \in Proc |-> "none"] /\ asks = [p \in Proc |-> "default"]
  /\ at = [p \in Proc |-> "new"]
  /\ saw = [p \in Proc |-> "missing"]
  /\ told = [p \in Proc |-> "none"]
  /\ faults = 0

(* The next statement of a process, and its end; what it saw or would ask for is forgotten
   where it is not used *)
Go(p, statement) ==
  /\ at' = [at EXCEPT ![p] = statement]
  /\ saw' = [saw EXCEPT ![p] = "missing"]
  /\ UNCHANGED <<task, asks, told>>

End(p, outcome) ==
  /\ at' = [at EXCEPT ![p] = "over"]
  /\ saw' = [saw EXCEPT ![p] = "missing"] /\ asks' = [asks EXCEPT ![p] = "default"]
  /\ told' = [told EXCEPT ![p] = outcome]
  /\ UNCHANGED task

(* The commands of lifecycle.ts; those of infra.ts, and the infrastructure that a backup
   ensures; and the first statement of each *)
RuntimeTasks == {"start", "upgrade", "stop", "restart"}

InfraTasks == {"backup", "infra start", "infra stop", "infra restart"}

Entry ==
  [c \in RuntimeTasks \cup InfraTasks |->
     CASE c \in RuntimeTasks -> "check"
       [] c = "backup" -> "probe"
       [] c = "infra start" -> "up"
       [] c = "infra stop" -> "compose stop"
       [] c = "infra restart" -> "compose restart"]

-----------------------------------------------------------------------------
(* The services: they become healthy in time, the gateway's port being free, and fail *)
Boot ==
  /\ container.state = "running" /\ ~container.healthy
  /\ container' = [container EXCEPT !.healthy = TRUE]
  /\ UNCHANGED <<foreign, task, asks, at, saw, told, faults>>

Degrade ==
  /\ container.healthy /\ Fault
  /\ container' = [container EXCEPT !.healthy = FALSE]
  /\ UNCHANGED <<foreign, task, asks, at, saw, told>>

-----------------------------------------------------------------------------
(* Every service answers, through the gateway or itself, within 1.5 seconds *)
Answering == container.healthy

(* performEnsureInfrastructure: nothing to do when the probe finds all healthy *)
Probe(p) ==
  /\ at[p] = "probe"
  /\ Go(p, IF Answering THEN "ready" ELSE "up")
  /\ UNCHANGED <<container, foreign, faults>>

(* docker --version, docker info, docker compose version *)
CheckPrerequisites(p) ==
  /\ at[p] = "check"
  /\ \/ Go(p, "inspect") /\ UNCHANGED faults
     \/ End(p, "failed") /\ Fault
  /\ UNCHANGED <<container, foreign>>

(* An upgrade compares the tag of the container's image with the configured version; an
   overridden image may have any tag *)
Outdated(p, c) ==
  IF task[p] # "upgrade" \/ c.state = "missing" THEN {FALSE}
  ELSE IF "custom" \in {asks[p], c.image} THEN BOOLEAN ELSE {c.image = "old"}

(* The cases of stop, restart and start; the restart of what does not run is a start *)
Decide(p, c, outdated) ==
  LET running  == c.state = "running"
      starting == task[p] \in {"start", "restarted", "upgrade"} /\ ~outdated IN
  \/ task[p] = "stop" /\ running /\ Go(p, "stop")
  \/ task[p] = "stop" /\ ~running /\ End(p, "ok")
  \/ task[p] = "restart" /\ running /\ Go(p, "restart")
  \/ /\ task[p] = "restart" /\ ~running
     /\ task' = [task EXCEPT ![p] = "restarted"] /\ at' = [at EXCEPT ![p] = "check"]
     /\ UNCHANGED <<asks, saw, told>>
  \/ outdated /\ Go(p, "replace")
  \/ starting /\ running /\ Go(p, "wait")
  \/ /\ starting /\ ~running
     /\ at' = [at EXCEPT ![p] = "port"] /\ saw' = [saw EXCEPT ![p] = c.state]
     /\ UNCHANGED <<task, asks, told>>

(* docker inspect; when it fails, the container counts as missing *)
Inspect(p) ==
  /\ at[p] = "inspect"
  /\ \E c \in {container, Missing} :
       /\ IF c = container THEN UNCHANGED faults ELSE Fault
       /\ \E outdated \in Outdated(p, c) : Decide(p, c, outdated)
  /\ UNCHANGED <<container, foreign>>

(* An upgrade checks and inspects once more, in stop() *)
Replace(p) ==
  /\ at[p] = "replace"
  /\ \/ Go(p, IF container.state = "running" THEN "stop" ELSE "remove") /\ UNCHANGED faults
     \/ Go(p, "remove") /\ Fault
     \/ End(p, "failed") /\ Fault
  /\ UNCHANGED <<container, foreign>>

(* A docker command fails, is not there, or is given up after its time: by then it may
   have had its effect *)
DockerFails(p, effect) ==
  End(p, "failed") /\ Fault /\ container' \in {container, effect}

Stopped ==
  IF container.state = "missing" THEN Missing
  ELSE [container EXCEPT !.state = "stopped", !.healthy = FALSE]

(* docker stop, which fails on a container that is gone *)
Stop(p) ==
  /\ at[p] = "stop"
  /\ \/ /\ container' = Stopped
        /\ IF container.state = "missing" THEN End(p, "failed")
           ELSE IF task[p] = "upgrade" THEN Go(p, "remove") ELSE End(p, "ok")
        /\ UNCHANGED faults
     \/ DockerFails(p, Stopped)
  /\ UNCHANGED foreign

(* docker compose stop *)
ComposeStop(p) ==
  /\ at[p] = "compose stop"
  /\ \/ container' = Stopped /\ End(p, "ok") /\ UNCHANGED faults
     \/ DockerFails(p, Stopped)
  /\ UNCHANGED foreign

(* docker rm -f, whose outcome is ignored *)
Remove(p) ==
  /\ at[p] = "remove"
  /\ \/ container' = Missing /\ UNCHANGED faults
     \/ UNCHANGED container /\ Fault
  /\ Go(p, "port")
  /\ UNCHANGED foreign

(* Whether somebody listens on the port, and then whether that is the container *)
ConnectPort(p) ==
  /\ at[p] = "port"
  /\ at' = [at EXCEPT ![p] = IF foreign \/ container.state = "running" THEN "owner"
                             ELSE IF saw[p] = "stopped" THEN "start" ELSE "image"]
  /\ UNCHANGED <<container, foreign, task, asks, saw, told, faults>>

CheckOwner(p) ==
  /\ at[p] = "owner"
  /\ \/ /\ container.state = "running"
        /\ Go(p, IF saw[p] = "stopped" THEN "start" ELSE "image") /\ UNCHANGED faults
     \/ container.state # "running" /\ End(p, "failed") /\ UNCHANGED faults
     \/ container.state = "running" /\ End(p, "failed") /\ Fault
  /\ UNCHANGED <<container, foreign>>

(* docker start *)
Started ==
  IF container.state = "stopped" /\ ~foreign THEN Booting(container.image) ELSE container

Start(p) ==
  /\ at[p] = "start"
  /\ \/ /\ container' = Started
        /\ IF container.state = "missing" \/ foreign THEN End(p, "failed") ELSE Go(p, "wait")
        /\ UNCHANGED faults
     \/ DockerFails(p, Started)
  /\ UNCHANGED foreign

(* Mutant of EnsureImage: a failed pull ends the command without an error. *)
EnsureImageQuietly(p) ==
  /\ at[p] = "image"
  /\ \/ Go(p, "up") /\ UNCHANGED faults
     \/ End(p, "ok") /\ Fault
  /\ UNCHANGED <<container, foreign>>

(* docker image inspect, docker pull *)
EnsureImage(p) ==
  /\ at[p] = "image"
  /\ \/ Go(p, "up") /\ UNCHANGED faults
     \/ End(p, "failed") /\ Fault
  /\ UNCHANGED <<container, foreign>>

(* Mutant of ComposeUp: compose is asked to recreate what it finds. *)
ComposeUpForced(p) ==
  /\ at[p] = "up" /\ ~foreign
  /\ container' = Booting(asks[p])
  /\ Go(p, "wait") /\ UNCHANGED <<foreign, faults>>

(* docker compose up -d: a missing container is created, a stopped one started, and one
   of another image than that asked for replaced.  The lifecycle commands pass the
   configured image; a backup and `infra start` pass none and get that of the file. *)
Upped(p) ==
  IF foreign THEN [state |-> "stopped", image |-> asks[p], healthy |-> FALSE]
  ELSE IF container.state = "running" /\ container.image = asks[p] THEN container
  ELSE Booting(asks[p])

ComposeUp(p) ==
  /\ at[p] = "up"
  /\ \/ /\ container' = Upped(p)
        /\ IF foreign THEN End(p, "failed") ELSE Go(p, "wait")
        /\ UNCHANGED faults
     \/ DockerFails(p, Upped(p))
  /\ UNCHANGED foreign

Restarted ==
  IF container.state = "missing" \/ foreign THEN container ELSE Booting(container.image)

RestartBy(p) ==
  \/ /\ container' = Restarted
     /\ IF container.state = "missing" \/ foreign THEN End(p, "failed") ELSE Go(p, "wait")
     /\ UNCHANGED faults
  \/ DockerFails(p, Restarted)

(* docker restart *)
Restart(p) == at[p] = "restart" /\ RestartBy(p) /\ UNCHANGED foreign

(* docker compose restart *)
ComposeRestart(p) == at[p] = "compose restart" /\ RestartBy(p) /\ UNCHANGED foreign

(* Both waitForReady poll until all is healthy or their time is up; a restart that had to
   start the container waits once more *)
Wait(p) ==
  /\ at[p] = "wait" /\ task[p] \in RuntimeTasks \cup {"restarted"}
  /\ \/ ~Answering /\ End(p, "failed")
     \/ /\ Answering /\ task[p] = "restarted"
        /\ task' = [task EXCEPT ![p] = "start"]
        /\ UNCHANGED <<asks, at, saw, told>>
     \/ Answering /\ task[p] # "restarted" /\ End(p, "ok")
  /\ UNCHANGED <<container, foreign, faults>>

WaitForServices(p) ==
  /\ at[p] = "wait" /\ task[p] \in InfraTasks
  /\ \/ ~Answering /\ End(p, "failed")
     \/ Answering /\ IF task[p] = "backup" THEN Go(p, "ready") ELSE End(p, "ok")
  /\ UNCHANGED <<container, foreign, faults>>

RuntimeStep(p) ==
  \/ Probe(p) \/ CheckPrerequisites(p) \/ Inspect(p) \/ Replace(p) \/ Stop(p) \/ ComposeStop(p)
  \/ Remove(p) \/ ConnectPort(p) \/ CheckOwner(p) \/ Start(p)
  \/ EnsureImage(p) \/ ComposeUp(p) \/ Restart(p) \/ ComposeRestart(p)
  \/ Wait(p) \/ WaitForServices(p)
=============================================================================
