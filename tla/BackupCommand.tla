--------------------------- MODULE BackupCommand ---------------------------
(***************************************************************************)
(* The commands of the CLI that share the host: `backup --encrypt`, which  *)
(* ensures the infrastructure, keeps its key in the keystore and polls;    *)
(* `key`, which reads and changes the keystore; and those of Runtime.      *)
(* The services are seen as the answers to the backup command.             *)
(***************************************************************************)
EXTENDS Runtime

CONSTANTS
  None,
  Torn,
  Menu,        \* commands that each process may be run for
  MaxCrashes   \* bound on interrupted commands

ASSUME BackupCommandAssumption ==
  /\ None \notin Proc /\ Torn \notin Proc /\ None # Torn /\ "pending" \notin Proc
  /\ Menu \in [Proc -> SUBSET (DOMAIN Entry \cup {"get", "delete", "import"})]
  /\ MaxCrashes \in Nat

VARIABLES
  file, master, ks, todo, cache, seen, mkey,
  exposed,    \* backups whose key may be gone: one deleted, used beside another command,
              \* or there when a file of the keystore could not be read or was cut short
  crashes

INSTANCE Keystore

keyVars == <<file, master, ks, todo, cache, seen, mkey>>
vars == <<runtimeVars, keyVars, exposed, crashes, faults>>

Init == RuntimeInit /\ KeystoreInit /\ exposed = {} /\ crashes = 0

(* A process is using the keystore from its first call until it ends *)
Uses(p) == ks[p] # "idle" \/ mkey[p] # None

(* Backups that are done, and those whose command uses the keystore *)
Done       == {q \in Proc : task[q] = "backup" /\ told[q] = "ok"}
InUse      == {q \in Proc : task[q] = "backup" /\ Uses(q)}

(* A file of the keystore could not be read, or is left truncated *)
Spoils(p) == ks[p] \in {"load", "unlock", "fill"}

RuntimeOnly  == UNCHANGED <<keyVars, exposed, crashes>>
CommandOnly  == UNCHANGED <<container, foreign, exposed, crashes>>

Begin(p) ==
  /\ at[p] = "new"
  /\ \E c \in Menu[p], image \in {"default", "custom"} :
       /\ image = "custom" => c \in RuntimeTasks \ {"stop"}
       /\ asks' = [asks EXCEPT ![p] = image]
       /\ task' = [task EXCEPT ![p] = c]
       /\ at' = [at EXCEPT ![p] = IF c \in DOMAIN Entry THEN Entry[c] ELSE "key"]
  /\ UNCHANGED <<saw, told, faults>>
  /\ CommandOnly /\ UNCHANGED keyVars

(* A call of the key manager, after which the command is at the given statement *)
CallKeystore(p, op, ids, statement) ==
  /\ Call(p, op, ids)
  /\ exposed' = exposed \cup (IF op = "delete" THEN ids \cap Proc ELSE {})
                       \cup (IF \E q \in Proc \ {p} : Uses(q)
                             THEN Done \cup InUse \cup {p} ELSE {})
  /\ Go(p, statement)
  /\ UNCHANGED <<container, foreign, crashes, faults>>

Idle(p, statement) == at[p] = statement /\ ks[p] = "idle"

Exit(p, outcome) == End(p, outcome) /\ Forget(p)

-----------------------------------------------------------------------------
(* BackupUseCase.execute                                                   *)

(* The key is kept under 'pending' before the request *)
KeepPending(p) ==
  /\ Idle(p, "ready")
  /\ CallKeystore(p, "add", {"pending"}, "post")

(* POST /api/backup; a request that is not accepted, or whose reply is lost, leaves the
   pending key where it is *)
Post(p) ==
  /\ Idle(p, "post")
  /\ \/ container.healthy /\ Go(p, "poll") /\ UNCHANGED <<keyVars, faults>>
     \/ ~container.healthy /\ Exit(p, "failed") /\ UNCHANGED faults
     \/ Exit(p, "failed") /\ Fault
  /\ CommandOnly

(* A minute of polling; only the status "failed" is a failure *)
Poll(p) ==
  /\ Idle(p, "poll")
  /\ \/ Go(p, "keep") /\ UNCHANGED faults
     \/ Go(p, "discard") /\ Fault
  /\ CommandOnly /\ UNCHANGED keyVars

KeepKey(p) ==
  /\ Idle(p, "keep")
  /\ CallKeystore(p, "add", {p}, "drop")

DropPending(p) ==
  /\ at[p] \in {"drop", "discard"} /\ ks[p] = "idle"
  /\ CallKeystore(p, "delete", {"pending"}, IF at[p] = "drop" THEN "kept" ELSE "lost")

-----------------------------------------------------------------------------
(* The key commands, and those that only look: list, show, export, doctor, restore.  An
   import merges the keys of an export, which is any set of keys that were kept. *)
UseKey(p) ==
  /\ Idle(p, "key")
  /\ \/ /\ task[p] \in {"get", "delete"}
        /\ CallKeystore(p, "get", {}, IF task[p] = "get" THEN "kept" ELSE "confirm")
     \/ task[p] = "import" /\ \E ids \in SUBSET Done : CallKeystore(p, "import", ids, "kept")

(* `key delete` asks before it deletes the key it has found *)
Confirm(p) ==
  /\ Idle(p, "confirm")
  /\ \E i \in Proc : cache[p][i] # None /\ CallKeystore(p, "delete", {i}, "kept")

Decline(p) ==
  /\ Idle(p, "confirm")
  /\ Exit(p, "ok")
  /\ UNCHANGED faults /\ CommandOnly

Finish(p) ==
  /\ at[p] \in {"kept", "lost"} /\ ks[p] = "idle"
  /\ Exit(p, IF at[p] = "kept" THEN "ok" ELSE "failed")
  /\ UNCHANGED faults /\ CommandOnly

(* An error of the key manager: a call failed, or the master key is empty *)
Throw(p) ==
  /\ ks[p] = "throw"
  /\ Exit(p, "failed")
  /\ UNCHANGED faults /\ CommandOnly

(* The user interrupts a command, or its host goes down *)
Interrupt(p) ==
  /\ at[p] \notin {"new", "over"} /\ crashes < MaxCrashes
  /\ crashes' = crashes + 1
  /\ Exit(p, "failed")
  /\ exposed' = IF ks[p] = "fill" THEN exposed \cup Done ELSE exposed
  /\ UNCHANGED <<container, foreign, faults>>

(* A file call of the key manager fails *)
FileFails(p) ==
  /\ LoadFails(p) \/ CallThrows(p)
  /\ exposed' = IF Spoils(p) THEN exposed \cup Done ELSE exposed
  /\ Fault /\ UNCHANGED <<runtimeVars, crashes>>

-----------------------------------------------------------------------------
CommandNext(p) ==
  \/ Begin(p) \/ KeepPending(p) \/ Post(p) \/ Poll(p) \/ KeepKey(p) \/ DropPending(p)
  \/ UseKey(p) \/ Confirm(p) \/ Decline(p) \/ Finish(p) \/ Throw(p) \/ Interrupt(p)
  \/ FileFails(p)

Next ==
  \/ \E p \in Proc : \/ RuntimeStep(p) /\ RuntimeOnly
                     \/ KeystoreStep(p) /\ UNCHANGED <<runtimeVars, exposed, crashes, faults>>
                     \/ CommandNext(p)
  \/ (Boot \/ Degrade) /\ RuntimeOnly

Spec == Init /\ [][Next]_vars

-----------------------------------------------------------------------------
Containers == [state : {"missing", "stopped", "running"}, image : Images \cup {"none"},
               healthy : BOOLEAN]

(* Types of the variables. *)
TypeOK ==
  /\ KeystoreTypeOK
  /\ container \in Containers /\ foreign \in BOOLEAN
  /\ task \in [Proc -> DOMAIN Entry \cup {"none", "restarted", "get", "delete", "import"}]
  /\ asks \in [Proc -> Images]
  /\ at \in [Proc -> {"new", "probe", "check", "inspect", "replace", "stop", "remove",
                      "port", "owner", "start", "image", "up", "restart", "compose stop",
                      "compose restart", "wait", "ready",
                      "post", "poll", "keep", "discard", "drop", "kept", "lost", "key",
                      "confirm", "over"}]
  /\ saw \in [Proc -> {"missing", "stopped"}] /\ told \in [Proc -> {"none", "ok", "failed"}]
  /\ exposed \subseteq Proc
  /\ faults \in 0..MaxFaults /\ crashes \in 0..MaxCrashes

(* The key of every backup reported as done is in the keystore, with four exceptions: a
   user has deleted it; another command used the keystore beside the backup, or two others
   did so since; or, since, the store or its master key could not be read, or writing the
   store failed or was interrupted once the file was truncated.  Nothing else loses a key:
   no other failed call, interruption or damage that a store has taken before. *)
KeysKept ==
  TypeOK /\ \A p \in Done \ exposed : Readable(p) \/ \E q \in Proc : ks[q] = "fill"

(* The container that a command left ready is gone only during an upgrade, or after one
   that reported its failure. *)
UpgradeKeepsService ==
  container.state = "missing"
    /\ (\E p \in Proc : told[p] = "ok" /\ task[p] \in {"start", "upgrade", "backup"})
    => \E u \in Proc : task[u] = "upgrade" /\ told[u] # "ok"

(* No start, and no backup that ensures the infrastructure, interrupts a container that
   runs the image which it asks compose for itself: what they decide by may be stale, what
   they do is not.  (A backup asks for the compose file's image, whatever image the
   container was started with.) *)
StartLeavesRunning ==
  [][\A p \in Proc :
       /\ at'[p] # at[p]
       /\ task[p] \in {"start", "restarted", "infra start", "backup"}
       /\ container.state = "running" /\ container.image = asks[p]
       => container' = container]_vars
=============================================================================
