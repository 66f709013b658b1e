-------------------------- MODULE StorageLocations --------------------------
(***************************************************************************)
(* The storage locations of the metadata service and their one default:    *)
(* the storage commands, the init wizard and the orchestrator ask through  *)
(* MetadataClient, which repeats a request whose reply does not come in    *)
(* time, while the handler of the first one goes on.  Handlers interleave  *)
(* at their awaits.                                                        *)
(***************************************************************************)
EXTENDS Naturals, FiniteSets

CONSTANTS
  Location,    \* names of storage locations
  Client,      \* runs of a command, and POST /backup requests
  Nobody,
  MaxRetries,  \* repetitions of a request
  MaxFaults    \* bound: replies that do not come in time, statements that fail

VARIABLES
  row,       \* of each name: its id, named after the client that made it, and its default flag
  asks,      \* what each client is to do, and with which location
  phase,     \* where the client is
  tries,     \* attempts of its present request
  handlers,  \* running handlers: of which attempt, their statement, the id found
  alone,     \* the client that has run alone since it began
  settled,   \* the location that the last of the commands to run made the default
  faults

Fault == faults < MaxFaults /\ faults' = faults + 1

NoRow  == [id |-> Nobody, default |-> FALSE]
NoTask == [kind |-> "none", at |-> "none"]
Kinds == {"add", "set default", "remove", "backup", "init"}

(* Some locations are there, one of them may be the default *)
StorageInit ==
  /\ \E made \in SUBSET Location, default \in Location \cup {Nobody} :
       /\ default # Nobody => default \in made
       /\ row = [l \in Location |-> IF l \in made THEN [id |-> l, default |-> l = default]
                                   ELSE NoRow]
  /\ asks = [c \in Client |-> NoTask]
  /\ phase = [c \in Client |-> "new"]
  /\ tries = [c \in Client |-> 0]
  /\ handlers = {}
  /\ alone = Nobody
  /\ settled = Nobody

Target(c) == asks[c].at
Exists(l) == row[l].id # Nobody
Defaults  == {l \in Location : row[l].default}

-----------------------------------------------------------------------------
(* The clients                                                             *)

(* A client sets out; has it been alone so far? *)
Start(c, task, statement) ==
  /\ phase[c] = "new"
  /\ asks' = [asks EXCEPT ![c] = task]
  /\ phase' = [phase EXCEPT ![c] = statement]
  /\ alone' = IF handlers = {} /\ \A d \in Client \ {c} : phase[d] \in {"new", "over"}
              THEN c ELSE Nobody

Begin(c, kind) ==
  /\ \E l \in Location : Start(c, [kind |-> kind, at |-> l], "lookup")
  /\ settled' = Nobody
  /\ UNCHANGED <<row, tries, handlers, faults>>

BeginAdd(c)        == Begin(c, "add")
BeginSetDefault(c) == Begin(c, "set default")
BeginRemove(c)     == Begin(c, "remove")
BeginBackup(c)     == Begin(c, "backup")

(* The wizard looks nothing up; its location is to be the default *)
BeginWizard(c) ==
  /\ \E l \in Location : Start(c, [kind |-> "init", at |-> l], "send")
  /\ settled' = Nobody
  /\ UNCHANGED <<row, tries, handlers, faults>>

(* getStorage.  A backup whose lookup fails goes on as if the location were not there. *)
Lookup(c) ==
  /\ phase[c] = "lookup"
  /\ LET k == asks[c].kind
         wanted == k \in {"add", "backup"} <=> ~Exists(Target(c))
     IN \/ phase' = [phase EXCEPT ![c] = IF wanted THEN "send" ELSE "over"] /\ UNCHANGED faults
        \/ phase' = [phase EXCEPT ![c] = IF k = "backup" THEN "send" ELSE "over"] /\ Fault
  /\ UNCHANGED <<row, asks, tries, handlers, alone, settled>>

(* The user of remove does not confirm *)
Decline(c) ==
  /\ phase[c] = "send" /\ asks[c].kind = "remove" /\ tries[c] = 0
  /\ phase' = [phase EXCEPT ![c] = "over"]
  /\ UNCHANGED <<row, asks, tries, handlers, alone, settled, faults>>

(* The first statement of the handler of a request: set default and remove look the
   location up, a default location clears the flags first; a handler of another kind has
   one statement *)
Entry(kind) ==
  CASE kind \in {"set default", "remove"} -> "find"
    [] kind = "init" -> "clear"
    [] kind \in {"add", "backup"} -> "upsert"
    [] OTHER -> kind

(* An attempt of request() *)
Send(c) ==
  /\ phase[c] = "send"
  /\ phase' = [phase EXCEPT ![c] = "wait"]
  /\ tries' = [tries EXCEPT ![c] = @ + 1]
  /\ handlers' = handlers \cup
       {[of |-> c, try |-> tries[c] + 1, id |-> Nobody, at |-> Entry(asks[c].kind)]}
  /\ UNCHANGED <<row, asks, alone, settled, faults>>

(* No reply within five seconds, or none at all *)
TimeOut(c) ==
  /\ phase[c] = "wait" /\ Fault
  /\ phase' = [phase EXCEPT ![c] = IF tries[c] <= MaxRetries THEN "send" ELSE "over"]
  /\ UNCHANGED <<row, asks, tries, handlers, alone, settled>>

-----------------------------------------------------------------------------
(* The handlers                                                            *)

(* A handler replies; the client takes the reply to its present attempt only *)
Reply(h, ok) ==
  /\ handlers' = handlers \ {h}
  /\ IF phase[h.of] = "wait" /\ tries[h.of] = h.try
     THEN /\ phase' = [phase EXCEPT ![h.of] = "over"]
          /\ settled' = IF ok /\ asks[h.of].kind \in {"set default", "init"} /\ alone = h.of
                        THEN Target(h.of) ELSE settled
     ELSE UNCHANGED <<phase, settled>>

Statement(h, statement, id) ==
  /\ handlers' = (handlers \ {h}) \cup {[h EXCEPT !.at = statement, !.id = id]}
  /\ UNCHANGED <<phase, settled>>

(* Mutant of Find: the other default is left as it is. *)
FindAndSet(h) ==
  /\ h.at = "find"
  /\ IF Exists(Target(h.of))
     THEN Statement(h, IF asks[h.of].kind = "remove" THEN "delete" ELSE "set",
                row[Target(h.of)].id)
     ELSE Reply(h, FALSE)
  /\ UNCHANGED <<row, asks, tries, alone, faults>>

Find(h) ==
  /\ h.at = "find"
  /\ IF Exists(Target(h.of))
     THEN Statement(h, IF asks[h.of].kind = "remove" THEN "delete" ELSE "clear",
                row[Target(h.of)].id)
     ELSE Reply(h, FALSE)
  /\ UNCHANGED <<row, asks, tries, alone, faults>>

ClearDefaults(h) ==
  /\ h.at = "clear"
  /\ row' = [l \in Location |-> [row[l] EXCEPT !.default = FALSE]]
  /\ Statement(h, IF asks[h.of].kind = "init" THEN "upsert" ELSE "set", h.id)
  /\ UNCHANGED <<asks, tries, alone, faults>>

(* An upsert under a name that exists rewrites the row, its default flag included *)
Upsert(h) ==
  /\ h.at = "upsert"
  /\ LET l == Target(h.of) IN
       row' = [row EXCEPT ![l] = [id |-> IF Exists(l) THEN @.id ELSE h.of,
                                  default |-> asks[h.of].kind = "init"]]
  /\ Reply(h, TRUE)
  /\ UNCHANGED <<asks, tries, alone, faults>>

(* By the id that was found: a row that has been removed since is not there *)
SetDefault(h) ==
  /\ h.at = "set"
  /\ LET l == Target(h.of) IN
     IF row[l].id = h.id
     THEN row' = [row EXCEPT ![l].default = TRUE] /\ Reply(h, TRUE)
     ELSE UNCHANGED row /\ Reply(h, FALSE)
  /\ UNCHANGED <<asks, tries, alone, faults>>

Delete(h) ==
  /\ h.at = "delete"
  /\ LET l == Target(h.of) IN
     IF row[l].id = h.id
     THEN row' = [row EXCEPT ![l] = NoRow] /\ Reply(h, TRUE)
     ELSE UNCHANGED row /\ Reply(h, FALSE)
  /\ UNCHANGED <<asks, tries, alone, faults>>

(* A statement fails; those before it stand *)
StatementFails(h) ==
  /\ Fault
  /\ handlers' = handlers \ {h}
  /\ phase' = IF phase[h.of] = "wait" /\ tries[h.of] = h.try
              THEN [phase EXCEPT ![h.of] = "over"] ELSE phase
  /\ settled' = Nobody
  /\ UNCHANGED <<row, asks, tries, alone>>

StorageNext ==
  \/ \E c \in Client : \/ BeginAdd(c) \/ BeginSetDefault(c) \/ BeginRemove(c) \/ BeginBackup(c)
                      \/ BeginWizard(c) \/ Lookup(c) \/ Decline(c) \/ Send(c) \/ TimeOut(c)
  \/ \E h \in handlers : \/ Find(h) \/ ClearDefaults(h) \/ Upsert(h) \/ SetDefault(h)
                         \/ Delete(h) \/ StatementFails(h)

-----------------------------------------------------------------------------
(* Types of the variables. *)
StorageTypeOK ==
  /\ row \in [Location -> [id : Client \cup Location \cup {Nobody}, default : BOOLEAN]]
  /\ tries \in [Client -> 0..(MaxRetries + 1)]
  /\ \A h \in handlers :
       h.of \in Client /\ h.try \in 1..tries[h.of]
         /\ h.id \in Client \cup Location \cup {Nobody}
  /\ alone \in Client \cup {Nobody} /\ settled \in Location \cup {Nobody}

(* A command that was alone and reported a new default has made it the only one, as soon
   as the handlers of its repeated requests are done, and until another command runs. *)
DefaultStands ==
  StorageTypeOK /\ (settled # Nobody /\ handlers = {} => Defaults = {settled})
=============================================================================
