------------------------------ MODULE Keystore ------------------------------
(***************************************************************************)
(* KeyManager: the encrypted keystore file and its master key, used by the *)
(* processes of the CLI.  Each process caches the store when it first uses *)
(* it and rewrites the whole file; fs calls are synchronous, so that steps *)
(* of other processes come between two calls only.  A writeFileSync        *)
(* truncates the file and then fills it.                                   *)
(***************************************************************************)
EXTENDS Naturals, FiniteSets

CONSTANTS
  Proc,  \* processes of the CLI, each named after the backup it would make
  None,
  Torn   \* a file that is empty or was filled by two writers

VARIABLES
  file,    \* keys.json: its state, the keys in it, the master key it is encrypted with
  master,  \* master.key: the process that made it, None, or Torn
  ks,      \* statement of the key manager of each process
  todo,    \* the call it works on
  cache,   \* its cached store
  seen,    \* master key of the file it has read
  mkey     \* its cached master key

(* Keys are told apart by the backup they encrypt *)
Ids    == Proc \cup {"pending"}
Stores == [Ids -> Proc \cup {None}]
Empty  == [i \in Ids |-> None]

NoCall == [op |-> "none", ids |-> {}]

KeystoreInit ==
  /\ file = [state |-> "absent", keys |-> Empty, under |-> None]
  /\ master = None
  /\ ks = [p \in Proc |-> "idle"]
  /\ todo = [p \in Proc |-> NoCall]
  /\ cache = [p \in Proc |-> Empty]
  /\ seen = [p \in Proc |-> None]
  /\ mkey = [p \in Proc |-> None]

-----------------------------------------------------------------------------
(* What the call makes of the cached store s *)
Changed(p, call, s) ==
  CASE call.op = "add"    -> [i \in Ids |-> IF i \in call.ids THEN p ELSE s[i]]
    [] call.op = "delete" -> [i \in Ids |-> IF i \in call.ids THEN None ELSE s[i]]
    [] call.op = "import" -> [i \in Ids |-> IF i \in call.ids /\ s[i] = None THEN i ELSE s[i]]
    [] OTHER              -> s

(* getKey saves nothing, deleteKey only when it has removed an entry *)
Saves(p, call, s) == call.op \in {"add", "import"} \/ Changed(p, call, s) # s

(* The rest of a call, once the store s is loaded *)
Apply(p, call, s) ==
  /\ cache' = [cache EXCEPT ![p] = Changed(p, call, s)]
  /\ ks' = [ks EXCEPT ![p] = IF Saves(p, call, s) THEN "open" ELSE "idle"]
  /\ todo' = [todo EXCEPT ![p] = NoCall]

(* A process calls addKey, deleteKey, getKey, exportKeystore or importKeystore; from its
   second call on it uses the cached store *)
Call(p, op, ids) ==
  LET call == [op |-> op, ids |-> ids] IN
  /\ ks[p] = "idle"
  /\ IF mkey[p] # None THEN Apply(p, call, cache[p])
     ELSE /\ todo' = [todo EXCEPT ![p] = call]
          /\ ks' = [ks EXCEPT ![p] = "load"]
          /\ UNCHANGED cache
  /\ UNCHANGED <<file, master, seen, mkey>>

(* loadKeystore reads the file; without a store in it an empty one is saved first *)
Load(p) ==
  /\ ks[p] = "load"
  /\ IF file.state = "ok"
     THEN /\ cache' = [cache EXCEPT ![p] = file.keys]
          /\ seen' = [seen EXCEPT ![p] = file.under]
          /\ ks' = [ks EXCEPT ![p] = "unlock"]
     ELSE ks' = [ks EXCEPT ![p] = "master"] /\ UNCHANGED <<cache, seen>>
  /\ UNCHANGED <<file, master, todo, mkey>>

(* Mutant of Unlock: the salt in front of the master key is not skipped. *)
UnlockWithSalt(p) ==
  /\ ks[p] = "unlock"
  /\ mkey' = [mkey EXCEPT ![p] = master]
  /\ seen' = [seen EXCEPT ![p] = None]
  /\ cache' = [cache EXCEPT ![p] = Empty]
  /\ ks' = [ks EXCEPT ![p] = IF master = Torn THEN "throw" ELSE "open"]
  /\ UNCHANGED <<file, master, todo>>

(* The master key is read and the store decrypted.  A store of another master key is
   replaced by an empty one; a master key read while it is being written is no key. *)
Unlock(p) ==
  /\ ks[p] = "unlock"
  /\ mkey' = [mkey EXCEPT ![p] = master]
  /\ seen' = [seen EXCEPT ![p] = None]
  /\ IF master = seen[p]
     THEN Apply(p, todo[p], cache[p])
     ELSE /\ cache' = [cache EXCEPT ![p] = Empty]
          /\ ks' = [ks EXCEPT ![p] = IF master = Torn THEN "throw" ELSE "open"]
          /\ UNCHANGED todo
  /\ UNCHANGED <<file, master>>

(* getOrCreateMasterKey for the empty store: an existing key is used, or one is made *)
GetMaster(p) ==
  /\ ks[p] = "master"
  /\ IF master # None
     THEN /\ mkey' = [mkey EXCEPT ![p] = master]
          /\ ks' = [ks EXCEPT ![p] = IF master = Torn THEN "throw" ELSE "open"]
     ELSE ks' = [ks EXCEPT ![p] = "mint"] /\ UNCHANGED mkey
  /\ UNCHANGED <<file, master, todo, cache, seen>>

MintMaster(p) ==
  /\ ks[p] = "mint"
  /\ master' = Torn
  /\ ks' = [ks EXCEPT ![p] = "minted"]
  /\ UNCHANGED <<file, todo, cache, seen, mkey>>

FillMaster(p) ==
  /\ ks[p] = "minted"
  /\ master' = p
  /\ mkey' = [mkey EXCEPT ![p] = p]
  /\ ks' = [ks EXCEPT ![p] = "open"]
  /\ UNCHANGED <<file, todo, cache, seen>>

(* saveKeystore writes the cached store *)
OpenFile(p) ==
  /\ ks[p] = "open"
  /\ file' = [state |-> "torn", keys |-> Empty, under |-> None]
  /\ ks' = [ks EXCEPT ![p] = "fill"]
  /\ UNCHANGED <<master, todo, cache, seen, mkey>>

(* Into a file that another has filled since, a shorter store goes as a prefix *)
FillFile(p) ==
  /\ ks[p] = "fill"
  /\ \/ file' = [state |-> "ok", keys |-> cache[p], under |-> mkey[p]]
     \/ file.state = "ok" /\ file' = [state |-> "torn", keys |-> Empty, under |-> None]
  /\ IF todo[p] = NoCall
     THEN ks' = [ks EXCEPT ![p] = "idle"] /\ UNCHANGED <<cache, todo>>
     ELSE Apply(p, todo[p], cache[p])
  /\ UNCHANGED <<master, seen, mkey>>

(* An fs call fails.  A read in loadKeystore is caught, and an empty store saved; any other
   error ends the command, and a write that was begun leaves a truncated file. *)
LoadFails(p) ==
  /\ (ks[p] = "load" /\ file.state = "ok") \/ ks[p] = "unlock"
  /\ ks' = [ks EXCEPT ![p] = "master"]
  /\ cache' = [cache EXCEPT ![p] = Empty] /\ seen' = [seen EXCEPT ![p] = None]
  /\ UNCHANGED <<file, master, todo, mkey>>

CallThrows(p) ==
  /\ ks[p] \in {"mint", "minted", "open", "fill"} \/ (ks[p] = "master" /\ master # None)
  /\ ks' = [ks EXCEPT ![p] = "throw"]
  /\ UNCHANGED <<file, master, todo, cache, seen, mkey>>

KeystoreStep(p) ==
  \/ Load(p) \/ Unlock(p) \/ GetMaster(p) \/ MintMaster(p)
  \/ FillMaster(p) \/ OpenFile(p) \/ FillFile(p)

(* The process has ended *)
Forget(p) ==
  /\ ks' = [ks EXCEPT ![p] = "idle"] /\ todo' = [todo EXCEPT ![p] = NoCall]
  /\ cache' = [cache EXCEPT ![p] = Empty] /\ seen' = [seen EXCEPT ![p] = None]
  /\ mkey' = [mkey EXCEPT ![p] = None]
  /\ UNCHANGED <<file, master>>

-----------------------------------------------------------------------------
KeystoreTypeOK ==
  /\ file \in [state : {"absent", "torn", "ok"}, keys : Stores,
               under : Proc \cup {None, Torn}]
  /\ master \in Proc \cup {None, Torn}
  /\ ks \in [Proc -> {"idle", "load", "unlock", "master", "mint", "minted",
                      "open", "fill", "throw"}]
  /\ todo \in [Proc -> [op : {"none", "get", "add", "delete", "import"}, ids : SUBSET Ids]]
  /\ cache \in [Proc -> Stores]
  /\ seen \in [Proc -> Proc \cup {None, Torn}] /\ mkey \in [Proc -> Proc \cup {None, Torn}]

(* The key of backup i can be read from the keystore *)
Readable(i) == file.state = "ok" /\ file.under = master /\ file.keys[i] = i
=============================================================================
