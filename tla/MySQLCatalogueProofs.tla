------------------------ MODULE MySQLCatalogueProofs ------------------------
(***************************************************************************)
(* Theorems about the MySQL backup service (MySQLCatalogue), for any       *)
(* number of requests, backup ids, binary-log events and crashes.          *)
(*                                                                         *)
(* Three invariants, each resting on the one before.  PlacedInv: where a   *)
(* request is says what it asked for, what its entry may be and whether it *)
(* holds the lock, and the lock's reference count is the number of those   *)
(* that do.  AllSound: an entry of a completed backup, wherever it is      *)
(* kept, tells what its archive holds, and nobody will write that archive  *)
(* again.  Chained: what a restore has verified is continuous, and what it *)
(* has applied reaches the end of its last element as long as the archives *)
(* are those it verified.                                                  *)
(***************************************************************************)
EXTENDS MySQLCatalogue, FiniteSetTheorems, TLAPS

-----------------------------------------------------------------------------
(* Where a request can be.                                                 *)

Waiting == {"pick", "list", "check", "chain", "clean", "save"}
InLock  == {"picked", "saveWrite", "saving", "delete", "cleanWrite", "cleaning"}
Undumped == {"position", "dump", "dumping", "pick", "picked", "parent", "span"}
Backups  == Undumped \cup {"seal", "save", "saveWrite", "saving"}
Restores == {"check", "exclude", "chain", "verify", "apply"}
Cleanups == {"clean", "delete", "cleanWrite", "cleaning"}

Placed(r) ==
  /\ pc[r] \in Backups => op[r] \in {"full", "incremental"} /\ entry[r] \in Entry
  /\ pc[r] \in Backups /\ op[r] = "full" => entry[r].parent = NoId
  /\ pc[r] \in {"pick", "picked", "parent", "span"} => op[r] = "incremental"
  /\ pc[r] \in Undumped => ~entry[r].ok
  /\ pc[r] \in Restores => op[r] = "restore" /\ entry[r] \in Entry
  /\ pc[r] \in {"check", "exclude", "chain"} => ~entry[r].ok
  /\ pc[r] \in Cleanups => op[r] = "cleanup"
  /\ pc[r] = "list" => op[r] = "list"
  /\ pc[r] \in InLock => crit[r] = "in"
  /\ crit[r] # "out" => pc[r] \in Waiting \cup InLock
  /\ pc[r] \in {"idle", "check", "exclude", "chain"} => at[r] = 0

AllPlaced == TypeOK /\ \A r \in Request : Placed(r)

\* The entry of a request that has just been taken is an entry of the list.
LEMMA BlankIsEntry == ASSUME NEW i \in Id PROVE Blank(i) \in Entry
BY CatalogueAssumption DEF Blank, Entry, Position

\* The entries of the chain made before are entries, each with the archive it tells of.
LEMMA MadeIsEntry ==
  ASSUME NEW n \in DOMAIN Earlier
  PROVE  /\ Made(n) \in Entry /\ Made(n).sum \in Archive /\ Made(n).id = Earlier[n]
         /\ Made(n).sum.hi = Made(n).to /\ Made(n).sum.by = Before /\ ~Made(n).sum.sealed
         /\ Made(n).parent # NoId => Made(n).sum.lo = Made(n).from
         /\ Made(n).ok
<1> DEFINE start == IF n = 1 THEN 0 ELSE n - 2
<1>1. /\ n \in 1 .. Len(Earlier) /\ Len(Earlier) \in Nat /\ Len(Earlier) <= MaxHead + 1
      /\ MaxHead \in Nat /\ Earlier[n] \in Id
      /\ n # 1 => Earlier[n - 1] \in Id
  BY CatalogueAssumption
<1>2. start \in 0 .. MaxHead /\ n - 1 \in 0 .. MaxHead /\ n - 1 \in Nat
  BY <1>1
<1>3. PICK a : a = [state |-> "complete", lo |-> start, hi |-> n - 1, by |-> Before,
                     sealed |-> FALSE]
  OBVIOUS
<1>4. a \in Archive /\ a.hi = n - 1 /\ a.lo = start /\ a.by = Before /\ ~a.sealed
  BY <1>2, <1>3 DEF Archive, Position
<1>5. PICK p : p = IF n = 1 THEN NoId ELSE Earlier[n - 1]
  OBVIOUS
<1>6. p \in Id \cup {NoId} /\ (p # NoId => n # 1)
  BY <1>1, <1>5
<1>7. Made(n) = [id |-> Earlier[n], parent |-> p, level |-> n - 1, from |-> start,
                 to |-> n - 1, sum |-> a, ok |-> TRUE]
  <2>1. Made(n) = [Blank(Earlier[n]) EXCEPT !.parent = p, !.level = n - 1, !.from = start,
                                            !.to = n - 1, !.ok = TRUE, !.sum = a]
    BY <1>3, <1>5, Zenon DEF Made
  <2>2. QED
    BY <2>1 DEF Blank
<1>8. QED
  BY <1>1, <1>2, <1>4, <1>6, <1>7 DEF Entry, Position

\* The service starts with every request idle, and a list of entries.
LEMMA PlacedInit == Init => AllPlaced
<1> SUFFICES ASSUME Init PROVE AllPlaced
  OBVIOUS
<1> USE CatalogueAssumption
<1>1. head \in Position /\ low \in Position
  BY DEF Init, Position
<1>2. catalogue \in Seq(Entry)
  <2>1. DOMAIN Earlier = 1 .. Len(Earlier) /\ Len(Earlier) \in Nat
    OBVIOUS
  <2>2. catalogue \in [1 .. Len(Earlier) -> Entry]
    BY <2>1, MadeIsEntry DEF Init
  <2>3. QED
    BY <2>1, <2>2
<1>3. file \in [Id -> Archive \cup {Missing, Torn}]
  <2>1. ASSUME NEW i \in Id PROVE file[i] \in Archive \cup {Missing, Torn}
    <3>1. CASE \E n \in DOMAIN Earlier : Earlier[n] = i
      BY <3>1, MadeIsEntry DEF Init
    <3>2. CASE ~ \E n \in DOMAIN Earlier : Earlier[n] = i
      BY <3>2 DEF Init
    <3>3. QED
      BY <3>1, <3>2
  <2>2. QED
    BY <2>1 DEF Init
<1>4. TypeOK
  <2>1. << >> \in Seq(Entry) /\ 0 \in Position /\ 0 \in 0 .. MaxCrashes /\ 0 \in Nat
    BY DEF Position
  <2>2. /\ view \in [Request -> Seq(Entry)] /\ chain \in [Request -> Seq(Entry)]
        /\ at \in [Request -> Nat] /\ applied \in [Request -> Position \cup {Bad}]
    BY <2>1 DEF Init
  <2>3. QED
    BY <1>1, <1>2, <1>3, <2>1, <2>2 DEF Init, TypeOK
<1>5. QED
  BY <1>4 DEF AllPlaced, Placed, Init, Backups, Undumped, Restores, Cleanups, InLock, Waiting

\* The other requests are where they were.
Others(r) ==
  \A s \in Request : s # r => /\ pc'[s] = pc[s] /\ crit'[s] = crit[s] /\ op'[s] = op[s]
                              /\ entry'[s] = entry[s] /\ at'[s] = at[s]

\* A request that a step does not move keeps its place.
LEMMA OthersPlaced ==
  ASSUME AllPlaced, NEW r \in Request, TypeOK', Others(r), Placed(r)'
  PROVE  AllPlaced'
<1>1. ASSUME NEW s \in Request PROVE Placed(s)'
  <2>1. CASE s = r
    BY <2>1
  <2>2. CASE s # r
    BY <2>2 DEF AllPlaced, Others, Placed
  <2>3. QED
    BY <2>1, <2>2
<1>2. QED
  BY <1>1 DEF AllPlaced

-----------------------------------------------------------------------------
(* The lists of entries.                                                   *)

\* saveMetadata's list has the entries it had and the one saved.
LEMMA SavedIsList ==
  ASSUME NEW S, NEW list \in Seq(S), NEW e \in S
  PROVE  Saved(list, e) \in Seq(S)
<1>1. CASE Has(list, e.id)
  <2>1. PICK n \in DOMAIN list : n = CHOOSE i \in DOMAIN list : list[i].id = e.id
    BY <1>1 DEF Has
  <2>2. n \in 1 .. Len(list) /\ Len(list) \in Nat
    OBVIOUS
  <2>3. SubSeq(list, 1, n - 1) \in Seq(S) /\ SubSeq(list, n + 1, Len(list)) \in Seq(S)
    BY <2>2
  <2>4. <<e>> \in Seq(S)
    OBVIOUS
  <2>5. QED
    BY <1>1, <2>1, <2>3, <2>4 DEF Saved
<1>2. CASE ~Has(list, e.id)
  BY <1>2 DEF Saved
<1>3. QED
  BY <1>1, <1>2

\* A write leaves the list it writes, or one that reads as empty.
LEMMA WrittenIsList ==
  ASSUME NEW S, NEW r \in Request, NEW list \in Seq(S), Written(r, list)
  PROVE  catalogue' \in Seq(S)
<1>1. << >> \in Seq(S)
  OBVIOUS
<1>2. QED
  BY <1>1 DEF Written

\* What is found under an id is an entry of the list.
LEMMA FoundIsEntry ==
  ASSUME NEW S, NEW list \in Seq(S), NEW id, Has(list, id)
  PROVE  \E n \in DOMAIN list : Find(list, id) = list[n] /\ list[n].id = id /\ list[n] \in S
<1>1. PICK n \in DOMAIN list : n = (CHOOSE i \in DOMAIN list : list[i].id = id) /\ list[n].id = id
  BY DEF Has
<1>2. list[n] \in S
  OBVIOUS
<1>3. Find(list, id) = list[n]
  BY <1>1, Zenon DEF Find
<1>4. QED
  BY <1>1, <1>2, <1>3

\* The database server moves no request.
LEMMA ServerPlaced == ASSUME AllPlaced, Server PROVE AllPlaced'
<1>1. TypeOK'
  BY CatalogueAssumption
     DEF AllPlaced, TypeOK, Server, Mutate, Purge, Position, locks, restoring
<1>2. QED
  BY <1>1 DEF AllPlaced, Placed, Server, locks, restoring

\* A crash ends every request under way: none is left inside the lock.
LEMMA CrashPlaced == ASSUME AllPlaced, Crash PROVE AllPlaced'
<1>1. TypeOK'
  <2>1. crashes' \in 0 .. MaxCrashes
    BY CatalogueAssumption DEF AllPlaced, TypeOK, Crash
  <2>2. << >> \in Seq(Entry)
    OBVIOUS
  <2>3. view' \in [Request -> Seq(Entry)]
    BY <2>2 DEF Crash
  <2>4. QED
    BY <2>1, <2>3 DEF AllPlaced, TypeOK, Crash, Ended, server, restoring
<1>2. ASSUME NEW r \in Request PROVE Placed(r)'
  <2>1. /\ pc'[r] \in {"idle", "done", "failed"} /\ (pc'[r] = "idle" => pc[r] = "idle")
        /\ crit'[r] = "out" /\ at'[r] = at[r]
    BY DEF Crash, Ended, AllPlaced, TypeOK, restoring
  <2>2. QED
    BY <2>1 DEF AllPlaced, Placed, Backups, Undumped, Restores, Cleanups, InLock, Waiting
<1>3. QED
  BY <1>1, <1>2 DEF AllPlaced

\* acquire() admits a request, lets it wait, or ends it after the fifth try.
LEMMA LockPlaced ==
  ASSUME AllPlaced, NEW r \in Request, Acquire(r) \/ GiveUp(r), refs' \in Nat
  PROVE  AllPlaced'
<1>1. CASE Acquire(r)
  <2>1. TypeOK'
    BY <1>1 DEF Acquire, AllPlaced, TypeOK, Object, server, restoring
  <2>2. Others(r) /\ Placed(r)'
    BY <1>1 DEF Acquire, NeedsLock, AllPlaced, TypeOK, Others, Placed, Backups, Undumped,
                Restores, Cleanups, InLock, Waiting, server, restoring
  <2>3. QED
    BY <2>1, <2>2, OthersPlaced
<1>2. CASE GiveUp(r)
  <2>1. op[r] = "incremental" /\ pc[r] = "save" => Failing(entry[r]) \in Entry
    BY DEF AllPlaced, Placed, Backups, Failing, Entry
  <2>2. TypeOK'
    BY <1>2, <2>1 DEF GiveUp, Goto, AllPlaced, TypeOK, server
  <2>3. Others(r)
    BY <1>2 DEF GiveUp, Goto, AllPlaced, TypeOK, Others
  <2>4. Placed(r)'
    BY <1>2, <2>1 DEF GiveUp, NeedsLock, Goto, AllPlaced, TypeOK, Placed, Backups, Undumped,
                Restores, Cleanups, InLock, Waiting, server
  <2>5. QED
    BY <2>2, <2>3, <2>4, OthersPlaced
<1>3. QED
  BY <1>1, <1>2

\* A request is taken: by its kind it gets its first statement and its entry.
LEMMA StartPlaced == ASSUME AllPlaced, NEW r \in Request, Start(r) PROVE AllPlaced'
<1> USE DEF AllPlaced
<1>1. ASSUME NEW i \in Id, NEW p \in Id
      PROVE  [Blank(i) EXCEPT !.parent = p] \in Entry /\ ~[Blank(i) EXCEPT !.parent = p].ok
  <2>1. Blank(i) \in Entry /\ ~Blank(i).ok
    BY BlankIsEntry DEF Blank
  <2>2. QED
    BY <2>1 DEF Entry
<1>2. \A i \in Id : Blank(i) \in Entry /\ ~Blank(i).ok /\ Blank(i).parent = NoId
  BY BlankIsEntry DEF Blank
<1>3. /\ UNCHANGED <<server, catalogue, file, locks, restoring, view, crashes>>
      /\ pc[r] = "idle"
      /\ \E o \in {"full", "incremental", "restore", "list", "cleanup"} :
           op' = [op EXCEPT ![r] = o]
      /\ \E p \in {"position", "pick", "parent", "check", "list", "clean"} :
           pc' = [pc EXCEPT ![r] = p]
      /\ entry' = entry \/ \E e \in Entry : entry' = [entry EXCEPT ![r] = e]
  <2> USE DEF Goto
  <2>1. CASE StartFull(r)
    BY <1>2, <2>1 DEF StartFull
  <2>2. CASE StartIncremental(r)
    BY <1>1, <1>2, <2>2 DEF StartIncremental
  <2>3. CASE StartRestore(r)
    BY <1>2, <2>3 DEF StartRestore
  <2>4. CASE StartList(r) \/ StartCleanup(r)
    BY <2>4 DEF StartList, StartCleanup
  <2>5. QED
    BY <2>1, <2>2, <2>3, <2>4 DEF Start
<1>4. TypeOK'
  BY <1>3 DEF TypeOK, server, locks, restoring
<1>5. Others(r)
  BY <1>3 DEF TypeOK, Others, locks, restoring
<1>6. at'[r] = 0 /\ crit'[r] = "out"
  BY <1>3 DEF Placed, TypeOK, restoring, locks, Waiting, InLock
<1>7. Placed(r)'
  <2> USE DEF Backups, Undumped, Restores, Cleanups, InLock, Waiting, Placed, Goto, TypeOK
  <2>1. CASE StartFull(r)
    BY <1>2, <1>6, <2>1 DEF StartFull
  <2>2. CASE StartIncremental(r)
    <3>1. PICK e \in Entry : ~e.ok /\ entry' = [entry EXCEPT ![r] = e]
      BY <1>1, <1>2, <2>2 DEF StartIncremental
    <3>2. entry'[r] = e /\ op'[r] = "incremental" /\ pc'[r] \in {"pick", "parent"}
      BY <2>2, <3>1 DEF StartIncremental
    <3>3. QED
      BY <1>6, <3>1, <3>2
  <2>3. CASE StartRestore(r)
    BY <1>2, <1>6, <2>3 DEF StartRestore
  <2>4. CASE StartList(r) \/ StartCleanup(r)
    BY <1>6, <2>4 DEF StartList, StartCleanup
  <2>5. QED
    BY <2>1, <2>2, <2>3, <2>4 DEF Start
<1>8. QED
  BY <1>4, <1>5, <1>7, OthersPlaced

\* Until a dump has ended, the entry of a backup has not succeeded, whatever is filled in.
LEMMA PreparedEntry ==
  ASSUME AllPlaced, NEW r \in Request,
         Pick(r) \/ ReadParent(r) \/ ReadSpan(r) \/ DumpStarts(r) \/ DumpFails(r)
  PROVE  \E e \in Entry : /\ entry' = [entry EXCEPT ![r] = e]
                          /\ ~e.ok /\ (op[r] = "full" => e.parent = NoId)
<1> DEFINE Prepared == \E e \in Entry : /\ entry' = [entry EXCEPT ![r] = e]
                                        /\ ~e.ok /\ (op[r] = "full" => e.parent = NoId)
<1>0. /\ TypeOK /\ entry[r] \in Entry /\ ~entry[r].ok
      /\ op[r] = "full" => entry[r].parent = NoId
      /\ pc[r] \in {"picked", "parent", "span"} => op[r] = "incremental"
  BY DEF AllPlaced, Placed, Backups, Undumped, Pick, ReadParent, ReadSpan, DumpStarts, DumpFails
<1>1. CASE entry' = entry
  <2>1. entry = [entry EXCEPT ![r] = entry[r]]
    BY <1>0 DEF TypeOK
  <2>2. QED
    BY <1>0, <1>1, <2>1
<1>2. ASSUME Pick(r), entry' # entry PROVE Prepared
  <2>1. PICK found : found = {n \in Fulls(view[r]) : Has(catalogue, view[r][n].id)}
    OBVIOUS
  <2>2. PICK n \in found : entry' = [entry EXCEPT ![r].parent = view[r][n].id]
    BY <1>2, <2>1, Zenon DEF Pick
  <2>3. view[r][n].id \in Id
    <3>1. view[r] \in Seq(Entry) /\ n \in DOMAIN view[r]
      BY <1>0, <2>1 DEF TypeOK, Fulls
    <3>2. view[r][n] \in Entry
      BY <3>1
    <3>3. QED
      BY <3>2 DEF Entry
  <2>4. PICK e : e = [entry[r] EXCEPT !.parent = view[r][n].id]
    OBVIOUS
  <2>5. e \in Entry /\ ~e.ok
    BY <1>0, <2>3, <2>4 DEF Entry
  <2>6. entry' = [entry EXCEPT ![r] = e] /\ op[r] = "incremental"
    BY <1>0, <1>2, <2>2, <2>4 DEF TypeOK, Pick
  <2>7. QED
    BY <2>5, <2>6
<1>3. ASSUME ReadParent(r), entry' # entry PROVE Prepared
  <2>1. PICK p : p = Find(catalogue, entry[r].parent)
    OBVIOUS
  <2>2. /\ Has(catalogue, entry[r].parent)
        /\ entry' = [entry EXCEPT ![r].from = p.to, ![r].level = p.level + 1]
    BY <1>3, <2>1 DEF ReadParent
  <2>3. p \in Entry
    BY <1>0, <2>1, <2>2, FoundIsEntry DEF TypeOK
  <2>4. PICK e : e = [entry[r] EXCEPT !.from = p.to, !.level = p.level + 1]
    OBVIOUS
  <2>5. e \in Entry /\ ~e.ok
    <3>1. p.to \in Position /\ p.level + 1 \in Nat
      BY <2>3 DEF Entry
    <3>2. QED
      BY <1>0, <2>4, <3>1 DEF Entry
  <2>6. entry' = [entry EXCEPT ![r] = e]
    BY <1>0, <2>2, <2>4 DEF TypeOK
  <2>7. op[r] = "incremental"
    BY <1>0, <1>3 DEF ReadParent
  <2>8. QED
    BY <2>5, <2>6, <2>7
<1>4. ASSUME ReadSpan(r), entry' # entry PROVE Prepared
  <2>1. PICK e : e = [entry[r] EXCEPT !.to = head]
    OBVIOUS
  <2>2. e \in Entry /\ ~e.ok
    BY <1>0, <2>1 DEF Entry, TypeOK
  <2>3. entry' = [entry EXCEPT ![r] = e] /\ op[r] = "incremental"
    BY <1>0, <1>4, <2>1 DEF TypeOK, ReadSpan
  <2>4. QED
    BY <2>2, <2>3
<1>5. ASSUME DumpStarts(r), entry' # entry PROVE Prepared
  <2>1. PICK e : e = [entry[r] EXCEPT !.from = head, !.to = head]
    OBVIOUS
  <2>2. e \in Entry /\ ~e.ok /\ e.parent = entry[r].parent
    BY <1>0, <2>1 DEF Entry, TypeOK
  <2>3. entry' = [entry EXCEPT ![r] = e]
    BY <1>0, <1>5, <2>1 DEF TypeOK, DumpStarts
  <2>4. QED
    BY <1>0, <2>2, <2>3
<1>6. ASSUME DumpFails(r), entry' # entry PROVE Prepared
  <2>1. PICK e : e = Failing(entry[r])
    OBVIOUS
  <2>2. e \in Entry /\ ~e.ok /\ e.parent = entry[r].parent
    BY <1>0, <2>1 DEF Entry, Failing
  <2>3. entry' = [entry EXCEPT ![r] = e]
    BY <1>0, <1>6, <2>1 DEF TypeOK, DumpFails
  <2>4. QED
    BY <1>0, <2>2, <2>3
<1>7. QED
  BY <1>1, <1>2, <1>3, <1>4, <1>5, <1>6

-----------------------------------------------------------------------------
(* Backups.                                                                *)

\* A step of one request keeps the types and the places if what it changes fits.
LEMMA MovePlaced ==
  ASSUME AllPlaced, NEW r \in Request, Placed(r)', UNCHANGED <<head, low, op, crashes>>,
         catalogue' \in Seq(Entry), file' \in [Id -> Archive \cup {Missing, Torn}],
         lockOwner' \in {lockOwner, NoObject}, refs' \in Nat, restoreLock' \in BOOLEAN,
         pc' = pc \/ \E p \in Backups \cup Restores \cup Cleanups \cup {"done", "failed"} :
                        pc' = [pc EXCEPT ![r] = p],
         crit' = crit \/ crit' = [crit EXCEPT ![r] = "out"],
         entry' = entry \/ \E e \in Entry \cup {Missing} : entry' = [entry EXCEPT ![r] = e],
         view' = view \/ \E v \in Seq(Entry) : view' = [view EXCEPT ![r] = v],
         chain' = chain \/ \E c \in Seq(Entry) : chain' = [chain EXCEPT ![r] = c],
         at' = at \/ \E n \in Nat : at' = [at EXCEPT ![r] = n],
         applied' = applied
           \/ \E a \in Position \cup {Bad} : applied' = [applied EXCEPT ![r] = a]
  PROVE  AllPlaced'
<1> DEFINE Pcs == {"idle", "position", "dump", "dumping", "seal", "pick", "picked",
                   "parent", "span", "save", "saveWrite", "saving", "list",
                   "check", "exclude", "chain", "verify", "apply", "clean",
                   "delete", "cleanWrite", "cleaning", "done", "failed"}
<1> HIDE DEF Pcs
<1>0. ASSUME NEW S, NEW f \in [Request -> S], NEW g,
             g = f \/ \E x \in S : g = [f EXCEPT ![r] = x]
      PROVE  g \in [Request -> S] /\ \A s \in Request : s # r => g[s] = f[s]
  <2>1. CASE g = f
    BY <2>1
  <2>2. ASSUME NEW x \in S, g = [f EXCEPT ![r] = x]
        PROVE  g \in [Request -> S] /\ \A s \in Request : s # r => g[s] = f[s]
    BY <2>2
  <2>3. QED
    BY <1>0, <2>1, <2>2
<1>1. pc' \in [Request -> Pcs] /\ \A s \in Request : s # r => pc'[s] = pc[s]
  <2>1. pc \in [Request -> Pcs]
    BY DEF AllPlaced, TypeOK, Pcs
  <2>2. Backups \cup Restores \cup Cleanups \cup {"done", "failed"} \subseteq Pcs
    BY DEF Backups, Undumped, Restores, Cleanups, Pcs
  <2>3. pc' = pc \/ \E p \in Pcs : pc' = [pc EXCEPT ![r] = p]
    BY <2>2
  <2>4. QED
    BY <1>0, <2>1, <2>3
<1>2. /\ crit' \in [Request -> {"out", "retry", "in"}]
      /\ \A s \in Request : s # r => crit'[s] = crit[s]
  BY DEF AllPlaced, TypeOK
<1>3. /\ entry' \in [Request -> Entry \cup {Missing}]
      /\ \A s \in Request : s # r => entry'[s] = entry[s]
  <2>1. entry \in [Request -> Entry \cup {Missing}]
    BY DEF AllPlaced, TypeOK
  <2>2. QED
    BY <1>0, <2>1
<1>4. view' \in [Request -> Seq(Entry)] /\ chain' \in [Request -> Seq(Entry)]
  <2>1. view \in [Request -> Seq(Entry)] /\ chain \in [Request -> Seq(Entry)]
    BY DEF AllPlaced, TypeOK
  <2>2. view' \in [Request -> Seq(Entry)]
    BY <1>0, <2>1
  <2>3. chain' \in [Request -> Seq(Entry)]
    BY <1>0, <2>1
  <2>4. QED
    BY <2>2, <2>3
<1>5. /\ at' \in [Request -> Nat]
      /\ \A s \in Request : s # r => at'[s] = at[s]
  <2>1. at \in [Request -> Nat]
    BY DEF AllPlaced, TypeOK
  <2>2. QED
    BY <1>0, <2>1
<1>6. applied' \in [Request -> Position \cup {Bad}]
  <2>1. applied \in [Request -> Position \cup {Bad}]
    BY DEF AllPlaced, TypeOK
  <2>2. QED
    BY <1>0, <2>1
<1>7. TypeOK'
  BY <1>1, <1>2, <1>3, <1>4, <1>5, <1>6 DEF AllPlaced, TypeOK, Pcs
<1>8. Others(r)
  BY <1>1, <1>2, <1>3, <1>5 DEF Others
<1>9. QED
  BY <1>7, <1>8, OthersPlaced

\* createFullBackup and createIncrementalBackup up to the end of the dump.
LEMMA DumpPlaced ==
  ASSUME AllPlaced, NEW r \in Request,
         \/ ReadPosition(r) \/ ReadParent(r) \/ ReadSpan(r) \/ DumpStarts(r)
         \/ DumpEnds(r) \/ DumpFails(r) \/ Seal(r)
  PROVE  AllPlaced'
<1> USE DEF Goto, server, locks, restoring
<1> TypeOK /\ Placed(r)
  BY DEF AllPlaced
<1>0. pc[r] \in Backups => /\ entry[r] \in Entry /\ op[r] \in {"full", "incremental"}
                           /\ op[r] = "full" => entry[r].parent = NoId
                           /\ pc[r] \notin Waiting \cup InLock => crit[r] = "out"
  BY DEF Placed
<1>1. CASE ReadPosition(r)
  <2>1. Placed(r)'
    BY <1>1 DEF ReadPosition, TypeOK, Placed, Backups, Undumped, Restores, Cleanups, InLock,
                Waiting
  <2>2. QED
    BY <1>1, <2>1, MovePlaced DEF ReadPosition, TypeOK, Backups, Undumped
<1>2. CASE ReadParent(r)
  <2>1. PICK e \in Entry : /\ entry' = [entry EXCEPT ![r] = e]
                          /\ ~e.ok /\ (op[r] = "full" => e.parent = NoId)
    BY <1>2, PreparedEntry
  <2>2. pc' = [pc EXCEPT ![r] = "span"] \/ pc' = [pc EXCEPT ![r] = "failed"]
    BY <1>2 DEF ReadParent
  <2>3. Placed(r)'
    BY <1>2, <2>1, <2>2 DEF ReadParent, TypeOK, Placed, Backups, Undumped, Restores, Cleanups,
                InLock, Waiting
  <2>4. QED
    BY <1>2, <2>1, <2>2, <2>3, MovePlaced DEF ReadParent, TypeOK, Backups, Undumped
<1>3. CASE ReadSpan(r)
  <2>1. PICK e \in Entry : /\ entry' = [entry EXCEPT ![r] = e]
                          /\ ~e.ok /\ (op[r] = "full" => e.parent = NoId)
    BY <1>3, PreparedEntry
  <2>2. Placed(r)'
    BY <1>3, <2>1 DEF ReadSpan, TypeOK, Placed, Backups, Undumped, Restores, Cleanups, InLock,
                Waiting
  <2>3. QED
    BY <1>3, <2>1, <2>2, MovePlaced DEF ReadSpan, TypeOK, Backups, Undumped
<1>4. CASE DumpStarts(r)
  <2>1. file' \in [Id -> Archive \cup {Missing, Torn}]
    <3>1. entry[r].id \in Id
      BY <1>0, <1>4 DEF DumpStarts, Backups, Undumped, Entry
    <3>2. QED
      BY <1>4, <3>1 DEF DumpStarts, TypeOK
  <2>2. PICK e \in Entry : /\ entry' = [entry EXCEPT ![r] = e]
                          /\ ~e.ok /\ (op[r] = "full" => e.parent = NoId)
    BY <1>4, PreparedEntry
  <2>3. Placed(r)'
    BY <1>4, <2>2 DEF DumpStarts, TypeOK, Placed, Backups, Undumped, Restores, Cleanups,
                InLock, Waiting
  <2>4. QED
    BY <1>4, <2>1, <2>2, <2>3, MovePlaced DEF DumpStarts, TypeOK, Backups, Undumped
<1>5. CASE DumpEnds(r)
  <2>1. entry[r].id \in Id /\ entry[r] \in Entry
    BY <1>0, <1>5 DEF DumpEnds, Backups, Undumped, Entry
  <2>2. Dumped(r) \in Archive
    BY <2>1, CatalogueAssumption DEF Dumped, Archive, Entry, Position
  <2>3. file' \in [Id -> Archive \cup {Missing, Torn}]
    BY <1>5, <2>1, <2>2 DEF DumpEnds, TypeOK
  <2>4. PICK e \in Entry : entry' = [entry EXCEPT ![r] = e] /\ e.parent = entry[r].parent
    <3>1. [entry[r] EXCEPT !.sum = Dumped(r), !.ok = TRUE] \in Entry
      BY <2>1, <2>2 DEF Entry
    <3>2. [entry[r] EXCEPT !.sum = Dumped(r), !.ok = TRUE].parent = entry[r].parent
      BY <2>1 DEF Entry
    <3>3. entry' = [entry EXCEPT ![r] = [entry[r] EXCEPT !.sum = Dumped(r), !.ok = TRUE]]
      BY <1>5 DEF DumpEnds, TypeOK
    <3>4. QED
      BY <3>1, <3>2, <3>3
  <2>5. Placed(r)'
    BY <1>5, <2>4 DEF DumpEnds, TypeOK, Placed, Backups, Undumped, Restores, Cleanups,
                InLock, Waiting
  <2>6. QED
    BY <1>5, <2>3, <2>4, <2>5, MovePlaced DEF DumpEnds, TypeOK, Backups, Undumped
<1>6. CASE DumpFails(r)
  <2>1. PICK e \in Entry : /\ entry' = [entry EXCEPT ![r] = e]
                          /\ ~e.ok /\ (op[r] = "full" => e.parent = NoId)
    BY <1>6, PreparedEntry
  <2>2. Placed(r)'
    BY <1>6, <2>1 DEF DumpFails, TypeOK, Placed, Backups, Undumped, Restores, Cleanups,
                InLock, Waiting
  <2>3. QED
    BY <1>6, <2>1, <2>2, MovePlaced DEF DumpFails, TypeOK, Backups, Undumped
<1>7. CASE Seal(r)
  <2>1. entry[r].id \in Id
    BY <1>0, <1>7 DEF Seal, Backups, Undumped, Entry
  <2>2. \A f \in Archive : [f EXCEPT !.sealed = TRUE] \in Archive
    BY DEF Archive
  <2>3. \A f \in {Missing, Torn} : f.state # "complete"
    BY DEF Missing, Torn
  <2>4. file' \in [Id -> Archive \cup {Missing, Torn}]
    BY <1>7, <2>1, <2>2, <2>3 DEF Seal, TypeOK
  <2>5. Placed(r)'
    BY <1>7 DEF Seal, TypeOK, Placed, Backups, Undumped, Restores, Cleanups, InLock, Waiting
  <2>6. QED
    BY <1>7, <2>4, <2>5, MovePlaced DEF Seal, TypeOK, Backups, Undumped
<1>8. QED
  BY <1>1, <1>2, <1>3, <1>4, <1>5, <1>6, <1>7

\* A chain that climbs to a backup is made of entries of the list.
LEMMA ClimbsAreChains ==
  ASSUME NEW S, NEW list \in Seq(S), NEW id, NEW c \in Climbs(list, id)
  PROVE  /\ c \in Seq(S) /\ Len(c) \in Nat /\ Len(c) >= 1
         /\ c[1].parent = NoId
         /\ \A n \in 2 .. Len(c) : c[n].parent = c[n - 1].id
<1> DEFINE entries == {list[n] : n \in DOMAIN list}
<1>1. /\ c \in UNION {[1 .. k -> entries] : k \in DOMAIN list}
      /\ c[1].parent = NoId
      /\ \A n \in 2 .. Len(c) : c[n].parent = c[n - 1].id
  BY Zenon DEF Climbs
<1>2. PICK k \in 1 .. Len(list) : c \in [1 .. k -> entries]
  BY <1>1
<1>3. entries \subseteq S
  OBVIOUS
<1>4. k \in Nat /\ k >= 1 /\ Len(list) \in Nat
  BY <1>2
<1>5. c \in [1 .. k -> S]
  BY <1>2, <1>3
<1> HIDE DEF entries
<1>6. c \in Seq(S) /\ Len(c) = k
  BY <1>4, <1>5
<1>7. QED
  BY <1>1, <1>4, <1>6

\* The end of a backup and the choice of its parent.
LEMMA SavePlaced ==
  ASSUME AllPlaced, NEW r \in Request, refs' \in Nat,
         \/ SaveReads(r) \/ SaveTruncates(r) \/ SaveEnds(r) \/ PickReads(r) \/ Pick(r)
  PROVE  AllPlaced'
<1> USE DEF Goto, server, locks, restoring
<1> TypeOK /\ Placed(r)
  BY DEF AllPlaced
<1>0. pc[r] \in Backups => /\ entry[r] \in Entry /\ op[r] \in {"full", "incremental"}
                           /\ op[r] = "full" => entry[r].parent = NoId
  BY DEF Placed
<1>1. CASE SaveReads(r)
  <2>1. Placed(r)'
    BY <1>1 DEF SaveReads, TypeOK, Placed, Backups, Undumped, Restores, Cleanups, InLock,
                Waiting
  <2>2. QED
    BY <1>1, <2>1, MovePlaced DEF SaveReads, TypeOK, Backups, Undumped
<1>2. CASE SaveTruncates(r)
  <2>1. Placed(r)'
    BY <1>2 DEF SaveTruncates, TypeOK, Placed, Backups, Undumped, Restores, Cleanups, InLock,
                Waiting
  <2>2. catalogue' \in Seq(Entry)
    <3>1. << >> \in Seq(Entry)
      OBVIOUS
    <3>2. QED
      BY <1>2, <3>1 DEF SaveTruncates
  <2>3. QED
    BY <1>2, <2>1, <2>2, MovePlaced DEF SaveTruncates, TypeOK, Backups, Undumped
<1>3. CASE SaveEnds(r)
  <2>1. entry[r] \in Entry /\ entry[r].id \in Id /\ << >> \in Seq(Entry)
    BY <1>0, <1>3 DEF SaveEnds, Backups, Entry
  <2>2. Saved(view[r], entry[r]) \in Seq(Entry)
    BY <2>1, SavedIsList DEF TypeOK
  <2>3. catalogue' \in Seq(Entry)
    BY <1>3, <2>2, WrittenIsList DEF SaveEnds
  <2>4. file' \in [Id -> Archive \cup {Missing, Torn}]
    BY <1>3, <2>1 DEF SaveEnds, TypeOK
  <2>5. Placed(r)'
    BY <1>3 DEF SaveEnds, Release, Forget, TypeOK, Placed, Backups, Undumped, Restores,
                Cleanups, InLock, Waiting
  <2>6. QED
    BY <1>3, <2>1, <2>3, <2>4, <2>5, MovePlaced DEF SaveEnds, Release, Forget, TypeOK
<1>4. CASE PickReads(r)
  <2>1. Placed(r)'
    BY <1>4 DEF PickReads, TypeOK, Placed, Backups, Undumped, Restores, Cleanups, InLock,
                Waiting
  <2>2. QED
    BY <1>4, <2>1, MovePlaced DEF PickReads, TypeOK, Backups, Undumped
<1>5. CASE Pick(r)
  <2>1. PICK e \in Entry : entry' = [entry EXCEPT ![r] = e] /\ ~e.ok
    BY <1>5, PreparedEntry
  <2>2. pc' = [pc EXCEPT ![r] = "failed"] \/ pc' = [pc EXCEPT ![r] = "parent"]
    BY <1>5 DEF Pick
  <2>3. Placed(r)'
    BY <1>5, <2>1, <2>2 DEF Pick, Release, TypeOK, Placed, Backups, Undumped, Restores, Cleanups,
                InLock, Waiting
  <2>4. << >> \in Seq(Entry)
    OBVIOUS
  <2>5. QED
    BY <1>5, <2>1, <2>2, <2>3, <2>4, MovePlaced DEF Pick, Release, TypeOK, Backups, Undumped
<1>6. QED
  BY <1>1, <1>2, <1>3, <1>4, <1>5

-----------------------------------------------------------------------------
(* Restores, lists and clean-ups.                                          *)

\* POST /restore, from the resolution of the chain to its end.
LEMMA RestorePlaced ==
  ASSUME AllPlaced, NEW r \in Request, refs' \in Nat, Restore(r)
  PROVE  AllPlaced'
<1> USE DEF Goto, server, locks, restoring
<1> TypeOK /\ Placed(r)
  BY DEF AllPlaced
<1>0. pc[r] \in Restores => entry[r] \in Entry /\ op[r] = "restore"
  BY DEF Placed
<1>1. CASE CheckChain(r)
  <2>1. Placed(r)'
    BY <1>1 DEF CheckChain, Release, TypeOK, Placed, Backups, Undumped, Restores, Cleanups,
                InLock, Waiting
  <2>2. pc' = [pc EXCEPT ![r] = "exclude"] \/ pc' = [pc EXCEPT ![r] = "failed"]
    BY <1>1 DEF CheckChain
  <2>3. QED
    BY <1>1, <2>1, <2>2, MovePlaced DEF CheckChain, Release, TypeOK, Restores
<1>2. CASE ExcludeRestores(r)
  <2>1. Placed(r)'
    BY <1>2 DEF ExcludeRestores, TypeOK, Placed, Backups, Undumped, Restores, Cleanups, InLock,
                Waiting
  <2>2. QED
    BY <1>2, <2>1, MovePlaced DEF ExcludeRestores, TypeOK, Restores
<1>3. CASE ResolveChain(r)
  <2>1. chain' = chain \/ \E c \in Seq(Entry) : chain' = [chain EXCEPT ![r] = c]
    <3>1. \A c \in Climbs(catalogue, entry[r].id) : c \in Seq(Entry)
      BY ClimbsAreChains DEF TypeOK
    <3>2. QED
      BY <1>3, <3>1 DEF ResolveChain
  <2>2. Placed(r)'
    BY <1>3 DEF ResolveChain, EndRestore, Release, TypeOK, Placed, Backups, Undumped, Restores,
                Cleanups, InLock, Waiting
  <2>3. /\ restoreLock' \in BOOLEAN
        /\ pc' = [pc EXCEPT ![r] = "verify"] \/ pc' = [pc EXCEPT ![r] = "failed"]
    BY <1>3 DEF ResolveChain, EndRestore, TypeOK
  <2>4. QED
    BY <1>3, <2>1, <2>2, <2>3, MovePlaced DEF ResolveChain, Release, TypeOK, Restores
<1>4. CASE VerifyNext(r)
  <2>1. at[r] + 1 \in Nat
    BY DEF TypeOK
  <2>2. /\ restoreLock' \in BOOLEAN
        /\ \/ pc' = pc \/ pc' = [pc EXCEPT ![r] = "apply"] \/ pc' = [pc EXCEPT ![r] = "failed"]
        /\ at' = at \/ \E n \in Nat : at' = [at EXCEPT ![r] = n]
    BY <1>4, <2>1 DEF VerifyNext, EndRestore, TypeOK
  <2>3. Placed(r)'
    BY <1>4, <2>2 DEF VerifyNext, TypeOK, Placed, Backups, Undumped, Restores,
                Cleanups, InLock, Waiting
  <2>4. QED
    BY <1>4, <2>2, <2>3, MovePlaced DEF VerifyNext, TypeOK, Restores
<1>5. CASE ApplyNext(r)
  <2>1. at[r] + 1 \in Nat
    BY DEF TypeOK
  <2>2. \A reached, n : \A a \in Archive \cup {Torn} :
           Replayed(reached, n, a) \in Position \cup {Bad}
    BY DEF Replayed, Archive, Torn
  <2>3. \/ EndRestore(r, "failed") /\ UNCHANGED <<applied, at>>
        \/ /\ file[chain[r][at[r] + 1].id] # Missing
           /\ applied' = [applied EXCEPT ![r] =
                             Replayed(@, at[r] + 1, file[chain[r][at[r] + 1].id])]
           /\ at' = [at EXCEPT ![r] = at[r] + 1]
           /\ UNCHANGED <<pc, restoreLock>>
    BY <1>5 DEF ApplyNext
  <2>4. chain[r][at[r] + 1].id \in Id
    <3>1. chain[r] \in Seq(Entry) /\ at[r] + 1 \in 1 .. Len(chain[r])
      BY <1>5 DEF ApplyNext, TypeOK
    <3>2. chain[r][at[r] + 1] \in Entry
      BY <3>1
    <3>3. QED
      BY <3>2 DEF Entry
  <2>5. file[chain[r][at[r] + 1].id] \in Archive \cup {Torn, Missing}
    BY <2>4 DEF TypeOK
  <2>6. applied' = applied
          \/ \E a \in Position \cup {Bad} : applied' = [applied EXCEPT ![r] = a]
    <3>1. CASE applied' = applied
      BY <3>1
    <3>2. CASE applied' # applied
      <4>1. /\ applied' = [applied EXCEPT ![r] =
                             Replayed(applied[r], at[r] + 1, file[chain[r][at[r] + 1].id])]
            /\ file[chain[r][at[r] + 1].id] # Missing
        BY <2>3, <3>2
      <4>2. Replayed(applied[r], at[r] + 1, file[chain[r][at[r] + 1].id])
               \in Position \cup {Bad}
        BY <2>2, <2>5, <4>1
      <4>3. QED
        BY <4>1, <4>2
    <3>3. QED
      BY <3>1, <3>2
  <2>7. /\ restoreLock' \in BOOLEAN
        /\ pc' = pc \/ pc' = [pc EXCEPT ![r] = "failed"]
        /\ at' = at \/ \E n \in Nat : at' = [at EXCEPT ![r] = n]
    BY <2>1, <2>3 DEF EndRestore, TypeOK
  <2>8. Placed(r)'
    BY <1>5, <2>7 DEF ApplyNext, TypeOK, Placed, Backups, Undumped, Restores,
                Cleanups, InLock, Waiting
  <2>9. QED
    BY <1>5, <2>6, <2>7, <2>8, MovePlaced DEF ApplyNext, TypeOK, Restores
<1>6. CASE ApplyEnds(r)
  <2>1. Placed(r)'
    BY <1>6 DEF ApplyEnds, EndRestore, TypeOK, Placed, Backups, Undumped, Restores,
                Cleanups, InLock, Waiting
  <2>2. QED
    BY <1>6, <2>1, MovePlaced DEF ApplyEnds, EndRestore, TypeOK, Restores
<1>7. QED
  BY <1>1, <1>2, <1>3, <1>4, <1>5, <1>6 DEF Restore

\* GET /backups and POST /cleanup.
LEMMA HousekeepingPlaced ==
  ASSUME AllPlaced, NEW r \in Request, refs' \in Nat, Housekeeping(r)
  PROVE  AllPlaced'
<1> USE DEF Goto, server, locks, restoring
<1> TypeOK /\ Placed(r)
  BY DEF AllPlaced
<1>0. << >> \in Seq(Entry)
  OBVIOUS
<1>1. CASE ListEnds(r)
  <2>1. Placed(r)'
    BY <1>1 DEF ListEnds, Release, TypeOK, Placed, Backups, Undumped, Restores, Cleanups,
                InLock, Waiting
  <2>2. QED
    BY <1>1, <2>1, MovePlaced DEF ListEnds, Release, TypeOK
<1>2. CASE CleanupReads(r)
  <2>1. \E n \in Nat : at' = [at EXCEPT ![r] = n]
    <3>1. \E n \in 0 .. Len(catalogue) : at' = [at EXCEPT ![r] = n]
      BY <1>2 DEF CleanupReads
    <3>2. 0 .. Len(catalogue) \subseteq Nat
      OBVIOUS
    <3>3. QED
      BY <3>1, <3>2, Zenon
  <2>2. Placed(r)'
    BY <1>2, <2>1 DEF CleanupReads, TypeOK, Placed, Backups, Undumped, Restores, Cleanups,
                InLock, Waiting
  <2>3. QED
    BY <1>2, <2>1, <2>2, MovePlaced DEF CleanupReads, TypeOK, Cleanups
<1>3. CASE CleanupDeletes(r)
  <2>1. Placed(r)'
    BY <1>3 DEF CleanupDeletes, TypeOK, Placed, Backups, Undumped, Restores, Cleanups,
                InLock, Waiting
  <2>2. file' \in [Id -> Archive \cup {Missing, Torn}]
    BY <1>3 DEF CleanupDeletes, TypeOK
  <2>3. QED
    BY <1>3, <2>1, <2>2, MovePlaced DEF CleanupDeletes, TypeOK, Cleanups
<1>4. CASE CleanupTruncates(r)
  <2>1. Placed(r)'
    BY <1>4 DEF CleanupTruncates, TypeOK, Placed, Backups, Undumped, Restores, Cleanups,
                InLock, Waiting
  <2>2. catalogue' \in Seq(Entry)
    BY <1>0, <1>4 DEF CleanupTruncates
  <2>3. QED
    BY <1>4, <2>1, <2>2, MovePlaced DEF CleanupTruncates, TypeOK, Cleanups
<1>5. CASE CleanupEnds(r)
  <2>1. SubSeq(view[r], at[r] + 1, Len(view[r])) \in Seq(Entry)
    <3>1. view[r] \in Seq(Entry) /\ at[r] \in Nat
      BY DEF TypeOK
    <3>2. QED
      BY <3>1
  <2>2. catalogue' \in Seq(Entry)
    BY <1>5, <2>1, WrittenIsList DEF CleanupEnds
  <2>3. Placed(r)'
    BY <1>5 DEF CleanupEnds, Release, Forget, TypeOK, Placed, Backups, Undumped, Restores,
                Cleanups, InLock, Waiting
  <2>4. QED
    BY <1>0, <1>5, <2>2, <2>3, MovePlaced DEF CleanupEnds, Release, Forget, TypeOK
<1>6. QED
  BY <1>1, <1>2, <1>3, <1>4, <1>5 DEF Housekeeping

\* Every step keeps the types and the places, if it leaves no negative count.
LEMMA NextPlaced ==
  ASSUME AllPlaced, [Next]_vars, refs' \in Nat PROVE AllPlaced'
<1>1. CASE UNCHANGED vars
  BY <1>1 DEF vars, AllPlaced, TypeOK, Placed
<1>2. CASE Server
  BY <1>2, ServerPlaced
<1>3. CASE Crash
  BY <1>3, CrashPlaced
<1>4. ASSUME NEW r \in Request, Start(r) \/ Step(r) PROVE AllPlaced'
  <2>1. CASE Start(r)
    BY <2>1, StartPlaced
  <2>2. CASE Acquire(r) \/ GiveUp(r)
    BY <2>2, LockPlaced
  <2>3. CASE Backup(r)
    BY <2>3, DumpPlaced, SavePlaced DEF Backup
  <2>4. CASE Restore(r) \/ Housekeeping(r)
    BY <2>4, RestorePlaced, HousekeepingPlaced
  <2>5. QED
    BY <1>4, <2>1, <2>2, <2>3, <2>4 DEF Step
<1>5. QED
  BY <1>1, <1>2, <1>3, <1>4 DEF Next

-----------------------------------------------------------------------------
(* The reference count.                                                    *)

\* The requests between acquire() and release() use one lock object, and its reference
\* count is their number.
Users == {r \in Request : crit[r] = "in"}

Counted ==
  /\ IsFiniteSet(Users) /\ refs = Cardinality(Users)
  /\ \A r \in Users : lockOwner = Object(r)

\* No lock file, or one left by a dead process: nobody is inside.
LEMMA NobodyInside ==
  ASSUME TypeOK, Counted, lockOwner \in {NoObject, Stale} PROVE Users = {} /\ refs = 0
<1>1. \A r \in Request : Object(r) \notin {NoObject, Stale}
  BY CatalogueAssumption DEF Object
<1>2. Users = {}
  BY <1>1 DEF Counted, Users
<1>3. QED
  BY <1>2, FS_EmptySet DEF Counted

\* A step that moves nobody in or out keeps the count.
LEMMA KeepsCount ==
  ASSUME Counted, Users' = Users, UNCHANGED <<lockOwner, refs>>,
         \A r \in Users : op'[r] = op[r]
  PROVE  Counted'
<1>1. \A r \in Users : Object(r)' = Object(r)
  BY DEF Object
<1>2. QED
  BY <1>1 DEF Counted

\* release(): the last user, and no other, removes the file.
LEMMA ReleaseCounts ==
  ASSUME TypeOK, Counted, NEW r \in Request, crit[r] = "in", Release(r), UNCHANGED op
  PROVE  Counted' /\ refs' \in Nat
<1>1. r \in Users /\ Users' = Users \ {r}
  BY DEF Users, Release, TypeOK
<1>2. IsFiniteSet(Users') /\ Cardinality(Users') = Cardinality(Users) - 1
  BY <1>1, FS_RemoveElement DEF Counted
<1>3. Cardinality(Users') \in Nat
  BY <1>2, FS_CardinalityType
<1>4. refs' = Cardinality(Users') /\ refs' \in Nat
  BY <1>2, <1>3 DEF Counted, Release
<1>5. ASSUME NEW s \in Users' PROVE lockOwner' = Object(s)'
  <2>1. refs # 1
    BY <1>2, <1>4, <1>5, FS_EmptySet DEF Counted
  <2>2. lockOwner' = lockOwner /\ s \in Users
    BY <1>1, <1>5, <2>1 DEF Release
  <2>3. QED
    BY <2>2 DEF Counted, Object
<1>6. QED
  BY <1>2, <1>4, <1>5 DEF Counted

\* acquire(): whoever enters is counted, on the object that has the file.
LEMMA AcquireCounts ==
  ASSUME AllPlaced, Counted, NEW r \in Request, Acquire(r)
  PROVE  Counted' /\ refs' \in Nat
<1> TypeOK
  BY DEF AllPlaced
<1>1. crit[r] # "in" /\ r \notin Users /\ UNCHANGED op
  BY DEF Acquire, NeedsLock, Users
<1>2. CASE /\ lockOwner = Object(r) /\ refs' = refs + 1 /\ UNCHANGED lockOwner
           /\ crit' = [crit EXCEPT ![r] = "in"]
  <2>1. Users' = Users \cup {r}
    BY <1>2 DEF Users, TypeOK
  <2>2. IsFiniteSet(Users') /\ Cardinality(Users') = Cardinality(Users) + 1
    BY <1>1, <2>1, FS_AddElement DEF Counted
  <2>3. \A s \in Users' : lockOwner' = Object(s)'
    BY <1>1, <1>2, <2>1 DEF Counted, Object
  <2>4. refs' \in Nat
    BY <1>2 DEF TypeOK
  <2>5. QED
    BY <1>2, <2>2, <2>3, <2>4 DEF Counted
<1>3. CASE /\ lockOwner = NoObject /\ lockOwner' = Object(r) /\ refs' = 1
           /\ crit' = [crit EXCEPT ![r] = "in"]
  <2>1. Users = {} /\ Users' = {r}
    <3>1. Users = {}
      BY <1>3, NobodyInside
    <3>2. QED
      BY <1>3, <3>1 DEF Users, TypeOK
  <2>2. IsFiniteSet(Users') /\ Cardinality(Users') = 1
    BY <2>1, FS_Singleton
  <2>3. \A s \in Users' : lockOwner' = Object(s)'
    BY <1>1, <1>3, <2>1 DEF Object
  <2>4. QED
    BY <1>3, <2>2, <2>3 DEF Counted
<1>4. CASE crit' = [crit EXCEPT ![r] = "retry"] /\ UNCHANGED <<lockOwner, refs>>
  <2>1. Users' = Users
    BY <1>1, <1>4 DEF Users, TypeOK
  <2>2. QED
    BY <1>1, <1>4, <2>1, KeepsCount DEF TypeOK
<1>5. QED
  BY <1>2, <1>3, <1>4 DEF Acquire

\* Every step keeps the count, and leaves no negative one.
LEMMA NextCounts ==
  ASSUME AllPlaced, Counted, [Next]_vars PROVE Counted' /\ refs' \in Nat
<1> TypeOK /\ \A r \in Request : Placed(r)
  BY DEF AllPlaced
<1> USE DEF server, locks, restoring
<1>1. CASE UNCHANGED <<crit, lockOwner, refs, op>>
  <2>1. Users' = Users
    BY <1>1 DEF Users
  <2>2. QED
    BY <1>1, <2>1, KeepsCount DEF TypeOK
<1>2. CASE Crash
  <2>1. Users' = {} /\ refs' = 0
    BY <1>2 DEF Crash, Users
  <2>2. QED
    BY <2>1, FS_EmptySet DEF Counted
<1>3. ASSUME NEW r \in Request, Start(r) PROVE Counted' /\ refs' \in Nat
  <2>1. pc[r] = "idle" /\ UNCHANGED <<lockOwner, refs, crit>>
        /\ \A s \in Request : s # r => op'[s] = op[s]
    BY <1>3 DEF Start, StartFull, StartIncremental, StartRestore, StartList, StartCleanup,
                TypeOK
  <2>2. r \notin Users /\ Users' = Users
    BY <2>1 DEF Users, Placed, Waiting, InLock
  <2>3. \A s \in Users : op'[s] = op[s]
    BY <2>1, <2>2 DEF Users
  <2>4. QED
    BY <2>1, <2>2, <2>3, KeepsCount DEF TypeOK
<1>4. ASSUME NEW r \in Request, Acquire(r) PROVE Counted' /\ refs' \in Nat
  BY <1>4, AcquireCounts
<1>5. ASSUME NEW r \in Request, GiveUp(r) PROVE Counted' /\ refs' \in Nat
  <2>1. Users' = Users /\ UNCHANGED <<lockOwner, refs, op>>
    BY <1>5 DEF GiveUp, Users, TypeOK
  <2>2. QED
    BY <2>1, KeepsCount DEF TypeOK
<1>6. ASSUME NEW r \in Request,
             \/ SaveEnds(r) \/ Pick(r) \/ CheckChain(r) \/ ResolveChain(r) \/ ListEnds(r)
             \/ CleanupEnds(r)
      PROVE  Counted' /\ refs' \in Nat
  <2>1. crit[r] = "in"
    BY <1>6 DEF SaveEnds, Pick, CheckChain, ResolveChain, ListEnds, CleanupEnds, Placed, InLock
  <2>2. Release(r) /\ UNCHANGED op
    BY <1>6 DEF SaveEnds, Pick, CheckChain, ResolveChain, ListEnds, CleanupEnds
  <2>3. QED
    BY <2>1, <2>2, ReleaseCounts
<1>7. ASSUME NEW r \in Request,
             \/ ReadPosition(r) \/ PickReads(r) \/ ReadParent(r) \/ ReadSpan(r)
             \/ DumpStarts(r) \/ DumpEnds(r) \/ DumpFails(r) \/ Seal(r)
             \/ SaveReads(r) \/ SaveTruncates(r)
             \/ ExcludeRestores(r) \/ VerifyNext(r) \/ ApplyNext(r) \/ ApplyEnds(r)
             \/ CleanupReads(r) \/ CleanupDeletes(r) \/ CleanupTruncates(r)
      PROVE  UNCHANGED <<crit, lockOwner, refs, op>>
  BY <1>7 DEF ReadPosition, PickReads, ReadParent, ReadSpan, DumpStarts, DumpEnds, DumpFails,
     Seal, SaveReads, SaveTruncates, ExcludeRestores, VerifyNext, ApplyNext, ApplyEnds,
     CleanupReads, CleanupDeletes, CleanupTruncates
<1>8. CASE Server \/ UNCHANGED vars
  BY <1>1, <1>8 DEF Server, vars
<1>9. QED
  BY <1>1, <1>2, <1>3, <1>4, <1>5, <1>6, <1>7, <1>8
     DEF Next, Step, Backup, Restore, Housekeeping

\* What a step finds and leaves: types, places and the count.
PlacedInv == AllPlaced /\ Counted

\* The places, the types and the count are an inductive invariant.
LEMMA PlacedInvInductive ==
  /\ Init => PlacedInv
  /\ PlacedInv /\ [Next]_vars => PlacedInv'
<1>1. ASSUME Init PROVE PlacedInv
  <2>1. AllPlaced
    BY <1>1, PlacedInit
  <2>2. Users = {} /\ refs = 0
    BY <1>1 DEF Init, Users
  <2>3. QED
    BY <2>1, <2>2, FS_EmptySet DEF PlacedInv, Counted
<1>2. ASSUME PlacedInv, [Next]_vars PROVE PlacedInv'
  <2>1. Counted' /\ refs' \in Nat
    BY <1>2, NextCounts DEF PlacedInv
  <2>2. QED
    BY <1>2, <2>1, NextPlaced DEF PlacedInv
<1>3. QED
  BY <1>1, <1>2

(* The reference count of ReentrantFileLock is the number of requests between acquire() and
   release(): the lock file is removed by its last user, and not before. *)
THEOREM RefsCounted == Spec => []RefsCountUsers
<1>1. ASSUME PlacedInv PROVE RefsCountUsers
  <2>1. TypeOK
    BY <1>1 DEF PlacedInv, AllPlaced
  <2>2. lockOwner \in {NoObject, Stale} => refs = 0
    BY <1>1, <2>1, NobodyInside DEF PlacedInv
  <2>3. \A r \in Request : crit[r] = "in" => lockOwner = Object(r)
    BY <1>1 DEF PlacedInv, Counted, Users
  <2>4. Inside(lockOwner) = Users
    BY <2>3 DEF Inside, Users
  <2>5. QED
    BY <1>1, <2>1, <2>2, <2>3, <2>4 DEF RefsCountUsers, PlacedInv, Counted
<1>2. QED
  BY <1>1, PlacedInvInductive, PTL DEF Spec

\* A clean-up between reading and rewriting the list is alone inside the lock.
LEMMA OneInside ==
  ASSUME PlacedInv, NEW r \in Request, NEW s \in Request, pc[r] \in InLock, pc[s] \in InLock,
         op[r] = "cleanup"
  PROVE  s = r
<1>1. r \in Users /\ s \in Users
  BY DEF PlacedInv, AllPlaced, Placed, Users
<1>2. Object(r) = Object(s) /\ Object(r) = r
  BY <1>1 DEF PlacedInv, Counted, Object
<1>3. QED
  BY <1>2, CatalogueAssumption DEF Object

(* While a clean-up is between reading and rewriting the list, nobody else changes the list,
   so cleanupOldBackups drops no entry it has not read. *)
THEOREM CleanupsAlone == Spec => CleanupAlone
<1> DEFINE Alone == \A r \in Request :
          pc[r] \in {"delete", "cleanWrite", "cleaning"} /\ catalogue' # catalogue
             => pc'[r] # pc[r]
<1>1. ASSUME PlacedInv, [Next]_vars PROVE Alone
  <2> SUFFICES ASSUME NEW r \in Request, pc[r] \in {"delete", "cleanWrite", "cleaning"},
                      catalogue' # catalogue
               PROVE  pc'[r] # pc[r]
    OBVIOUS
  <2>1. PICK s \in Request :
           SaveTruncates(s) \/ SaveEnds(s) \/ CleanupTruncates(s) \/ CleanupEnds(s)
    BY <1>1 DEF Next, Step, Server, Crash, Start, StartFull, StartIncremental, StartRestore,
       StartList, StartCleanup, Acquire, GiveUp, Backup, Restore, Housekeeping, ReadPosition,
       PickReads, Pick, ReadParent, ReadSpan, DumpStarts, DumpEnds, DumpFails, Seal, SaveReads,
       CheckChain, ExcludeRestores, ResolveChain, VerifyNext, ApplyNext, ApplyEnds,
       ListEnds, CleanupReads, CleanupDeletes, vars
  <2>2. pc[s] \in InLock /\ pc[r] \in InLock
    BY <2>1 DEF SaveTruncates, SaveEnds, CleanupTruncates, CleanupEnds, InLock
  <2>3. op[r] = "cleanup"
    BY <1>1 DEF PlacedInv, AllPlaced, Placed, Cleanups
  <2>4. s = r
    BY <1>1, <2>2, <2>3, OneInside
  <2>5. QED
    BY <1>1, <2>1, <2>4 DEF SaveTruncates, SaveEnds, CleanupTruncates, CleanupEnds, Goto,
       PlacedInv, AllPlaced, TypeOK
<1>2. QED
  BY <1>1, PlacedInvInductive, PTL DEF Spec, CleanupAlone

\* At most one restore is past ExcludeRestores, and the lock file is there.
Excl == \A r, s \in Request :
          pc[r] \in {"chain", "verify", "apply"} /\ pc[s] \in {"chain", "verify", "apply"}
            => restoreLock /\ r = s

\* openSync with 'wx' admits one restore, and only that restore removes the file.
LEMMA ExclInductive ==
  /\ Init => Excl
  /\ TypeOK /\ Excl /\ [Next]_vars => Excl'
<1> DEFINE Active == {r \in Request : pc[r] \in {"chain", "verify", "apply"}}
<1>1. Init => Excl
  BY DEF Init, Excl
<1>2. ASSUME TypeOK, Excl, [Next]_vars PROVE Excl'
  <2> PICK S : pc \in [Request -> S]
    BY <1>2 DEF TypeOK
  <2> USE DEF Goto, EndRestore, restoring
  <2>1. ASSUME NEW r \in Request,
               ResolveChain(r) \/ VerifyNext(r) \/ ApplyNext(r) \/ ApplyEnds(r)
        PROVE  Excl'
    <3>1. r \in Active /\ Active' \subseteq Active /\ (~restoreLock' => r \notin Active')
      BY <1>2, <2>1 DEF ResolveChain, VerifyNext, ApplyNext, ApplyEnds, Excl
    <3>2. QED
      BY <1>2, <3>1 DEF Excl
  <2>2. ASSUME NEW r \in Request, ExcludeRestores(r) PROVE Excl'
    <3>1. CASE restoreLock
      <4>1. Active' \subseteq Active /\ restoreLock'
        BY <2>2, <3>1 DEF ExcludeRestores
      <4>2. QED
        BY <1>2, <4>1 DEF Excl
    <3>2. CASE ~restoreLock
      <4>1. Active = {} /\ Active' = {r} /\ restoreLock'
        BY <1>2, <2>2, <3>2 DEF ExcludeRestores, Excl
      <4>2. QED
        BY <4>1 DEF Excl
    <3>3. QED
      BY <3>1, <3>2
  <2>3. ASSUME NEW r \in Request, GiveUp(r) PROVE Excl'
    <3>1. Active' \subseteq Active
      BY <2>3 DEF GiveUp
    <3>2. restoreLock' = restoreLock \/ (r \in Active /\ r \notin Active')
      BY <2>3 DEF GiveUp
    <3>3. QED
      BY <1>2, <3>1, <3>2 DEF Excl
  <2>4. ASSUME NEW r \in Request,
               \/ Start(r) \/ Acquire(r) \/ Backup(r) \/ CheckChain(r) \/ Housekeeping(r)
        PROVE  Active' \subseteq Active /\ UNCHANGED restoreLock
    <3> DEFINE Elsewhere == {"position", "pick", "parent", "check", "list", "clean", "dump",
                   "failed", "picked", "span", "dumping", "seal", "save", "saveWrite", "saving",
                   "done", "exclude", "delete", "cleanWrite", "cleaning"}
               Off == /\ UNCHANGED restoreLock
                      /\ pc' = pc \/ \E p \in Elsewhere : pc' = [pc EXCEPT ![r] = p]
    <3>1. ASSUME Start(r) PROVE Off
      BY <3>1 DEF Start, StartFull, StartIncremental, StartRestore, StartList, StartCleanup
    <3>2. ASSUME Acquire(r) \/ CheckChain(r) PROVE Off
      BY <3>2 DEF Acquire, CheckChain
    <3>3. ASSUME Backup(r) PROVE Off
      <4>1. CASE ReadPosition(r) \/ PickReads(r) \/ ReadParent(r) \/ ReadSpan(r)
        BY <4>1 DEF ReadPosition, PickReads, ReadParent, ReadSpan
      <4>2. CASE DumpStarts(r) \/ DumpEnds(r) \/ DumpFails(r) \/ Seal(r)
        BY <4>2 DEF DumpStarts, DumpEnds, DumpFails, Seal
      <4>3. CASE SaveReads(r) \/ SaveTruncates(r) \/ SaveEnds(r)
        BY <4>3 DEF SaveReads, SaveTruncates, SaveEnds
      <4>4. CASE Pick(r)
        <5>1. UNCHANGED restoreLock /\ (Goto(r, "failed") \/ Goto(r, "parent"))
          BY <4>4 DEF Pick
        <5>2. QED
          BY <5>1
      <4>5. QED
        BY <3>3, <4>1, <4>2, <4>3, <4>4 DEF Backup
    <3>4. ASSUME Housekeeping(r) PROVE Off
      BY <3>4 DEF Housekeeping, ListEnds, CleanupReads, CleanupDeletes, CleanupTruncates,
         CleanupEnds
    <3>5. Off
      BY <2>4, <3>1, <3>2, <3>3, <3>4
    <3>6. QED
      BY <3>5
  <2>5. CASE Server \/ Crash \/ UNCHANGED vars
    <3>1. Active' \subseteq Active /\ UNCHANGED restoreLock
      BY <2>5 DEF Server, Crash, Ended, vars
    <3>2. QED
      BY <1>2, <3>1 DEF Excl
  <2>6. QED
    BY <1>2, <2>1, <2>2, <2>3, <2>4, <2>5 DEF Next, Step, Restore, Excl
<1>3. QED
  BY <1>1, <1>2

(* Two restores never write to their databases at once, and a restore at work has its lock
   file: one left by a crash refuses all later restores and admits none. *)
THEOREM RestoresApart == Spec => []OneRestoreAtATime
<1>1. ASSUME Excl PROVE OneRestoreAtATime
  <2> DEFINE active == {r \in Request : pc[r] \in {"chain", "verify", "apply"}}
  <2>1. CASE active = {}
    BY <2>1, FS_EmptySet DEF OneRestoreAtATime
  <2>2. ASSUME NEW r \in active PROVE OneRestoreAtATime
    <3>1. active = {r} /\ restoreLock
      BY <1>1 DEF Excl
    <3>2. QED
      BY <3>1, FS_Singleton DEF OneRestoreAtATime
  <2>3. QED
    BY <2>1, <2>2
<1>2. PlacedInv => TypeOK
  BY DEF PlacedInv, AllPlaced
<1>3. QED
  BY <1>1, <1>2, PlacedInvInductive, ExclInductive, PTL DEF Spec

-----------------------------------------------------------------------------
(* The entries of completed backups.                                       *)

\* The statements that follow the end of a dump.
Past == {"seal", "save", "saveWrite", "saving", "done", "failed"}

\* An entry of a completed backup tells what its archive holds, and the request that wrote
\* the archive will not write it again.
SoundEntry ==
  {e \in Entry : e.ok => /\ e.sum \in Archive /\ e.sum.hi = e.to /\ ~e.sum.sealed
                         /\ e.parent # NoId => e.sum.lo = e.from
                         /\ e.sum.by \in Request => pc[e.sum.by] \in Past}

AllSound ==
  /\ catalogue \in Seq(SoundEntry)
  /\ view \in [Request -> Seq(SoundEntry)]
  /\ chain \in [Request -> Seq(SoundEntry)]
  /\ entry \in [Request -> SoundEntry \cup {Missing}]

\* The chain made before is sound.
LEMMA SoundInit == Init => AllSound
<1> SUFFICES ASSUME Init PROVE AllSound
  OBVIOUS
<1>1. ASSUME NEW n \in DOMAIN Earlier PROVE Made(n) \in SoundEntry
  BY MadeIsEntry, CatalogueAssumption DEF SoundEntry
<1>2. catalogue \in Seq(SoundEntry)
  <2>1. DOMAIN Earlier = 1 .. Len(Earlier) /\ Len(Earlier) \in Nat
    BY CatalogueAssumption
  <2>2. catalogue \in [1 .. Len(Earlier) -> SoundEntry]
    BY <1>1, <2>1 DEF Init
  <2>3. QED
    BY <2>1, <2>2
<1>3. << >> \in Seq(SoundEntry)
  OBVIOUS
<1>4. QED
  BY <1>2, <1>3 DEF Init, AllSound

\* A list of members of a set is a list of members of a larger one.
LEMMA SeqOfMore ==
  ASSUME NEW S, NEW T, S \subseteq T PROVE Seq(S) \subseteq Seq(T)
<1> SUFFICES ASSUME NEW s \in Seq(S) PROVE s \in Seq(T)
  OBVIOUS
<1>1. s \in [1 .. Len(s) -> T] /\ Len(s) \in Nat
  OBVIOUS
<1>2. QED
  BY <1>1

\* A request past its dump stays past it.
LEMMA PastStays ==
  ASSUME TypeOK, [Next]_vars, NEW s \in Request, pc[s] \in Past
  PROVE  pc'[s] \in Past
<1> PICK S : pc \in [Request -> S]
  BY DEF TypeOK
<1>1. CASE UNCHANGED pc
  BY <1>1
<1>2. CASE Crash
  BY <1>2 DEF Crash, Past, Ended
<1>3. ASSUME NEW r \in Request, NEW p, pc[r] \notin Past \/ p \in Past, Goto(r, p)
      PROVE  pc'[s] \in Past
  BY <1>3 DEF Goto
<1>4. ASSUME NEW r \in Request, Start(r) PROVE pc'[s] \in Past
  <2>1. pc[r] \notin Past /\ \E p : Goto(r, p)
    BY <1>4 DEF Start, StartFull, StartIncremental, StartRestore, StartList, StartCleanup, Past
  <2>2. QED
    BY <1>3, <2>1
<1>5. ASSUME NEW r \in Request, Acquire(r) \/ GiveUp(r) PROVE pc'[s] \in Past
  <2>1. pc' = pc \/ Goto(r, "failed")
    BY <1>5 DEF Acquire, GiveUp
  <2>2. QED
    BY <1>1, <1>3, <2>1 DEF Past
<1>6. ASSUME NEW r \in Request, Backup(r) PROVE pc'[s] \in Past
  <2>1. CASE ReadPosition(r) \/ PickReads(r) \/ ReadParent(r) \/ ReadSpan(r) \/ DumpStarts(r)
    <3>1. pc[r] \notin Past /\ \E p : Goto(r, p)
      BY <2>1 DEF ReadPosition, PickReads, ReadParent, ReadSpan, DumpStarts, Past
    <3>2. QED
      BY <1>3, <3>1
  <2>2. CASE Pick(r)
    <3>1. pc[r] \notin Past /\ (Goto(r, "failed") \/ Goto(r, "parent"))
      BY <2>2 DEF Pick, Past
    <3>2. QED
      BY <1>3, <3>1
  <2>3. CASE DumpEnds(r) \/ DumpFails(r) \/ Seal(r)
    <3>1. \E p \in Past : Goto(r, p)
      BY <2>3 DEF DumpEnds, DumpFails, Seal, Past
    <3>2. QED
      BY <1>3, <3>1
  <2>4. CASE SaveReads(r) \/ SaveTruncates(r) \/ SaveEnds(r)
    <3>1. \E p \in Past : Goto(r, p)
      BY <2>4 DEF SaveReads, SaveTruncates, SaveEnds, Past
    <3>2. QED
      BY <1>3, <3>1
  <2>5. QED
    BY <1>6, <2>1, <2>2, <2>3, <2>4 DEF Backup
<1>7. ASSUME NEW r \in Request, Restore(r) PROVE pc'[s] \in Past
  <2>1. pc' = pc \/ (pc[r] \notin Past /\ \E p : Goto(r, p))
    BY <1>7 DEF Restore, CheckChain, ExcludeRestores, ResolveChain, VerifyNext, ApplyNext,
       ApplyEnds, EndRestore, Past
  <2>2. QED
    BY <1>1, <1>3, <2>1
<1>8. ASSUME NEW r \in Request, Housekeeping(r) PROVE pc'[s] \in Past
  <2>1. pc[r] \notin Past /\ \E p : Goto(r, p)
    BY <1>8 DEF Housekeeping, ListEnds, CleanupReads, CleanupDeletes, CleanupTruncates,
       CleanupEnds, Past
  <2>2. QED
    BY <1>3, <2>1
<1>9. CASE Server \/ UNCHANGED vars
  BY <1>1, <1>9 DEF Server, vars
<1>10. QED
  BY <1>2, <1>4, <1>5, <1>6, <1>7, <1>8, <1>9 DEF Next, Step

\* An entry that is sound stays so, as the writer of its archive stays past its dump.
LEMMA SoundStays == ASSUME TypeOK, [Next]_vars PROVE SoundEntry \subseteq SoundEntry'
BY PastStays DEF SoundEntry

\* A step of one request keeps the entries sound if those it makes are.
LEMMA MoveSound ==
  ASSUME AllSound, NEW r \in Request, NEW T, T = SoundEntry', SoundEntry \subseteq T,
         catalogue' = catalogue \/ catalogue' \in Seq(T),
         entry' = entry \/ \E e \in T \cup {Missing} : entry' = [entry EXCEPT ![r] = e],
         view' = view \/ \E v \in Seq(T) : view' = [view EXCEPT ![r] = v],
         chain' = chain \/ \E c \in Seq(T) : chain' = [chain EXCEPT ![r] = c]
  PROVE  AllSound'
<1>0. ASSUME NEW S, NEW f \in [Request -> S], NEW g,
             g = f \/ \E x \in S : g = [f EXCEPT ![r] = x]
      PROVE  g \in [Request -> S]
  <2>1. CASE g = f
    BY <2>1
  <2>2. ASSUME NEW x \in S, g = [f EXCEPT ![r] = x] PROVE  g \in [Request -> S]
    BY <2>2
  <2>3. QED
    BY <1>0, <2>1, <2>2
<1>1. Seq(SoundEntry) \subseteq Seq(T)
  BY SeqOfMore
<1>2. catalogue' \in Seq(T)
  BY <1>1 DEF AllSound
<1>3. view' \in [Request -> Seq(T)]
  <2>1. view \in [Request -> Seq(T)]
    BY <1>1 DEF AllSound
  <2>2. QED
    BY <1>0, <2>1
<1>4. chain' \in [Request -> Seq(T)]
  <2>1. chain \in [Request -> Seq(T)]
    BY <1>1 DEF AllSound
  <2>2. QED
    BY <1>0, <2>1
<1>5. entry' \in [Request -> T \cup {Missing}]
  <2>1. entry \in [Request -> T \cup {Missing}]
    BY DEF AllSound
  <2>2. QED
    BY <1>0, <2>1
<1>6. QED
  BY <1>2, <1>3, <1>4, <1>5 DEF AllSound

\* Nothing is claimed of the entry of a backup that has not succeeded.
LEMMA UnfinishedIsSound == ASSUME NEW e \in Entry, ~e.ok PROVE e \in SoundEntry'
BY DEF SoundEntry

\* The entry of a request that starts claims nothing.
LEMMA StartSound ==
  ASSUME AllPlaced, AllSound, SoundEntry \subseteq SoundEntry', NEW r \in Request, Start(r)
  PROVE  AllSound'
<1>1. UNCHANGED <<catalogue, view, chain>>
  BY DEF Start, StartFull, StartIncremental, StartRestore, StartList, StartCleanup, restoring
<1>2. ASSUME NEW i \in Id, NEW p \in Id
      PROVE  Blank(i) \in SoundEntry' /\ [Blank(i) EXCEPT !.parent = p] \in SoundEntry'
  <2>1. Blank(i) \in Entry /\ ~Blank(i).ok
    BY BlankIsEntry DEF Blank
  <2>2. PICK e : e = [Blank(i) EXCEPT !.parent = p]
    OBVIOUS
  <2>3. e \in Entry /\ ~e.ok
    BY <2>1, <2>2 DEF Entry
  <2>4. QED
    BY <2>1, <2>2, <2>3, UnfinishedIsSound
<1>3. entry' = entry \/ \E e \in SoundEntry' : entry' = [entry EXCEPT ![r] = e]
  <2>1. CASE StartFull(r)
    BY <1>2, <2>1 DEF StartFull
  <2>2. CASE StartIncremental(r)
    BY <1>2, <2>2 DEF StartIncremental
  <2>3. CASE StartRestore(r)
    BY <1>2, <2>3 DEF StartRestore
  <2>4. CASE StartList(r) \/ StartCleanup(r)
    BY <2>4 DEF StartList, StartCleanup
  <2>5. QED
    BY <2>1, <2>2, <2>3, <2>4 DEF Start
<1>4. PICK T : T = SoundEntry'
  OBVIOUS
<1>5. QED
  BY <1>1, <1>3, <1>4, MoveSound

\* What a dump leaves: the archive holds the events the entry names.
LEMMA DumpedIsSound ==
  ASSUME AllPlaced, NEW r \in Request, DumpEnds(r)
  PROVE  \E e \in SoundEntry' : entry' = [entry EXCEPT ![r] = e]
<1> PICK e : e = [entry[r] EXCEPT !.sum = Dumped(r), !.ok = TRUE]
  OBVIOUS
<1>1. /\ entry[r] \in Entry /\ op[r] \in {"full", "incremental"}
      /\ op[r] = "full" => entry[r].parent = NoId
  BY DEF AllPlaced, Placed, DumpEnds, Backups, Undumped
<1>2. Dumped(r) \in Archive /\ Dumped(r).hi = entry[r].to /\ ~Dumped(r).sealed
      /\ Dumped(r).by = r /\ (op[r] # "full" => Dumped(r).lo = entry[r].from)
  BY <1>1, CatalogueAssumption DEF Dumped, Archive, Entry, Position
<1>3. /\ e \in Entry /\ e.sum = Dumped(r) /\ e.to = entry[r].to /\ e.from = entry[r].from
      /\ e.parent = entry[r].parent
  BY <1>1, <1>2 DEF Entry
<1>4. pc'[r] \in Past
  BY DEF DumpEnds, Goto, AllPlaced, TypeOK, Past
<1>5. e \in SoundEntry'
  BY <1>1, <1>2, <1>3, <1>4 DEF SoundEntry
<1>6. entry' = [entry EXCEPT ![r] = e]
  BY DEF DumpEnds, AllPlaced, TypeOK
<1>7. QED
  BY <1>5, <1>6

\* A request that has no entry is told from one that has.
LEMMA MissingIsNoEntry == Missing \notin Entry
<1>1. ASSUME NEW e \in Entry PROVE "id" \in DOMAIN e
  BY <1>1 DEF Entry
<1>2. "id" \notin DOMAIN Missing
  BY DEF Missing
<1>3. QED
  BY <1>1, <1>2

\* A backup fills in, completes, reads and saves sound entries only.
LEMMA BackupSound ==
  ASSUME AllPlaced, AllSound, SoundEntry \subseteq SoundEntry', NEW r \in Request, Backup(r)
  PROVE  AllSound'
<1> USE DEF restoring
<1> TypeOK /\ Placed(r)
  BY DEF AllPlaced
<1> PICK T : T = SoundEntry'
  OBVIOUS
<1>1. catalogue \in Seq(T) /\ view[r] \in Seq(T) /\ << >> \in Seq(T)
  BY SeqOfMore DEF AllSound
<1>2. CASE UNCHANGED <<catalogue, entry, view, chain>>
  BY <1>2, MoveSound
<1>3. CASE ReadPosition(r) \/ Seal(r)
  BY <1>2, <1>3 DEF ReadPosition, Seal
<1>4. CASE PickReads(r) \/ SaveReads(r)
  BY <1>1, <1>4, MoveSound DEF PickReads, SaveReads
<1>5. CASE SaveTruncates(r)
  BY <1>1, <1>5, MoveSound DEF SaveTruncates
<1>6. CASE Pick(r) \/ ReadParent(r) \/ ReadSpan(r) \/ DumpStarts(r) \/ DumpFails(r)
  <2>1. /\ UNCHANGED <<catalogue, chain>>
        /\ view' = view \/ view' = [view EXCEPT ![r] = << >>]
    BY <1>6 DEF Pick, ReadParent, ReadSpan, DumpStarts, DumpFails
  <2>2. \E e \in T : entry' = [entry EXCEPT ![r] = e]
    BY <1>6, PreparedEntry, UnfinishedIsSound
  <2>3. QED
    BY <1>1, <2>1, <2>2, MoveSound
<1>7. CASE DumpEnds(r)
  <2>1. UNCHANGED <<catalogue, chain, view>>
    BY <1>7 DEF DumpEnds
  <2>2. QED
    BY <1>7, <2>1, DumpedIsSound, MoveSound
<1>8. CASE SaveEnds(r)
  <2>1. entry[r] \in T
    <3>1. entry[r] \in Entry /\ entry[r] \in SoundEntry \cup {Missing}
      BY <1>8 DEF SaveEnds, Placed, Backups, AllSound
    <3>2. QED
      BY <3>1, MissingIsNoEntry
  <2>2. Saved(view[r], entry[r]) \in Seq(T)
    BY <1>1, <2>1, SavedIsList
  <2>3. catalogue' \in Seq(T)
    BY <1>8, <2>2, WrittenIsList DEF SaveEnds
  <2>4. QED
    BY <1>1, <1>8, <2>3, MoveSound DEF SaveEnds, Forget
<1>9. QED
  BY <1>3, <1>4, <1>5, <1>6, <1>7, <1>8 DEF Backup

\* Every step keeps the entries sound, wherever they are kept.
LEMMA NextSound ==
  ASSUME AllPlaced, AllSound, [Next]_vars PROVE AllSound'
<1> USE DEF restoring
<1> TypeOK
  BY DEF AllPlaced
<1> PICK T : T = SoundEntry'
  OBVIOUS
<1>1. SoundEntry \subseteq T /\ << >> \in Seq(T)
  BY SoundStays
<1>2. catalogue \in Seq(T) /\ \A r \in Request : view[r] \in Seq(T)
  BY <1>1, SeqOfMore DEF AllSound
<1>3. ASSUME UNCHANGED <<catalogue, entry, view, chain>> PROVE AllSound'
  <2>1. Seq(SoundEntry) \subseteq Seq(T)
    BY <1>1, SeqOfMore
  <2>2. QED
    BY <1>1, <1>3, <2>1 DEF AllSound
<1>4. CASE Crash
  <2>1. Seq(SoundEntry) \subseteq Seq(T)
    BY <1>1, SeqOfMore
  <2>2. view' \in [Request -> Seq(T)] /\ entry' \in [Request -> T \cup {Missing}]
    BY <1>1, <1>4 DEF Crash
  <2>3. catalogue' \in Seq(T) /\ chain' \in [Request -> Seq(T)]
    BY <1>4, <2>1 DEF Crash, AllSound
  <2>4. QED
    BY <2>2, <2>3 DEF AllSound
<1>5. ASSUME NEW r \in Request, GiveUp(r) PROVE AllSound'
  <2>1. UNCHANGED <<catalogue, view, chain>>
    BY <1>5 DEF GiveUp
  <2>2. op[r] = "incremental" /\ pc[r] = "save"
           => Failing(entry[r]) \in Entry /\ ~Failing(entry[r]).ok
    BY DEF AllPlaced, Placed, Backups, Failing, Entry
  <2>3. entry' = entry \/ \E e \in T : entry' = [entry EXCEPT ![r] = e]
    BY <1>5, <2>2, UnfinishedIsSound DEF GiveUp
  <2>4. QED
    BY <1>1, <2>1, <2>3, MoveSound
<1>6. ASSUME NEW r \in Request, Restore(r) PROVE AllSound'
  <2>1. UNCHANGED <<catalogue, view, entry>>
    BY <1>6 DEF Restore, CheckChain, ExcludeRestores, ResolveChain, VerifyNext, ApplyNext,
       ApplyEnds
  <2>2. \A c \in Climbs(catalogue, entry[r].id) : c \in Seq(T)
    BY <1>2, ClimbsAreChains
  <2>3. chain' = chain \/ \E c \in Seq(T) : chain' = [chain EXCEPT ![r] = c]
    <3>1. CASE ResolveChain(r)
      BY <2>2, <3>1 DEF ResolveChain
    <3>2. CASE ~ResolveChain(r)
      BY <1>6, <3>2 DEF Restore, CheckChain, ExcludeRestores, VerifyNext, ApplyNext,
         ApplyEnds
    <3>3. QED
      BY <3>1, <3>2
  <2>4. QED
    BY <1>1, <2>1, <2>3, MoveSound
<1>7. ASSUME NEW r \in Request, Housekeeping(r) PROVE AllSound'
  <2>1. CASE ListEnds(r) \/ CleanupDeletes(r)
    BY <1>3, <2>1 DEF ListEnds, CleanupDeletes
  <2>2. CASE CleanupReads(r)
    BY <1>1, <1>2, <2>2, MoveSound DEF CleanupReads
  <2>3. CASE CleanupTruncates(r)
    BY <1>1, <2>3, MoveSound DEF CleanupTruncates
  <2>4. CASE CleanupEnds(r)
    <3>1. SubSeq(view[r], at[r] + 1, Len(view[r])) \in Seq(T)
      <4>1. view[r] \in Seq(T) /\ at[r] \in Nat
        BY <1>2 DEF TypeOK
      <4>2. QED
        BY <4>1
    <3>2. catalogue' \in Seq(T)
      BY <2>4, <3>1, WrittenIsList DEF CleanupEnds
    <3>3. QED
      BY <1>1, <2>4, <3>2, MoveSound DEF CleanupEnds, Forget
  <2>5. QED
    BY <1>7, <2>1, <2>2, <2>3, <2>4 DEF Housekeeping
<1>8. ASSUME NEW r \in Request, Acquire(r) PROVE AllSound'
  BY <1>3, <1>8 DEF Acquire
<1>9. CASE Server \/ UNCHANGED vars
  BY <1>3, <1>9 DEF Server, vars
<1>10. QED
  BY <1>1, <1>4, <1>5, <1>6, <1>7, <1>8, <1>9, StartSound, BackupSound DEF Next, Step

-----------------------------------------------------------------------------
(* Restores.                                                               *)

\* What a step does to the files never brings back the archive of a completed backup: a
\* file that holds it after the step held it before.
LEMMA ArchivesFade ==
  ASSUME AllPlaced, [Next]_vars, NEW e \in SoundEntry, e.ok, file'[e.id] = e.sum
  PROVE  file[e.id] = e.sum
<1> TypeOK /\ \A r \in Request : Placed(r)
  BY DEF AllPlaced
<1>1. /\ e.id \in Id /\ e.sum \in Archive /\ ~e.sum.sealed
      /\ e.sum.by \in Request => pc[e.sum.by] \in Past
  BY DEF SoundEntry, Entry
<1>2. e.sum # Torn /\ e.sum # Missing
  BY <1>1 DEF Archive, Torn, Missing
<1>3. CASE UNCHANGED file
  BY <1>3
<1>4. \A r \in Request : pc[r] \in Backups => entry[r].id \in Id
  BY DEF Placed, Entry
<1>5. ASSUME NEW r \in Request, DumpStarts(r) PROVE file[e.id] = e.sum
  BY <1>1, <1>2, <1>4, <1>5 DEF DumpStarts, Backups, Undumped, TypeOK
<1>6. ASSUME NEW r \in Request, DumpEnds(r) PROVE file[e.id] = e.sum
  <2>1. pc[r] = "dumping" /\ pc[r] \notin Past
    BY <1>6 DEF DumpEnds, Past
  <2>2. Dumped(r).by = r
    BY DEF Dumped
  <2>3. e.sum # Dumped(r)
    BY <1>1, <2>1, <2>2
  <2>4. QED
    BY <1>1, <1>2, <1>4, <1>6, <2>1, <2>3 DEF DumpEnds, Backups, Undumped, TypeOK
<1>7. ASSUME NEW r \in Request, Seal(r) PROVE file[e.id] = e.sum
  <2>1. \A f \in Archive : [f EXCEPT !.sealed = TRUE].sealed
    BY DEF Archive
  <2>2. CASE e.id = entry[r].id
    <3>1. file'[e.id] = IF file[e.id].state = "complete"
                        THEN [file[e.id] EXCEPT !.sealed = TRUE] ELSE file[e.id]
      BY <1>1, <1>7, <2>2 DEF Seal, TypeOK
    <3>2. file[e.id] \in Archive \cup {Missing, Torn}
      BY <1>1 DEF TypeOK
    <3>3. file[e.id].state = "complete" => file[e.id] \in Archive
      BY <3>2 DEF Missing, Torn
    <3>4. QED
      BY <1>1, <2>1, <3>1, <3>3
  <2>3. CASE e.id # entry[r].id
    BY <1>1, <1>7, <2>3 DEF Seal, TypeOK
  <2>4. QED
    BY <2>2, <2>3
<1>8. ASSUME NEW r \in Request, SaveEnds(r) PROVE file[e.id] = e.sum
  BY <1>1, <1>2, <1>4, <1>8 DEF SaveEnds, Backups, TypeOK
<1>9. ASSUME NEW r \in Request, CleanupDeletes(r) PROVE file[e.id] = e.sum
  BY <1>1, <1>2, <1>9 DEF CleanupDeletes, TypeOK
<1>10. ASSUME NEW r \in Request,
              \/ Start(r) \/ Acquire(r) \/ GiveUp(r) \/ Restore(r)
              \/ ReadPosition(r) \/ PickReads(r) \/ Pick(r) \/ ReadParent(r) \/ ReadSpan(r)
              \/ DumpFails(r) \/ SaveReads(r) \/ SaveTruncates(r)
              \/ ListEnds(r) \/ CleanupReads(r) \/ CleanupTruncates(r) \/ CleanupEnds(r)
       PROVE  UNCHANGED file
  BY <1>10 DEF Start, StartFull, StartIncremental, StartRestore, StartList, StartCleanup,
     Acquire, GiveUp, Restore, CheckChain, ExcludeRestores, ResolveChain, VerifyNext, ApplyNext,
     ApplyEnds, ReadPosition, PickReads, Pick, ReadParent, ReadSpan, DumpFails, SaveReads,
     SaveTruncates, ListEnds, CleanupReads, CleanupTruncates, CleanupEnds
<1>11. CASE Server \/ Crash \/ UNCHANGED vars
  BY <1>3, <1>11 DEF Server, Crash, vars
<1>12. QED
  BY <1>3, <1>5, <1>6, <1>7, <1>8, <1>9, <1>10, <1>11
     DEF Next, Step, Backup, Housekeeping

Continuous(r, k) ==
  \A n \in 1 .. k : /\ chain[r][n].ok
                    /\ n > 1 => chain[r][n].from = chain[r][n - 1].to

Verified(r) == \A n \in 1 .. at[r] : file[chain[r][n].id] = chain[r][n].sum
Restored(r) == op[r] = "restore" /\ pc[r] = "done"

\* The chain a restore follows: what it has verified is continuous, and what it has applied
\* reaches the end of its last element, if the archives are still those verified.
Chained(r) ==
  /\ pc[r] \in {"verify", "apply"} \/ Restored(r) =>
       /\ Len(chain[r]) >= 1
       /\ \A n \in 2 .. Len(chain[r]) : chain[r][n].parent # NoId
  /\ pc[r] = "verify" => at[r] < Len(chain[r]) /\ Continuous(r, at[r])
  /\ pc[r] = "apply" \/ Restored(r) =>
       /\ at[r] <= Len(chain[r]) /\ Continuous(r, Len(chain[r]))
       /\ at[r] > 0 /\ Verified(r) => applied[r] = chain[r][at[r]].to
  /\ Restored(r) => at[r] > 0

RestoreInv == PlacedInv /\ AllSound /\ \A r \in Request : Chained(r)

\* The restores that a step leaves where they were keep what they have.
LEMMA StillChained ==
  ASSUME RestoreInv, [Next]_vars, NEW s \in Request,
         pc'[s] = pc[s], op'[s] = op[s], chain'[s] = chain[s], at'[s] = at[s],
         applied'[s] = applied[s]
  PROVE  Chained(s)'
<1>1. at[s] \in Nat /\ chain[s] \in Seq(SoundEntry) /\ Chained(s) /\ AllPlaced
  BY DEF RestoreInv, PlacedInv, AllPlaced, TypeOK, AllSound
<1>2. CASE ~ (pc[s] = "apply" \/ Restored(s))
  BY <1>1, <1>2 DEF Chained, Restored, Continuous
<1>3. CASE pc[s] = "apply" \/ Restored(s)
  <2>1. at[s] <= Len(chain[s]) /\ Continuous(s, Len(chain[s]))
    BY <1>1, <1>3 DEF Chained
  <2>2. ASSUME Verified(s)' PROVE Verified(s)
    <3> SUFFICES ASSUME NEW n \in 1 .. at[s]
                 PROVE  file[chain[s][n].id] = chain[s][n].sum
      BY DEF Verified
    <3>1. n \in 1 .. Len(chain[s]) /\ chain[s][n] \in SoundEntry /\ chain[s][n].ok
      BY <1>1, <2>1 DEF Continuous
    <3>2. file'[chain[s][n].id] = chain[s][n].sum
      BY <2>2 DEF Verified
    <3>3. QED
      BY <1>1, <3>1, <3>2, ArchivesFade
  <2>3. QED
    BY <1>1, <1>3, <2>2 DEF Chained, Restored, Continuous
<1>4. QED
  BY <1>2, <1>3

\* A request that is at no statement of a restore has no chain to keep.
LEMMA ElsewhereChained ==
  ASSUME NEW r \in Request, pc'[r] \notin {"verify", "apply"},
         pc'[r] # "done" \/ op'[r] # "restore"
  PROVE  Chained(r)'
BY DEF Chained, Restored

\* A restore verifies its chain element by element, and applies what it has verified.
LEMMA RestoreChained ==
  ASSUME RestoreInv, [Next]_vars, NEW r \in Request, Restore(r)
  PROVE  Chained(r)'
<1> USE DEF restoring, locks, Goto, EndRestore
<1>0. /\ AllPlaced /\ TypeOK /\ Placed(r) /\ Chained(r) /\ AllSound
      /\ chain[r] \in Seq(SoundEntry) /\ at[r] \in Nat /\ Len(chain[r]) \in Nat
  BY DEF RestoreInv, PlacedInv, AllPlaced, TypeOK, AllSound
<1>1. CASE CheckChain(r) \/ ExcludeRestores(r)
  <2>1. pc'[r] \in {"exclude", "chain", "failed"}
    BY <1>0, <1>1 DEF CheckChain, ExcludeRestores, TypeOK
  <2>2. QED
    BY <2>1, ElsewhereChained
<1>2. CASE ResolveChain(r)
  <2>1. CASE pc' = [pc EXCEPT ![r] = "failed"]
    <3>1. pc'[r] = "failed"
      BY <1>0, <2>1 DEF TypeOK
    <3>2. QED
      BY <3>1, ElsewhereChained
  <2>2. CASE pc' # [pc EXCEPT ![r] = "failed"]
    <3>1. PICK c \in Climbs(catalogue, entry[r].id) : chain' = [chain EXCEPT ![r] = c]
      BY <1>2, <2>2 DEF ResolveChain
    <3>2. /\ c \in Seq(Entry) /\ Len(c) \in Nat /\ Len(c) >= 1
          /\ \A n \in 2 .. Len(c) : c[n].parent = c[n - 1].id
      BY <1>0, <3>1, ClimbsAreChains DEF TypeOK
    <3>3. ASSUME NEW n \in 2 .. Len(c) PROVE c[n].parent # NoId
      <4>1. n - 1 \in 1 .. Len(c) /\ c[n].parent = c[n - 1].id
        BY <3>2
      <4>2. c[n - 1] \in Entry
        BY <3>2, <4>1
      <4>3. QED
        BY <4>1, <4>2, CatalogueAssumption DEF Entry
    <3>4. chain'[r] = c /\ pc'[r] = "verify" /\ at'[r] = 0
      BY <1>0, <1>2, <2>2, <3>1 DEF ResolveChain, TypeOK, Placed
    <3>5. Continuous(r, 0)'
      BY DEF Continuous
    <3>6. QED
      BY <3>2, <3>3, <3>4, <3>5 DEF Chained, Restored
  <2>3. QED
    BY <2>1, <2>2
<1>3. CASE VerifyNext(r)
  <2>1. /\ at[r] < Len(chain[r]) /\ Continuous(r, at[r]) /\ Len(chain[r]) >= 1
        /\ \A n \in 2 .. Len(chain[r]) : chain[r][n].parent # NoId
        /\ chain' = chain
    BY <1>0, <1>3 DEF VerifyNext, Chained
  <2>2. CASE ~Acceptable(r, at[r] + 1)
    <3>1. pc'[r] = "failed"
      BY <1>0, <1>3, <2>2 DEF VerifyNext, TypeOK
    <3>2. QED
      BY <3>1, ElsewhereChained
  <2>3. CASE Acceptable(r, at[r] + 1)
    <3>1. Continuous(r, at[r] + 1)
      <4> SUFFICES ASSUME NEW n \in 1 .. at[r] + 1
                   PROVE  /\ chain[r][n].ok
                          /\ n > 1 => chain[r][n].from = chain[r][n - 1].to
        BY DEF Continuous
      <4>1. CASE n = at[r] + 1
        BY <2>3, <4>1 DEF Acceptable
      <4>2. CASE n # at[r] + 1
        BY <1>0, <2>1, <4>2 DEF Continuous
      <4>3. QED
        BY <4>1, <4>2
    <3>2. CASE at[r] + 1 = Len(chain[r])
      <4>1. at'[r] = 0 /\ pc'[r] = "apply"
        BY <1>0, <1>3, <2>3, <3>2 DEF VerifyNext, TypeOK
      <4>2. Continuous(r, Len(chain[r]))'
        BY <2>1, <3>1, <3>2 DEF Continuous
      <4>3. QED
        BY <1>0, <2>1, <4>1, <4>2 DEF Chained, Restored
    <3>3. CASE at[r] + 1 # Len(chain[r])
      <4>1. at'[r] = at[r] + 1 /\ pc'[r] = "verify"
        BY <1>0, <1>3, <2>3, <3>3 DEF VerifyNext, TypeOK
      <4>2. Continuous(r, at[r])'
        BY <2>1, <3>1, <4>1 DEF Continuous
      <4>3. QED
        BY <1>0, <2>1, <3>3, <4>1, <4>2 DEF Chained, Restored
    <3>4. QED
      BY <3>2, <3>3
  <2>4. QED
    BY <2>2, <2>3
<1>4. CASE ApplyNext(r)
  <2>0. at[r] + 1 \in 1 .. Len(chain[r]) /\ pc[r] = "apply" /\ op[r] = "restore"
    BY <1>0, <1>4 DEF ApplyNext, Placed, Restores
  <2>1. /\ at[r] < Len(chain[r]) /\ Continuous(r, Len(chain[r])) /\ Len(chain[r]) >= 1
        /\ \A n \in 2 .. Len(chain[r]) : chain[r][n].parent # NoId
        /\ at[r] > 0 /\ Verified(r) => applied[r] = chain[r][at[r]].to
        /\ chain' = chain /\ file' = file
    BY <1>0, <1>4 DEF ApplyNext, Chained
  <2>2. CASE Goto(r, "failed")
    <3>1. pc'[r] = "failed"
      BY <1>0, <2>2 DEF TypeOK
    <3>2. QED
      BY <3>1, ElsewhereChained
  <2>3. CASE ~Goto(r, "failed")
    <3> DEFINE n == at[r] + 1
               e == chain[r][n]
    <3>1. /\ applied' = [applied EXCEPT ![r] = Replayed(@, n, file[e.id])]
          /\ at' = [at EXCEPT ![r] = n] /\ UNCHANGED pc
      BY <1>4, <2>3 DEF ApplyNext
    <3>2. /\ applied'[r] = Replayed(applied[r], n, file[e.id])
          /\ at'[r] = n /\ pc'[r] = "apply"
      BY <1>0, <2>0, <3>1 DEF TypeOK
    <3>3. ASSUME Verified(r)' PROVE applied'[r] = chain'[r][n].to
      <4>1. \A m \in 1 .. n : file[chain[r][m].id] = chain[r][m].sum
        BY <2>1, <3>2, <3>3 DEF Verified
      <4>2. e \in SoundEntry /\ e.ok /\ file[e.id] = e.sum
        BY <1>0, <2>0, <2>1, <4>1 DEF Continuous
      <4>3. /\ e.sum.state # "torn" /\ e.sum.hi = e.to
            /\ e.parent # NoId => e.sum.lo = e.from
        BY <4>2 DEF SoundEntry, Archive
      <4>4. n > 1 => e.sum.lo = applied[r]
        <5> SUFFICES ASSUME n > 1 PROVE e.sum.lo = applied[r]
          OBVIOUS
        <5>1. n \in 2 .. Len(chain[r]) /\ at[r] > 0 /\ n - 1 = at[r]
          BY <1>0, <2>0
        <5>2. e.sum.lo = e.from /\ e.from = chain[r][at[r]].to
          <6>1. e.parent # NoId
            BY <2>1, <5>1
          <6>2. e.from = chain[r][n - 1].to
            BY <2>0, <2>1 DEF Continuous
          <6>3. QED
            BY <4>3, <5>1, <6>1, <6>2
        <5>3. Verified(r)
          BY <1>0, <4>1 DEF Verified
        <5>4. QED
          BY <2>1, <5>1, <5>2, <5>3
      <4>5. QED
        BY <2>1, <3>2, <4>2, <4>3, <4>4 DEF Replayed
    <3>4. Continuous(r, Len(chain[r]))'
      BY <2>1 DEF Continuous
    <3>5. n <= Len(chain[r])
      BY <2>0
    <3> HIDE DEF n, e
    <3>6. QED
      BY <2>1, <3>2, <3>3, <3>4, <3>5 DEF Chained, Restored
  <2>4. QED
    BY <2>2, <2>3
<1>5. CASE ApplyEnds(r)
  <2>1. /\ pc[r] = "apply" /\ at[r] > 0 /\ pc'[r] = "done"
        /\ UNCHANGED <<chain, at, applied, op, file>>
    BY <1>0, <1>5 DEF ApplyEnds, TypeOK
  <2>2. QED
    BY <1>0, <2>1 DEF Chained, Restored, Continuous, Verified
<1>6. QED
  BY <1>1, <1>2, <1>3, <1>4, <1>5 DEF Restore

\* Every step keeps what each restore has verified and applied.
LEMMA NextChained ==
  ASSUME RestoreInv, [Next]_vars PROVE \A s \in Request : Chained(s)'
<1> TypeOK /\ AllPlaced /\ \A r \in Request : Placed(r)
  BY DEF RestoreInv, PlacedInv, AllPlaced
<1> USE DEF restoring
<1>1. CASE UNCHANGED <<pc, op, chain, at, applied>>
  BY <1>1, StillChained
<1>2. CASE Crash
  <2>1. ASSUME NEW s \in Request PROVE Chained(s)'
    <3>1. CASE pc[s] \in Ended \cup {"idle"}
      BY <1>2, <2>1, <3>1, StillChained DEF Crash
    <3>2. CASE pc[s] \notin Ended \cup {"idle"}
      <4>1. pc'[s] = "failed"
        BY <1>2, <2>1, <3>2 DEF Crash
      <4>2. QED
        BY <2>1, <4>1, ElsewhereChained
    <3>3. QED
      BY <3>1, <3>2
  <2>2. QED
    BY <2>1
<1>3. ASSUME NEW r \in Request, Chained(r)',
             \A s \in Request : s # r =>
                /\ pc'[s] = pc[s] /\ op'[s] = op[s] /\ chain'[s] = chain[s]
                /\ at'[s] = at[s] /\ applied'[s] = applied[s]
      PROVE  \A s \in Request : Chained(s)'
  <2>1. ASSUME NEW s \in Request, s # r PROVE Chained(s)'
    BY <1>3, <2>1, StillChained
  <2>2. QED
    BY <1>3, <2>1
<1>4. ASSUME NEW r \in Request, Start(r) PROVE \A s \in Request : Chained(s)'
  <2>1. /\ UNCHANGED <<chain, at, applied>>
        /\ pc'[r] \notin {"verify", "apply", "done"}
        /\ \A s \in Request : s # r => pc'[s] = pc[s] /\ op'[s] = op[s]
    BY <1>4 DEF Start, StartFull, StartIncremental, StartRestore, StartList, StartCleanup,
       Goto, TypeOK
  <2>2. QED
    BY <1>3, <2>1, ElsewhereChained
<1>5. ASSUME NEW r \in Request, GiveUp(r) PROVE \A s \in Request : Chained(s)'
  <2>1. UNCHANGED <<op, chain, at, applied>> /\ (pc' = pc \/ pc' = [pc EXCEPT ![r] = "failed"])
    BY <1>5 DEF GiveUp, Goto
  <2>2. CASE pc' = [pc EXCEPT ![r] = "failed"]
    <3>1. pc'[r] = "failed" /\ \A s \in Request : s # r => pc'[s] = pc[s]
      BY <2>2 DEF TypeOK
    <3>2. QED
      BY <1>3, <2>1, <3>1, ElsewhereChained
  <2>3. QED
    BY <1>1, <2>1, <2>2
<1>6. ASSUME NEW r \in Request, Backup(r) PROVE \A s \in Request : Chained(s)'
  <2>1. UNCHANGED <<op, chain, at, applied>>
    BY <1>6 DEF Backup, ReadPosition, PickReads, Pick, ReadParent, ReadSpan, DumpStarts, DumpEnds,
       DumpFails, Seal, SaveReads, SaveTruncates, SaveEnds
  <2>2. PICK p \in {"dump", "failed", "picked", "parent", "span", "dumping", "seal", "save",
                    "saveWrite", "saving", "done"} : Goto(r, p)
    <3>1. CASE Pick(r)
      BY <3>1 DEF Pick
    <3>2. CASE ~Pick(r)
      BY <1>6, <3>2 DEF Backup, ReadPosition, PickReads, ReadParent, ReadSpan, DumpStarts,
         DumpEnds, DumpFails, Seal, SaveReads, SaveTruncates, SaveEnds
    <3>3. QED
      BY <3>1, <3>2
  <2>3. pc[r] \in Backups
    BY <1>6 DEF Backup, ReadPosition, PickReads, Pick, ReadParent, ReadSpan, DumpStarts, DumpEnds,
       DumpFails, Seal, SaveReads, SaveTruncates, SaveEnds, Backups, Undumped
  <2>4. op[r] # "restore"
    BY <2>3 DEF Placed
  <2>5. pc'[r] = p /\ \A s \in Request : s # r => pc'[s] = pc[s]
    BY <2>2 DEF Goto, TypeOK
  <2>6. Chained(r)'
    BY <2>1, <2>4, <2>5, ElsewhereChained
  <2>7. QED
    BY <1>3, <2>1, <2>5, <2>6
<1>7. ASSUME NEW r \in Request, Restore(r) PROVE \A s \in Request : Chained(s)'
  <2>1. \A s \in Request : s # r =>
                /\ pc'[s] = pc[s] /\ op'[s] = op[s] /\ chain'[s] = chain[s]
                /\ at'[s] = at[s] /\ applied'[s] = applied[s]
    BY <1>7 DEF Restore, CheckChain, ExcludeRestores, ResolveChain, VerifyNext, ApplyNext,
       ApplyEnds, EndRestore, Goto, TypeOK
  <2>2. QED
    BY <1>3, <1>7, <2>1, RestoreChained
<1>8. ASSUME NEW r \in Request, Housekeeping(r) PROVE \A s \in Request : Chained(s)'
  <2>1. UNCHANGED <<op, chain, applied>> /\ op[r] \in {"list", "cleanup"}
    BY <1>8 DEF Housekeeping, ListEnds, CleanupReads, CleanupDeletes, CleanupTruncates,
       CleanupEnds, Placed, Cleanups
  <2>2. pc'[r] \in {"done", "delete", "cleanWrite", "cleaning"}
        /\ \A s \in Request : s # r => pc'[s] = pc[s] /\ at'[s] = at[s]
    BY <1>8 DEF Housekeeping, ListEnds, CleanupReads, CleanupDeletes, CleanupTruncates,
       CleanupEnds, Goto, TypeOK
  <2>3. QED
    BY <1>3, <2>1, <2>2, ElsewhereChained
<1>9. CASE Server \/ UNCHANGED vars \/ \E r \in Request : Acquire(r)
  BY <1>1, <1>9 DEF Server, vars, Acquire
<1>10. QED
  BY <1>2, <1>4, <1>5, <1>6, <1>7, <1>8, <1>9 DEF Next, Step

\* What is known of the requests, the entries and the restores is an inductive invariant.
LEMMA RestoreInvInductive ==
  /\ Init => RestoreInv
  /\ RestoreInv /\ [Next]_vars => RestoreInv'
<1>1. ASSUME Init PROVE RestoreInv
  <2>1. \A r \in Request : Chained(r)
    BY <1>1 DEF Init, Chained, Restored
  <2>2. QED
    BY <1>1, <2>1, PlacedInvInductive, SoundInit DEF RestoreInv
<1>2. ASSUME RestoreInv, [Next]_vars PROVE RestoreInv'
  <2>1. PlacedInv' /\ AllSound'
    BY <1>2, PlacedInvInductive, NextSound DEF RestoreInv, PlacedInv
  <2>2. QED
    BY <1>2, <2>1, NextChained DEF RestoreInv
<1>3. QED
  BY <1>1, <1>2

(* A restore that ends well, and whose archives are still those validateBackupChain has
   accepted, has replayed a full backup and then every event after it, each one once. *)
THEOREM NoGapRestored == Spec => []RestoredWithoutGap
<1>1. ASSUME RestoreInv PROVE RestoredWithoutGap
  BY <1>1 DEF RestoreInv, Chained, Restored, Verified, RestoredWithoutGap
<1>2. QED
  BY <1>1, RestoreInvInductive, PTL DEF Spec
=============================================================================
