--------------------------- MODULE MySQLCatalogue ---------------------------
(***************************************************************************)
(* The MySQL backup service: full and incremental backups, restores and    *)
(* clean-ups that run at once in one process and share a directory of      *)
(* archives, the list metadata.json, the re-entrant file lock and the      *)
(* restore lock.                                                           *)
(*                                                                         *)
(* A position of the server's binary log is a number: the events up to it. *)
(* An archive holds the events lo + 1 .. hi, and names the request that    *)
(* wrote it, so that equal archives are equal bytes and a checksum is the  *)
(* archive itself.                                                         *)
(***************************************************************************)
EXTENDS Naturals, Sequences, FiniteSets

CONSTANTS
    Request,     \* requests to the service
    Id, NoId,    \* backup ids, chosen by the clients: a retried job repeats its id
    Shared,      \* the lock object of the manager singleton
    NoObject,    \* the lock file does not exist
    Stale,       \* the lock file was left by a process that died
    Sealed,      \* the ids of the backups that ask for encryption
    Asks,        \* what each request may ask for
    Earlier,     \* the ids of a chain that was made before
    Before,      \* stands for the requests that made it
    MaxHead,     \* bound on the server's binary log
    MaxCrashes   \* bound on the crashes of the service

ASSUME CatalogueAssumption ==
    /\ NoId \notin Id /\ Before \notin Request
    /\ Shared \notin Request /\ NoObject \notin Request /\ Stale \notin Request
    /\ Shared # NoObject /\ Shared # Stale /\ NoObject # Stale
    /\ Sealed \subseteq Id
    /\ Asks \in [Request -> SUBSET {"full", "incremental", "restore", "list", "cleanup"}]
    /\ Earlier \in Seq(Id) /\ Len(Earlier) <= MaxHead + 1
    /\ \A m, n \in DOMAIN Earlier : Earlier[m] = Earlier[n] => m = n
    /\ MaxHead \in Nat /\ MaxCrashes \in Nat

VARIABLES
    head,         \* the server's current position
    low,          \* the server's oldest position not purged
    catalogue,    \* the entries that metadata.json can be read as
    file,         \* the archive of each backup id: Missing, Torn or an archive
    lockOwner,    \* the lock object whose file exists
    refs,         \* its refCount
    restoreLock,  \* .restore.lock exists
    op,           \* what each request asks for
    pc,           \* the statement each request is at
    crit,         \* where it is in fileLock.acquire(): "out", "retry" or "in"
    entry,        \* the entry a backup prepares; for a restore, its target
    view,         \* the entries it has read
    chain,        \* the chain a restore has resolved
    at,           \* the elements of the chain it has verified or applied
    applied,      \* the position its target database has reached, or Bad
    crashes

vars == <<head, low, catalogue, file, lockOwner, refs, restoreLock, op, pc,
          crit, entry, view, chain, at, applied, crashes>>
server == <<head, low>>
locks == <<lockOwner, refs, crit>>
restoring == <<chain, at, applied, restoreLock>>
-----------------------------------------------------------------------------
Missing == [state |-> "missing"]
Torn == [state |-> "torn"]
Bad == MaxHead + 1
Position == 0 .. MaxHead

Archive == [state : {"complete"}, lo : Position, hi : Position, by : Request \cup {Before},
            sealed : BOOLEAN]
Entry == [id : Id, parent : Id \cup {NoId}, level : Nat, from : Position,
          to : Position, sum : Archive \cup {Missing}, ok : BOOLEAN]

Blank(id) == [id |-> id, parent |-> NoId, level |-> 0, from |-> 0, to |-> 0,
              sum |-> Missing, ok |-> FALSE]

Has(list, id) == \E i \in DOMAIN list : list[i].id = id
Find(list, id) == list[CHOOSE i \in DOMAIN list : list[i].id = id]
Fulls(list) == {n \in DOMAIN list : list[n].parent = NoId /\ list[n].ok}

\* getBackupChain: the climb from the target, until an entry has no parent.  It throws
\* when a parent is missing or met twice: then no such chain ends at the target.
Climbs(list, id) ==
    LET entries == {list[n] : n \in DOMAIN list}
    IN  {c \in UNION {[1 .. k -> entries] : k \in DOMAIN list} :
            /\ c[1].parent = NoId
            /\ \A n \in 2 .. Len(c) : c[n].parent = c[n - 1].id
            /\ c[Len(c)].id = id}

\* The chain made before: a full backup, and one event in each increment.
Made(n) ==
    LET start == IF n = 1 THEN 0 ELSE n - 2
    IN  [Blank(Earlier[n]) EXCEPT
            !.parent = IF n = 1 THEN NoId ELSE Earlier[n - 1], !.level = n - 1,
            !.from = start, !.to = n - 1, !.ok = TRUE,
            !.sum = [state |-> "complete", lo |-> start, hi |-> n - 1, by |-> Before,
                     sealed |-> FALSE]]

\* saveMetadata: the entry replaces the one with its id and becomes the last.
Saved(list, e) ==
    IF Has(list, e.id)
    THEN LET n == CHOOSE i \in DOMAIN list : list[i].id = e.id
         IN  SubSeq(list, 1, n - 1) \o SubSeq(list, n + 1, Len(list)) \o <<e>>
    ELSE Append(list, e)

\* Mutant of Object: a clean-up takes the singleton's manager.
OneObject(r) == Shared

(* Every request has the singleton's lock, but those that list or clean up make a
   manager, and so a lock, of their own *)
Object(r) == IF op[r] \in {"list", "cleanup"} THEN r ELSE Shared

Inside(o) == {r \in Request : crit[r] = "in" /\ Object(r) = o}

-----------------------------------------------------------------------------
TypeOK ==
    /\ head \in Position /\ low \in Position
    /\ catalogue \in Seq(Entry)
    /\ file \in [Id -> Archive \cup {Missing, Torn}]
    /\ lockOwner \in Request \cup {Shared, NoObject, Stale}
    /\ refs \in Nat
    /\ restoreLock \in BOOLEAN
    /\ op \in [Request -> {"none", "full", "incremental", "restore", "list", "cleanup"}]
    /\ pc \in [Request -> {"idle", "position", "dump", "dumping", "seal", "pick", "picked",
                           "parent", "span", "save", "saveWrite", "saving", "list",
                           "check", "exclude", "chain", "verify", "apply", "clean",
                           "delete", "cleanWrite", "cleaning", "done", "failed"}]
    /\ crit \in [Request -> {"out", "retry", "in"}]
    /\ entry \in [Request -> Entry \cup {Missing}]
    /\ view \in [Request -> Seq(Entry)]
    /\ chain \in [Request -> Seq(Entry)]
    /\ at \in [Request -> Nat]
    /\ applied \in [Request -> Position \cup {Bad}]
    /\ crashes \in 0 .. MaxCrashes

Init ==
    /\ head = IF Earlier = <<>> THEN 0 ELSE Len(Earlier) - 1
    /\ low = 0
    /\ catalogue = [n \in DOMAIN Earlier |-> Made(n)]
    /\ file = [i \in Id |-> IF \E n \in DOMAIN Earlier : Earlier[n] = i
                            THEN Made(CHOOSE n \in DOMAIN Earlier : Earlier[n] = i).sum
                            ELSE Missing]
    /\ lockOwner = NoObject /\ refs = 0
    /\ restoreLock = FALSE
    /\ op = [r \in Request |-> "none"]
    /\ pc = [r \in Request |-> "idle"]
    /\ crit = [r \in Request |-> "out"]
    /\ entry = [r \in Request |-> Missing]
    /\ view = [r \in Request |-> <<>>]
    /\ chain = [r \in Request |-> <<>>]
    /\ at = [r \in Request |-> 0]
    /\ applied = [r \in Request |-> 0]
    /\ crashes = 0
-----------------------------------------------------------------------------
(* The database server.                                                    *)

Mutate == head < MaxHead /\ head' = head + 1 /\ UNCHANGED low
Purge == low < head /\ low' = head /\ UNCHANGED head

Server ==
    /\ Mutate \/ Purge
    /\ UNCHANGED <<catalogue, file, locks, restoring, op, pc, entry, view, crashes>>
-----------------------------------------------------------------------------
(* The re-entrant file lock.                                               *)

Goto(r, p) == pc' = [pc EXCEPT ![r] = p]

NeedsLock(r) ==
    pc[r] \in {"pick", "list", "check", "chain", "clean", "save"} /\ crit[r] # "in"

\* acquire(): a first try enters again when its object already has the file
\* open; a try after a delay can only create the file.
Acquire(r) ==
    /\ NeedsLock(r)
    /\ \/ /\ crit[r] = "out" /\ lockOwner = Object(r)
          /\ refs' = refs + 1
          /\ crit' = [crit EXCEPT ![r] = "in"]
          /\ UNCHANGED lockOwner
       \/ /\ lockOwner = NoObject
          /\ lockOwner' = Object(r) /\ refs' = 1
          /\ crit' = [crit EXCEPT ![r] = "in"]
       \/ /\ crit[r] = "out" /\ lockOwner \notin {NoObject, Object(r)}
          /\ crit' = [crit EXCEPT ![r] = "retry"]
          /\ UNCHANGED <<lockOwner, refs>>
    /\ UNCHANGED <<server, catalogue, file, restoring, op, pc, entry, view, crashes>>

\* Mutant of Release: the first user that leaves removes the file.
ReleaseAtOnce(r) ==
    /\ refs' = refs - 1
    /\ lockOwner' = NoObject
    /\ crit' = [crit EXCEPT ![r] = "out"]

\* release(): the last user removes the file.
Release(r) ==
    /\ refs' = refs - 1
    /\ lockOwner' = IF refs = 1 THEN NoObject ELSE lockOwner
    /\ crit' = [crit EXCEPT ![r] = "out"]

\* What a failed save of an incremental backup's entry leads to: the catch
\* block saves a failed entry; its own exception ends the request.
Failing(e) == [e EXCEPT !.ok = FALSE, !.sum = Missing]

\* Mutant of GiveUp: a lock file that nobody removes is waited for.
GiveUpOnLive(r) ==
    /\ NeedsLock(r) /\ crit[r] = "retry" /\ lockOwner \notin {NoObject, Stale}
    /\ crit' = [crit EXCEPT ![r] = "out"]
    /\ Goto(r, "failed")
    /\ restoreLock' = IF pc[r] = "chain" THEN FALSE ELSE restoreLock
    /\ UNCHANGED <<server, catalogue, file, lockOwner, refs, op, entry, view, chain, at,
                   applied, crashes>>

\* The fifth try fails and acquire() throws.
GiveUp(r) ==
    /\ NeedsLock(r) /\ crit[r] = "retry" /\ lockOwner # NoObject
    /\ crit' = [crit EXCEPT ![r] = "out"]
    /\ IF op[r] = "incremental" /\ pc[r] = "save" /\ entry[r].ok
       THEN entry' = [entry EXCEPT ![r] = Failing(@)] /\ UNCHANGED pc
       ELSE Goto(r, "failed") /\ UNCHANGED entry
    /\ restoreLock' = IF pc[r] = "chain" THEN FALSE ELSE restoreLock
    /\ UNCHANGED <<server, catalogue, file, lockOwner, refs, op, view, chain, at,
                   applied, crashes>>

-----------------------------------------------------------------------------
(* POST /backup with backupType full: createFullBackup.                    *)

StartFull(r) ==
    /\ pc[r] = "idle" /\ "full" \in Asks[r]
    /\ op' = [op EXCEPT ![r] = "full"]
    /\ \E i \in Id : entry' = [entry EXCEPT ![r] = Blank(i)]
    /\ Goto(r, "position")
    /\ UNCHANGED <<server, catalogue, file, locks, restoring, view, crashes>>

\* validatePrivileges and getCurrentBinlogPosition.
ReadPosition(r) ==
    /\ pc[r] = "position"
    /\ Goto(r, "dump") \/ Goto(r, "failed")
    /\ UNCHANGED <<server, catalogue, file, locks, restoring, op, entry, view, crashes>>

\* mysqldump opens its snapshot, whose position stands in the dump's header;
\* mysqlbinlog reads from the parent's end to the position read before.
DumpStarts(r) ==
    /\ pc[r] = "dump"
    /\ file' = [file EXCEPT ![entry[r].id] = Torn]
    /\ entry' = IF op[r] = "full"
                THEN [entry EXCEPT ![r].from = head, ![r].to = head]
                ELSE entry
    /\ Goto(r, "dumping")
    /\ UNCHANGED <<server, catalogue, locks, restoring, op, view, crashes>>

Dumped(r) ==
    [state |-> "complete", lo |-> IF op[r] = "full" THEN 0 ELSE entry[r].from,
     hi |-> entry[r].to, by |-> r, sealed |-> FALSE]

\* The locals of a request that has ended.
Forget(r) == view' = [view EXCEPT ![r] = <<>>] /\ entry' = [entry EXCEPT ![r] = Missing]

AnotherWrites(r, p) == \E s \in Request \ {r} : pc[s] = p /\ entry[s].id = entry[r].id

\* A second dump into the same file garbles it; a purged log ends mysqlbinlog.
DumpEnds(r) ==
    /\ pc[r] = "dumping"
    /\ op[r] = "incremental" => low <= entry[r].from
    /\ file' = [file EXCEPT ![entry[r].id] =
                   IF AnotherWrites(r, "dumping") THEN Torn ELSE Dumped(r)]
    /\ entry' = [entry EXCEPT ![r].sum = Dumped(r), ![r].ok = TRUE]
    /\ Goto(r, IF entry[r].id \in Sealed THEN "seal" ELSE "save")
    /\ UNCHANGED <<server, catalogue, locks, restoring, op, view, crashes>>

\* A failed or timed-out dump leaves its partial file; createIncrementalBackup
\* records the failure.
DumpFails(r) ==
    /\ pc[r] = "dumping"
    /\ IF op[r] = "full" THEN Goto(r, "failed") /\ UNCHANGED entry
       ELSE Goto(r, "save") /\ entry' = [entry EXCEPT ![r] = Failing(@)]
    /\ UNCHANGED <<server, catalogue, file, locks, restoring, op, view, crashes>>

\* encryptBackupFile: the archive is replaced by its ciphertext, the checksum
\* stays that of the plain archive.
Seal(r) ==
    /\ pc[r] = "seal"
    /\ file' = [file EXCEPT ![entry[r].id] =
                   IF @.state = "complete" THEN [@ EXCEPT !.sealed = TRUE] ELSE @]
    /\ Goto(r, "save")
    /\ UNCHANGED <<server, catalogue, locks, restoring, op, entry, view, crashes>>

\* saveMetadata: read, truncate, write. Meanwhile the file does not parse, and
\* its readers take that for an empty list.
SaveReads(r) ==
    /\ pc[r] = "save" /\ crit[r] = "in"
    /\ view' = [view EXCEPT ![r] = catalogue]
    /\ Goto(r, "saveWrite")
    /\ UNCHANGED <<server, catalogue, file, locks, restoring, op, entry, crashes>>

SaveTruncates(r) ==
    /\ pc[r] = "saveWrite"
    /\ catalogue' = <<>>
    /\ Goto(r, "saving")
    /\ UNCHANGED <<server, file, locks, restoring, op, entry, view, crashes>>

\* Two lists written at once may leave a mixture that does not parse.
Written(r, list) ==
    \/ catalogue' = list
    \/ /\ \E s \in Request \ {r} : pc[s] \in {"saving", "cleaning"}
       /\ catalogue' = <<>>

\* The end of the request: a failed incremental backup removes its file.
SaveEnds(r) ==
    /\ pc[r] = "saving"
    /\ Written(r, Saved(view[r], entry[r]))
    /\ Release(r)
    /\ file' = IF entry[r].ok THEN file ELSE [file EXCEPT ![entry[r].id] = Missing]
    /\ Goto(r, IF entry[r].ok THEN "done" ELSE "failed")
    /\ Forget(r)
    /\ UNCHANGED <<server, restoring, op, crashes>>
-----------------------------------------------------------------------------
(* POST /backup with backupType incremental: createIncrementalBackup.      *)

StartIncremental(r) ==
    /\ pc[r] = "idle" /\ "incremental" \in Asks[r]
    /\ op' = [op EXCEPT ![r] = "incremental"]
    /\ \E i \in Id :
          \/ /\ entry' = [entry EXCEPT ![r] = Blank(i)]
             /\ Goto(r, "pick")
          \/ \E p \in Id :
                /\ entry' = [entry EXCEPT ![r] = [Blank(i) EXCEPT !.parent = p]]
                /\ Goto(r, "parent")
    /\ UNCHANGED <<server, catalogue, file, locks, restoring, view, crashes>>

\* listBackupChains reads the list, and again for each full backup's chain,
\* which has no increments.
PickReads(r) ==
    /\ pc[r] = "pick" /\ crit[r] = "in"
    /\ view' = [view EXCEPT ![r] = catalogue]
    /\ Goto(r, "picked")
    /\ UNCHANGED <<server, catalogue, file, locks, restoring, op, entry, crashes>>

Pick(r) ==
    /\ pc[r] = "picked"
    /\ Release(r)
    /\ LET found == {n \in Fulls(view[r]) : Has(catalogue, view[r][n].id)}
       IN  \/ found = {} /\ Goto(r, "failed") /\ UNCHANGED entry
           \/ \E n \in found :
                /\ \A m \in found : m <= n
                /\ entry' = [entry EXCEPT ![r].parent = view[r][n].id]
                /\ Goto(r, "parent")
    /\ view' = [view EXCEPT ![r] = <<>>]
    /\ UNCHANGED <<server, catalogue, file, restoring, op, crashes>>

\* listMetadata without the lock; the parent must have succeeded.
ReadParent(r) ==
    /\ pc[r] = "parent"
    /\ LET p == entry[r].parent IN
       IF Has(catalogue, p) /\ Find(catalogue, p).ok
       THEN /\ entry' = [entry EXCEPT ![r].from = Find(catalogue, p).to,
                                      ![r].level = Find(catalogue, p).level + 1]
            /\ Goto(r, "span")
       ELSE Goto(r, "failed") /\ UNCHANGED entry
    /\ UNCHANGED <<server, catalogue, file, locks, restoring, op, view, crashes>>

\* The parent's log must not be purged, and new events must exist; any of the
\* queries may fail.
ReadSpan(r) ==
    /\ pc[r] = "span"
    /\ \/ /\ low <= entry[r].from /\ entry[r].from < head
          /\ entry' = [entry EXCEPT ![r].to = head]
          /\ Goto(r, "dump")
       \/ Goto(r, "failed") /\ UNCHANGED entry
    /\ UNCHANGED <<server, catalogue, file, locks, restoring, op, view, crashes>>
-----------------------------------------------------------------------------
(* POST /restore: restoreToPointInTime.                                    *)

StartRestore(r) ==
    /\ pc[r] = "idle" /\ "restore" \in Asks[r]
    /\ op' = [op EXCEPT ![r] = "restore"]
    /\ \E i \in Id : entry' = [entry EXCEPT ![r] = Blank(i)]
    /\ Goto(r, "check")
    /\ UNCHANGED <<server, catalogue, file, locks, restoring, view, crashes>>

\* The route resolves the chain once to answer early.
CheckChain(r) ==
    /\ pc[r] = "check" /\ crit[r] = "in"
    /\ Release(r)
    /\ Goto(r, IF Climbs(catalogue, entry[r].id) # {} THEN "exclude" ELSE "failed")
    /\ UNCHANGED <<server, catalogue, file, restoring, op, entry, view, crashes>>

\* Mutant of ExcludeRestores: the lock file is opened without 'wx'.
ExcludeNobody(r) ==
    /\ pc[r] = "exclude"
    /\ Goto(r, "chain")
    /\ restoreLock' = TRUE
    /\ UNCHANGED <<server, catalogue, file, locks, chain, at, applied, op, entry, view,
                   crashes>>

\* openSync(restoreLockFile, 'wx')
ExcludeRestores(r) ==
    /\ pc[r] = "exclude"
    /\ IF restoreLock THEN Goto(r, "failed") ELSE Goto(r, "chain")
    /\ restoreLock' = TRUE
    /\ UNCHANGED <<server, catalogue, file, locks, chain, at, applied, op, entry, view,
                   crashes>>

\* The finally block of restoreToPointInTime.
EndRestore(r, p) == restoreLock' = FALSE /\ Goto(r, p)

ResolveChain(r) ==
    /\ pc[r] = "chain" /\ crit[r] = "in"
    /\ Release(r)
    /\ \/ /\ \E c \in Climbs(catalogue, entry[r].id) : chain' = [chain EXCEPT ![r] = c]
          /\ Goto(r, "verify") /\ UNCHANGED restoreLock
       \/ /\ Climbs(catalogue, entry[r].id) = {}
          /\ EndRestore(r, "failed") /\ UNCHANGED chain
    /\ UNCHANGED <<server, catalogue, file, at, applied, op, entry, view, crashes>>

\* Mutant of Acceptable: the coordinates are not compared.
AcceptableFile(r, n) == chain[r][n].ok /\ file[chain[r][n].id] = chain[r][n].sum

\* validateBackupChain, one element: its status, its file, the checksum, and
\* that it starts where the one before ends, one level up.
Acceptable(r, n) ==
    LET e == chain[r][n] IN
    /\ e.ok
    /\ file[e.id] = e.sum
    /\ n > 1 => LET prev == chain[r][n - 1]
                IN  e.from = prev.to /\ e.level = prev.level + 1

VerifyNext(r) ==
    /\ pc[r] = "verify"
    /\ IF Acceptable(r, at[r] + 1)
       THEN /\ UNCHANGED restoreLock
            /\ IF at[r] + 1 = Len(chain[r])
               THEN at' = [at EXCEPT ![r] = 0] /\ Goto(r, "apply")
               ELSE at' = [at EXCEPT ![r] = @ + 1] /\ UNCHANGED pc
       ELSE EndRestore(r, "failed") /\ UNCHANGED at
    /\ UNCHANGED <<server, catalogue, file, locks, chain, applied, op, entry, view, crashes>>

\* What the target database holds after an archive was fed to it.
Replayed(reached, n, archive) ==
    IF archive.state = "torn" \/ (n > 1 /\ archive.lo # reached) THEN Bad
    ELSE archive.hi

\* restoreFullBackup, then applyIncrementalBackup: a missing file or a failing
\* client ends the restore; a torn archive is fed as far as it goes.
ApplyNext(r) ==
    /\ pc[r] = "apply" /\ at[r] < Len(chain[r])
    /\ LET n == at[r] + 1
           archive == file[chain[r][n].id]
       IN  \/ /\ EndRestore(r, "failed")
              /\ UNCHANGED <<applied, at>>
           \/ /\ archive # Missing
              /\ applied' = [applied EXCEPT ![r] = Replayed(@, n, archive)]
              /\ at' = [at EXCEPT ![r] = n]
              /\ UNCHANGED <<pc, restoreLock>>
    /\ UNCHANGED <<server, catalogue, file, locks, chain, op, entry, view, crashes>>

\* The chain is applied, or an increment is younger than targetTime.
ApplyEnds(r) ==
    /\ pc[r] = "apply" /\ at[r] > 0
    /\ EndRestore(r, "done")
    /\ UNCHANGED <<server, catalogue, file, locks, chain, at, applied, op, entry, view,
                   crashes>>
-----------------------------------------------------------------------------
(* GET /backups and POST /cleanup: a manager, and a lock object, of their  *)
(* own.                                                                    *)

StartList(r) ==
    /\ pc[r] = "idle" /\ "list" \in Asks[r]
    /\ op' = [op EXCEPT ![r] = "list"]
    /\ Goto(r, "list")
    /\ UNCHANGED <<server, catalogue, file, locks, restoring, entry, view, crashes>>

ListEnds(r) ==
    /\ pc[r] = "list" /\ crit[r] = "in"
    /\ Release(r)
    /\ Goto(r, "done")
    /\ UNCHANGED <<server, catalogue, file, restoring, op, entry, view, crashes>>

StartCleanup(r) ==
    /\ pc[r] = "idle" /\ "cleanup" \in Asks[r]
    /\ op' = [op EXCEPT ![r] = "cleanup"]
    /\ Goto(r, "clean")
    /\ UNCHANGED <<server, catalogue, file, locks, restoring, entry, view, crashes>>

\* The entries older than the cut-off come first in the list; at[r] counts them.
CleanupReads(r) ==
    /\ pc[r] = "clean" /\ crit[r] = "in"
    /\ view' = [view EXCEPT ![r] = catalogue]
    /\ \E n \in 0 .. Len(catalogue) : at' = [at EXCEPT ![r] = n]
    /\ Goto(r, "delete")
    /\ UNCHANGED <<server, catalogue, file, locks, chain, applied, restoreLock, op, entry,
                   crashes>>

\* The file of each old entry is removed, whatever depends on it.
CleanupDeletes(r) ==
    /\ pc[r] = "delete"
    /\ LET old == {view[r][n].id : n \in 1 .. at[r]}
       IN  file' = [i \in Id |-> IF i \in old THEN Missing ELSE file[i]]
    /\ Goto(r, "cleanWrite")
    /\ UNCHANGED <<server, catalogue, locks, restoring, op, entry, view, crashes>>

CleanupTruncates(r) ==
    /\ pc[r] = "cleanWrite"
    /\ catalogue' = <<>>
    /\ Goto(r, "cleaning")
    /\ UNCHANGED <<server, file, locks, restoring, op, entry, view, crashes>>

CleanupEnds(r) ==
    /\ pc[r] = "cleaning"
    /\ Written(r, SubSeq(view[r], at[r] + 1, Len(view[r])))
    /\ Release(r)
    /\ at' = [at EXCEPT ![r] = 0]
    /\ Goto(r, "done")
    /\ Forget(r)
    /\ UNCHANGED <<server, file, chain, applied, restoreLock, op, crashes>>
-----------------------------------------------------------------------------
(* The process dies: what its memory held is gone, its files stay. An      *)
(* uncaught exception goes through shutdown(), which releases once.        *)

Ended == {"done", "failed"}

Crash ==
    /\ crashes < MaxCrashes
    /\ crashes' = crashes + 1
    /\ pc' = [r \in Request |-> IF pc[r] \in Ended \cup {"idle"} THEN pc[r] ELSE "failed"]
    /\ crit' = [r \in Request |-> "out"]
    /\ \/ lockOwner' = IF lockOwner = NoObject THEN NoObject ELSE Stale
       \/ lockOwner = Shared /\ refs = 1 /\ lockOwner' = NoObject
    /\ refs' = 0
    /\ view' = [r \in Request |-> <<>>]
    /\ entry' = [r \in Request |-> Missing]
    /\ UNCHANGED <<server, catalogue, file, restoring, op>>

Start(r) ==
    StartFull(r) \/ StartIncremental(r) \/ StartRestore(r) \/ StartList(r) \/ StartCleanup(r)

Backup(r) ==
    \/ ReadPosition(r) \/ PickReads(r) \/ Pick(r) \/ ReadParent(r) \/ ReadSpan(r)
    \/ DumpStarts(r) \/ DumpEnds(r) \/ DumpFails(r) \/ Seal(r)
    \/ SaveReads(r) \/ SaveTruncates(r) \/ SaveEnds(r)

Restore(r) ==
    \/ CheckChain(r) \/ ExcludeRestores(r) \/ ResolveChain(r)
    \/ VerifyNext(r) \/ ApplyNext(r) \/ ApplyEnds(r)

Housekeeping(r) ==
    \/ ListEnds(r) \/ CleanupReads(r) \/ CleanupDeletes(r)
    \/ CleanupTruncates(r) \/ CleanupEnds(r)

Step(r) == Acquire(r) \/ GiveUp(r) \/ Backup(r) \/ Restore(r) \/ Housekeeping(r)

Next == Server \/ Crash \/ \E r \in Request : Start(r) \/ Step(r)

Spec == Init /\ [][Next]_vars

FairSpec == Spec /\ \A r \in Request : WF_vars(Step(r))
-----------------------------------------------------------------------------
(***************************************************************************)
(* The reference count of ReentrantFileLock is the number of requests that *)
(* are between acquire() and release() on the object that has the lock     *)
(* file, and no request is there on any other object: whatever enters      *)
(* again, gives up or dies, the file is removed by the last user and not   *)
(* before.                                                                 *)
(***************************************************************************)
RefsCountUsers ==
    /\ TypeOK
    /\ lockOwner \notin {NoObject, Stale} => refs = Cardinality(Inside(lockOwner))
    /\ \A r \in Request : crit[r] = "in" => lockOwner = Object(r)
    /\ lockOwner \in {NoObject, Stale} => refs = 0

(***************************************************************************)
(* While a clean-up is between reading and rewriting the list, nobody else *)
(* changes the list: it drops no entry that it has not read. (Two saves of *)
(* the singleton do not have this protection: they share one lock object.) *)
(***************************************************************************)
CleanupAlone ==
    [][\A r \in Request :
          pc[r] \in {"delete", "cleanWrite", "cleaning"} /\ catalogue' # catalogue
             => pc'[r] # pc[r]]_vars

(***************************************************************************)
(* A restore that ends well, and whose archives are still those it has     *)
(* verified, has replayed a full backup and then every event after it,     *)
(* each one once: reruns under an old id, purged logs, clean-ups and lost  *)
(* entries never make a gap or a repetition that the validation lets by.   *)
(***************************************************************************)
RestoredWithoutGap ==
    \A r \in Request :
        /\ op[r] = "restore" /\ pc[r] = "done"
        /\ \A n \in 1 .. at[r] : file[chain[r][n].id] = chain[r][n].sum
        => applied[r] = chain[r][at[r]].to

(***************************************************************************)
(* Two restores never write to their databases at once; a lock file left   *)
(* by a crash refuses all later restores and admits none.                  *)
(***************************************************************************)
OneRestoreAtATime ==
    LET active == {r \in Request : pc[r] \in {"chain", "verify", "apply"}}
    IN  Cardinality(active) <= 1 /\ (active # {} => restoreLock)

(***************************************************************************)
(* Every request that was taken is answered: waiting for the lock ends     *)
(* after five tries, even when a crash has left the lock file. (Requests   *)
(* are finitely many, so there is a last time at which none is under way.) *)
(***************************************************************************)
Answered == []<>(\A r \in Request : pc[r] \in Ended \cup {"idle"})
=============================================================================
