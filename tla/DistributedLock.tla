-------------------------- MODULE DistributedLock --------------------------
(***************************************************************************)
(* lib/distributed-lock.ts: one key of Redis, and the DistributedLock      *)
(* objects that compete for it.  Every use makes an object of its own with *)
(* its own random value, so an object, its process and its value are one   *)
(* Holder here.                                                            *)
(*                                                                         *)
(* A command is sent, run by Redis, and answered.  ioredis sends again,    *)
(* after a reconnect, what it has no answer for (maxRetriesPerRequest is   *)
(* null), so an answered command may be run a second time.                 *)
(***************************************************************************)
EXTENDS Naturals

CONSTANTS
    Holder,
    NoHolder,
    Half,         \* half of the key's time to live, in ticks
    Prompt,       \* do replies and timers take less than a tick?
    MaxErrors,    \* bound: commands that Redis refuses
    MaxLosses     \* bound: lost connections

ASSUME LockAssumption ==
    /\ NoHolder \notin Holder
    /\ Half \in Nat \ {0}
    /\ Prompt \in BOOLEAN
    /\ MaxErrors \in Nat
    /\ MaxLosses \in Nat

VARIABLES
    key,       \* the holder whose value the key has, NoHolder without a key
    left,      \* ticks until the key expires
    use,       \* where the user of the object is
    locked,    \* isLocked, with a lockValue
    timer,     \* ticks until the refresh interval fires
    call,      \* the command of acquire() or release()
    beat,      \* the command of refresh()
    errors,
    losses

lockVars == <<key, left, use, locked, timer, call, beat, errors, losses>>

TTL == Half + Half

Off == Half + 1     \* no interval is set

Replies == {"yes", "no", "error"}

Commands == Replies \cup {"none", "sent"}

Uses == {"idle", "acquiring", "holding", "refused", "failed",
         "releasing", "over", "dead"}

LockTypeOK ==
    /\ key \in Holder \cup {NoHolder}
    /\ left \in 0 .. TTL
    /\ use \in [Holder -> Uses]
    /\ locked \in [Holder -> BOOLEAN]
    /\ timer \in [Holder -> 0 .. Off]
    /\ call \in [Holder -> Commands]
    /\ beat \in [Holder -> Commands]
    /\ errors \in 0 .. MaxErrors
    /\ losses \in 0 .. MaxLosses

LockInit ==
    /\ key = NoHolder
    /\ left = 0
    /\ use = [h \in Holder |-> "idle"]
    /\ locked = [h \in Holder |-> FALSE]
    /\ timer = [h \in Holder |-> Off]
    /\ call = [h \in Holder |-> "none"]
    /\ beat = [h \in Holder |-> "none"]
    /\ errors = 0
    /\ losses = 0

Answer(cmd, h, reply) == cmd' = [cmd EXCEPT ![h] = reply]

Refuse == errors < MaxErrors /\ errors' = errors + 1

-----------------------------------------------------------------------------
(***************************************************************************)
(* acquire().                                                              *)
(***************************************************************************)

Acquire(h) ==
    /\ use[h] = "idle"
    /\ use' = [use EXCEPT ![h] = "acquiring"]
    /\ call' = [call EXCEPT ![h] = "sent"]
    /\ UNCHANGED <<key, left, locked, timer, beat, errors, losses>>

\* Mutant of RunSet: SET without NX.
RunSetAlways(h) ==
    /\ use[h] = "acquiring" /\ call[h] = "sent"
    /\ \/ key' = h /\ left' = TTL /\ Answer(call, h, "yes") /\ UNCHANGED errors
       \/ Refuse /\ Answer(call, h, "error") /\ UNCHANGED <<key, left>>
    /\ UNCHANGED <<use, locked, timer, beat, losses>>

\* SET key value EX ttl NX.
RunSet(h) ==
    /\ use[h] = "acquiring" /\ call[h] = "sent"
    /\ \/ key = NoHolder
          /\ key' = h /\ left' = TTL /\ Answer(call, h, "yes") /\ UNCHANGED errors
       \/ key # NoHolder
          /\ Answer(call, h, "no") /\ UNCHANGED <<key, left, errors>>
       \/ Refuse /\ Answer(call, h, "error") /\ UNCHANGED <<key, left>>
    /\ UNCHANGED <<use, locked, timer, beat, losses>>

EndAcquire(h) ==
    /\ use[h] = "acquiring" /\ call[h] \in Replies
    /\ LET outcome == [yes |-> "holding", no |-> "refused", error |-> "failed"]
       IN  use' = [use EXCEPT ![h] = outcome[call[h]]]
    /\ locked' = [locked EXCEPT ![h] = call[h] = "yes"]
    /\ timer' = [timer EXCEPT ![h] = IF call[h] = "yes" THEN Half ELSE Off]
    /\ call' = [call EXCEPT ![h] = "none"]
    /\ UNCHANGED <<key, left, beat, errors, losses>>

-----------------------------------------------------------------------------
(***************************************************************************)
(* The refresh interval.  (An interval that fires while a refresh is still *)
(* unanswered sends a second one behind it, which is answered alike: the   *)
(* two are one here.)                                                      *)
(***************************************************************************)

Beat(h) ==
    /\ timer[h] = 0
    /\ timer' = [timer EXCEPT ![h] = Half]
    /\ beat' = [beat EXCEPT ![h] = IF @ = "none" THEN "sent" ELSE @]
    /\ UNCHANGED <<key, left, use, locked, call, errors, losses>>

\* Mutant of RunRefresh: the key's value is not compared.
RunRefreshAnyones(h) ==
    /\ beat[h] = "sent"
    /\ key # NoHolder
    /\ left' = TTL /\ Answer(beat, h, "yes")
    /\ UNCHANGED <<key, use, locked, timer, call, errors, losses>>

\* if get(key) = value then expire(key, ttl)
RunRefresh(h) ==
    /\ beat[h] = "sent"
    /\ \/ key = h /\ left' = TTL /\ Answer(beat, h, "yes") /\ UNCHANGED errors
       \/ key # h /\ Answer(beat, h, "no") /\ UNCHANGED <<left, errors>>
       \/ Refuse /\ Answer(beat, h, "error") /\ UNCHANGED left
    /\ UNCHANGED <<key, use, locked, timer, call, losses>>

\* Mutant of EndBeat: the script's 1 is not taken for a success.
EndBeatMisread(h) ==
    /\ beat[h] \in Replies
    /\ locked' = [locked EXCEPT ![h] = FALSE]
    /\ timer' = [timer EXCEPT ![h] = Off]
    /\ beat' = [beat EXCEPT ![h] = "none"]
    /\ UNCHANGED <<key, left, use, call, errors, losses>>

\* A refresh that did not succeed, for whatever reason, gives the lock up.
EndBeat(h) ==
    /\ beat[h] \in Replies
    /\ IF beat[h] = "yes"
       THEN UNCHANGED <<locked, timer>>
       ELSE /\ locked' = [locked EXCEPT ![h] = FALSE]
            /\ timer' = [timer EXCEPT ![h] = Off]
    /\ beat' = [beat EXCEPT ![h] = "none"]
    /\ UNCHANGED <<key, left, use, call, errors, losses>>

-----------------------------------------------------------------------------
(***************************************************************************)
(* release().                                                              *)
(***************************************************************************)

\* Mutant of Release: the work ends without a call of release().
ReleaseForgotten(h) ==
    /\ use[h] = "holding"
    /\ use' = [use EXCEPT ![h] = "over"]
    /\ UNCHANGED <<key, left, locked, timer, call, beat, errors, losses>>

Release(h) ==
    /\ use[h] = "holding"
    /\ timer' = [timer EXCEPT ![h] = Off]
    /\ IF locked[h]
       THEN /\ use' = [use EXCEPT ![h] = "releasing"]
            /\ call' = [call EXCEPT ![h] = "sent"]
       ELSE /\ use' = [use EXCEPT ![h] = "over"]
            /\ UNCHANGED call
    /\ UNCHANGED <<key, left, locked, beat, errors, losses>>

\* Mutant of RunRelease: del without looking at the value.
RunReleaseAnyones(h) ==
    /\ use[h] = "releasing" /\ call[h] = "sent" /\ beat[h] # "sent"
    /\ key' = NoHolder /\ left' = 0
    /\ Answer(call, h, "yes")
    /\ UNCHANGED <<use, locked, timer, beat, errors, losses>>

\* if get(key) = value then del(key); a refresh sent before it runs before it.
RunRelease(h) ==
    /\ use[h] = "releasing" /\ call[h] = "sent" /\ beat[h] # "sent"
    /\ \/ key = h
          /\ key' = NoHolder /\ left' = 0 /\ Answer(call, h, "yes") /\ UNCHANGED errors
       \/ key # h
          /\ Answer(call, h, "no") /\ UNCHANGED <<key, left, errors>>
       \/ Refuse /\ Answer(call, h, "error") /\ UNCHANGED <<key, left>>
    /\ UNCHANGED <<use, locked, timer, beat, losses>>

EndRelease(h) ==
    /\ use[h] = "releasing" /\ call[h] \in Replies /\ beat[h] = "none"
    /\ use' = [use EXCEPT ![h] = "over"]
    /\ locked' = [locked EXCEPT ![h] = FALSE]
    /\ call' = [call EXCEPT ![h] = "none"]
    /\ UNCHANGED <<key, left, timer, beat, errors, losses>>

-----------------------------------------------------------------------------
(***************************************************************************)
(* The environment: connections, time, and the death of a process.         *)
(***************************************************************************)

\* The connection is lost with the answers on it; the commands are sent again.
LoseConnection(h) ==
    /\ losses < MaxLosses
    /\ call[h] \in Replies \/ beat[h] \in Replies
    /\ losses' = losses + 1
    /\ call' = [call EXCEPT ![h] = IF @ \in Replies THEN "sent" ELSE @]
    /\ beat' = [beat EXCEPT ![h] = IF @ \in Replies THEN "sent" ELSE @]
    /\ UNCHANGED <<key, left, use, locked, timer, errors>>

\* What a live process has to do now.
Busy(h) == call[h] # "none" \/ beat[h] # "none" \/ timer[h] = 0

Tick ==
    /\ Prompt => \A h \in Holder : ~Busy(h)
    /\ key # NoHolder \/ \E h \in Holder : timer[h] \in 1 .. Half
    /\ left' = IF key = NoHolder THEN 0 ELSE left - 1
    /\ key' = IF left = 1 THEN NoHolder ELSE key
    /\ timer' = [h \in Holder |->
           IF timer[h] \in 1 .. Half THEN timer[h] - 1 ELSE timer[h]]
    /\ UNCHANGED <<use, locked, call, beat, errors, losses>>

\* A command on its way was run before, or never is.
Crash(h) ==
    /\ use[h] \in {"acquiring", "holding", "releasing"}
    /\ use' = [use EXCEPT ![h] = "dead"]
    /\ locked' = [locked EXCEPT ![h] = FALSE]
    /\ timer' = [timer EXCEPT ![h] = Off]
    /\ call' = [call EXCEPT ![h] = "none"]
    /\ beat' = [beat EXCEPT ![h] = "none"]
    /\ UNCHANGED <<key, left, errors, losses>>

-----------------------------------------------------------------------------

\* What happens to a lock without its user's doing.
LockStep(h) ==
    \/ RunSet(h) \/ Beat(h) \/ RunRefresh(h) \/ EndBeat(h)
    \/ RunRelease(h) \/ EndRelease(h)

LockNext ==
    \/ \E h \in Holder :
           \/ Acquire(h) \/ EndAcquire(h) \/ Release(h) \/ LockStep(h)
           \/ LoseConnection(h) \/ Crash(h)
    \/ Tick

LockSpec == LockInit /\ [][LockNext]_lockVars

(***************************************************************************)
(* Redis answers, the event loop runs what has settled, time passes, and   *)
(* the user's work ends: release() stands in a finally block.              *)
(***************************************************************************)
LockFairSpec ==
    /\ LockSpec
    /\ WF_lockVars(Tick)
    /\ \A h \in Holder :
           WF_lockVars(LockStep(h)) /\ WF_lockVars(EndAcquire(h)) /\ WF_lockVars(Release(h))

-----------------------------------------------------------------------------
(***************************************************************************)
(* Properties.                                                             *)
(***************************************************************************)

(***************************************************************************)
(* Two users never hold the lock at once, however long they work: when     *)
(* replies are prompt, and as long as Redis has refused nothing, a refresh *)
(* always comes before the key expires, across lost connections and        *)
(* crashes.                                                                *)
(***************************************************************************)
MutualExclusion ==
    errors = 0 =>
        \A g, h \in Holder : use[g] = "holding" /\ use[h] = "holding" => g = h

(***************************************************************************)
(* A key goes when it expires, or when the holder whose value it has       *)
(* releases it: a late holder deletes nobody else's key.                   *)
(***************************************************************************)
OnlyOwnerDeletes ==
    [][\A h \in Holder :
          key = h /\ key' # h => left = 1 \/ use[h] = "releasing"]_lockVars

(***************************************************************************)
(* Only the holder's own refresh gives its key more time.                  *)
(***************************************************************************)
OnlyOwnerExtends ==
    [][\A h \in Holder :
          key = h /\ key' = h /\ left' > left => beat[h] = "sent"]_lockVars

(***************************************************************************)
(* Unless Redis has refused a command, a user that has released the lock   *)
(* does not leave its key behind, even when its replies were late or lost. *)
(***************************************************************************)
NothingLeftBehind == errors = 0 => \A h \in Holder : use[h] = "over" => key # h

(***************************************************************************)
(* No key blocks the database for ever: it is released, or expires when    *)
(* its holder died or gave it up.                                          *)
(***************************************************************************)
KeyFreed == \A h \in Holder : key = h ~> key # h
=============================================================================
