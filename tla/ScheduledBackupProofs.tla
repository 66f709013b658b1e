----------------------- MODULE ScheduledBackupProofs -----------------------
(***************************************************************************)
(* What DistributedLock guarantees for every number of holders and every   *)
(* time to live, with any number of lost connections and crashes; and that *)
(* the scheduler's executions use the lock as it expects, so that all this *)
(* holds of them, and their messages agree with what they record.          *)
(***************************************************************************)
EXTENDS ScheduledBackup, TLAPS

USE DEF TTL, Off, Replies, Commands, Uses, LockTypeOK

-----------------------------------------------------------------------------
(***************************************************************************)
(* Type correctness.                                                       *)
(***************************************************************************)

(***************************************************************************)
(* A key that is there has time left: without it a tick could take the     *)
(* time below zero, so the types alone are not inductive.                  *)
(***************************************************************************)
Timed == LockTypeOK /\ (key # NoHolder => left > 0)

\* The initial state is well typed.
LEMMA LockInitTyped == LockInit => Timed
  BY LockAssumption DEF LockInit, Timed

\* Every step keeps the types.
LEMMA LockNextTyped == Timed /\ [LockNext]_lockVars => Timed'
<1> SUFFICES ASSUME Timed, [LockNext]_lockVars PROVE Timed'
  OBVIOUS
<1> USE LockAssumption DEF Timed
<1>1. ASSUME NEW h \in Holder, Acquire(h) PROVE Timed'
  BY <1>1 DEF Acquire
<1>2. ASSUME NEW h \in Holder, RunSet(h) PROVE Timed'
  BY <1>2 DEF RunSet, Answer, Refuse
<1>3. ASSUME NEW h \in Holder, EndAcquire(h) PROVE Timed'
  <2>1. [yes |-> "holding", no |-> "refused", error |-> "failed"][call[h]] \in Uses
    BY <1>3 DEF EndAcquire
  <2>2. QED BY <1>3, <2>1 DEF EndAcquire
<1>4. ASSUME NEW h \in Holder, Beat(h) PROVE Timed'
  BY <1>4 DEF Beat
<1>5. ASSUME NEW h \in Holder, RunRefresh(h) PROVE Timed'
  BY <1>5 DEF RunRefresh, Answer, Refuse
<1>6. ASSUME NEW h \in Holder, EndBeat(h) PROVE Timed'
  <2>1. CASE beat[h] = "yes"
    BY <1>6, <2>1 DEF EndBeat
  <2>2. CASE beat[h] # "yes"
    <3>1. locked' \in [Holder -> BOOLEAN]
      BY <1>6, <2>2 DEF EndBeat
    <3>2. timer' \in [Holder -> 0 .. Off] /\ beat' \in [Holder -> Commands]
      BY <1>6, <2>2 DEF EndBeat
    <3>3. QED BY <1>6, <3>1, <3>2 DEF EndBeat
  <2>3. QED BY <2>1, <2>2
<1>7. ASSUME NEW h \in Holder, Release(h) PROVE Timed'
  BY <1>7 DEF Release
<1>8. ASSUME NEW h \in Holder, RunRelease(h) PROVE Timed'
  BY <1>8 DEF RunRelease, Answer, Refuse
<1>9. ASSUME NEW h \in Holder, EndRelease(h) PROVE Timed'
  BY <1>9 DEF EndRelease
<1>10. ASSUME NEW h \in Holder, LoseConnection(h) PROVE Timed'
  BY <1>10 DEF LoseConnection
<1>11. ASSUME NEW h \in Holder, Crash(h) PROVE Timed'
  BY <1>11 DEF Crash
<1>12. CASE Tick
  <2>1. left' \in 0 .. TTL /\ (key' # NoHolder => left' > 0)
    <3>1. CASE key = NoHolder
      BY <1>12, <3>1 DEF Tick
    <3>2. CASE key # NoHolder
      BY <1>12, <3>2 DEF Tick
    <3>3. QED BY <3>1, <3>2
  <2>2. key' \in Holder \cup {NoHolder}
    BY <1>12 DEF Tick
  <2>3. timer' \in [Holder -> 0 .. Off]
    BY <1>12 DEF Tick
  <2>4. QED BY <1>12, <2>1, <2>2, <2>3 DEF Tick
<1>13. CASE UNCHANGED lockVars
  BY <1>13 DEF lockVars
<1>14. QED
  BY <1>1, <1>2, <1>3, <1>4, <1>5, <1>6, <1>7, <1>8, <1>9, <1>10, <1>11, <1>12,
     <1>13 DEF LockNext, LockStep

(***************************************************************************)
(* Every variable of the lock keeps its type.                              *)
(***************************************************************************)
THEOREM LockTypeCorrect == LockSpec => []LockTypeOK
<1>1. Timed => LockTypeOK
  BY DEF Timed
<1>2. QED
  BY <1>1, LockInitTyped, LockNextTyped, PTL DEF LockSpec

-----------------------------------------------------------------------------
(***************************************************************************)
(* Where a command or an interval may be found: what the actions take for  *)
(* granted about an object, whatever Redis answers.                        *)
(***************************************************************************)
Placed(h) ==
    /\ beat[h] # "none" => use[h] \in {"holding", "releasing"} /\ locked[h]
    /\ timer[h] # Off => use[h] = "holding" /\ locked[h]
    /\ locked[h] => use[h] \in {"holding", "releasing"}

AllPlaced == Timed /\ \A h \in Holder : Placed(h)

\* The two ways in which acquire() ends.
LEMMA AcquireEnds ==
    ASSUME LockTypeOK, NEW h \in Holder, EndAcquire(h)
    PROVE  \/ /\ call[h] = "yes"
              /\ use' = [use EXCEPT ![h] = "holding"]
              /\ locked' = [locked EXCEPT ![h] = TRUE]
              /\ timer' = [timer EXCEPT ![h] = Half]
           \/ /\ call[h] # "yes"
              /\ \E u \in {"refused", "failed"} : use' = [use EXCEPT ![h] = u]
              /\ locked' = [locked EXCEPT ![h] = FALSE]
              /\ timer' = [timer EXCEPT ![h] = Off]
<1>1. CASE call[h] = "yes"
  <2>1. use' = [use EXCEPT ![h] = "holding"]
    BY <1>1 DEF EndAcquire
  <2>2. locked' = [locked EXCEPT ![h] = TRUE]
    BY <1>1 DEF EndAcquire
  <2>3. timer' = [timer EXCEPT ![h] = Half]
    BY <1>1 DEF EndAcquire
  <2>4. QED BY <1>1, <2>1, <2>2, <2>3
<1>2. CASE call[h] # "yes"
  <2>1. \E u \in {"refused", "failed"} : use' = [use EXCEPT ![h] = u]
    <3>1. CASE call[h] = "no"
      <4>1. use' = [use EXCEPT ![h] = "refused"]
        BY <3>1 DEF EndAcquire
      <4>2. QED BY <4>1
    <3>2. CASE call[h] = "error"
      <4>1. use' = [use EXCEPT ![h] = "failed"]
        BY <3>2 DEF EndAcquire
      <4>2. QED BY <4>1
    <3>3. QED BY <1>2, <3>1, <3>2 DEF EndAcquire
  <2>2. locked' = [locked EXCEPT ![h] = FALSE]
    BY <1>2 DEF EndAcquire
  <2>3. timer' = [timer EXCEPT ![h] = Off]
    BY <1>2 DEF EndAcquire
  <2>4. QED BY <1>2, <2>1, <2>2, <2>3
<1>3. QED BY <1>1, <1>2

\* Every step keeps commands and intervals where they belong.
LEMMA PlacedKept == AllPlaced /\ [LockNext]_lockVars => AllPlaced'
<1> SUFFICES ASSUME AllPlaced, [LockNext]_lockVars, NEW g \in Holder PROVE Placed(g)'
  BY LockNextTyped DEF AllPlaced
<1> USE LockAssumption DEF AllPlaced, Timed, Placed
<1>1. ASSUME NEW h \in Holder, Acquire(h) PROVE Placed(g)'
  BY <1>1 DEF Acquire
<1>2. ASSUME NEW h \in Holder, RunSet(h) PROVE Placed(g)'
  BY <1>2 DEF RunSet, Answer, Refuse
<1>3. ASSUME NEW h \in Holder, EndAcquire(h) PROVE Placed(g)'
  <2>1. use[h] = "acquiring" /\ beat' = beat
    BY <1>3 DEF EndAcquire
  <2>2. QED BY <1>3, <2>1, AcquireEnds
<1>4. ASSUME NEW h \in Holder, Beat(h) PROVE Placed(g)'
  BY <1>4 DEF Beat
<1>5. ASSUME NEW h \in Holder, RunRefresh(h) PROVE Placed(g)'
  BY <1>5 DEF RunRefresh, Answer, Refuse
<1>6. ASSUME NEW h \in Holder, EndBeat(h) PROVE Placed(g)'
  BY <1>6 DEF EndBeat
<1>7. ASSUME NEW h \in Holder, Release(h) PROVE Placed(g)'
  BY <1>7 DEF Release
<1>8. ASSUME NEW h \in Holder, RunRelease(h) PROVE Placed(g)'
  BY <1>8 DEF RunRelease, Answer, Refuse
<1>9. ASSUME NEW h \in Holder, EndRelease(h) PROVE Placed(g)'
  BY <1>9 DEF EndRelease
<1>10. ASSUME NEW h \in Holder, LoseConnection(h) PROVE Placed(g)'
  BY <1>10 DEF LoseConnection
<1>11. ASSUME NEW h \in Holder, Crash(h) PROVE Placed(g)'
  BY <1>11 DEF Crash
<1>12. CASE Tick
  BY <1>12 DEF Tick
<1>13. CASE UNCHANGED lockVars
  BY <1>13 DEF lockVars
<1>14. QED
  BY <1>1, <1>2, <1>3, <1>4, <1>5, <1>6, <1>7, <1>8, <1>9, <1>10, <1>11, <1>12,
     <1>13 DEF LockNext, LockStep

-----------------------------------------------------------------------------
(***************************************************************************)
(* Who may touch a key.                                                    *)
(***************************************************************************)

\* Every way in which the key or its time may change in a step.
KeyMoves ==
    \/ UNCHANGED <<key, left>>
    \/ key = NoHolder /\ \E h \in Holder : RunSet(h)
    \/ key \in Holder /\ key' = key /\ left' = TTL /\ beat[key] = "sent"
    \/ key \in Holder /\ key' = NoHolder /\ use[key] = "releasing"
    \/ Tick

\* Every step of the lock is one of them.
LEMMA StepsMoveKey == [LockNext]_lockVars => KeyMoves
<1> SUFFICES ASSUME [LockNext]_lockVars PROVE KeyMoves
  OBVIOUS
<1> USE DEF KeyMoves
<1>1. ASSUME NEW h \in Holder, Acquire(h) \/ EndAcquire(h) \/ Release(h) PROVE KeyMoves
  BY <1>1 DEF Acquire, EndAcquire, Release
<1>2. ASSUME NEW h \in Holder, Beat(h) \/ EndBeat(h) \/ EndRelease(h) PROVE KeyMoves
  BY <1>2 DEF Beat, EndBeat, EndRelease
<1>3. ASSUME NEW h \in Holder, LoseConnection(h) \/ Crash(h) PROVE KeyMoves
  BY <1>3 DEF LoseConnection, Crash
<1>4. ASSUME NEW h \in Holder, RunSet(h) PROVE KeyMoves
  BY <1>4 DEF RunSet
<1>5. ASSUME NEW h \in Holder, RunRefresh(h) PROVE KeyMoves
  BY <1>5 DEF RunRefresh
<1>6. ASSUME NEW h \in Holder, RunRelease(h) PROVE KeyMoves
  BY <1>6 DEF RunRelease
<1>7. CASE UNCHANGED lockVars
  BY <1>7 DEF lockVars
<1>8. QED
  BY <1>1, <1>2, <1>3, <1>4, <1>5, <1>6, <1>7 DEF LockNext, LockStep

(***************************************************************************)
(* A key is deleted by nobody but its holder's release, unless it expires. *)
(***************************************************************************)
THEOREM DeletedByOwner == LockSpec => OnlyOwnerDeletes
<1>1. ASSUME [LockNext]_lockVars, NEW h \in Holder, key = h, key' # h
      PROVE  left = 1 \/ use[h] = "releasing"
  BY <1>1, StepsMoveKey, LockAssumption DEF KeyMoves, Tick
<1>2. [LockNext]_lockVars =>
          [\A h \in Holder :
              key = h /\ key' # h => left = 1 \/ use[h] = "releasing"]_lockVars
  BY <1>1
<1>3. QED
  BY <1>2, PTL DEF LockSpec, OnlyOwnerDeletes

(***************************************************************************)
(* A key is given more time by nobody but its holder's refresh.            *)
(***************************************************************************)
THEOREM ExtendedByOwner == LockSpec => OnlyOwnerExtends
<1>1. ASSUME Timed, [LockNext]_lockVars,
             NEW h \in Holder, key = h, key' = h, left' > left
      PROVE  beat[h] = "sent"
  BY <1>1, StepsMoveKey, LockAssumption DEF KeyMoves, Tick, Timed
<1>2. Timed /\ [LockNext]_lockVars =>
          [\A h \in Holder :
              key = h /\ key' = h /\ left' > left => beat[h] = "sent"]_lockVars
  BY <1>1
<1>3. QED
  BY <1>2, LockInitTyped, LockNextTyped, PTL DEF LockSpec, OnlyOwnerExtends

-----------------------------------------------------------------------------
(***************************************************************************)
(* A Redis that refuses nothing: the object knows when its key is gone.    *)
(***************************************************************************)

Honest(h) ==
    /\ call[h] # "error" /\ beat[h] # "error"
    /\ beat[h] = "no" => key # h
    /\ use[h] = "holding" /\ ~locked[h] => key # h
    /\ use[h] = "releasing" /\ call[h] \in Replies => key # h
    /\ use[h] = "over" => key # h

AllHonest == AllPlaced /\ (errors = 0 => \A h \in Holder : Honest(h))

\* Refusals are counted, and the count never goes back.
LEMMA NoRefusal ==
    ASSUME Timed, [LockNext]_lockVars, errors' = 0 PROVE errors = 0 /\ ~Refuse
<1>1. errors' = errors \/ Refuse
  BY DEF LockNext, LockStep, lockVars, Acquire, RunSet, EndAcquire, Beat, RunRefresh, EndBeat,
         Release, RunRelease, EndRelease, LoseConnection, Crash, Tick
<1>2. QED
  BY <1>1 DEF Timed, LockTypeOK, Refuse

\* A step keeps what the objects know.
LEMMA HonestKept == ASSUME AllHonest, [LockNext]_lockVars PROVE AllHonest'
<1> SUFFICES ASSUME errors' = 0, NEW g \in Holder PROVE Honest(g)'
  BY PlacedKept DEF AllHonest
<1>0. errors = 0 /\ ~Refuse
  BY NoRefusal DEF AllHonest, AllPlaced
<1> USE <1>0, LockAssumption DEF AllHonest, AllPlaced, Timed, Honest
<1>1. ASSUME NEW h \in Holder, Acquire(h) PROVE Honest(g)'
  BY <1>1 DEF Acquire
<1>2. ASSUME NEW h \in Holder, RunSet(h) PROVE Honest(g)'
  BY <1>2, <1>0 DEF RunSet, Answer, Placed
<1>3. ASSUME NEW h \in Holder, EndAcquire(h) PROVE Honest(g)'
  <2>1. key' = key /\ beat' = beat /\ call' = [call EXCEPT ![h] = "none"]
    BY <1>3 DEF EndAcquire
  <2>2. QED BY <1>3, <2>1, AcquireEnds
<1>4. ASSUME NEW h \in Holder, Beat(h) PROVE Honest(g)'
  BY <1>4 DEF Beat
<1>5. ASSUME NEW h \in Holder, RunRefresh(h) PROVE Honest(g)'
  BY <1>5, <1>0 DEF RunRefresh, Answer
<1>6. ASSUME NEW h \in Holder, EndBeat(h) PROVE Honest(g)'
  BY <1>6 DEF EndBeat
<1>7. ASSUME NEW h \in Holder, Release(h) PROVE Honest(g)'
  BY <1>7 DEF Release
<1>8. ASSUME NEW h \in Holder, RunRelease(h) PROVE Honest(g)'
  BY <1>8, <1>0 DEF RunRelease, Answer
<1>9. ASSUME NEW h \in Holder, EndRelease(h) PROVE Honest(g)'
  BY <1>9 DEF EndRelease
<1>10. ASSUME NEW h \in Holder, LoseConnection(h) PROVE Honest(g)'
  BY <1>10 DEF LoseConnection
<1>11. ASSUME NEW h \in Holder, Crash(h) PROVE Honest(g)'
  BY <1>11 DEF Crash
<1>12. CASE Tick
  BY <1>12 DEF Tick
<1>13. CASE UNCHANGED lockVars
  BY <1>13 DEF lockVars
<1>14. QED
  BY <1>1, <1>2, <1>3, <1>4, <1>5, <1>6, <1>7, <1>8, <1>9, <1>10, <1>11, <1>12,
     <1>13 DEF LockNext, LockStep

\* The first state.
LEMMA HonestInit == LockInit => AllHonest
  BY LockInitTyped, LockAssumption DEF LockInit, AllHonest, AllPlaced, Placed, Honest

(***************************************************************************)
(* While Redis has refused nothing, no user that is through leaves its key. *)
(***************************************************************************)
THEOREM NothingLeft == LockSpec => []NothingLeftBehind
<1>1. AllHonest /\ [LockNext]_lockVars => AllHonest'
  BY HonestKept
<1>2. AllHonest => NothingLeftBehind
  BY DEF AllHonest, Honest, NothingLeftBehind
<1>3. QED
  BY <1>1, <1>2, HonestInit, PTL DEF LockSpec

-----------------------------------------------------------------------------
(***************************************************************************)
(* Prompt replies: a holder's key outlives the time to its next refresh.   *)
(***************************************************************************)

Kept(h) ==
    /\ use[h] = "acquiring" /\ call[h] = "yes" => key = h /\ left = TTL
    /\ use[h] = "holding" =>
           /\ key = h /\ call[h] = "none"
           /\ timer[h] # Off /\ beat[h] \in {"none", "sent", "yes"}
           /\ beat[h] = "yes" => left = TTL
           /\ beat[h] = "none" => left >= timer[h] + Half

AllKept == AllPlaced /\ (errors = 0 => \A h \in Holder : Kept(h))

\* A tick finds every holder with its next refresh still ahead, and the key
\* with half of its time more.
LEMMA TickKeeps ==
    ASSUME Prompt = TRUE, Timed, NEW g \in Holder, Kept(g), Tick PROVE Kept(g)'
<1> USE LockAssumption
<1>1. call[g] = "none" /\ beat[g] = "none" /\ timer[g] # 0
  BY DEF Tick, Busy
<1>2. use' = use /\ call' = call /\ beat' = beat
  BY DEF Tick
<1>3. timer[g] \in 0 .. Off /\ left \in 0 .. TTL /\ use \in [Holder -> Uses]
  BY DEF Timed, LockTypeOK
<1>4. ASSUME use[g] = "holding"
      PROVE  key' = g /\ timer'[g] # Off /\ left' >= timer'[g] + Half
  <2>1. key = g /\ timer[g] # Off /\ left >= timer[g] + Half
    BY <1>1, <1>4 DEF Kept
  <2>2. timer[g] \in 1 .. Half /\ left > 1 /\ key # NoHolder
    BY <1>1, <1>3, <2>1
  <2>3. timer'[g] = timer[g] - 1
    BY <2>2 DEF Tick
  <2>4. key' = g /\ left' = left - 1
    BY <2>1, <2>2 DEF Tick
  <2>5. QED BY <1>3, <2>1, <2>2, <2>3, <2>4
<1>5. QED
  BY <1>1, <1>2, <1>4 DEF Kept

\* Every step keeps the holders' keys.
LEMMA KeptKept ==
    ASSUME Prompt = TRUE, AllKept, [LockNext]_lockVars
    PROVE  AllKept'
<1> SUFFICES ASSUME errors' = 0, NEW g \in Holder PROVE Kept(g)'
  BY PlacedKept DEF AllKept
<1>0. errors = 0 /\ ~Refuse
  BY NoRefusal DEF AllKept, AllPlaced
<1> USE <1>0, LockAssumption DEF AllKept, AllPlaced, Timed, Kept
<1>1. ASSUME NEW h \in Holder, Acquire(h) PROVE Kept(g)'
  BY <1>1 DEF Acquire
<1>2. ASSUME NEW h \in Holder, RunSet(h) PROVE Kept(g)'
  BY <1>2, <1>0 DEF RunSet, Answer
<1>3. ASSUME NEW h \in Holder, EndAcquire(h) PROVE Kept(g)'
  <2>1. /\ use[h] = "acquiring" /\ beat[h] = "none" /\ left' = left
        /\ key' = key /\ beat' = beat /\ call' = [call EXCEPT ![h] = "none"]
    BY <1>3 DEF EndAcquire, Placed
  <2>2. QED BY <1>3, <2>1, AcquireEnds
<1>4. ASSUME NEW h \in Holder, Beat(h) PROVE Kept(g)'
  BY <1>4 DEF Beat
<1>5. ASSUME NEW h \in Holder, RunRefresh(h) PROVE Kept(g)'
  BY <1>5, <1>0 DEF RunRefresh, Answer, Placed
<1>6. ASSUME NEW h \in Holder, EndBeat(h) PROVE Kept(g)'
  BY <1>6 DEF EndBeat
<1>7. ASSUME NEW h \in Holder, Release(h) PROVE Kept(g)'
  BY <1>7 DEF Release
<1>8. ASSUME NEW h \in Holder, RunRelease(h) PROVE Kept(g)'
  BY <1>8, <1>0 DEF RunRelease, Answer
<1>9. ASSUME NEW h \in Holder, EndRelease(h) PROVE Kept(g)'
  BY <1>9 DEF EndRelease
<1>10. ASSUME NEW h \in Holder, LoseConnection(h) PROVE Kept(g)'
  BY <1>10 DEF LoseConnection
<1>11. ASSUME NEW h \in Holder, Crash(h) PROVE Kept(g)'
  BY <1>11 DEF Crash
<1>12. CASE Tick
  BY <1>12, TickKeeps
<1>13. CASE UNCHANGED lockVars
  BY <1>13 DEF lockVars
<1>14. QED
  BY <1>1, <1>2, <1>3, <1>4, <1>5, <1>6, <1>7, <1>8, <1>9, <1>10, <1>11, <1>12,
     <1>13 DEF LockNext, LockStep

\* The first state.
LEMMA KeptInit == LockInit => AllKept
  BY LockInitTyped, LockAssumption DEF LockInit, AllKept, AllPlaced, Placed, Kept

(***************************************************************************)
(* With prompt replies, and while Redis has refused nothing, at most one user *)
(* holds the lock at a time, whatever connections and processes are lost   *)
(* and however long the users work.                                        *)
(***************************************************************************)
THEOREM Exclusion ==
    ASSUME Prompt = TRUE PROVE LockSpec => []MutualExclusion
<1>1. AllKept /\ [LockNext]_lockVars => AllKept'
  BY KeptKept
<1>2. AllKept => MutualExclusion
  BY DEF AllKept, Kept, MutualExclusion
<1>3. QED
  BY <1>1, <1>2, KeptInit, PTL DEF LockSpec

HIDE DEF TTL, Off, Replies, Commands, Uses, LockTypeOK

-----------------------------------------------------------------------------
(***************************************************************************)
(* The scheduler implements the lock's specification.                      *)
(***************************************************************************)

\* Each step of an execution is one of the lock, or leaves it alone.
LEMMA StepsOfLock == [Next]_allVars => [LockNext]_lockVars
<1> SUFFICES ASSUME [Next]_allVars PROVE [LockNext]_lockVars
  OBVIOUS
<1>1. ASSUME NEW h \in Holder, Fire(h) \/ Enter(h) \/ Die(h) PROVE LockNext
  BY <1>1 DEF Fire, Enter, Die, LockNext
<1>2. ASSUME NEW h \in Holder, Finally(h) PROVE LockNext
  BY <1>2 DEF Finally, LockNext
<1>3. ASSUME NEW h \in Holder,
             Touch(h) \/ Post(h) \/ MarkSuccess(h) \/ Announce(h)
             \/ MarkFailed(h) \/ AnnounceFailure(h) \/ Work(h)
      PROVE  UNCHANGED lockVars
  BY <1>3 DEF Touch, Post, MarkSuccess, Announce, MarkFailed, AnnounceFailure, Work
<1>4. CASE Background
  BY <1>4 DEF Background, LockNext
<1>5. CASE UNCHANGED allVars
  BY <1>5 DEF allVars
<1>6. QED
  BY <1>1, <1>2, <1>3, <1>4, <1>5 DEF Next, Body

(***************************************************************************)
(* Executions of scheduled backups are users of a DistributedLock: every   *)
(* behaviour of the scheduler is one of LockSpec.                          *)
(***************************************************************************)
THEOREM UsesLock == Spec => LockSpec
<1>1. Init => LockInit
  BY DEF Init
<1>2. QED
  BY <1>1, StepsOfLock, PTL DEF Spec, LockSpec

-----------------------------------------------------------------------------
(***************************************************************************)
(* Types, messages and records.                                            *)
(***************************************************************************)

BodyTypeOK ==
    /\ step \in [Holder -> Steps]
    /\ recorded \in [Holder -> {"none", "success", "failed"}]
    /\ told \in [Holder -> SUBSET {"success", "failed"}]
    /\ backup \in [Holder -> {"none", "queued", "running", "finished"}]
    /\ faults \in 0 .. MaxFaults

(***************************************************************************)
(* Nothing is told before the step that tells it, and that step comes      *)
(* right after the outcome has been recorded.                              *)
(***************************************************************************)
Telling(h) ==
    /\ use[h] \in {"idle", "acquiring"} => told[h] = {}
    /\ step[h] \in {"touch", "post", "markSuccess", "announce", "markFailed",
                    "announceFailure"} => told[h] = {}
    /\ step[h] = "announce" => recorded[h] = "success"
    /\ step[h] = "announceFailure" => recorded[h] = "failed"
    /\ told[h] \subseteq {recorded[h]}

AllTelling == Timed /\ BodyTypeOK /\ \A h \in Holder : Telling(h)

\* The first state.
LEMMA TellingInit == Init => AllTelling
  BY LockInitTyped, MaxFaultsAssumption
  DEF Init, LockInit, AllTelling, BodyTypeOK, Telling, Steps

\* A step of the body.
LEMMA BodyKeepsTelling ==
    ASSUME AllTelling, NEW h \in Holder, Body(h)
    PROVE  BodyTypeOK' /\ \A g \in Holder : Telling(g)'
<1> USE MaxFaultsAssumption
    DEF AllTelling, Timed, BodyTypeOK, Telling, At, Goto, Record, Tell, Steps, Fault, NoFault
<1>1. CASE Touch(h)
  BY <1>1 DEF Touch, lockVars
<1>2. CASE Post(h)
  BY <1>2 DEF Post, lockVars
<1>3. CASE MarkSuccess(h)
  BY <1>3 DEF MarkSuccess, lockVars
<1>4. CASE Announce(h)
  BY <1>4 DEF Announce, lockVars
<1>5. CASE MarkFailed(h)
  BY <1>5 DEF MarkFailed, lockVars
<1>6. CASE AnnounceFailure(h)
  BY <1>6 DEF AnnounceFailure, lockVars
<1>7. CASE Finally(h)
  <2>1. \E u \in {"releasing", "over"} : use' = [use EXCEPT ![h] = u]
    BY <1>7 DEF Finally, Release
  <2>2. /\ step' = [step EXCEPT ![h] = "none"]
        /\ UNCHANGED <<recorded, told, backup, faults>>
    BY <1>7 DEF Finally
  <2>3. QED BY <2>1, <2>2
<1>8. QED
  BY <1>1, <1>2, <1>3, <1>4, <1>5, <1>6, <1>7 DEF Body

\* The lock's own steps do not bring an execution back to where it began.
LEMMA BackgroundKeepsTelling ==
    ASSUME AllTelling, Background
    PROVE  BodyTypeOK' /\ \A g \in Holder : Telling(g)'
<1> USE DEF AllTelling, Timed
<1>1. UNCHANGED bodyVars
  BY DEF Background
<1>2. use' = use \/ \E h \in Holder : EndRelease(h)
  <2>1. ASSUME NEW h \in Holder, RunSet(h) \/ Beat(h) \/ RunRefresh(h) \/ EndBeat(h)
        PROVE  use' = use
    BY <2>1 DEF RunSet, Beat, RunRefresh, EndBeat
  <2>2. ASSUME NEW h \in Holder, RunRelease(h) \/ LoseConnection(h)
        PROVE  use' = use
    BY <2>2 DEF RunRelease, LoseConnection
  <2>3. CASE Tick
    BY <2>3 DEF Tick
  <2>4. QED BY <2>1, <2>2, <2>3 DEF Background, LockStep
<1>3. ASSUME NEW h \in Holder, EndRelease(h) PROVE use' = [use EXCEPT ![h] = "over"]
  BY <1>3 DEF EndRelease
<1>4. \A g \in Holder : use'[g] \in {"idle", "acquiring"} => use[g] = use'[g]
  <2>1. ASSUME NEW h \in Holder, EndRelease(h), NEW g \in Holder,
               use'[g] \in {"idle", "acquiring"}
        PROVE  use[g] = use'[g]
    BY <2>1, <1>3 DEF LockTypeOK
  <2>2. QED BY <1>2, <2>1
<1>5. QED
  BY <1>1, <1>4 DEF bodyVars, BodyTypeOK, Telling

\* Every step.
LEMMA NextKeepsTelling == AllTelling /\ [Next]_allVars => AllTelling'
<1> SUFFICES ASSUME AllTelling, [Next]_allVars
             PROVE  BodyTypeOK' /\ \A g \in Holder : Telling(g)'
  BY LockNextTyped, StepsOfLock DEF AllTelling
<1> USE DEF AllTelling, Timed, BodyTypeOK, Telling, Goto, Steps
<1>1. ASSUME NEW h \in Holder, Fire(h)
      PROVE  BodyTypeOK' /\ \A g \in Holder : Telling(g)'
  BY <1>1 DEF Fire, Acquire, bodyVars
<1>2. ASSUME NEW h \in Holder, Enter(h)
      PROVE  BodyTypeOK' /\ \A g \in Holder : Telling(g)'
  <2>1. EndAcquire(h) /\ use[h] = "acquiring"
    BY <1>2 DEF Enter, EndAcquire
  <2>2. \E u \in {"holding", "refused", "failed"} : use' = [use EXCEPT ![h] = u]
    BY <2>1, AcquireEnds
  <2>3. step' = step \/ step' = [step EXCEPT ![h] = "touch"]
    BY <1>2 DEF Enter
  <2>4. UNCHANGED <<recorded, told, backup, faults>>
    BY <1>2 DEF Enter
  <2>5. QED BY <2>1, <2>2, <2>3, <2>4
<1>3. ASSUME NEW h \in Holder, Die(h)
      PROVE  BodyTypeOK' /\ \A g \in Holder : Telling(g)'
  BY <1>3 DEF Die, Crash
<1>4. ASSUME NEW h \in Holder, Work(h)
      PROVE  BodyTypeOK' /\ \A g \in Holder : Telling(g)'
  BY <1>4 DEF Work, lockVars
<1>5. CASE UNCHANGED allVars
  BY <1>5 DEF allVars, bodyVars, lockVars
<1>6. QED
  BY <1>1, <1>2, <1>3, <1>4, <1>5, BodyKeepsTelling, BackgroundKeepsTelling DEF Next

(***************************************************************************)
(* Every variable of the scheduler's executions keeps its type.            *)
(***************************************************************************)
THEOREM ScheduledTypeCorrect == Spec => []TypeOK
<1>1. AllTelling => TypeOK
  BY DEF AllTelling, Timed, BodyTypeOK, TypeOK
<1>2. QED
  BY <1>1, TellingInit, NextKeepsTelling, PTL DEF Spec

(***************************************************************************)
(* What an execution tells is what it has recorded.                        *)
(***************************************************************************)
THEOREM MessagesTrue == Spec => []MessagesMatchRecord
<1>1. AllTelling => MessagesMatchRecord
  BY DEF AllTelling, Telling, MessagesMatchRecord
<1>2. QED
  BY <1>1, TellingInit, NextKeepsTelling, PTL DEF Spec

-----------------------------------------------------------------------------
(***************************************************************************)
(* The lock and the backup.                                                *)
(***************************************************************************)

\* Only the execution's own POST makes its backup, while it holds the lock.
LEMMA OnlyHolderPosts ==
    ASSUME BodyTypeOK, [Next]_allVars, NEW h \in Holder, backup[h] = "none", backup'[h] # "none"
    PROVE  use[h] = "holding"
<1> USE DEF BodyTypeOK
<1>1. ASSUME NEW g \in Holder, Post(g) PROVE use[h] = "holding"
  BY <1>1 DEF Post, At
<1>2. ASSUME NEW g \in Holder, Work(g) PROVE FALSE
  BY <1>2 DEF Work
<1>3. ASSUME NEW g \in Holder,
             \/ Fire(g) \/ Enter(g) \/ Die(g) \/ Finally(g) \/ Touch(g) \/ MarkSuccess(g)
             \/ Announce(g) \/ MarkFailed(g) \/ AnnounceFailure(g)
      PROVE  FALSE
  BY <1>3 DEF Fire, Enter, Die, Finally, Touch, MarkSuccess, Announce,
              MarkFailed, AnnounceFailure, bodyVars
<1>4. CASE Background
  BY <1>4 DEF Background, bodyVars
<1>5. CASE UNCHANGED allVars
  BY <1>5 DEF allVars, bodyVars
<1>6. QED
  BY <1>1, <1>2, <1>3, <1>4, <1>5 DEF Next, Body

(***************************************************************************)
(* With prompt replies, and while Redis has refused nothing, the orchestrator *)
(* is asked for a backup only under the database's key.                    *)
(***************************************************************************)
THEOREM PostsUnderLock ==
    ASSUME Prompt = TRUE PROVE Spec => BackupUnderLock
<1>1. Init => AllKept
  BY KeptInit DEF Init
<1>2. AllKept /\ [Next]_allVars => AllKept'
  BY KeptKept, StepsOfLock
<1>3. AllKept /\ AllTelling /\ [Next]_allVars =>
          [\A h \in Holder :
              errors = 0 /\ backup[h] = "none" /\ backup'[h] # "none" => key = h]_allVars
  BY OnlyHolderPosts DEF AllKept, Kept, AllTelling
<1>4. QED
  BY <1>1, <1>2, <1>3, TellingInit, NextKeepsTelling, PTL DEF Spec, BackupUnderLock
=============================================================================
