---------------------------- MODULE ShmtxProofs ----------------------------
(***************************************************************************)
(* The lock of core/ngx_shmtx.c is a lock, and loses no wake-up, for any   *)
(* finite set of processes, any number of spins, with and without a        *)
(* semaphore, and whatever number of sleepers are killed.                  *)
(***************************************************************************)
EXTENDS Shmtx, FiniteSetTheorems, TLAPS

(* The steps that touch nothing but the program counter and local          *)
(* variables of the process: reads, failed attempts, calls.                *)
LocalStep(p) ==
  \/ TrylockRead(p) \/ TrylockFails(p) \/ Lock(p) \/ LockRead(p) \/ LockFails(p)
  \/ AnnounceRead(p) \/ AnnounceFails(p) \/ Unlock(p) \/ UnlockRead(p)
  \/ ReleaseFails(p)

LEMMA StepCases ==
  ASSUME NEW p \in Procs, Step(p)
  PROVE  \/ LocalStep(p) \/ TrylockTaken(p) \/ LockTaken(p) \/ Announce(p)
         \/ Awake(p) \/ Release(p) \/ SemPost(p) \/ SemWaitFails(p) \/ Killed(p)
BY DEF Step, Proceeds, LocalStep

LEMMA NextTypeOK == TypeOK /\ [Next]_vars => TypeOK'
<1> SUFFICES ASSUME TypeOK, [Next]_vars PROVE TypeOK'
  OBVIOUS
<1> USE DEF TypeOK, Goto, Read, CmpSet, Labels, Word
<1>1. ASSUME NEW p \in Procs, LocalStep(p) PROVE TypeOK'
  <2>1. CASE TrylockRead(p) \/ LockRead(p) \/ AnnounceRead(p) \/ UnlockRead(p)
    BY <2>1 DEF TrylockRead, LockRead, AnnounceRead, UnlockRead
  <2>2. CASE TrylockFails(p) \/ AnnounceFails(p) \/ Unlock(p) \/ ReleaseFails(p)
    BY <2>2 DEF TrylockFails, AnnounceFails, Unlock, ReleaseFails
  <2>3. CASE Lock(p)
    BY <2>3 DEF Lock
  <2>4. CASE LockFails(p)
    BY <2>4, ParameterAssumption DEF LockFails
  <2> QED
    BY <1>1, <2>1, <2>2, <2>3, <2>4 DEF LocalStep
<1>2. ASSUME NEW p \in Procs, TrylockTaken(p) \/ LockTaken(p) PROVE TypeOK'
  <2>1. word' \in Word
    BY <1>2 DEF TrylockTaken, LockTaken, WithBit
  <2> QED
    BY <1>2, <2>1 DEF TrylockTaken, LockTaken
<1>3. ASSUME NEW p \in Procs, Announce(p) PROVE TypeOK'
  <2>1. word' \in Word
    BY <1>3 DEF Announce
  <2> QED
    BY <1>3, <2>1 DEF Announce
<1>4. ASSUME NEW p \in Procs, Release(p) PROVE TypeOK'
  <2>1. word' \in Word
    BY <1>4 DEF Release, WithoutBit
  <2> QED
    BY <1>4, <2>1 DEF Release
<1>5. ASSUME NEW p \in Procs, Awake(p) PROVE TypeOK'
  BY <1>5 DEF Awake
<1>6. ASSUME NEW p \in Procs, SemPost(p) PROVE TypeOK'
  BY <1>6 DEF SemPost
<1>7. ASSUME NEW p \in Procs, SemWaitFails(p) \/ Killed(p) PROVE TypeOK'
  BY <1>7 DEF SemWaitFails, Killed
<1>8. CASE UNCHANGED vars
  BY <1>8 DEF vars
<1> QED
  BY <1>1, <1>2, <1>3, <1>4, <1>5, <1>6, <1>7, <1>8, StepCases DEF Next

(* Every variable keeps its type; in particular the count of waiters in    *)
(* the word and the semaphore never go below zero.                         *)
THEOREM TypeCorrect == Spec => []TypeOK
<1>1. Init => TypeOK
  BY DEF Init, TypeOK, Free, Word, Labels
<1> QED
  BY <1>1, NextTypeOK, PTL DEF Spec

-----------------------------------------------------------------------------
LockInv == MutualExclusion /\ BitMeansHeld

(* How a step changes who holds the lock.                                   *)
LEMMA HoldersChange ==
  ASSUME TypeOK, [Next]_vars
  PROVE  \/ UNCHANGED word.bit /\ \A q \in Procs : Holds(q)' = Holds(q)
         \/ \E p \in Procs : /\ ~word.bit /\ word'.bit /\ Holds(p)'
                             /\ \A q \in Procs \ {p} : Holds(q)' = Holds(q)
         \/ \E p \in Procs : /\ Holds(p) /\ ~Holds(p)' /\ ~word'.bit
                             /\ \A q \in Procs \ {p} : Holds(q)' = Holds(q)
<1> DEFINE Goal ==
         \/ UNCHANGED word.bit /\ \A q \in Procs : Holds(q)' = Holds(q)
         \/ \E p \in Procs : /\ ~word.bit /\ word'.bit /\ Holds(p)'
                             /\ \A q \in Procs \ {p} : Holds(q)' = Holds(q)
         \/ \E p \in Procs : /\ Holds(p) /\ ~Holds(p)' /\ ~word'.bit
                             /\ \A q \in Procs \ {p} : Holds(q)' = Holds(q)
<1> USE DEF TypeOK, Goto, CmpSet, Holds, Word
<1>1. ASSUME NEW p \in Procs, LocalStep(p) PROVE Goal
  BY <1>1 DEF LocalStep, TrylockRead, TrylockFails, Lock, LockRead, LockFails,
       AnnounceRead, AnnounceFails, Unlock, UnlockRead, ReleaseFails
<1>2. ASSUME NEW p \in Procs, TrylockTaken(p) \/ LockTaken(p) PROVE Goal
  <2>1. ~word.bit /\ word'.bit /\ Holds(p)'
    BY <1>2 DEF TrylockTaken, LockTaken, WithBit
  <2>2. \A q \in Procs \ {p} : Holds(q)' = Holds(q)
    BY <1>2 DEF TrylockTaken, LockTaken
  <2> HIDE DEF Holds
  <2> QED
    BY <2>1, <2>2
<1>3. ASSUME NEW p \in Procs, Announce(p) PROVE Goal
  BY <1>3 DEF Announce
<1>4. ASSUME NEW p \in Procs, Release(p) PROVE Goal
  <2>1. Holds(p) /\ ~Holds(p)' /\ ~word'.bit
    BY <1>4 DEF Release, WithoutBit
  <2>2. \A q \in Procs \ {p} : Holds(q)' = Holds(q)
    BY <1>4 DEF Release
  <2> HIDE DEF Holds
  <2> QED
    BY <2>1, <2>2
<1>5. ASSUME NEW p \in Procs,
             Awake(p) \/ SemPost(p) \/ SemWaitFails(p) \/ Killed(p)
      PROVE  Goal
  BY <1>5 DEF Awake, SemPost, SemWaitFails, Killed
<1>6. ASSUME UNCHANGED vars PROVE Goal
  BY <1>6 DEF vars
<1> HIDE DEF Goal
<1>7. ASSUME NEW p \in Procs, Step(p) PROVE Goal
  <2>1. \/ LocalStep(p) \/ TrylockTaken(p) \/ LockTaken(p) \/ Announce(p)
        \/ Awake(p) \/ Release(p) \/ SemPost(p) \/ SemWaitFails(p) \/ Killed(p)
    BY <1>7, StepCases
  <2> QED
    BY <2>1, <1>1, <1>2, <1>3, <1>4, <1>5
<1>8. Goal
  BY <1>6, <1>7 DEF Next
<1> QED
  BY <1>8 DEF Goal

LEMMA NextLockInv ==
  ASSUME TypeOK, TypeOK', LockInv, [Next]_vars
  PROVE  LockInv'
<1>1. word.bit \in BOOLEAN /\ word'.bit \in BOOLEAN
  BY DEF TypeOK, Word
<1> QED
  BY <1>1, HoldersChange DEF LockInv, MutualExclusion, BitMeansHeld

LEMMA LockInvariant == Spec => []LockInv
<1>1. Init => LockInv
  BY DEF Init, LockInv, MutualExclusion, BitMeansHeld, Holds, Free
<1>2. TypeOK /\ TypeOK' /\ LockInv /\ [Next]_vars => LockInv'
  BY NextLockInv
<1> QED
  BY <1>1, <1>2, TypeCorrect, PTL DEF Spec

(* No two processes hold the lock: ngx_shmtx_lock and ngx_shmtx_trylock    *)
(* decide on a word read earlier, but take effect only if it still stands. *)
THEOREM Exclusion == Spec => []MutualExclusion
<1>1. LockInv => MutualExclusion
  BY DEF LockInv
<1> QED
  BY <1>1, LockInvariant, PTL

(* The lock bit is set exactly while some process holds the lock.           *)
THEOREM BitIsHeld == Spec => []BitMeansHeld
<1>1. LockInv => BitMeansHeld
  BY DEF LockInv
<1> QED
  BY <1>1, LockInvariant, PTL

(* The detailed lock, with its reads and compare-and-sets apart, implements *)
(* the abstract lock.                                                       *)
THEOREM RefinesMutex == Spec => MutexSpec
<1> DEFINE In == {p \in Procs : Holds(p)}
<1>1. Init => M!Init
  BY DEF Init, M!Init, Holds
<1>2. TypeOK /\ LockInv /\ TypeOK' /\ LockInv' /\ [Next]_vars => [M!Next]_In
  <2> SUFFICES ASSUME TypeOK, LockInv, TypeOK', LockInv', [Next]_vars
               PROVE  In' = In \/ M!Next
    OBVIOUS
  <2> USE DEF LockInv, MutualExclusion, BitMeansHeld
  <2>1. CASE \A q \in Procs : Holds(q)' = Holds(q)
    BY <2>1
  <2>2. ASSUME NEW p \in Procs, ~word.bit, word'.bit, Holds(p)',
               \A q \in Procs \ {p} : Holds(q)' = Holds(q)
        PROVE  M!Next
    <3>1. In = {} /\ In' = {p}
      BY <2>2
    <3> QED
      BY <3>1 DEF M!Next, M!Enter
  <2>3. ASSUME NEW p \in Procs, Holds(p), ~Holds(p)', ~word'.bit,
               \A q \in Procs \ {p} : Holds(q)' = Holds(q)
        PROVE  M!Next
    <3>1. In = {p} /\ In' = {}
      BY <2>3
    <3> QED
      BY <3>1 DEF M!Next, M!Leave
  <2> QED
    BY <2>1, <2>2, <2>3, HoldersChange
<1> QED
  BY <1>1, <1>2, LockInvariant, TypeCorrect, PTL DEF Spec, MutexSpec, M!Spec

-----------------------------------------------------------------------------
(* Without a semaphore nobody ever sleeps, so an unlock that finds waiters  *)
(* counted but posts nothing forgets nobody.                                *)
NoSemaphoreNoSleep ==
  ~semaphore => \A p \in Procs : pc[p] \notin {"announce", "sleep", "wait"}

WakeupInv == NoLostWakeup /\ NoSemaphoreNoSleep

LEMMA NextNoSemaphoreNoSleep ==
  ASSUME TypeOK, NoSemaphoreNoSleep, [Next]_vars
  PROVE  NoSemaphoreNoSleep'
<1> USE DEF TypeOK, NoSemaphoreNoSleep, Goto
<1>1. ASSUME NEW p \in Procs, LocalStep(p) PROVE NoSemaphoreNoSleep'
  BY <1>1 DEF LocalStep, TrylockRead, TrylockFails, Lock, LockRead, LockFails,
       AnnounceRead, AnnounceFails, Unlock, UnlockRead, ReleaseFails
<1>2. ASSUME NEW p \in Procs,
             \/ TrylockTaken(p) \/ LockTaken(p) \/ Announce(p) \/ Awake(p)
             \/ Release(p) \/ SemPost(p) \/ SemWaitFails(p) \/ Killed(p)
      PROVE  NoSemaphoreNoSleep'
  BY <1>2 DEF TrylockTaken, LockTaken, Announce, Awake, Release, SemPost, SemWaitFails,
              Killed
<1>3. CASE UNCHANGED vars
  BY <1>3 DEF vars
<1> QED
  BY <1>1, <1>2, <1>3, StepCases DEF Next

LEMMA SetsFinite ==
  /\ IsFiniteSet(Sleepers) /\ Cardinality(Sleepers) \in Nat
  /\ IsFiniteSet(Posters) /\ Cardinality(Posters) \in Nat
<1>1. Sleepers \in SUBSET Procs /\ Posters \in SUBSET Procs
  BY DEF Sleepers, Posters
<1>2. IsFiniteSet(Sleepers) /\ IsFiniteSet(Posters)
  BY <1>1, FS_Subset, ProcsAssumption
<1> QED
  BY <1>2, FS_CardinalityType

LEMMA NextNoLostWakeup ==
  ASSUME TypeOK, TypeOK', WakeupInv, [Next]_vars
  PROVE  NoLostWakeup'
<1> DEFINE S == Cardinality(Sleepers)
           P == Cardinality(Posters)
<1> USE DEF TypeOK, Goto, CmpSet, Word
<1>0. /\ word.wait \in Nat /\ word'.wait \in Nat /\ sem \in Nat /\ sem' \in Nat
      /\ S \in Nat /\ P \in Nat /\ S <= word.wait + sem + P
  BY SetsFinite DEF WakeupInv, NoLostWakeup
<1>1. ASSUME NEW p \in Procs, \/ LocalStep(p) \/ TrylockTaken(p) \/ LockTaken(p)
      PROVE  NoLostWakeup'
  <2>1. Sleepers' = Sleepers /\ Posters' = Posters /\ sem' = sem
    BY <1>1 DEF LocalStep, TrylockRead, TrylockFails, Lock, LockRead, LockFails,
       AnnounceRead, AnnounceFails, Unlock, UnlockRead, ReleaseFails, TrylockTaken,
       LockTaken, Sleepers, Posters
  <2>2. word'.wait = word.wait
    BY <1>1 DEF LocalStep, TrylockRead, TrylockFails, Lock, LockRead, LockFails,
       AnnounceRead, AnnounceFails, Unlock, UnlockRead, ReleaseFails, TrylockTaken,
       LockTaken, WithBit
  <2> QED
    BY <2>1, <2>2, <1>0 DEF NoLostWakeup
<1>2. ASSUME NEW p \in Procs, Announce(p) PROVE NoLostWakeup'
  <2>1. Sleepers' = Sleepers \cup {p} /\ p \notin Sleepers /\ Posters' = Posters
    BY <1>2 DEF Announce, Sleepers, Posters
  <2>2. word'.wait = word.wait + 1 /\ sem' = sem
    BY <1>2 DEF Announce
  <2>3. Cardinality(Sleepers') = S + 1
    BY <2>1, SetsFinite, FS_AddElement
  <2> QED
    BY <2>1, <2>2, <2>3, <1>0 DEF NoLostWakeup
<1>3. ASSUME NEW p \in Procs, Awake(p) PROVE NoLostWakeup'
  <2>1. Sleepers' = Sleepers \ {p} /\ p \in Sleepers /\ Posters' = Posters
    BY <1>3 DEF Awake, Sleepers, Posters
  <2>2. word'.wait = word.wait /\ sem' = sem - 1
    BY <1>3 DEF Awake
  <2>3. Cardinality(Sleepers') = S - 1
    BY <2>1, SetsFinite, FS_RemoveElement
  <2> QED
    BY <2>1, <2>2, <2>3, <1>0 DEF NoLostWakeup
<1>4. ASSUME NEW p \in Procs, Release(p) PROVE NoLostWakeup'
  <2>1. Sleepers' = Sleepers /\ sem' = sem
    BY <1>4 DEF Release, Sleepers
  <2>2. CASE val[p].wait > 0 /\ semaphore
    <3>1. Posters' = Posters \cup {p} /\ p \notin Posters
      BY <1>4, <2>2 DEF Release, Posters
    <3>2. word'.wait = word.wait - 1
      BY <1>4, <2>2 DEF Release, WithoutBit
    <3>3. Cardinality(Posters') = P + 1
      BY <3>1, SetsFinite, FS_AddElement
    <3> QED
      BY <2>1, <3>2, <3>3, <1>0 DEF NoLostWakeup
  <2>3. CASE val[p].wait > 0 /\ ~semaphore
    <3>1. Sleepers = {}
      BY <2>3 DEF WakeupInv, NoSemaphoreNoSleep, Sleepers
    <3>2. Cardinality(Sleepers') = 0
      BY <3>1, <2>1, FS_EmptySet
    <3>3. Posters' \in SUBSET Procs
      BY DEF Posters
    <3>4. Cardinality(Posters') \in Nat
      BY <3>3, FS_Subset, FS_CardinalityType, ProcsAssumption
    <3> QED
      BY <3>2, <3>4, <1>0 DEF NoLostWakeup
  <2>4. CASE ~(val[p].wait > 0)
    <3>1. Posters' = Posters
      BY <1>4, <2>4 DEF Release, Posters
    <3>2. word'.wait = word.wait
      BY <1>4, <2>4 DEF Release, WithoutBit
    <3> QED
      BY <2>1, <3>1, <3>2, <1>0 DEF NoLostWakeup
  <2> QED
    BY <2>2, <2>3, <2>4
<1>5. ASSUME NEW p \in Procs, SemPost(p) PROVE NoLostWakeup'
  <2>1. Posters' = Posters \ {p} /\ p \in Posters /\ Sleepers' = Sleepers
    BY <1>5 DEF SemPost, Sleepers, Posters
  <2>2. word'.wait = word.wait /\ sem' = sem + 1
    BY <1>5 DEF SemPost
  <2>3. Cardinality(Posters') = P - 1
    BY <2>1, SetsFinite, FS_RemoveElement
  <2> QED
    BY <2>1, <2>2, <2>3, <1>0 DEF NoLostWakeup
<1>6. ASSUME NEW p \in Procs, SemWaitFails(p) \/ Killed(p) PROVE NoLostWakeup'
  <2>1. Sleepers' = Sleepers \ {p} /\ Posters' = Posters /\ UNCHANGED <<word, sem>>
    BY <1>6 DEF SemWaitFails, Killed, Sleepers, Posters
  <2>2. Cardinality(Sleepers') \in {S - 1, S}
    BY <2>1, SetsFinite, FS_RemoveElement
  <2> QED
    BY <2>1, <2>2, <1>0 DEF NoLostWakeup
<1>7. CASE UNCHANGED vars
  <2>1. Sleepers' = Sleepers /\ Posters' = Posters /\ UNCHANGED <<word, sem>>
    BY <1>7 DEF vars, Sleepers, Posters
  <2> QED
    BY <2>1, <1>0 DEF NoLostWakeup
<1>8. ASSUME NEW p \in Procs, Step(p) PROVE NoLostWakeup'
  <2>1. \/ LocalStep(p) \/ TrylockTaken(p) \/ LockTaken(p) \/ Announce(p)
        \/ Awake(p) \/ Release(p) \/ SemPost(p) \/ SemWaitFails(p) \/ Killed(p)
    BY <1>8, StepCases
  <2> QED
    BY <2>1, <1>1, <1>2, <1>3, <1>4, <1>5, <1>6
<1> QED
  BY <1>7, <1>8 DEF Next

LEMMA WakeupInvariant == Spec => []WakeupInv
<1>1. Init => WakeupInv
  <2>1. ASSUME Init PROVE Sleepers = {} /\ Posters = {}
    BY <2>1 DEF Init, Sleepers, Posters
  <2>2. ASSUME Init PROVE NoLostWakeup
    <3>1. Cardinality(Sleepers) = 0 /\ Cardinality(Posters) = 0
      BY <2>1, <2>2, FS_EmptySet
    <3>2. word.wait = 0 /\ sem = 0
      BY <2>2 DEF Init, Free
    <3> QED
      BY <3>1, <3>2 DEF NoLostWakeup
  <2> QED
    BY <2>2 DEF Init, WakeupInv, NoSemaphoreNoSleep
<1>2. TypeOK /\ TypeOK' /\ WakeupInv /\ [Next]_vars => WakeupInv'
  BY NextNoLostWakeup, NextNoSemaphoreNoSleep DEF WakeupInv
<1> QED
  BY <1>1, <1>2, TypeCorrect, PTL DEF Spec

(* No wake-up is lost: the sleepers in sem_wait never outnumber the        *)
(* waiters counted in the word, the tokens of the semaphore and the        *)
(* unlocks about to post, for any number of processes and any number of    *)
(* sleepers killed or failing.                                             *)
THEOREM WakeupNotLost == Spec => []NoLostWakeup
<1>1. WakeupInv => NoLostWakeup
  BY DEF WakeupInv
<1> QED
  BY <1>1, WakeupInvariant, PTL

-----------------------------------------------------------------------------
(* A process that will try for the lock, or wakes one that will.            *)
Coming(p) == pc[p] \in {"read", "cas", "announce", "sleep", "post"}

LEMMA NextSuccessor ==
  ASSUME TypeOK, WakeupInv, SleeperHasSuccessor, [Next]_vars
  PROVE  SleeperHasSuccessor'
<1> SUFFICES ASSUME faults' = 0, Sleepers' # {}, ~word'.bit, ~(sem' > 0)
             PROVE  \E p \in Procs : Coming(p)'
  BY DEF SleeperHasSuccessor, Coming
<1> USE DEF TypeOK, Goto, Read, CmpSet, Word
<1>1. faults = 0 /\ Sleepers # {} /\ ~word.bit /\ ~(sem > 0)
        => \E p \in Procs : Coming(p)
  BY DEF SleeperHasSuccessor, Coming
<1>2. ASSUME NEW p \in Procs, LocalStep(p) PROVE \E q \in Procs : Coming(q)'
  <2>1. Sleepers' = Sleepers /\ UNCHANGED <<word, sem, faults>>
    BY <1>2 DEF LocalStep, TrylockRead, TrylockFails, Lock, LockRead, LockFails,
         AnnounceRead, AnnounceFails, Unlock, UnlockRead, ReleaseFails, Sleepers
  <2>2. PICK q \in Procs : Coming(q)
    BY <1>1, <2>1
  <2>3. Coming(q)'
    BY <1>2, <2>2 DEF LocalStep, TrylockRead, TrylockFails, Lock, LockRead, LockFails,
         AnnounceRead, AnnounceFails, Unlock, UnlockRead, ReleaseFails, Coming
  <2> QED BY <2>3
<1>3. ASSUME NEW p \in Procs, TrylockTaken(p) \/ LockTaken(p) \/ Announce(p) PROVE FALSE
  BY <1>3 DEF TrylockTaken, LockTaken, Announce, WithBit
<1>4. ASSUME NEW p \in Procs, Awake(p) PROVE Coming(p)'
  BY <1>4 DEF Awake, Coming
<1>5. ASSUME NEW p \in Procs, Release(p) PROVE \E q \in Procs : Coming(q)'
  <2>1. /\ Sleepers' = Sleepers /\ sem' = sem /\ val[p] = word
        /\ \A q \in Procs \ {p} : pc'[q] = pc[q]
    BY <1>5 DEF Release, Sleepers
  <2>2. semaphore
    BY <2>1 DEF WakeupInv, NoSemaphoreNoSleep, Sleepers
  <2>3. CASE word.wait > 0
    BY <1>5, <2>1, <2>2, <2>3 DEF Release, Coming
  <2>4. CASE word.wait = 0
    <3>1. Cardinality(Sleepers) <= Cardinality(Posters)
      BY <2>1, <2>4, SetsFinite DEF WakeupInv, NoLostWakeup
    <3>2. Cardinality(Sleepers) # 0
      BY <2>1, SetsFinite, FS_EmptySet
    <3>3. Posters # {}
      BY <3>1, <3>2, SetsFinite, FS_EmptySet
    <3>4. PICK q \in Procs : pc[q] = "post"
      BY <3>3 DEF Posters
    <3>5. Coming(q)'
      BY <1>5, <2>1, <3>4 DEF Release, Coming
    <3> QED BY <3>5
  <2> QED BY <2>3, <2>4
<1>6. ASSUME NEW p \in Procs, SemPost(p) PROVE FALSE
  BY <1>6 DEF SemPost
<1>7. ASSUME NEW p \in Procs, SemWaitFails(p) \/ Killed(p) PROVE FALSE
  BY <1>7 DEF SemWaitFails, Killed
<1>8. ASSUME UNCHANGED vars PROVE \E q \in Procs : Coming(q)'
  <2>1. /\ Sleepers' = Sleepers /\ UNCHANGED <<word, sem, faults>>
        /\ \A q \in Procs : Coming(q)' = Coming(q)
    BY <1>8 DEF vars, Sleepers, Coming
  <2> QED BY <1>1, <2>1
<1> QED BY <1>2, <1>3, <1>4, <1>5, <1>6, <1>7, <1>8, StepCases DEF Next

(* The lock is never free while everyone who wants it sleeps: an unlock    *)
(* that finds no waiter counted has no sleeper either, unless a wake-up is *)
(* under way.                                                              *)
THEOREM SuccessorExists == Spec => []SleeperHasSuccessor
<1>1. Init => SleeperHasSuccessor
  BY DEF Init, SleeperHasSuccessor, Sleepers
<1>2. TypeOK /\ WakeupInv /\ SleeperHasSuccessor /\ [Next]_vars => SleeperHasSuccessor'
  BY NextSuccessor
<1> QED
  BY <1>1, <1>2, TypeCorrect, WakeupInvariant, PTL DEF Spec

=============================================================================
