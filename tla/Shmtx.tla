------------------------------- MODULE Shmtx -------------------------------
(***************************************************************************)
(* The lock that nginx keeps in shared memory (core/ngx_shmtx.c, the       *)
(* branch with atomic operations and POSIX semaphores): the slab allocator *)
(* and every zone built on it (limit_req, limit_zone, the file cache, SSL  *)
(* sessions) take it with ngx_shmtx_lock.  One 32-bit word holds the lock  *)
(* bit 0x80000000 and, below it, the number of processes that announced    *)
(* they are about to sleep.  Reading the word and the compare-and-set that *)
(* follows are separate steps: another process may run between them.       *)
(*                                                                         *)
(* A definition named Mutant_... is a wrong variant of the one after it:   *)
(* no specification uses it, a run shows that a property refuses it.       *)
(***************************************************************************)
EXTENDS Integers, FiniteSets

CONSTANTS
  Procs,      \* processes that share the lock
  Spins,      \* turns of the spin loop, 0 when ngx_ncpu = 1
  MaxFaults   \* bound: failing sem_wait calls and killed processes

ASSUME ProcsAssumption == IsFiniteSet(Procs)

ASSUME ParameterAssumption ==
  Spins \in Nat /\ MaxFaults \in Nat

VARIABLES
  word,   \* *mtx->lock: the lock bit and the count of waiters
  sem,    \* value of mtx->sem
  semaphore, \* mtx->semaphore: whether sem_init succeeded
  pc,     \* where each process is
  val,    \* the word as the process last read it
  spin,   \* turns of the spin loop done
  faults

vars == <<word, sem, semaphore, pc, val, spin, faults>>

Word == [bit : BOOLEAN, wait : Nat]

Labels == {"idle", "trylock", "read", "cas", "announce", "sleep", "wait", "critical",
           "unlock", "release", "post", "killed"}

TypeOK ==
  /\ word \in Word /\ sem \in Nat /\ semaphore \in BOOLEAN
  /\ pc \in [Procs -> Labels]
  /\ val \in [Procs -> Word]
  /\ spin \in [Procs -> Nat]
  /\ faults \in Nat

(* ngx_shmtx_create: the word starts at zero, the semaphore too; without   *)
(* sem_init the lock only spins and yields.                                *)
Free == [bit |-> FALSE, wait |-> 0]

Init ==
  /\ word = Free /\ sem = 0 /\ semaphore \in BOOLEAN
  /\ pc = [p \in Procs |-> "idle"]
  /\ val = [p \in Procs |-> Free]
  /\ spin = [p \in Procs |-> 0]
  /\ faults = 0

Goto(p, l) == pc' = [pc EXCEPT ![p] = l]

Read(p) == val' = [val EXCEPT ![p] = word]

(* ngx_atomic_cmp_set(mtx->lock, val, new)                                  *)
CmpSet(p, new) == word = val[p] /\ word' = new

WithBit(v) == [v EXCEPT !.bit = TRUE]

-----------------------------------------------------------------------------
(* ngx_shmtx_trylock: one attempt.                                          *)
TrylockRead(p) ==
  /\ pc[p] = "idle" /\ Read(p) /\ Goto(p, "trylock")
  /\ UNCHANGED <<word, sem, spin, faults, semaphore>>

TrylockTaken(p) ==
  /\ pc[p] = "trylock" /\ ~val[p].bit /\ CmpSet(p, WithBit(val[p]))
  /\ Goto(p, "critical")
  /\ UNCHANGED <<sem, val, spin, faults, semaphore>>

TrylockFails(p) ==
  /\ pc[p] = "trylock" /\ (val[p].bit \/ word # val[p])
  /\ Goto(p, "idle")
  /\ UNCHANGED <<word, sem, val, spin, faults, semaphore>>

(* ngx_shmtx_lock is called.                                                *)
Lock(p) ==
  /\ pc[p] = "idle" /\ Goto(p, "read")
  /\ spin' = [spin EXCEPT ![p] = 0]
  /\ UNCHANGED <<word, sem, val, faults, semaphore>>

LockRead(p) ==
  /\ pc[p] = "read" /\ Read(p) /\ Goto(p, "cas")
  /\ UNCHANGED <<word, sem, spin, faults, semaphore>>

Mutant_LockBlindStore(p) ==
  /\ pc[p] = "cas" /\ ~val[p].bit /\ word' = WithBit(val[p])
  /\ Goto(p, "critical")
  /\ UNCHANGED <<sem, val, spin, faults, semaphore>>

LockTaken(p) ==
  /\ pc[p] = "cas" /\ ~val[p].bit /\ CmpSet(p, WithBit(val[p]))
  /\ Goto(p, "critical")
  /\ UNCHANGED <<sem, val, spin, faults, semaphore>>

(* The attempt failed: spin and read again, or else sleep on the semaphore *)
(* if there is one, or else yield and start over.                          *)
LockFails(p) ==
  /\ pc[p] = "cas" /\ (val[p].bit \/ word # val[p])
  /\ IF spin[p] < Spins
       THEN /\ spin' = [spin EXCEPT ![p] = @ + 1]
            /\ Goto(p, "read")
       ELSE /\ spin' = [spin EXCEPT ![p] = 0]
            /\ Goto(p, IF semaphore THEN "announce" ELSE "read")
  /\ UNCHANGED <<word, sem, val, faults, semaphore>>

AnnounceRead(p) ==
  /\ pc[p] = "announce" /\ Read(p) /\ Goto(p, "sleep")
  /\ UNCHANGED <<word, sem, spin, faults, semaphore>>

(* val + 1: the process is counted before it sleeps, and only while the    *)
(* word it read, lock bit set, is still there.                             *)
Mutant_AnnounceUncounted(p) ==
  /\ pc[p] = "sleep" /\ val[p].bit /\ word = val[p]
  /\ Goto(p, "wait")
  /\ UNCHANGED <<word, sem, val, spin, faults, semaphore>>

Mutant_AnnounceOnStaleWord(p) ==
  /\ pc[p] = "sleep" /\ val[p].bit
  /\ word' = [word EXCEPT !.wait = @ + 1]
  /\ Goto(p, "wait")
  /\ UNCHANGED <<sem, val, spin, faults, semaphore>>

Mutant_AnnounceBlindStore(p) ==
  /\ pc[p] = "sleep" /\ val[p].bit
  /\ word' = [val[p] EXCEPT !.wait = @ + 1]
  /\ Goto(p, "wait")
  /\ UNCHANGED <<sem, val, spin, faults, semaphore>>

Announce(p) ==
  /\ pc[p] = "sleep" /\ val[p].bit
  /\ CmpSet(p, [val[p] EXCEPT !.wait = @ + 1])
  /\ Goto(p, "wait")
  /\ UNCHANGED <<sem, val, spin, faults, semaphore>>

AnnounceFails(p) ==
  /\ pc[p] = "sleep" /\ (~val[p].bit \/ word # val[p])
  /\ Goto(p, "read")
  /\ UNCHANGED <<word, sem, val, spin, faults, semaphore>>

(* sem_wait returns, or fails with an error other than EINTR.               *)
Awake(p) ==
  /\ pc[p] = "wait" /\ sem > 0
  /\ sem' = sem - 1
  /\ Goto(p, "read")
  /\ UNCHANGED <<word, val, spin, faults, semaphore>>

SemWaitFails(p) ==
  /\ pc[p] = "wait" /\ faults < MaxFaults
  /\ faults' = faults + 1
  /\ Goto(p, "read")
  /\ UNCHANGED <<word, sem, val, spin, semaphore>>

-----------------------------------------------------------------------------
(* ngx_shmtx_unlock: clear the bit and take one waiter off the count in    *)
(* one compare-and-set, repeated until it succeeds; then wake one waiter.  *)
Unlock(p) ==
  /\ pc[p] = "critical" /\ Goto(p, "unlock")
  /\ UNCHANGED <<word, sem, val, spin, faults, semaphore>>

UnlockRead(p) ==
  /\ pc[p] = "unlock" /\ Read(p) /\ Goto(p, "release")
  /\ UNCHANGED <<word, sem, spin, faults, semaphore>>

WithoutBit(v) == [bit |-> FALSE, wait |-> IF v.wait > 0 THEN v.wait - 1 ELSE 0]

Mutant_ReleaseForgetsPost(p) ==
  /\ pc[p] = "release" /\ CmpSet(p, WithoutBit(val[p]))
  /\ Goto(p, "idle")
  /\ UNCHANGED <<sem, val, spin, faults, semaphore>>

Release(p) ==
  /\ pc[p] = "release" /\ CmpSet(p, WithoutBit(val[p]))
  /\ Goto(p, IF val[p].wait > 0 /\ semaphore THEN "post" ELSE "idle")
  /\ UNCHANGED <<sem, val, spin, faults, semaphore>>

ReleaseFails(p) ==
  /\ pc[p] = "release" /\ word # val[p]
  /\ Goto(p, "unlock")
  /\ UNCHANGED <<word, sem, val, spin, faults, semaphore>>

SemPost(p) ==
  /\ pc[p] = "post"
  /\ sem' = sem + 1
  /\ Goto(p, "idle")
  /\ UNCHANGED <<word, val, spin, faults, semaphore>>

(* The process is killed while it does not hold the lock, for instance     *)
(* asleep when the master sends SIGKILL.                                   *)
Killed(p) ==
  /\ pc[p] \in {"idle", "trylock", "read", "cas", "announce", "sleep", "wait"}
  /\ faults < MaxFaults
  /\ faults' = faults + 1
  /\ Goto(p, "killed")
  /\ UNCHANGED <<word, sem, val, spin, semaphore>>

-----------------------------------------------------------------------------
(* The steps a process takes once it has called lock or trylock.            *)
Proceeds(p) ==
  \/ TrylockTaken(p) \/ TrylockFails(p)
  \/ LockRead(p) \/ LockTaken(p) \/ LockFails(p)
  \/ AnnounceRead(p) \/ Announce(p) \/ AnnounceFails(p) \/ Awake(p)
  \/ Unlock(p) \/ UnlockRead(p) \/ Release(p) \/ ReleaseFails(p) \/ SemPost(p)

Step(p) == Proceeds(p) \/ TrylockRead(p) \/ Lock(p) \/ SemWaitFails(p) \/ Killed(p)

Next == \E p \in Procs : Step(p)

Spec == Init /\ [][Next]_vars

(* Every process that is inside the lock code, or has the lock, goes on:   *)
(* it is scheduled and leaves its critical section.                        *)
FairSpec == Spec /\ \A p \in Procs : WF_vars(Proceeds(p))

-----------------------------------------------------------------------------
(* The lock is held from the successful compare-and-set of lock or trylock *)
(* to that of unlock.                                                      *)
Holds(p) == pc[p] \in {"critical", "unlock", "release"}

(* No two processes hold the lock, though each decides on a word it read   *)
(* earlier.                                                                *)
MutualExclusion == \A p, q \in Procs : Holds(p) /\ Holds(q) => p = q

(* The lock bit is set exactly while some process holds the lock, so the   *)
(* count of waiters never spills into it and no unlock clears it early.    *)
BitMeansHeld == word.bit <=> \E p \in Procs : Holds(p)

Sleepers == {p \in Procs : pc[p] = "wait"}

Posters == {p \in Procs : pc[p] = "post"}

(* No wake-up is lost: a process that sleeps in sem_wait is matched by a   *)
(* waiter still counted in the word, by a token in the semaphore or by an  *)
(* unlock that is about to post one, even when a sleeper was killed or its *)
(* sem_wait failed.                                                        *)
NoLostWakeup == Cardinality(Sleepers) <= word.wait + sem + Cardinality(Posters)

(* The lock never stays free while everyone who wants it sleeps: if some   *)
(* process sleeps and nobody holds the lock, another is on its way.  One   *)
(* that is killed between its wake-up and its compare-and-set takes the    *)
(* wake-up with it, so it is claimed as long as no process was killed.     *)
SleeperHasSuccessor ==
  faults = 0 /\ Sleepers # {} =>
    \/ word.bit
    \/ sem > 0
    \/ \E p \in Procs : pc[p] \in {"read", "cas", "announce", "sleep", "post"}

Wants(p) ==
  pc[p] \in {"read", "cas", "announce", "sleep", "wait"}

(* Whenever a process wants the lock, one of those who want it gets it: no *)
(* deadlock, no lost wake-up, no livelock of processes that sleep and wake *)
(* each other, as long as no process is killed.                            *)
LockProgress ==
  (\E p \in Procs : Wants(p)) ~> (faults > 0 \/ \E p \in Procs : Holds(p))

(* The detailed lock implements the abstract one.                           *)
M == INSTANCE Mutex WITH inside <- {p \in Procs : Holds(p)}

MutexSpec == M!Spec

=============================================================================
