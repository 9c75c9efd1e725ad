---------------------------- MODULE AcceptMutex ----------------------------
(***************************************************************************)
(* The event loop of the worker processes and the accept mutex they share: *)
(* ngx_process_events_and_timers (event/ngx_event.c), the accept handler   *)
(* and the lock protocol of event/ngx_event_accept.c, trylock and unlock   *)
(* of core/ngx_shmtx.c, the epoll calls they make, the worker's reaction   *)
(* to QUIT and TERM, and the master's ngx_process_get_status, which is     *)
(* meant to free the mutex of a worker that died.                          *)
(*                                                                         *)
(* One iteration of a worker's loop goes through                           *)
(*   "loop"    before the test of ngx_accept_disabled                      *)
(*   "enable"  the mutex is taken, the listening sockets are being added   *)
(*   "poll"    before epoll_wait                                           *)
(*   "accept"  accept handlers run, posted or called from the epoll loop   *)
(*   "unlock"  before the test of ngx_accept_mutex_held                    *)
(*   "tail"    timers and posted connection events                         *)
(* and a process that is gone is "dead", "reaped" (waited for) or          *)
(* "exited".                                                               *)
(*                                                                         *)
(* A definition named Mutant_... is a wrong variant of the one after it:   *)
(* no specification uses it, a run shows that a property refuses it.       *)
(***************************************************************************)
EXTENDS Integers

CONSTANTS
  Workers,        \* process ids of the workers
  Unlocked,       \* the lock word 0
  LockBit,        \* the lock word 0x80000000, all that trylock ever stores
  NListening,     \* cycle->listening.nelts
  ConnectionN,    \* cycle->connection_n (worker_connections)
  Share,          \* the 8 of connection_n / 8; instances may scale it down
  MultiAccept,    \* the multi_accept directive
  UseAcceptMutex, \* accept_mutex on, and more than one worker process
  MaxClients,     \* bound: clients that ever connect
  MaxFaults,      \* bound: failed system calls, interrupted epoll_wait
  MaxCrashes,     \* bound: workers killed at an arbitrary point
  MayStop         \* whether QUIT and TERM reach the workers

ASSUME WordAssumption ==
  Unlocked # LockBit /\ Unlocked \notin Workers /\ LockBit \notin Workers

ASSUME SizeAssumption ==
  /\ NListening \in Nat \ {0} /\ ConnectionN \in Nat /\ Share \in Nat \ {0}
  /\ ConnectionN >= NListening + 1

ASSUME SwitchAssumption ==
  MultiAccept \in BOOLEAN /\ UseAcceptMutex \in BOOLEAN /\ MayStop \in BOOLEAN

ASSUME BoundAssumption ==
  MaxClients \in Nat /\ MaxFaults \in Nat /\ MaxCrashes \in Nat

Sockets == 1 .. NListening

NoOwner == Unlocked   \* value of owner when nobody holds the mutex

VARIABLES
  lock,     \* *ngx_accept_mutex.lock, in shared memory
  owner,    \* history: the worker whose trylock set the lock word
  pc,       \* where each worker is in its loop
  held,     \* ngx_accept_mutex_held of each worker
  using,    \* ngx_use_accept_mutex of each worker
  disabled, \* ngx_accept_disabled of each worker
  mode,     \* "post": NGX_POST_EVENTS is set; "delay": the timer is capped by
            \* accept_mutex_delay; "direct": neither
  active,   \* sockets whose read event is in the worker's epoll set
  pending,  \* accept events returned by epoll_wait, handler not yet run
  free,     \* ngx_cycle->free_connection_n of each worker
  backlog,  \* clients waiting in the kernel's queue of each socket
  clients,  \* clients that have connected so far
  faults,   \* failures so far
  crashes   \* crashes so far

sysVars  == <<clients, faults, crashes>>
lockVars == <<lock, owner>>
loopVars == <<held, using, disabled, mode, active, pending>>
vars == <<lockVars, pc, loopVars, free, backlog, sysVars>>

Alive(w) == pc[w] \notin {"dead", "reaped", "exited"}

(* Connections a worker can use for anything but its listening sockets and *)
(* its channel to the master.                                              *)
Capacity == ConnectionN - NListening - 1

TypeOK ==
  /\ lock \in {Unlocked, LockBit}
  /\ owner \in Workers \cup {NoOwner}
  /\ pc \in [Workers -> {"loop", "enable", "poll", "accept", "unlock", "tail",
                         "dead", "reaped", "exited"}]
  /\ held \in [Workers -> BOOLEAN]
  /\ using \in [Workers -> BOOLEAN]
  /\ disabled \in [Workers -> Int]
  /\ mode \in [Workers -> {"post", "delay", "direct"}]
  /\ active \in [Workers -> SUBSET Sockets]
  /\ pending \in [Workers -> SUBSET Sockets]
  /\ free \in [Workers -> Nat]
  /\ backlog \in [Sockets -> Nat]
  /\ clients \in Nat /\ faults \in Nat /\ crashes \in Nat

-----------------------------------------------------------------------------
(* ngx_event_process_init: with the mutex the listening sockets are added  *)
(* only by whoever takes it; without it, by every worker at once.          *)
Init ==
  /\ lock = Unlocked /\ owner = NoOwner
  /\ pc = [w \in Workers |-> "loop"]
  /\ held = [w \in Workers |-> FALSE]
  /\ using = [w \in Workers |-> UseAcceptMutex]
  /\ disabled = [w \in Workers |-> 0]
  /\ mode = [w \in Workers |-> "direct"]
  /\ active = [w \in Workers |-> IF UseAcceptMutex THEN {} ELSE Sockets]
  /\ pending = [w \in Workers |-> {}]
  /\ free = [w \in Workers |-> Capacity]
  /\ backlog = [s \in Sockets |-> 0]
  /\ clients = 0 /\ faults = 0 /\ crashes = 0

-----------------------------------------------------------------------------
(* ngx_shmtx_trylock and ngx_shmtx_unlock on the accept mutex.  It is      *)
(* created with spin = -1, so there is no semaphore and the word never     *)
(* counts waiters; each takes effect at its compare-and-set.               *)
ShmtxTrylock(w) == lock = Unlocked /\ lock' = LockBit /\ owner' = w

ShmtxUnlock == lock' = Unlocked /\ owner' = NoOwner

(* ngx_atomic_cmp_set(ngx_accept_mutex_ptr, pid, 0)                         *)
AtomicCmpSet(old, set) ==
  IF lock = old THEN lock' = set /\ owner' = NoOwner ELSE UNCHANGED lockVars

Fault == faults < MaxFaults /\ faults' = faults + 1

Goto(w, l) == pc' = [pc EXCEPT ![w] = l]

(* The test of ngx_accept_disabled that leads to ngx_trylock_accept_mutex.  *)
Mutant_TriesOverThreshold(w) == pc[w] = "loop" /\ using[w]

TriesMutex(w) == pc[w] = "loop" /\ using[w] /\ disabled[w] <= 0

(* The worker is over the threshold: it skips the mutex for one iteration. *)
SkipMutex(w) ==
  /\ pc[w] = "loop" /\ using[w] /\ disabled[w] > 0
  /\ disabled' = [disabled EXCEPT ![w] = @ - 1]
  /\ mode' = [mode EXCEPT ![w] = "direct"]
  /\ Goto(w, "poll")
  /\ UNCHANGED <<lockVars, held, using, active, pending, free, backlog, sysVars>>

(* accept_mutex is off, or the worker has closed its listening sockets.    *)
NoMutex(w) ==
  /\ pc[w] = "loop" /\ ~using[w]
  /\ mode' = [mode EXCEPT ![w] = "direct"]
  /\ Goto(w, "poll")
  /\ UNCHANGED <<lockVars, held, using, disabled, active, pending, free, backlog,
                 sysVars>>

(* ngx_trylock_accept_mutex, the lock is taken: a worker that still has    *)
(* its sockets in epoll since its last turn goes on at once.               *)
TrylockTaken(w) ==
  /\ TriesMutex(w)
  /\ ShmtxTrylock(w)
  /\ IF held[w]
       THEN mode' = [mode EXCEPT ![w] = "post"] /\ Goto(w, "poll")
       ELSE UNCHANGED mode /\ Goto(w, "enable")
  /\ UNCHANGED <<held, using, disabled, active, pending, free, backlog, sysVars>>

(* ngx_disable_accept_events, what is left in epoll when nothing fails.     *)
Mutant_DisableKeepsSockets(w) == active[w]

DisableAcceptEvents(w) == {}

Mutant_BusyUncapped(w) ==
  /\ TriesMutex(w) /\ lock # Unlocked
  /\ active' = [active EXCEPT ![w] = IF held[w] THEN DisableAcceptEvents(w) ELSE @]
  /\ held' = [held EXCEPT ![w] = FALSE]
  /\ mode' = [mode EXCEPT ![w] = "direct"] /\ Goto(w, "poll")
  /\ UNCHANGED <<lockVars, using, disabled, pending, free, backlog, sysVars>>

(* ngx_trylock_accept_mutex, another worker has the lock: the sockets are  *)
(* taken out of epoll one by one; a failing ngx_del_event leaves held set. *)
TrylockBusy(w) ==
  /\ TriesMutex(w) /\ lock # Unlocked
  /\ \/ /\ active' = [active EXCEPT ![w] = IF held[w] THEN DisableAcceptEvents(w) ELSE @]
        /\ held' = [held EXCEPT ![w] = FALSE]
        /\ mode' = [mode EXCEPT ![w] = "delay"] /\ Goto(w, "poll")
        /\ UNCHANGED faults
     \/ /\ held[w] /\ active[w] # {} /\ Fault
        /\ \E s \in active[w] :
             active' = [active EXCEPT ![w] = {t \in @ : t >= s}]
        /\ UNCHANGED <<held, mode, pc>>
  /\ UNCHANGED <<lockVars, using, disabled, pending, free, backlog, clients, crashes>>

(* ngx_enable_accept_events: ngx_add_event for each socket in turn.  epoll *)
(* refuses one that is already there.  On a failure the mutex is given     *)
(* back and the iteration ends (NGX_ERROR).                                *)
EnableDone(w) ==
  /\ pc[w] = "enable" /\ active[w] = {}
  /\ active' = [active EXCEPT ![w] = Sockets]
  /\ held' = [held EXCEPT ![w] = TRUE]
  /\ mode' = [mode EXCEPT ![w] = "post"] /\ Goto(w, "poll")
  /\ UNCHANGED <<lockVars, using, disabled, pending, free, backlog, sysVars>>

Mutant_EnableFailsKeepsMutex(w) ==
  /\ pc[w] = "enable" /\ Fault
  /\ Goto(w, "loop")
  /\ UNCHANGED <<lockVars, loopVars, free, backlog, clients, crashes>>

EnableFails(w) ==
  /\ pc[w] = "enable"
  /\ \E s \in Sockets :
       /\ \A t \in 1 .. s - 1 : t \notin active[w]
       /\ active' = [active EXCEPT ![w] = @ \cup (1 .. s - 1)]
       /\ IF s \in active[w] THEN UNCHANGED faults ELSE Fault
  /\ ShmtxUnlock
  /\ Goto(w, "loop")
  /\ UNCHANGED <<held, using, disabled, mode, pending, free, backlog, clients,
                 crashes>>

-----------------------------------------------------------------------------
(* epoll_wait is level triggered for listening sockets: it reports every   *)
(* socket of the set with a client waiting, or nothing when a timer or a   *)
(* signal ends it.  Without NGX_POST_EVENTS connection handlers run here   *)
(* too, and may close connections or open upstream ones.                   *)
Ready(w) == {s \in active[w] : backlog[s] > 0}

Poll(w) ==
  /\ pc[w] = "poll"
  /\ pending' = [pending EXCEPT ![w] = Ready(w)]
  /\ \E n \in IF mode[w] = "post" THEN {free[w]} ELSE 0 .. Capacity :
       free' = [free EXCEPT ![w] = n]
  /\ Goto(w, "accept")
  /\ UNCHANGED <<lockVars, held, using, disabled, mode, active, backlog, sysVars>>

PollInterrupted(w) ==
  /\ pc[w] = "poll" /\ Fault
  /\ Goto(w, "accept")
  /\ UNCHANGED <<lockVars, loopVars, free, backlog, clients, crashes>>

(* One turn of the loop of ngx_event_accept on socket s.                    *)
Threshold(w) == ConnectionN \div Share - free[w]

(* ngx_get_connection takes a free connection; when there is none          *)
(* ngx_drain_connections first closes up to 32 reusable ones.  A            *)
(* connection that fails to initialise, or whose handler closes it, is     *)
(* given back.                                                             *)
DrainMax == 32

Drained(w) ==
  IF free[w] > 0 THEN {free[w]} ELSE {n \in 0 .. Capacity : n <= DrainMax}

HandlerReturns(w, s) == pending' = [pending EXCEPT ![w] = @ \ {s}]

AcceptClient(w, s) ==
  /\ pc[w] = "accept" /\ s \in pending[w] /\ backlog[s] > 0
  /\ backlog' = [backlog EXCEPT ![s] = @ - 1]
  /\ disabled' = [disabled EXCEPT ![w] = Threshold(w)]
  /\ \E f \in Drained(w) :
       \/ /\ f > 0
          /\ free' = [free EXCEPT ![w] = f - 1]
          /\ IF MultiAccept THEN UNCHANGED pending ELSE HandlerReturns(w, s)
       \/ /\ free' = [free EXCEPT ![w] = f]
          /\ HandlerReturns(w, s) \/ (MultiAccept /\ f > 0 /\ UNCHANGED pending)
  /\ UNCHANGED <<lockVars, pc, held, using, mode, active, sysVars>>

(* EAGAIN: some other worker took the client.                              *)
AcceptNotReady(w, s) ==
  /\ pc[w] = "accept" /\ s \in pending[w] /\ backlog[s] = 0
  /\ HandlerReturns(w, s)
  /\ UNCHANGED <<lockVars, pc, held, using, disabled, mode, active, free, backlog,
                 sysVars>>

(* ECONNABORTED: the client is gone; only with multi_accept the handler    *)
(* tries again.  Any other error ends the handler.                         *)
AcceptAborted(w, s) ==
  /\ pc[w] = "accept" /\ s \in pending[w] /\ backlog[s] > 0 /\ Fault
  /\ backlog' = [backlog EXCEPT ![s] = @ - 1]
  /\ IF MultiAccept THEN UNCHANGED pending ELSE HandlerReturns(w, s)
  /\ UNCHANGED <<lockVars, pc, held, using, disabled, mode, active, free, clients,
                 crashes>>

AcceptFails(w, s) ==
  /\ pc[w] = "accept" /\ s \in pending[w] /\ Fault
  /\ HandlerReturns(w, s)
  /\ UNCHANGED <<lockVars, pc, held, using, disabled, mode, active, free, backlog,
                 clients, crashes>>

AcceptsDone(w) ==
  /\ pc[w] = "accept" /\ pending[w] = {}
  /\ Goto(w, "unlock")
  /\ UNCHANGED <<lockVars, loopVars, free, backlog, sysVars>>

-----------------------------------------------------------------------------
Mutant_UnlockAlways(w) ==
  /\ pc[w] = "unlock" /\ ShmtxUnlock /\ Goto(w, "tail")
  /\ UNCHANGED <<loopVars, free, backlog, sysVars>>

Mutant_UnlockBelowThreshold(w) ==
  /\ pc[w] = "unlock"
  /\ IF held[w] /\ disabled[w] <= 0 THEN ShmtxUnlock ELSE UNCHANGED lockVars
  /\ Goto(w, "tail")
  /\ UNCHANGED <<loopVars, free, backlog, sysVars>>

(* if (ngx_accept_mutex_held) ngx_shmtx_unlock(...): held itself stays set *)
(* until another worker is found to have the mutex.                        *)
Unlock(w) ==
  /\ pc[w] = "unlock"
  /\ IF held[w] THEN ShmtxUnlock ELSE UNCHANGED lockVars
  /\ Goto(w, "tail")
  /\ UNCHANGED <<loopVars, free, backlog, sysVars>>

(* ngx_event_expire_timers and the posted connection events: handlers      *)
(* close connections and open upstream ones.                               *)
Tail(w) ==
  /\ pc[w] = "tail"
  /\ \E n \in 0 .. Capacity : free' = [free EXCEPT ![w] = n]
  /\ Goto(w, "loop")
  /\ UNCHANGED <<lockVars, loopVars, backlog, sysVars>>

(* ngx_quit in ngx_worker_process_cycle, checked between two iterations:   *)
(* ngx_close_listening_sockets.  The worker then goes on with its          *)
(* connections and exits when no timer is left; ngx_terminate exits now.   *)
Quit(w) ==
  /\ MayStop /\ pc[w] = "loop" /\ (using[w] \/ active[w] # {})
  /\ held' = [held EXCEPT ![w] = FALSE]
  /\ using' = [using EXCEPT ![w] = FALSE]
  /\ active' = [active EXCEPT ![w] = {}]
  /\ UNCHANGED <<lockVars, pc, disabled, mode, pending, free, backlog, sysVars>>

Exit(w) ==
  /\ MayStop /\ pc[w] = "loop"
  /\ Goto(w, "exited")
  /\ active' = [active EXCEPT ![w] = {}]
  /\ UNCHANGED <<lockVars, held, using, disabled, mode, pending, free, backlog,
                 sysVars>>

(* The worker is killed wherever it is.                                     *)
Crash(w) ==
  /\ Alive(w) /\ crashes < MaxCrashes
  /\ crashes' = crashes + 1
  /\ Goto(w, "dead")
  /\ active' = [active EXCEPT ![w] = {}]
  /\ pending' = [pending EXCEPT ![w] = {}]
  /\ UNCHANGED <<lockVars, held, using, disabled, mode, free, backlog, clients, faults>>

(* ngx_process_get_status in the master's SIGCHLD handler.                  *)
GetStatus(w) ==
  /\ pc[w] = "dead"
  /\ AtomicCmpSet(w, Unlocked)
  /\ Goto(w, "reaped")
  /\ UNCHANGED <<loopVars, free, backlog, sysVars>>

(* ngx_reap_children starts another worker in the slot.                     *)
Respawn(w) ==
  /\ pc[w] = "reaped"
  /\ Goto(w, "loop")
  /\ held' = [held EXCEPT ![w] = FALSE]
  /\ using' = [using EXCEPT ![w] = UseAcceptMutex]
  /\ disabled' = [disabled EXCEPT ![w] = 0]
  /\ mode' = [mode EXCEPT ![w] = "direct"]
  /\ active' = [active EXCEPT ![w] = IF UseAcceptMutex THEN {} ELSE Sockets]
  /\ pending' = [pending EXCEPT ![w] = {}]
  /\ free' = [free EXCEPT ![w] = Capacity]
  /\ UNCHANGED <<lockVars, backlog, sysVars>>

(* A client's handshake completes.                                          *)
Connect(s) ==
  /\ clients < MaxClients
  /\ clients' = clients + 1
  /\ backlog' = [backlog EXCEPT ![s] = @ + 1]
  /\ UNCHANGED <<lockVars, pc, loopVars, free, faults, crashes>>

Accept(w) ==
  \/ \E s \in Sockets : \/ AcceptClient(w, s) \/ AcceptNotReady(w, s)
                        \/ AcceptAborted(w, s) \/ AcceptFails(w, s)
  \/ AcceptsDone(w)

Step(w) ==
  \/ SkipMutex(w) \/ NoMutex(w) \/ TrylockTaken(w) \/ TrylockBusy(w)
  \/ EnableDone(w) \/ EnableFails(w) \/ Poll(w) \/ PollInterrupted(w)
  \/ Accept(w) \/ Unlock(w) \/ Tail(w)

Next ==
  \/ \E w \in Workers : \/ Step(w) \/ Quit(w) \/ Exit(w)
                        \/ Crash(w) \/ GetStatus(w) \/ Respawn(w)
  \/ \E s \in Sockets : Connect(s)

(* A worker's process is scheduled, and epoll_wait returns when a socket   *)
(* of its set is ready or its timer is capped.  A worker that polls        *)
(* without the mutex and without a timer may sleep for ever.               *)
WakesUp(w) == Poll(w) /\ (Ready(w) # {} \/ mode[w] = "delay")

Runs(w) ==
  \/ SkipMutex(w) \/ NoMutex(w) \/ TrylockTaken(w) \/ TrylockBusy(w)
  \/ EnableDone(w) \/ EnableFails(w) \/ Accept(w) \/ Unlock(w) \/ Tail(w)
  \/ WakesUp(w)

Fairness == \A w \in Workers : /\ WF_vars(Runs(w))
                               /\ WF_vars(GetStatus(w) \/ Respawn(w))

Spec == Init /\ [][Next]_vars

FairSpec == Spec /\ Fairness

-----------------------------------------------------------------------------
(* A worker is between its successful trylock and its unlock.               *)
Critical(w) ==
  \/ pc[w] = "enable"
  \/ pc[w] \in {"poll", "accept", "unlock"} /\ mode[w] = "post"

(* Only the worker that set the lock word runs between trylock and unlock, *)
(* and the word is not set without it unless a worker was killed.  A       *)
(* worker over its connection threshold breaks this: it unlocks what       *)
(* another has locked.  So it is claimed where connection_n / 8 = 0.       *)
MutexHeldByCritical ==
  /\ \A w \in Workers : Critical(w) => owner = w
  /\ lock = LockBit <=> owner # NoOwner
  /\ crashes = 0 => \A w \in Workers : owner = w => Critical(w)

(* Two workers never process posted accept events at the same time.        *)
AcceptExclusive ==
  \A v, w \in Workers : Critical(v) /\ Critical(w) => v = w

(* The mutex is set with nobody on the way to unlocking it.                 *)
Abandoned == lock = LockBit /\ ~\E w \in Workers : owner = w /\ Critical(w)

(* However the workers get in each other's way, as long as none is killed  *)
(* the mutex is never abandoned: the worker that set it last is still      *)
(* before its own ngx_shmtx_unlock.                                        *)
NoAbandonedMutex == crashes = 0 => ~Abandoned

(* A worker that skips the mutex because it is over its threshold still    *)
(* has every listening socket in its epoll set: ngx_accept_disabled is     *)
(* only ever set by a handler of such a socket and the sockets are only    *)
(* removed by a failing trylock, which it does not call.  Otherwise a      *)
(* worker with no timer would sleep for ever without listening.            *)
ThresholdKeepsListening ==
  \A w \in Workers :
    Alive(w) /\ using[w] /\ disabled[w] > 0 => held[w] /\ active[w] = Sockets

(* Between iterations a worker listens on all sockets or on none, as       *)
(* ngx_accept_mutex_held says (when no epoll_ctl fails half way).          *)
ListensAsHeld ==
  \A w \in Workers :
    Alive(w) /\ using[w] /\ pc[w] # "enable"
      => active[w] = IF held[w] THEN Sockets ELSE {}

(* ngx_process_get_status unlocks the accept mutex if the abnormally       *)
(* exited process held it (ngx_process.c:507).                             *)
DeadWorkerReleases == \A w \in Workers : pc[w] = "reaped" => owner # w

(* Every waiting client is taken from the backlog, unless no worker        *)
(* listens any more, or one was killed with the mutex locked, which        *)
(* nothing repairs (see DeadWorkerReleases).                               *)
Listens(w) == Alive(w) /\ (using[w] \/ active[w] # {})

ClientsAccepted ==
  \A s \in Sockets :
    (backlog[s] > 0) ~>
      (backlog[s] = 0 \/ Abandoned \/ \A w \in Workers : ~Listens(w))

(* Where no worker can be over its threshold (connection_n / 8 = 0) the    *)
(* protocol of trylock and unlock implements the abstract lock, its        *)
(* critical section being the part of the loop that runs with              *)
(* NGX_POST_EVENTS.                                                        *)
M == INSTANCE Mutex WITH Procs <- Workers, inside <- {w \in Workers : Critical(w)}

MutexSpec == M!Spec

=============================================================================
