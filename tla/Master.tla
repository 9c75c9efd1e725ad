------------------------------- MODULE Master -------------------------------
(***************************************************************************)
(* The master process: ngx_master_process_cycle and the functions it calls *)
(* to start, signal and reap its children (os/unix/ngx_process_cycle.c,    *)
(* os/unix/ngx_process.c), the signal handler that sets its flags, and the *)
(* life of the children as far as the master sees it.                      *)
(*                                                                         *)
(* Signals are blocked except inside sigsuspend: one that is sent, and a   *)
(* child that dies, while the master works is seen at the next sigsuspend. *)
(* The master looks at nothing else of its children, so they and the       *)
(* administrator take their steps while it is suspended (Asleep), which    *)
(* leaves out orders that no process can tell apart.                       *)
(* mpc is the place in the loop: "top" (the delay timer is set),           *)
(* "suspend", "reap" (ngx_reap_children, at slot ri), "work" (the branches *)
(* that test the flags, in the order of Turn), "spawn" (processes left to  *)
(* start are in todo, then goto cont), "told" (the end of a reload) and    *)
(* "exited".                                                               *)
(*                                                                         *)
(* A definition named Mutant_... is a wrong variant of the one after it:   *)
(* no specification uses it, a run shows that a property refuses it.       *)
(***************************************************************************)
EXTENDS Integers, Sequences, FiniteSets

CONSTANTS
  MaxProcesses,    \* NGX_MAX_PROCESSES, the size of ngx_processes
  Pids,            \* process ids the kernel can give to a child
  WorkerProcesses, \* ccf->worker_processes
  CacheManager,    \* some path has a manager
  CacheLoader,     \* some path has a loader
  AdminSignals,    \* signals that the administrator may send
  MaxSignals,      \* bound: signals from the administrator
  MaxCrashes,      \* bound: children that die by themselves
  MaxFaults        \* bound: failing fork, rename and configuration

ASSUME SizeAssumption ==
  /\ MaxProcesses \in Nat /\ WorkerProcesses \in Nat
  /\ Pids \subseteq Nat \ {0} /\ IsFiniteSet(Pids) /\ Cardinality(Pids) > MaxProcesses

ASSUME BoundAssumption ==
  /\ MaxSignals \in Nat /\ MaxCrashes \in Nat /\ MaxFaults \in Nat
  /\ AdminSignals \subseteq {"TERM", "QUIT", "HUP", "USR1", "USR2", "WINCH"}

ASSUME CacheAssumption == CacheManager \in BOOLEAN /\ CacheLoader \in BOOLEAN

Slots == 0 .. MaxProcesses - 1
InvalidPid == -1
NoChannel == -1   \* channel[0] is -1
Closed == 0       \* channel[0] is the number of a descriptor that was closed
Signals == {"TERM", "QUIT", "HUP", "USR1", "USR2", "WINCH", "CHLD", "ALRM", "IO"}
Flags == {"terminate", "quit", "reconfigure", "reopen", "change_binary", "noaccept",
          "reap", "sigalrm", "restart"}
Roles == {"worker", "manager", "loader", "binary"}

VARIABLES
  \* ngx_processes[s]
  pid, exited, exiting, respawn, just, detached, role,
  chan,        \* the process that reads what is written to channel[0]
  last,        \* ngx_last_process
  \* the master
  mpc, flags, noaccepting,
  newBinary,   \* ngx_new_binary: 0, InvalidPid or a process id
  live, delay, sigio,
  ri, rlive,   \* i and live of ngx_reap_children
  todo, cont,  \* processes still to start and where to go on
  \* the kernel and the children
  pend,        \* signals pending for the master
  child,       \* "none", "running", "quitting" or "zombie"
  fatal,       \* zombies that exited with code 2
  inbox,       \* commands and signals on their way to a child
  sent, crashes, faults

slotVars  == <<pid, exited, exiting, respawn, just, detached, role, chan, last>>
loopVars  == <<noaccepting, newBinary, live, delay, sigio>>
workVars  == <<ri, rlive, todo, cont>>
childVars == <<child, fatal, inbox>>
envVars   == <<sent, crashes, faults>>
vars == <<slotVars, mpc, flags, loopVars, workVars, pend, childVars, envVars>>

TypeOK ==
  /\ pid \in [Slots -> Pids \cup {InvalidPid}]
  /\ exited \in [Slots -> BOOLEAN] /\ exiting \in [Slots -> BOOLEAN]
  /\ respawn \in [Slots -> BOOLEAN] /\ just \in [Slots -> BOOLEAN]
  /\ detached \in [Slots -> BOOLEAN] /\ role \in [Slots -> Roles]
  /\ chan \in [Slots -> Pids \cup {NoChannel, Closed}]
  /\ last \in 0 .. MaxProcesses
  /\ mpc \in {"top", "suspend", "reap", "work", "spawn", "told", "exited"}
  /\ flags \subseteq Flags
  /\ noaccepting \in BOOLEAN /\ newBinary \in Pids \cup {0, InvalidPid}
  /\ live \in BOOLEAN /\ delay \in Nat /\ sigio \in Nat
  /\ ri \in 0 .. MaxProcesses /\ rlive \in BOOLEAN
  /\ todo \in Seq(Roles \X {"respawn", "just"})
  /\ cont \in {"top", "told", "work"}
  /\ pend \subseteq Signals
  /\ child \in [Pids -> {"none", "running", "quitting", "zombie"}]
  /\ fatal \subseteq Pids
  /\ inbox \in [Pids -> SUBSET {"QUIT", "TERM"}]
  /\ sent \in Nat /\ crashes \in Nat /\ faults \in Nat

Goto(l) == mpc' = l

Used == {s \in Slots : s < last /\ pid[s] # InvalidPid}

(* What ngx_start_worker_processes and ngx_start_cache_manager_processes   *)
(* start, in order; the loader is never restarted.                         *)
ToStart(type) ==
  [i \in 1 .. WorkerProcesses |-> <<"worker", type>>]
    \o (IF CacheManager THEN << <<"manager", type>> >> ELSE <<>>)
    \o (IF CacheManager /\ CacheLoader THEN << <<"loader", type>> >> ELSE <<>>)

Init ==
  /\ pid = [s \in Slots |-> InvalidPid]
  /\ exited = [s \in Slots |-> FALSE] /\ exiting = [s \in Slots |-> FALSE]
  /\ respawn = [s \in Slots |-> FALSE] /\ just = [s \in Slots |-> FALSE]
  /\ detached = [s \in Slots |-> FALSE] /\ role = [s \in Slots |-> "worker"]
  /\ chan = [s \in Slots |-> NoChannel] /\ last = 0
  /\ mpc = "spawn" /\ todo = ToStart("respawn") /\ cont = "top"
  /\ flags = {} /\ noaccepting = FALSE /\ newBinary = 0
  /\ live = TRUE /\ delay = 0 /\ sigio = 0 /\ ri = 0 /\ rlive = FALSE
  /\ pend = {}
  /\ child = [p \in Pids |-> "none"] /\ fatal = {} /\ inbox = [p \in Pids |-> {}]
  /\ sent = 0 /\ crashes = 0 /\ faults = 0

-----------------------------------------------------------------------------
(* ngx_spawn_process.  The kernel gives the child a process id that no     *)
(* process has and no slot remembers; ids are alike, so it is the least.   *)
Fresh == {p \in Pids : child[p] = "none" /\ \A s \in Used : pid[s] # p}

(* socketpair takes the lowest free descriptors.  The number left behind   *)
(* in another slot by a spawn that failed may be among them: a write to    *)
(* that slot's channel then goes to the new process.                       *)
Reused(s) == {{}} \cup {{t} : t \in {u \in Used \ {s} : chan[u] = Closed}}

Fork(s, ch) ==
  \E p \in Fresh :
    /\ \A q \in Fresh : p <= q
    /\ pid' = [pid EXCEPT ![s] = p]
    /\ exited' = [exited EXCEPT ![s] = FALSE]
    /\ \E reused \in Reused(s) :
         chan' = [t \in Slots |-> IF t = s \/ t \in reused THEN p ELSE ch[t]]
    /\ child' = [child EXCEPT ![p] = "running"]
    /\ inbox' = [inbox EXCEPT ![p] = {}]
    /\ UNCHANGED fatal

ForkDetached(s) ==
  \E p \in Fresh :
    /\ \A q \in Fresh : p <= q
    /\ pid' = [pid EXCEPT ![s] = p]
    /\ exited' = [exited EXCEPT ![s] = FALSE]
    /\ chan' = [chan EXCEPT ![s] = NoChannel]
    /\ child' = [child EXCEPT ![p] = "running"]
    /\ inbox' = [inbox EXCEPT ![p] = {}]
    /\ UNCHANGED fatal

(* socketpair, fcntl or fork fails.                                         *)
ForkFails == faults < MaxFaults /\ faults' = faults + 1 /\ UNCHANGED <<sent, crashes>>

(* The first slot that is marked free, or else the one after the last.      *)
NewSlot(s) ==
  /\ s <= last /\ (s < last => pid[s] = InvalidPid)
  /\ \A t \in Slots : t < s => pid[t] # InvalidPid

TableFull == last = MaxProcesses /\ \A s \in Slots : pid[s] # InvalidPid

(* The switch over NGX_PROCESS_RESPAWN, JUST_RESPAWN, NORESPAWN, JUST_SPAWN *)
(* and DETACHED: workers and the cache manager are respawned when they die. *)
FillSlot(s, r, type) ==
  /\ role' = [role EXCEPT ![s] = r]
  /\ exiting' = [exiting EXCEPT ![s] = FALSE]
  /\ respawn' = [respawn EXCEPT ![s] = r \in {"worker", "manager"}]
  /\ just' = [just EXCEPT ![s] = type = "just"]
  /\ detached' = [detached EXCEPT ![s] = type = "detached"]
  /\ last' = IF s = last THEN last + 1 ELSE last

Spawn ==
  /\ mpc = "spawn" /\ todo # <<>>
  /\ todo' = Tail(todo)
  /\ \/ \E s \in Slots :
          /\ NewSlot(s) /\ Fork(s, chan) /\ FillSlot(s, Head(todo)[1], Head(todo)[2])
          /\ UNCHANGED envVars
     \/ /\ IF TableFull THEN UNCHANGED envVars ELSE ForkFails
        /\ UNCHANGED <<slotVars, childVars>>
  /\ UNCHANGED <<mpc, flags, loopVars, ri, rlive, cont, pend>>

SpawnsDone ==
  /\ mpc = "spawn" /\ todo = <<>>
  /\ Goto(cont)
  /\ UNCHANGED <<slotVars, flags, loopVars, workVars, pend, childVars, envVars>>

-----------------------------------------------------------------------------
(* The head of the loop: while terminating, each alarm doubles the delay   *)
(* and lets the next turn signal the children again.  All delays over      *)
(* 1000 ms behave alike and are kept at the first of them.                 *)
KillDelay == 1000

Top ==
  /\ mpc = "top"
  /\ IF delay > 0 /\ "sigalrm" \in flags
       THEN /\ sigio' = 0
            /\ delay' = IF delay > KillDelay THEN delay ELSE 2 * delay
            /\ flags' = flags \ {"sigalrm"}
       ELSE UNCHANGED <<sigio, delay, flags>>
  /\ Goto("suspend")
  /\ UNCHANGED <<slotVars, noaccepting, newBinary, live, workVars, pend, childVars,
                 envVars>>

(* ngx_signal_handler for the master.                                       *)
Raised ==
  (IF "TERM" \in pend THEN {"terminate"} ELSE {})
    \cup (IF "QUIT" \in pend THEN {"quit"} ELSE {})
    \cup (IF "HUP" \in pend THEN {"reconfigure"} ELSE {})
    \cup (IF "USR1" \in pend THEN {"reopen"} ELSE {})
    \cup (IF "USR2" \in pend /\ newBinary <= 0 THEN {"change_binary"} ELSE {})
    \cup (IF "WINCH" \in pend THEN {"noaccept"} ELSE {})
    \cup (IF "ALRM" \in pend THEN {"sigalrm"} ELSE {})
    \cup (IF "CHLD" \in pend THEN {"reap"} ELSE {})

(* ngx_process_get_status waits for every zombie and marks its slot; a     *)
(* child that exited with code 2 is not to be respawned.                   *)
Zombies == IF "CHLD" \in pend THEN {p \in Pids : child[p] = "zombie"} ELSE {}

Mutant_WaitedOne ==
  IF Zombies = {} THEN {} ELSE {CHOOSE p \in Zombies : TRUE}

Waited == Zombies

GetStatus ==
  /\ exited' = [s \in Slots |-> exited[s] \/ (s \in Used /\ pid[s] \in Waited)]
  /\ respawn' = [s \in Slots |-> respawn[s] /\ ~(s \in Used /\ pid[s] \in Waited \cap fatal)]
  /\ child' = [p \in Pids |-> IF p \in Waited THEN "none" ELSE child[p]]
  /\ inbox' = [p \in Pids |-> IF p \in Waited THEN {} ELSE inbox[p]]
  /\ fatal' = fatal \ Waited

Sigsuspend ==
  /\ mpc = "suspend" /\ pend # {}
  /\ pend' = {}
  /\ GetStatus
  /\ flags' = (flags \cup Raised) \ {"reap"}
  /\ IF "reap" \in flags \cup Raised
       THEN Goto("reap") /\ ri' = 0 /\ rlive' = FALSE
       ELSE Goto("work") /\ UNCHANGED <<ri, rlive>>
  /\ UNCHANGED <<pid, exiting, just, detached, role, chan, last, loopVars, todo, cont,
                 envVars>>

-----------------------------------------------------------------------------
(* ngx_reap_children, one slot at a time.                                   *)
Stopping == flags \cap {"terminate", "quit"} # {}

Mutant_RespawnsExiting(s) == respawn[s] /\ ~Stopping

ToRespawn(s) == respawn[s] /\ ~exiting[s] /\ ~Stopping

ReapAt(s) == mpc = "reap" /\ s = ri /\ s < last

Mutant_ReapSkipExitingOnly(s) ==
  /\ ReapAt(s) /\ (pid[s] = InvalidPid \/ ~exited[s])
  /\ rlive' = (rlive \/ (pid[s] # InvalidPid /\ exiting[s]))
  /\ ri' = ri + 1
  /\ UNCHANGED <<slotVars, mpc, flags, loopVars, todo, cont, pend, childVars, envVars>>

(* A free slot, or a process that is still there.                           *)
ReapSkip(s) ==
  /\ ReapAt(s) /\ (pid[s] = InvalidPid \/ ~exited[s])
  /\ rlive' = (rlive \/ (pid[s] # InvalidPid /\ (exiting[s] \/ ~detached[s])))
  /\ ri' = ri + 1
  /\ UNCHANGED <<slotVars, mpc, flags, loopVars, todo, cont, pend, childVars, envVars>>

(* The channel of a process that has exited is closed, under whatever      *)
(* other slot the number stands.                                           *)
CloseChannel(s) ==
  [t \in Slots |->
    IF t = s /\ ~detached[s] THEN NoChannel
    ELSE IF ~detached[s] /\ chan[t] \in Pids /\ chan[t] = chan[s] THEN Closed
    ELSE chan[t]]

(* The slot keeps its other fields; when the spawn fails it stays as it is *)
(* and is tried again only when some child exits.  socketpair may have     *)
(* failed, or a later call, which leaves the number of a closed channel.   *)
ReapRespawn(s) ==
  /\ ReapAt(s) /\ pid[s] # InvalidPid /\ exited[s] /\ ToRespawn(s)
  /\ \/ Fork(s, CloseChannel(s)) /\ rlive' = TRUE /\ UNCHANGED envVars
     \/ /\ ForkFails /\ UNCHANGED <<pid, exited, childVars, rlive>>
        /\ \E c \in {NoChannel, Closed} : chan' = [CloseChannel(s) EXCEPT ![s] = c]
  /\ ri' = ri + 1
  /\ UNCHANGED <<exiting, respawn, just, detached, role, last, mpc, flags, loopVars,
                 todo, cont, pend>>

Mutant_ReapRemoveShrinks(s) ==
  /\ ReapAt(s) /\ pid[s] # InvalidPid /\ exited[s] /\ ~ToRespawn(s)
  /\ last' = last - 1 /\ chan' = CloseChannel(s) /\ ri' = ri + 1
  /\ UNCHANGED <<pid, exited, exiting, respawn, just, detached, role, mpc, flags, loopVars,
                 rlive, todo, cont, pend, childVars, envVars>>

(* The process is gone for good.  If it was the new binary, the old one    *)
(* takes over again.                                                       *)
ReapRemove(s) ==
  /\ ReapAt(s) /\ pid[s] # InvalidPid /\ exited[s] /\ ~ToRespawn(s)
  /\ IF pid[s] = newBinary
       THEN /\ newBinary' = 0 /\ noaccepting' = FALSE
            /\ flags' = IF noaccepting THEN flags \cup {"restart"} ELSE flags
       ELSE UNCHANGED <<newBinary, noaccepting, flags>>
  /\ chan' = CloseChannel(s)
  /\ IF s = last - 1
       THEN last' = last - 1 /\ UNCHANGED pid
       ELSE pid' = [pid EXCEPT ![s] = InvalidPid] /\ UNCHANGED last
  /\ ri' = ri + 1
  /\ UNCHANGED <<exited, exiting, respawn, just, detached, role, mpc, live, delay, sigio,
                 rlive, todo, cont, pend, childVars, envVars>>

Mutant_ReapDoneKeepsLive ==
  /\ mpc = "reap" /\ ri >= last
  /\ Goto("work")
  /\ UNCHANGED <<slotVars, flags, loopVars, workVars, pend, childVars, envVars>>

ReapDone ==
  /\ mpc = "reap" /\ ri >= last
  /\ live' = rlive
  /\ Goto("work")
  /\ UNCHANGED <<slotVars, flags, noaccepting, newBinary, delay, sigio, workVars, pend,
                 childVars, envVars>>

-----------------------------------------------------------------------------
(* ngx_signal_worker_processes: a process just started is spared once, one *)
(* already told to quit is not told again.  The command goes through the   *)
(* channel or, when that fails, as a signal; kill of a process that is no  *)
(* longer there marks its slot for reaping.                                *)
Mutant_ToSignalAll(sig) ==
  {s \in Used : ~detached[s] /\ ~(exiting[s] /\ sig = "QUIT")}

ToSignal(sig) ==
  {s \in Used : ~detached[s] /\ ~just[s] /\ ~(exiting[s] /\ sig = "QUIT")}

(* Who gets it: the reader of the slot's channel, or, by kill, the process. *)
ByChannel(s, sig) == sig # "KILL" /\ chan[s] \in Pids

Reaches(s, sig) == IF ByChannel(s, sig) THEN chan[s] ELSE pid[s]

SignalWorkers(sig, cleared) ==
  LET gone == {s \in ToSignal(sig) : ~ByChannel(s, sig) /\ child[pid[s]] = "none"}
      hit == ToSignal(sig) \ gone
      told == {Reaches(s, sig) : s \in hit}
  IN  /\ just' = [s \in Slots |-> just[s] /\ ~(s \in Used /\ ~detached[s])]
      /\ exiting' = [s \in Slots |-> /\ exiting[s] \/ (s \in hit /\ sig # "USR1")
                                     /\ s \notin gone]
      /\ exited' = [s \in Slots |-> exited[s] \/ s \in gone]
      /\ flags' = (flags \ cleared) \cup (IF gone # {} THEN {"reap"} ELSE {})
      /\ child' = [p \in Pids |-> IF p \in told /\ sig = "KILL" THEN "zombie" ELSE child[p]]
      /\ pend' = IF sig = "KILL" /\ \E p \in told : child[p] # "zombie" THEN pend \cup {"CHLD"} ELSE pend
      /\ inbox' = [p \in Pids |->
                     IF p \in told /\ sig \in {"QUIT", "TERM"} /\ child[p] \in {"running", "quitting"}
                       THEN inbox[p] \cup {sig} ELSE inbox[p]]
      /\ UNCHANGED <<pid, respawn, detached, role, chan, last, fatal>>

(* if (!live && (ngx_terminate || ngx_quit)) ngx_master_process_exit(cycle) *)
MasterExit ==
  /\ mpc = "work" /\ Stopping /\ ~live
  /\ Goto("exited")
  /\ UNCHANGED <<slotVars, flags, loopVars, workVars, pend, childVars, envVars>>

Mutant_TerminateNeverKills ==
  /\ mpc = "work" /\ live /\ "terminate" \in flags
  /\ delay' = IF delay = 0 THEN 50 ELSE delay
  /\ sigio' = WorkerProcesses + 2
  /\ SignalWorkers("TERM", {}) /\ Goto("top")
  /\ UNCHANGED <<noaccepting, newBinary, live, workVars, envVars>>

(* TERM: signal the children, then let as many wake-ups pass as there may  *)
(* be children, then again; once the delay is over a second, kill.         *)
Terminate ==
  /\ mpc = "work" /\ live /\ "terminate" \in flags
  /\ delay' = IF delay = 0 THEN 50 ELSE delay
  /\ IF sigio > 0
       THEN /\ sigio' = sigio - 1
            /\ UNCHANGED <<slotVars, flags, childVars, pend>>
       ELSE /\ sigio' = WorkerProcesses + 2
            /\ SignalWorkers(IF delay' > KillDelay THEN "KILL" ELSE "TERM", {})
  /\ Goto("top")
  /\ UNCHANGED <<noaccepting, newBinary, live, workVars, envVars>>

(* QUIT: the flag stays set, so every later wake-up comes here again.       *)
Quit ==
  /\ mpc = "work" /\ live /\ "quit" \in flags /\ "terminate" \notin flags
  /\ SignalWorkers("QUIT", {})
  /\ Goto("top")
  /\ UNCHANGED <<loopVars, workVars, envVars>>

-----------------------------------------------------------------------------
(* The other branches, in their order in the loop.                          *)
Branches == <<"reconfigure", "restart", "reopen", "change_binary", "noaccept">>

Turn(f) ==
  /\ mpc = "work" /\ ~Stopping
  /\ \E i \in 1 .. 5 : /\ Branches[i] = f /\ f \in flags
                       /\ \A j \in 1 .. i - 1 : Branches[j] \notin flags

Mutant_StartJust(type, next) ==
  todo' = ToStart("just") /\ cont' = next /\ Goto("spawn")

StartProcesses(type, next) == todo' = ToStart(type) /\ cont' = next /\ Goto("spawn")

(* HUP in the middle of an upgrade: the old binary starts workers again.    *)
ReconfigureOldBinary ==
  /\ Turn("reconfigure") /\ newBinary # 0
  /\ flags' = flags \ {"reconfigure"}
  /\ StartProcesses("respawn", "top")
  /\ noaccepting' = FALSE
  /\ UNCHANGED <<slotVars, newBinary, live, delay, sigio, ri, rlive, pend, childVars,
                 envVars>>

(* HUP, ngx_init_cycle fails: the old configuration stays, and the flags   *)
(* of the branches below wait for another signal.                          *)
ReconfigureFails ==
  /\ Turn("reconfigure") /\ newBinary = 0
  /\ faults < MaxFaults /\ faults' = faults + 1
  /\ flags' = flags \ {"reconfigure"}
  /\ Goto("top")
  /\ UNCHANGED <<slotVars, loopVars, workVars, pend, childVars, sent, crashes>>

Reconfigure ==
  /\ Turn("reconfigure") /\ newBinary = 0
  /\ flags' = flags \ {"reconfigure"}
  /\ StartProcesses("just", "told")
  /\ UNCHANGED <<slotVars, loopVars, ri, rlive, pend, childVars, envVars>>

Mutant_ToldNobody ==
  /\ mpc = "told"
  /\ live' = TRUE
  /\ Goto("work")
  /\ UNCHANGED <<slotVars, flags, noaccepting, newBinary, delay, sigio, workVars, pend,
                 childVars, envVars>>

(* The new processes run: the old ones are told to quit.                    *)
ReconfigureTold ==
  /\ mpc = "told"
  /\ live' = TRUE
  /\ SignalWorkers("QUIT", {})
  /\ Goto("work")
  /\ UNCHANGED <<noaccepting, newBinary, delay, sigio, workVars, envVars>>

Restart ==
  /\ Turn("restart")
  /\ flags' = flags \ {"restart"}
  /\ StartProcesses("respawn", "work")
  /\ live' = TRUE
  /\ UNCHANGED <<slotVars, noaccepting, newBinary, delay, sigio, ri, rlive, pend,
                 childVars, envVars>>

Reopen ==
  /\ Turn("reopen")
  /\ SignalWorkers("USR1", {"reopen"})
  /\ UNCHANGED <<mpc, loopVars, workVars, envVars>>

(* ngx_exec_new_binary: renaming the pid file or starting the process may  *)
(* fail, and ngx_new_binary is then NGX_INVALID_PID.                       *)
ChangeBinary ==
  /\ Turn("change_binary")
  /\ flags' = flags \ {"change_binary"}
  /\ \/ \E s \in Slots :
          /\ NewSlot(s) /\ ForkDetached(s) /\ FillSlot(s, "binary", "detached")
          /\ newBinary' = pid'[s]
          /\ UNCHANGED envVars
     \/ /\ IF TableFull THEN UNCHANGED envVars ELSE ForkFails
        /\ newBinary' = InvalidPid
        /\ UNCHANGED <<slotVars, childVars>>
  /\ UNCHANGED <<mpc, noaccepting, live, delay, sigio, workVars, pend>>

Noaccept ==
  /\ Turn("noaccept")
  /\ noaccepting' = TRUE
  /\ SignalWorkers("QUIT", {"noaccept"})
  /\ UNCHANGED <<mpc, newBinary, live, delay, sigio, workVars, envVars>>

WorkDone ==
  /\ mpc = "work" /\ ~Stopping
  /\ \A i \in 1 .. 5 : Branches[i] \notin flags
  /\ Goto("top")
  /\ UNCHANGED <<slotVars, flags, loopVars, workVars, pend, childVars, envVars>>

MasterStep ==
  \/ Spawn \/ SpawnsDone \/ Top \/ Sigsuspend
  \/ \E s \in Slots : ReapSkip(s) \/ ReapRespawn(s) \/ ReapRemove(s)
  \/ ReapDone \/ MasterExit \/ Terminate \/ Quit
  \/ ReconfigureOldBinary \/ ReconfigureFails \/ Reconfigure \/ ReconfigureTold
  \/ Restart \/ Reopen \/ ChangeBinary \/ Noaccept \/ WorkDone

-----------------------------------------------------------------------------
(* The children.  A worker told to quit finishes its connections first;    *)
(* the cache processes exit at once.                                       *)
RoleOf(p) == role[CHOOSE s \in Used : pid[s] = p]

Asleep == mpc \in {"suspend", "exited"}

Raise(sig) == pend' = IF mpc = "exited" THEN pend ELSE pend \cup {sig}

Dies(p, withCode2) ==
  /\ child' = [child EXCEPT ![p] = "zombie"]
  /\ inbox' = [inbox EXCEPT ![p] = {}]
  /\ fatal' = IF withCode2 THEN fatal \cup {p} ELSE fatal
  /\ Raise("CHLD")

(* Reading the channel frees room in it: the master gets SIGIO.             *)
ChildQuits(p) ==
  /\ Asleep /\ child[p] = "running" /\ inbox[p] = {"QUIT"} /\ RoleOf(p) = "worker"
  /\ child' = [child EXCEPT ![p] = "quitting"]
  /\ inbox' = [inbox EXCEPT ![p] = {}]
  /\ Raise("IO")
  /\ UNCHANGED <<slotVars, mpc, flags, loopVars, workVars, fatal, envVars>>

ChildExits(p) ==
  /\ Asleep
  /\ \/ child[p] = "quitting"
     \/ child[p] = "running" /\ RoleOf(p) = "loader"
     \/ child[p] = "running" /\ inbox[p] = {"QUIT"} /\ RoleOf(p) = "manager"
     \/ child[p] \in {"running", "quitting"} /\ "TERM" \in inbox[p]
  /\ Dies(p, FALSE)
  /\ UNCHANGED <<slotVars, mpc, flags, loopVars, workVars, envVars>>

ChildCrashes(p) ==
  /\ Asleep /\ child[p] \in {"running", "quitting"}
  /\ crashes < MaxCrashes /\ crashes' = crashes + 1
  /\ \/ Dies(p, FALSE) /\ UNCHANGED faults
     \/ Dies(p, TRUE) /\ faults < MaxFaults /\ faults' = faults + 1
  /\ UNCHANGED <<slotVars, mpc, flags, loopVars, workVars, sent>>

(* A signal of the administrator, and the alarm of the delay timer.         *)
Kill(sig) ==
  /\ mpc = "suspend" /\ sent < MaxSignals /\ sent' = sent + 1
  /\ Raise(sig)
  /\ UNCHANGED <<slotVars, mpc, flags, loopVars, workVars, childVars, crashes, faults>>

Alarm ==
  /\ mpc = "suspend" /\ delay > 0 /\ "ALRM" \notin pend
  /\ Raise("ALRM")
  /\ UNCHANGED <<slotVars, mpc, flags, loopVars, workVars, childVars, envVars>>

Next ==
  \/ MasterStep
  \/ \E p \in Pids : ChildQuits(p) \/ ChildExits(p) \/ ChildCrashes(p)
  \/ \E sig \in AdminSignals : Kill(sig)
  \/ Alarm

Spec == Init /\ [][Next]_vars

(* The master is scheduled and its timer rings.  Nothing is assumed of the *)
(* children: they may hang for ever.                                       *)
FairSpec == Spec /\ WF_vars(MasterStep) /\ WF_vars(Alarm)

(* The children, too, read their channel and finish what they do.          *)
ChildrenFair == \A p \in Pids : WF_vars(ChildQuits(p) \/ ChildExits(p))

-----------------------------------------------------------------------------
(* Every child that has not been waited for has a slot of its own, not     *)
(* marked exited, whatever sequence of spawns, failed spawns, deaths,      *)
(* removals and reuses of slots went before: none can be forgotten, and no *)
(* death can go unnoticed.                                                 *)
NoLostChild ==
  \A p \in Pids : child[p] # "none" =>
    \E s \in Used : pid[s] = p /\ ~exited[s] /\ \A t \in Used : pid[t] = p => t = s

(* When the master sleeps no process is still marked as just started: the  *)
(* mark spares a new process exactly one shutdown, that of the reload that *)
(* started it, and never a later one.                                      *)
NoneSparedTwice == mpc = "suspend" => \A s \in Used : ~just[s]

(* A reload tells the old processes to quit, and none of the ones that it  *)
(* has just started (ngx_process_cycle.c:265).                             *)
ReloadSparesNew ==
  [][mpc = "told" => \A s \in Used : just[s] => inbox'[pid[s]] = inbox[pid[s]]]_vars

Serving ==
  {s \in Used : role[s] = "worker" /\ ~exiting[s] /\ ~exited[s]}

(* A reload starts new workers and gracefully shuts down the old ones      *)
(* (man/nginx.8:113): when the master sleeps at most worker_processes      *)
(* workers are meant to stay.                                              *)
NoDoubleWorkers == mpc = "suspend" => Cardinality(Serving) <= WorkerProcesses

(* The master exits only after all its children have (ngx_process_cycle.c: *)
(* 190): none is left running without a master.                            *)
ExitsLast ==
  mpc = "exited" =>
    \A p \in Pids : child[p] \in {"running", "quitting"} => RoleOf(p) = "binary"

(* A worker told to quit is never replaced by a new process in its slot.    *)
QuitIsFinal ==
  [][\A s \in Slots : s \in Used /\ exiting[s] /\ pid'[s] # pid[s]
       => pid'[s] = InvalidPid]_vars

(* TERM ends the master even if every child hangs: the alarm escalates to  *)
(* SIGKILL.                                                                *)
TerminateCompletes == ("terminate" \in flags) ~> (mpc = "exited")

(* QUIT ends the master once the children have finished.                   *)
QuitCompletes == ChildrenFair => (("quit" \in flags) ~> (mpc = "exited"))

(* Whenever workers are missing they are replaced, unless the server is on *)
(* its way down or the administrator has told the workers to stop (WINCH). *)
Full ==
  Cardinality({s \in Serving : child[pid[s]] = "running"}) >= WorkerProcesses

WorkersRestored ==
  ChildrenFair => ((~Full) ~> (Full \/ Stopping \/ noaccepting))

=============================================================================
