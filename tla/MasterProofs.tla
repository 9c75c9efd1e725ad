---------------------------- MODULE MasterProofs ----------------------------
(***************************************************************************)
(* Proofs about the master process for any number of slots, process ids,   *)
(* workers, signals, deaths and failing calls.                             *)
(***************************************************************************)
EXTENDS Master, SequenceTheorems, FiniteSetTheorems, TLAPS

USE DEF InvalidPid, NoChannel, Closed

Job == Roles \X {"respawn", "just"}

(* What is to be started is a sequence of jobs, all of the kind asked for.  *)
LEMMA ToStartJobs ==
  ASSUME NEW type \in {"respawn", "just"}
  PROVE  /\ ToStart(type) \in Seq(Job)
         /\ \A i \in 1 .. Len(ToStart(type)) : ToStart(type)[i][2] = type
<1> DEFINE W == [i \in 1 .. WorkerProcesses |-> <<"worker", type>>]
           M == IF CacheManager THEN << <<"manager", type>> >> ELSE <<>>
           L == IF CacheManager /\ CacheLoader THEN << <<"loader", type>> >> ELSE <<>>
<1>1. /\ W \in Seq(Job) /\ Len(W) = WorkerProcesses
      /\ \A i \in 1 .. Len(W) : W[i][2] = type
  <2>1. \A i \in 1 .. WorkerProcesses : <<"worker", type>> \in Job
    BY DEF Job, Roles
  <2> QED BY <2>1, SizeAssumption, IsASeq
<1>2. /\ M \in Seq(Job) /\ \A i \in 1 .. Len(M) : M[i][2] = type
  <2>1. <<"manager", type>> \in Job BY DEF Job, Roles
  <2> QED BY <2>1
<1>3. /\ L \in Seq(Job) /\ \A i \in 1 .. Len(L) : L[i][2] = type
  <2>1. <<"loader", type>> \in Job BY DEF Job, Roles
  <2> QED BY <2>1
<1>4. ToStart(type) = W \o M \o L BY DEF ToStart
<1> HIDE DEF W, M, L
<1>5. /\ W \o M \in Seq(Job) /\ \A i \in 1 .. Len(W \o M) : (W \o M)[i][2] = type
  BY <1>1, <1>2
<1> DEFINE WM == W \o M
<1>6. /\ WM \in Seq(Job) /\ \A i \in 1 .. Len(WM) : WM[i][2] = type
  BY <1>5
<1> HIDE DEF WM
<1>7. /\ WM \o L \in Seq(Job) /\ \A i \in 1 .. Len(WM \o L) : (WM \o L)[i][2] = type
  BY <1>6, <1>3
<1> QED BY <1>4, <1>7 DEF WM

-----------------------------------------------------------------------------
(* Types.                                                                   *)
LEMMA InitTypeOK == Init => TypeOK
<1> SUFFICES ASSUME Init PROVE TypeOK
  OBVIOUS
<1>1. todo \in Seq(Roles \X {"respawn", "just"})
  BY ToStartJobs DEF Init, Job
<1>2. 0 .. MaxProcesses # {} /\ 0 \in 0 .. MaxProcesses
  BY SizeAssumption
<1> QED BY <1>1, <1>2, SizeAssumption DEF Init, TypeOK, Flags, Roles, Signals

LEMMA SignalWorkersType ==
  ASSUME TypeOK, NEW sig \in {"QUIT", "TERM", "KILL", "USR1"}, NEW cleared,
         SignalWorkers(sig, cleared)
  PROVE  /\ just' \in [Slots -> BOOLEAN] /\ exiting' \in [Slots -> BOOLEAN]
         /\ exited' \in [Slots -> BOOLEAN] /\ flags' \subseteq Flags
         /\ child' \in [Pids -> {"none", "running", "quitting", "zombie"}]
         /\ inbox' \in [Pids -> SUBSET {"QUIT", "TERM"}]
         /\ pend' \subseteq Signals
<1>1. just' \in [Slots -> BOOLEAN] /\ exiting' \in [Slots -> BOOLEAN]
      /\ exited' \in [Slots -> BOOLEAN]
  BY Zenon DEF SignalWorkers
<1>2. flags' \subseteq Flags /\ pend' \subseteq Signals
  BY DEF SignalWorkers, TypeOK, Flags, Signals
<1>3. child' \in [Pids -> {"none", "running", "quitting", "zombie"}]
  BY DEF SignalWorkers, TypeOK
<1>4. inbox' \in [Pids -> SUBSET {"QUIT", "TERM"}]
  BY DEF SignalWorkers, TypeOK
<1> QED BY <1>1, <1>2, <1>3, <1>4

LEMMA ForkType ==
  ASSUME TypeOK, NEW s \in Slots, NEW ch \in [Slots -> Pids \cup {NoChannel, Closed}],
         Fork(s, ch) \/ ForkDetached(s)
  PROVE  /\ pid' \in [Slots -> Pids \cup {InvalidPid}] /\ pid'[s] \in Pids
         /\ exited' \in [Slots -> BOOLEAN]
         /\ chan' \in [Slots -> Pids \cup {NoChannel, Closed}]
         /\ child' \in [Pids -> {"none", "running", "quitting", "zombie"}]
         /\ inbox' \in [Pids -> SUBSET {"QUIT", "TERM"}]
         /\ fatal' \subseteq Pids
<1>1. exited' \in [Slots -> BOOLEAN]
  <2>1. exited' = [exited EXCEPT ![s] = FALSE] BY DEF Fork, ForkDetached
  <2> QED BY <2>1 DEF TypeOK
<1>2. CASE Fork(s, ch)
  BY <1>1, <1>2 DEF Fork, Fresh, TypeOK
<1>3. CASE ForkDetached(s)
  BY <1>1, <1>3 DEF ForkDetached, Fresh, TypeOK
<1> QED BY <1>2, <1>3

LEMMA FillSlotType ==
  ASSUME TypeOK, NEW s \in Slots, s <= last, NEW r \in Roles, NEW type,
         FillSlot(s, r, type)
  PROVE  /\ role' \in [Slots -> Roles] /\ exiting' \in [Slots -> BOOLEAN]
         /\ respawn' \in [Slots -> BOOLEAN] /\ just' \in [Slots -> BOOLEAN]
         /\ detached' \in [Slots -> BOOLEAN] /\ last' \in 0 .. MaxProcesses
<1>1. role' \in [Slots -> Roles] /\ last' \in 0 .. MaxProcesses
  BY SizeAssumption DEF FillSlot, TypeOK, Slots
<1>2. exiting' \in [Slots -> BOOLEAN] BY DEF FillSlot, TypeOK
<1>3. respawn' \in [Slots -> BOOLEAN]
  <2>1. (r \in {"worker", "manager"}) \in BOOLEAN OBVIOUS
  <2> QED BY <2>1, Zenon DEF FillSlot, TypeOK
<1>4. just' \in [Slots -> BOOLEAN]
  <2>1. (type = "just") \in BOOLEAN OBVIOUS
  <2> QED BY <2>1, Zenon DEF FillSlot, TypeOK
<1>5. detached' \in [Slots -> BOOLEAN]
  <2>1. (type = "detached") \in BOOLEAN OBVIOUS
  <2> QED BY <2>1, Zenon DEF FillSlot, TypeOK
<1> QED BY <1>1, <1>2, <1>3, <1>4, <1>5

LEMMA NextTypeOK == TypeOK /\ [Next]_vars => TypeOK'
<1> SUFFICES ASSUME TypeOK, [Next]_vars PROVE TypeOK'
  OBVIOUS
<1> USE SizeAssumption, BoundAssumption DEF TypeOK, slotVars, loopVars, workVars,
      childVars, envVars, Goto
<1>1. ASSUME Spawn PROVE TypeOK'
  <2>1. todo' \in Seq(Roles \X {"respawn", "just"})
    BY <1>1, HeadTailProperties DEF Spawn
  <2>2. Head(todo)[1] \in Roles
    BY <1>1, HeadTailProperties DEF Spawn
  <2>3. ASSUME NEW s \in Slots, NewSlot(s), Fork(s, chan),
               FillSlot(s, Head(todo)[1], Head(todo)[2]), UNCHANGED envVars
        PROVE  TypeOK'
    <3>1. s <= last BY <2>3 DEF NewSlot
    <3> QED BY <1>1, <2>1, <2>2, <2>3, <3>1, ForkType, FillSlotType DEF Spawn
  <2>4. ASSUME UNCHANGED <<slotVars, childVars>>,
               IF TableFull THEN UNCHANGED envVars ELSE ForkFails
        PROVE  TypeOK'
    <3>1. sent' \in Nat /\ crashes' \in Nat /\ faults' \in Nat
      BY <2>4 DEF ForkFails
    <3>2. UNCHANGED <<mpc, flags, loopVars, ri, rlive, cont, pend>>
      BY <1>1 DEF Spawn
    <3> QED BY <2>1, <2>4, <3>1, <3>2
  <2> HIDE DEF TypeOK, slotVars, childVars, envVars
  <2> QED BY <1>1, <2>3, <2>4 DEF Spawn
<1>2. ASSUME SpawnsDone PROVE TypeOK'
  BY <1>2 DEF SpawnsDone
<1>3. ASSUME Top PROVE TypeOK'
  BY <1>3 DEF Top, KillDelay
<1>4. ASSUME Sigsuspend PROVE TypeOK'
  <2>1. Raised \subseteq Flags
    BY DEF Raised, Flags
  <2>2. exited' \in [Slots -> BOOLEAN] /\ respawn' \in [Slots -> BOOLEAN]
    BY <1>4, Zenon DEF Sigsuspend, GetStatus
  <2>3. /\ child' \in [Pids -> {"none", "running", "quitting", "zombie"}]
        /\ inbox' \in [Pids -> SUBSET {"QUIT", "TERM"}]
        /\ fatal' \subseteq Pids
    BY <1>4 DEF Sigsuspend, GetStatus
  <2>4. ri' \in 0 .. MaxProcesses /\ rlive' \in BOOLEAN
    <3>1. \/ ri' = 0 /\ rlive' = FALSE
          \/ ri' = ri /\ rlive' = rlive
      BY <1>4, Zenon DEF Sigsuspend
    <3>2. ri' \in 0 .. MaxProcesses BY <3>1
    <3>3. rlive \in BOOLEAN OBVIOUS
    <3>4. rlive' \in BOOLEAN BY <3>1, <3>3, Zenon
    <3> QED BY <3>2, <3>4
  <2> QED BY <1>4, <2>1, <2>2, <2>3, <2>4 DEF Sigsuspend
<1>5. ASSUME NEW s \in Slots, ReapSkip(s) PROVE TypeOK'
  BY <1>5 DEF ReapSkip, ReapAt, Slots
<1>6. ASSUME NEW s \in Slots, ReapRespawn(s) PROVE TypeOK'
  <2>1. CloseChannel(s) \in [Slots -> Pids \cup {NoChannel, Closed}]
    BY DEF CloseChannel
  <2>2. CASE Fork(s, CloseChannel(s)) /\ rlive' = TRUE /\ UNCHANGED envVars
    <3>1. ri' \in 0 .. MaxProcesses BY <1>6 DEF ReapRespawn, ReapAt, Slots
    <3> QED BY <1>6, <2>1, <2>2, <3>1, ForkType DEF ReapRespawn
  <2>3. CASE /\ ForkFails /\ UNCHANGED <<pid, exited, childVars, rlive>>
             /\ \E c \in {NoChannel, Closed} :
                  chan' = [CloseChannel(s) EXCEPT ![s] = c]
    BY <1>6, <2>1, <2>3 DEF ReapRespawn, ReapAt, ForkFails, Slots
  <2> QED BY <1>6, <2>2, <2>3 DEF ReapRespawn
<1>7. ASSUME NEW s \in Slots, ReapRemove(s) PROVE TypeOK'
  <2>1. CloseChannel(s) \in [Slots -> Pids \cup {NoChannel, Closed}]
    BY DEF CloseChannel
  <2>2. ri' \in 0 .. MaxProcesses /\ last' \in 0 .. MaxProcesses
    <3>1. s \in Nat /\ ri = s /\ s < last /\ ri' = ri + 1
      BY <1>7 DEF ReapRemove, ReapAt, Slots
    <3>2. last' = last - 1 \/ last' = last
      BY <1>7 DEF ReapRemove
    <3> QED BY <3>1, <3>2
  <2>3. pid' \in [Slots -> Pids \cup {InvalidPid}]
    BY <1>7 DEF ReapRemove
  <2>4. /\ flags' \subseteq Flags /\ noaccepting' \in BOOLEAN
        /\ newBinary' \in Pids \cup {0, InvalidPid}
    <3>1. \/ newBinary' = 0 /\ noaccepting' = FALSE
          \/ newBinary' = newBinary /\ noaccepting' = noaccepting
      BY <1>7, Zenon DEF ReapRemove
    <3>2. flags' = flags \cup {"restart"} \/ flags' = flags
      BY <1>7, Zenon DEF ReapRemove
    <3>3. noaccepting \in BOOLEAN /\ flags \subseteq Flags OBVIOUS
    <3>4. noaccepting' \in BOOLEAN BY <3>1, <3>3, Zenon
    <3>5. flags' \subseteq Flags BY <3>2, <3>3 DEF Flags
    <3>6. newBinary' \in Pids \cup {0, InvalidPid} BY <3>1
    <3> QED BY <3>4, <3>5, <3>6
  <2> QED BY <1>7, <2>1, <2>2, <2>3, <2>4 DEF ReapRemove
<1>8. ASSUME ReapDone PROVE TypeOK'
  BY <1>8 DEF ReapDone
<1>9. ASSUME MasterExit PROVE TypeOK'
  BY <1>9 DEF MasterExit
<1>10. ASSUME Terminate PROVE TypeOK'
  <2>1. delay' \in Nat /\ sigio' \in Nat
    BY <1>10 DEF Terminate
  <2>2. CASE sigio > 0
    BY <1>10, <2>1, <2>2 DEF Terminate
  <2>3. ASSUME NEW sig \in {"KILL", "TERM"}, SignalWorkers(sig, {})
        PROVE  TypeOK'
    <3>1. UNCHANGED <<pid, respawn, detached, role, chan, last, fatal>>
      BY <2>3 DEF SignalWorkers
    <3> QED BY <1>10, <2>1, <2>3, <3>1, SignalWorkersType DEF Terminate
  <2> QED BY <1>10, <2>2, <2>3 DEF Terminate
<1>11. ASSUME Quit PROVE TypeOK'
  <2>1. UNCHANGED <<pid, respawn, detached, role, chan, last, fatal>>
    BY <1>11 DEF Quit, SignalWorkers
  <2> QED BY <1>11, <2>1, SignalWorkersType DEF Quit
<1>12. ASSUME ReconfigureOldBinary PROVE TypeOK'
  BY <1>12, ToStartJobs DEF ReconfigureOldBinary, StartProcesses, Job
<1>13. ASSUME ReconfigureFails PROVE TypeOK'
  BY <1>13 DEF ReconfigureFails
<1>14. ASSUME Reconfigure PROVE TypeOK'
  BY <1>14, ToStartJobs DEF Reconfigure, StartProcesses, Job
<1>15. ASSUME ReconfigureTold PROVE TypeOK'
  <2>1. UNCHANGED <<pid, respawn, detached, role, chan, last, fatal>>
    BY <1>15 DEF ReconfigureTold, SignalWorkers
  <2> QED BY <1>15, <2>1, SignalWorkersType DEF ReconfigureTold
<1>16. ASSUME Restart PROVE TypeOK'
  BY <1>16, ToStartJobs DEF Restart, StartProcesses, Job
<1>17. ASSUME Reopen PROVE TypeOK'
  <2>1. UNCHANGED <<pid, respawn, detached, role, chan, last, fatal>>
    BY <1>17 DEF Reopen, SignalWorkers
  <2> QED BY <1>17, <2>1, SignalWorkersType DEF Reopen
<1>18. ASSUME ChangeBinary PROVE TypeOK'
  <2>1. ASSUME NEW s \in Slots, NewSlot(s), ForkDetached(s),
               FillSlot(s, "binary", "detached"), newBinary' = pid'[s],
               UNCHANGED envVars
        PROVE  TypeOK'
    <3>1. s <= last /\ "binary" \in Roles BY <2>1 DEF NewSlot, Roles
    <3> QED BY <1>18, <2>1, <3>1, ForkType, FillSlotType DEF ChangeBinary
  <2>2. ASSUME UNCHANGED <<slotVars, childVars>>, newBinary' = InvalidPid,
               IF TableFull THEN UNCHANGED envVars ELSE ForkFails
        PROVE  TypeOK'
    <3>1. sent' \in Nat /\ crashes' \in Nat /\ faults' \in Nat
      BY <2>2 DEF ForkFails
    <3>2. flags' \subseteq Flags BY <1>18 DEF ChangeBinary
    <3>3. UNCHANGED <<mpc, noaccepting, live, delay, sigio, workVars, pend>>
      BY <1>18 DEF ChangeBinary
    <3> QED BY <2>2, <3>1, <3>2, <3>3
  <2> HIDE DEF TypeOK, slotVars, childVars, envVars
  <2> QED BY <1>18, <2>1, <2>2 DEF ChangeBinary
<1>19. ASSUME Noaccept PROVE TypeOK'
  <2>1. UNCHANGED <<pid, respawn, detached, role, chan, last, fatal>>
    BY <1>19 DEF Noaccept, SignalWorkers
  <2> QED BY <1>19, <2>1, SignalWorkersType DEF Noaccept
<1>20. ASSUME WorkDone PROVE TypeOK'
  BY <1>20 DEF WorkDone
<1>21. ASSUME NEW p \in Pids, ChildQuits(p) PROVE TypeOK'
  BY <1>21 DEF ChildQuits, Raise, Signals
<1>22. ASSUME NEW p \in Pids, ChildExits(p) PROVE TypeOK'
  BY <1>22 DEF ChildExits, Dies, Raise, Signals
<1>23. ASSUME NEW p \in Pids, ChildCrashes(p) PROVE TypeOK'
  <2>1. /\ child' \in [Pids -> {"none", "running", "quitting", "zombie"}]
        /\ inbox' \in [Pids -> SUBSET {"QUIT", "TERM"}]
        /\ fatal' \subseteq Pids /\ pend' \subseteq Signals
    BY <1>23 DEF ChildCrashes, Dies, Raise, Signals
  <2>2. crashes' \in Nat /\ faults' \in Nat
    <3>1. crashes' = crashes + 1 BY <1>23 DEF ChildCrashes
    <3>2. faults' = faults \/ faults' = faults + 1 BY <1>23, Zenon DEF ChildCrashes
    <3> QED BY <3>1, <3>2
  <2>3. UNCHANGED <<slotVars, mpc, flags, loopVars, workVars, sent>>
    BY <1>23 DEF ChildCrashes
  <2> QED BY <2>1, <2>2, <2>3
<1>24. ASSUME NEW sig \in AdminSignals, Kill(sig) PROVE TypeOK'
  BY <1>24 DEF Kill, Raise, Signals
<1>25. ASSUME Alarm PROVE TypeOK'
  BY <1>25 DEF Alarm, Raise, Signals
<1>26. ASSUME UNCHANGED vars PROVE TypeOK'
  BY <1>26 DEF vars
<1> QED BY <1>1, <1>2, <1>3, <1>4, <1>5, <1>6, <1>7, <1>8, <1>9, <1>10, <1>11, <1>12,
           <1>13, <1>14, <1>15, <1>16, <1>17, <1>18, <1>19, <1>20, <1>21, <1>22, <1>23,
           <1>24, <1>25, <1>26 DEF Next, MasterStep

(* The process table, the flags and the kernel's records keep their types: *)
(* in particular ngx_last_process never passes NGX_MAX_PROCESSES.          *)
THEOREM TypeCorrect == Spec => []TypeOK
BY InitTypeOK, NextTypeOK, PTL DEF Spec

-----------------------------------------------------------------------------
(* The process table.  NoLostChild needs the second part for the processes *)
(* that are no longer there as well: a slot whose respawn failed keeps the *)
(* id of a dead process, and a later child must not get the same one.      *)
ChildHasSlot ==
  \A p \in Pids : child[p] # "none" => \E s \in Used : pid[s] = p /\ ~exited[s]

DistinctPids == \A s, t \in Used : pid[s] = pid[t] => s = t

TableInv == ChildHasSlot /\ DistinctPids

(* A step that moves no slot, adds no child and marks as exited only the   *)
(* slots of children that are gone.                                        *)
LEMMA TableKept ==
  ASSUME TypeOK, TableInv, UNCHANGED <<pid, last>>,
         \A p \in Pids : child'[p] # "none" => child[p] # "none",
         \A s \in Used : exited'[s] => exited[s] \/ child'[pid[s]] = "none"
  PROVE  TableInv'
<1>1. Used' = Used BY DEF Used
<1>2. DistinctPids' BY <1>1 DEF TableInv, DistinctPids
<1>3. ChildHasSlot'
  <2> SUFFICES ASSUME NEW p \in Pids, child'[p] # "none"
               PROVE  \E s \in Used : pid[s] = p /\ ~exited'[s]
    BY <1>1 DEF ChildHasSlot
  <2>1. PICK s \in Used : pid[s] = p /\ ~exited[s]
    BY DEF TableInv, ChildHasSlot
  <2>2. ~exited'[s] BY <2>1
  <2> QED BY <2>1, <2>2
<1> QED BY <1>2, <1>3 DEF TableInv

(* A step that puts a new process into a slot that was free or whose       *)
(* process is gone.                                                        *)
LEMMA TableForked ==
  ASSUME TypeOK, TableInv, NEW s \in Slots, s <= last, s \in Used => exited[s],
         NEW p \in Fresh,
         pid' = [pid EXCEPT ![s] = p], exited' = [exited EXCEPT ![s] = FALSE],
         child' = [child EXCEPT ![p] = "running"],
         last' = IF s = last THEN last + 1 ELSE last
  PROVE  TableInv'
<1> USE SizeAssumption DEF TypeOK
<1>1. Used' = Used \cup {s}
  BY DEF Used, Slots, Fresh
<1>2. \A t \in Used : pid[t] # p BY DEF Fresh
<1>3. pid'[s] = p /\ \A t \in Used : t # s => pid'[t] = pid[t]
  BY DEF Used
<1>4. DistinctPids'
  <2> SUFFICES ASSUME NEW t \in Used', NEW u \in Used', pid'[t] = pid'[u]
               PROVE  t = u
    BY DEF DistinctPids
  <2> QED BY <1>1, <1>2, <1>3 DEF TableInv, DistinctPids
<1>5. ChildHasSlot'
  <2> SUFFICES ASSUME NEW q \in Pids, child'[q] # "none"
               PROVE  \E t \in Used' : pid'[t] = q /\ ~exited'[t]
    BY DEF ChildHasSlot
  <2>1. CASE q = p
    BY <1>1, <1>3, <2>1
  <2>2. CASE q # p
    <3>1. child[q] # "none" BY <2>2
    <3>2. PICK t \in Used : pid[t] = q /\ ~exited[t]
      BY <3>1 DEF TableInv, ChildHasSlot
    <3>3. t # s /\ t \in Slots BY <3>2 DEF Used
    <3>4. ~exited'[t] BY <3>2, <3>3
    <3> QED BY <1>1, <1>3, <3>2, <3>3, <3>4
  <2> QED BY <2>1, <2>2
<1> QED BY <1>4, <1>5 DEF TableInv

(* A step that drops a slot whose process is gone.                          *)
LEMMA TableDropped ==
  ASSUME TypeOK, TableInv, NEW s \in Used, exited[s], UNCHANGED <<exited, child>>,
         \/ s = last - 1 /\ last' = last - 1 /\ UNCHANGED pid
         \/ pid' = [pid EXCEPT ![s] = InvalidPid] /\ UNCHANGED last
  PROVE  TableInv'
<1> USE SizeAssumption DEF TypeOK
<1>1. Used' = Used \ {s} /\ \A t \in Used \ {s} : pid'[t] = pid[t]
  <2>1. CASE s = last - 1 /\ last' = last - 1 /\ UNCHANGED pid
    <3>1. \A t \in Slots : t < last' <=> t < last /\ t # s
      BY <2>1 DEF Slots
    <3> QED BY <2>1, <3>1 DEF Used
  <2>2. CASE pid' = [pid EXCEPT ![s] = InvalidPid] /\ UNCHANGED last
    BY <2>2 DEF Used, Slots
  <2> QED BY <2>1, <2>2
<1>2. DistinctPids' BY <1>1 DEF TableInv, DistinctPids
<1>3. ChildHasSlot'
  <2> SUFFICES ASSUME NEW q \in Pids, child[q] # "none"
               PROVE  \E t \in Used' : pid'[t] = q /\ ~exited[t]
    BY DEF ChildHasSlot
  <2>1. PICK t \in Used : pid[t] = q /\ ~exited[t]
    BY DEF TableInv, ChildHasSlot
  <2>2. t # s BY <2>1
  <2> QED BY <1>1, <2>1, <2>2
<1> QED BY <1>2, <1>3 DEF TableInv

(* Signalling marks as exited only slots whose process kill did not find.   *)
LEMMA TableSignalled ==
  ASSUME TypeOK, TableInv, NEW sig, NEW cleared, SignalWorkers(sig, cleared)
  PROVE  TableInv'
<1>1. UNCHANGED <<pid, last>> BY DEF SignalWorkers
<1>2. ASSUME NEW p \in Pids, child'[p] # "none" PROVE child[p] # "none"
  <2>1. CASE child'[p] = child[p] BY <1>2, <2>1
  <2>2. CASE child'[p] # child[p]
    <3>1. sig = "KILL" BY <2>2 DEF SignalWorkers, TypeOK
    <3>2. PICK s \in ToSignal(sig) :
            /\ p = Reaches(s, sig)
            /\ ~(~ByChannel(s, sig) /\ child[pid[s]] = "none")
      BY <2>2 DEF SignalWorkers, TypeOK
    <3> QED BY <3>1, <3>2 DEF Reaches, ByChannel
  <2> QED BY <2>1, <2>2
<1>3. ASSUME NEW s \in Used, exited'[s], ~exited[s] PROVE child'[pid[s]] = "none"
  <2> DEFINE gone == {t \in ToSignal(sig) :
                        ~ByChannel(t, sig) /\ child[pid[t]] = "none"}
  <2>1. s \in Slots /\ pid[s] \in Pids BY DEF Used, TypeOK
  <2>2. exited' = [t \in Slots |-> exited[t] \/ t \in gone]
    BY Zenon DEF SignalWorkers
  <2>3. s \in gone BY <1>3, <2>1, <2>2
  <2>4. child[pid[s]] = "none" BY <2>3
  <2> QED BY <1>2, <2>1, <2>4
<1> QED BY <1>1, <1>2, <1>3, TableKept

LEMMA NextTable == TypeOK /\ TableInv /\ [Next]_vars => TableInv'
<1> SUFFICES ASSUME TypeOK, TableInv, [Next]_vars PROVE TableInv'
  OBVIOUS
<1> USE DEF slotVars, childVars
<1>1. ASSUME UNCHANGED <<pid, last, exited, child>> PROVE TableInv'
  BY <1>1, TableKept
<1>2. ASSUME Spawn PROVE TableInv'
  <2>1. ASSUME NEW s \in Slots, NewSlot(s), Fork(s, chan),
               FillSlot(s, Head(todo)[1], Head(todo)[2])
        PROVE  TableInv'
    <3>1. s <= last /\ s \notin Used BY <2>1 DEF NewSlot, Used
    <3>2. last' = IF s = last THEN last + 1 ELSE last BY <2>1 DEF FillSlot
    <3> QED BY <2>1, <3>1, <3>2, TableForked DEF Fork
  <2> QED BY <1>1, <1>2, <2>1 DEF Spawn
<1>3. ASSUME Sigsuspend PROVE TableInv'
  <2>1. UNCHANGED <<pid, last>> BY <1>3 DEF Sigsuspend
  <2>2. \A p \in Pids : child'[p] = IF p \in Waited THEN "none" ELSE child[p]
    BY <1>3 DEF Sigsuspend, GetStatus
  <2>3. ASSUME NEW s \in Used, exited'[s], ~exited[s] PROVE child'[pid[s]] = "none"
    <3>1. s \in Slots /\ pid[s] \in Pids BY DEF Used, TypeOK
    <3>2. exited'[s] = (exited[s] \/ (s \in Used /\ pid[s] \in Waited))
      BY <1>3, <3>1 DEF Sigsuspend, GetStatus
    <3>3. pid[s] \in Waited BY <2>3, <3>2
    <3> QED BY <2>2, <3>1, <3>3
  <2> QED BY <2>1, <2>2, <2>3, TableKept
<1>4. ASSUME NEW s \in Slots, ReapRespawn(s) PROVE TableInv'
  <2>1. s < last /\ exited[s] /\ UNCHANGED last BY <1>4 DEF ReapRespawn, ReapAt
  <2>2. ASSUME Fork(s, CloseChannel(s)) PROVE TableInv'
    <3>1. last' = IF s = last THEN last + 1 ELSE last
      BY <2>1, SizeAssumption DEF TypeOK, Slots
    <3>2. s <= last BY <2>1, SizeAssumption DEF TypeOK, Slots
    <3> QED BY <2>1, <2>2, <3>1, <3>2, TableForked DEF Fork
  <2> QED BY <1>1, <1>4, <2>1, <2>2 DEF ReapRespawn
<1>5. ASSUME NEW s \in Slots, ReapRemove(s) PROVE TableInv'
  <2>1. s \in Used /\ exited[s] /\ UNCHANGED <<exited, child>>
    BY <1>5 DEF ReapRemove, ReapAt, Used
  <2>2. \/ s = last - 1 /\ last' = last - 1 /\ UNCHANGED pid
        \/ pid' = [pid EXCEPT ![s] = InvalidPid] /\ UNCHANGED last
    BY <1>5, Zenon DEF ReapRemove
  <2> QED BY <2>1, <2>2, TableDropped
<1>6. ASSUME Terminate PROVE TableInv'
  BY <1>1, <1>6, TableSignalled DEF Terminate
<1>7. ASSUME Quit \/ ReconfigureTold \/ Reopen \/ Noaccept PROVE TableInv'
  BY <1>7, TableSignalled DEF Quit, ReconfigureTold, Reopen, Noaccept
<1>8. ASSUME ChangeBinary PROVE TableInv'
  <2>1. ASSUME NEW s \in Slots, NewSlot(s), ForkDetached(s),
               FillSlot(s, "binary", "detached")
        PROVE  TableInv'
    <3>1. s <= last /\ s \notin Used BY <2>1 DEF NewSlot, Used
    <3>2. last' = IF s = last THEN last + 1 ELSE last BY <2>1 DEF FillSlot
    <3> QED BY <2>1, <3>1, <3>2, TableForked DEF ForkDetached
  <2> QED BY <1>1, <1>8, <2>1 DEF ChangeBinary
<1>9. ASSUME NEW p \in Pids, ChildQuits(p) \/ ChildExits(p) \/ ChildCrashes(p)
      PROVE  TableInv'
  <2>1. UNCHANGED <<pid, last, exited>>
    BY <1>9 DEF ChildQuits, ChildExits, ChildCrashes
  <2>2. /\ child[p] # "none"
        /\ \E v : child' = [child EXCEPT ![p] = v]
    BY <1>9 DEF ChildQuits, ChildExits, ChildCrashes, Dies
  <2>3. \A q \in Pids : child'[q] # "none" => child[q] # "none"
    BY <2>2 DEF TypeOK
  <2> QED BY <2>1, <2>3, TableKept
<1>10. ASSUME \/ SpawnsDone \/ Top \/ ReapDone \/ MasterExit \/ ReconfigureOldBinary
              \/ ReconfigureFails \/ Reconfigure \/ Restart \/ WorkDone \/ Alarm
              \/ \E s \in Slots : ReapSkip(s)
              \/ \E sig \in AdminSignals : Kill(sig)
              \/ UNCHANGED vars
       PROVE  TableInv'
  BY <1>1, <1>10 DEF SpawnsDone, Top, ReapDone, MasterExit, ReconfigureOldBinary,
     ReconfigureFails, Reconfigure, Restart, WorkDone, Alarm, ReapSkip, Kill, vars
<1> QED BY <1>2, <1>3, <1>4, <1>5, <1>6, <1>7, <1>8, <1>9, <1>10 DEF Next, MasterStep

(* Every child not waited for has exactly one slot, and that slot is not   *)
(* marked exited: ngx_spawn_process, ngx_process_get_status,               *)
(* ngx_signal_worker_processes and ngx_reap_children lose no process.      *)
THEOREM ChildNotLost == Spec => []NoLostChild
<1>1. Init => TableInv
  BY DEF Init, TableInv, ChildHasSlot, DistinctPids, Used
<1>2. TypeOK /\ TableInv => NoLostChild
  <2> SUFFICES ASSUME TableInv, NEW p \in Pids, child[p] # "none"
               PROVE  \E s \in Used : /\ pid[s] = p /\ ~exited[s]
                                      /\ \A t \in Used : pid[t] = p => t = s
    BY DEF NoLostChild
  <2>1. PICK s \in Used : pid[s] = p /\ ~exited[s]
    BY DEF TableInv, ChildHasSlot
  <2>2. \A t \in Used : pid[t] = p => t = s
    BY <2>1 DEF TableInv, DistinctPids
  <2> QED BY <2>1, <2>2
<1> QED BY <1>1, <1>2, NextTable, TypeCorrect, PTL DEF Spec

-----------------------------------------------------------------------------
(* A slot whose process was told to quit is never given another process:   *)
(* ngx_reap_children respawns no exiting process, and ngx_spawn_process    *)
(* takes only slots that are free.                                         *)
THEOREM QuitFinal == Spec => QuitIsFinal
<1> DEFINE Kept(s) == s \in Used /\ exiting[s] /\ pid'[s] # pid[s]
                        => pid'[s] = InvalidPid
<1>1. TypeOK /\ [Next]_vars => [\A s \in Slots : Kept(s)]_vars
  <2> SUFFICES ASSUME TypeOK, Next, NEW s \in Slots PROVE Kept(s)
    OBVIOUS
  <2> USE DEF slotVars
  <2>1. ASSUME UNCHANGED pid PROVE Kept(s)
    BY <2>1
  <2>2. ASSUME NEW t \in Slots, NEW p, pid' = [pid EXCEPT ![t] = p],
               t \in Used => ~exiting[t]
        PROVE  Kept(s)
    BY <2>2 DEF TypeOK
  <2>3. ASSUME Spawn PROVE Kept(s)
    <3>1. \A t \in Slots : NewSlot(t) => t \notin Used BY DEF NewSlot, Used
    <3> HIDE DEF Kept
    <3> QED BY <2>1, <2>2, <2>3, <3>1 DEF Spawn, Fork
  <2>4. ASSUME ChangeBinary PROVE Kept(s)
    <3>1. \A t \in Slots : NewSlot(t) => t \notin Used BY DEF NewSlot, Used
    <3> HIDE DEF Kept
    <3> QED BY <2>1, <2>2, <2>4, <3>1 DEF ChangeBinary, ForkDetached
  <2>5. ASSUME NEW t \in Slots, ReapRespawn(t) PROVE Kept(s)
    <3>1. ~exiting[t] BY <2>5 DEF ReapRespawn, ToRespawn
    <3> HIDE DEF Kept
    <3> QED BY <2>1, <2>2, <2>5, <3>1 DEF ReapRespawn, Fork
  <2>6. ASSUME NEW t \in Slots, ReapRemove(t) PROVE Kept(s)
    <3>1. UNCHANGED pid \/ pid' = [pid EXCEPT ![t] = InvalidPid]
      BY <2>6, Zenon DEF ReapRemove
    <3> QED BY <3>1 DEF TypeOK
  <2> HIDE DEF Kept
  <2>7. ASSUME \/ Sigsuspend \/ Terminate \/ Quit \/ ReconfigureTold \/ Reopen
               \/ Noaccept
        PROVE  Kept(s)
    BY <2>1, <2>7 DEF Sigsuspend, Terminate, Quit, ReconfigureTold, Reopen, Noaccept,
       SignalWorkers
  <2>8. ASSUME \/ SpawnsDone \/ Top \/ ReapDone \/ MasterExit \/ ReconfigureOldBinary
               \/ ReconfigureFails \/ Reconfigure \/ Restart \/ WorkDone \/ Alarm
               \/ \E t \in Slots : ReapSkip(t)
               \/ \E sig \in AdminSignals : Kill(sig)
               \/ \E p \in Pids : ChildQuits(p) \/ ChildExits(p) \/ ChildCrashes(p)
        PROVE  Kept(s)
    BY <2>1, <2>8 DEF SpawnsDone, Top, ReapDone, MasterExit, ReconfigureOldBinary,
       ReconfigureFails, Reconfigure, Restart, WorkDone, Alarm, ReapSkip, Kill,
       ChildQuits, ChildExits, ChildCrashes
  <2> QED BY <2>3, <2>4, <2>5, <2>6, <2>7, <2>8 DEF Next, MasterStep
<1> QED BY <1>1, TypeCorrect, PTL DEF Spec, QuitIsFinal

-----------------------------------------------------------------------------
(* just_spawn is set only on the way from a reload's first spawn to its    *)
(* ngx_signal_worker_processes, and never on a detached process.           *)
Reloading == mpc = "told" \/ (mpc = "spawn" /\ cont = "told")

JustInReload == \A s \in Used : just[s] => Reloading /\ ~detached[s]

JobsInReload ==
  mpc = "spawn" /\ cont # "told" => \A i \in 1 .. Len(todo) : todo[i][2] # "just"

SparedInv == JustInReload /\ JobsInReload

(* Steps outside a reload: no slot is marked before, so none is after.      *)
LEMMA NoneMarked ==
  ASSUME TypeOK, SparedInv, ~Reloading,
         \A s \in Used' : just'[s] => s \in Used /\ just[s],
         mpc' # "spawn"
  PROVE  SparedInv'
BY DEF SparedInv, JustInReload, JobsInReload

(* The branches that start processes for other reasons than a reload.       *)
LEMMA StartsUnmarked ==
  ASSUME TypeOK, SparedInv, mpc = "work", NEW next, next # "told",
         StartProcesses("respawn", next), UNCHANGED slotVars
  PROVE  SparedInv'
<1>1. \A i \in 1 .. Len(todo') : todo'[i][2] # "just"
  BY ToStartJobs DEF StartProcesses
<1>2. \A s \in Used : ~just[s]
  BY DEF SparedInv, JustInReload, Reloading
<1> QED BY <1>1, <1>2 DEF SparedInv, JustInReload, JobsInReload, slotVars, Used

LEMMA NextSpared == TypeOK /\ SparedInv /\ [Next]_vars => SparedInv'
<1> SUFFICES ASSUME TypeOK, SparedInv, [Next]_vars PROVE SparedInv'
  OBVIOUS
<1> USE DEF slotVars, workVars, Goto
<1>1. ASSUME UNCHANGED <<pid, last, just>>, ~Reloading, mpc' # "spawn" PROVE SparedInv'
  <2>1. Used' = Used BY <1>1 DEF Used
  <2> QED BY <1>1, <2>1, NoneMarked
<1>2. ASSUME UNCHANGED <<slotVars, mpc, todo, cont>> PROVE SparedInv'
  BY <1>2 DEF SparedInv, JustInReload, JobsInReload, Reloading, Used
<1>3. ASSUME Spawn PROVE SparedInv'
  <2>1. todo \in Seq(Job) /\ todo # <<>> /\ todo' = Tail(todo) /\ mpc' = mpc
        /\ cont' = cont /\ mpc = "spawn"
    BY <1>3 DEF Spawn, TypeOK, Job
  <2>2. /\ Len(todo) \in Nat /\ Len(todo) > 0 /\ Len(Tail(todo)) = Len(todo) - 1
        /\ \A i \in 1 .. Len(Tail(todo)) : Tail(todo)[i] = todo[i + 1]
        /\ Head(todo) = todo[1]
    BY <2>1, HeadTailProperties, EmptySeq, LenProperties
  <2>3. JobsInReload'
    <3> SUFFICES ASSUME cont # "told", NEW i \in 1 .. Len(Tail(todo))
                 PROVE  Tail(todo)[i][2] # "just"
      BY <2>1 DEF JobsInReload
    <3>1. i + 1 \in 1 .. Len(todo) BY <2>2
    <3> QED BY <2>1, <2>2, <3>1 DEF SparedInv, JobsInReload
  <2>4. ASSUME NEW s \in Slots, NewSlot(s), Fork(s, chan),
               FillSlot(s, Head(todo)[1], Head(todo)[2])
        PROVE  JustInReload'
    <3>1. \A t \in Used' : t # s => t \in Used
      BY <2>4, SizeAssumption DEF Fork, FillSlot, Used, TypeOK, Slots, NewSlot
    <3>2. \A t \in Slots : t # s => just'[t] = just[t] /\ detached'[t] = detached[t]
      BY <2>4 DEF FillSlot, TypeOK
    <3>3. /\ just'[s] = (Head(todo)[2] = "just")
          /\ detached'[s] = (Head(todo)[2] = "detached")
      BY <2>4 DEF FillSlot, TypeOK
    <3>4. Reloading' <=> Reloading BY <2>1 DEF Reloading
    <3>5. just'[s] => Reloading /\ ~detached'[s]
      <4>1. SUFFICES ASSUME Head(todo)[2] = "just" PROVE cont = "told"
        BY <2>1, <3>3 DEF Reloading
      <4>2. 1 \in 1 .. Len(todo) BY <2>2
      <4> QED BY <2>1, <2>2, <4>1, <4>2 DEF SparedInv, JobsInReload
    <3>6. ASSUME NEW t \in Used', t # s, just'[t] PROVE Reloading /\ ~detached'[t]
      <4>1. t \in Used /\ t \in Slots BY <3>1, <3>6 DEF Used
      <4> QED BY <3>2, <3>6, <4>1 DEF SparedInv, JustInReload
    <3> QED BY <3>4, <3>5, <3>6 DEF JustInReload
  <2>5. ASSUME UNCHANGED slotVars PROVE JustInReload'
    BY <2>1, <2>5 DEF SparedInv, JustInReload, Reloading, Used
  <2> QED BY <1>3, <2>3, <2>4, <2>5 DEF Spawn, SparedInv
<1>4. ASSUME SpawnsDone PROVE SparedInv'
  <2>1. CASE cont = "told"
    BY <1>4, <2>1 DEF SpawnsDone, SparedInv, JustInReload, JobsInReload, Reloading, Used
  <2>2. CASE cont # "told"
    BY <1>1, <1>4, <2>2 DEF SpawnsDone, Reloading, TypeOK
  <2> QED BY <2>1, <2>2
<1>5. ASSUME Top \/ Sigsuspend \/ ReapDone \/ MasterExit \/ ReconfigureFails \/ WorkDone
             \/ \E s \in Slots : ReapSkip(s) \/ ReapRespawn(s)
      PROVE  SparedInv'
  <2>1. CASE Top \/ Sigsuspend \/ ReapDone \/ MasterExit \/ ReconfigureFails \/ WorkDone
    BY <1>1, <2>1 DEF Top, Sigsuspend, ReapDone, MasterExit, ReconfigureFails, WorkDone,
       Turn, Reloading
  <2>2. ASSUME NEW s \in Slots, ReapSkip(s) PROVE SparedInv'
    BY <1>1, <2>2 DEF ReapSkip, ReapAt, Reloading
  <2>3. ASSUME NEW s \in Slots, ReapRespawn(s) PROVE SparedInv'
    <3>1. UNCHANGED <<last, just>> /\ mpc = "reap" /\ mpc' = "reap" /\ s \in Used
      BY <2>3 DEF ReapRespawn, ReapAt, Used
    <3>2. \A t \in Slots : t # s => pid'[t] = pid[t]
      BY <2>3 DEF ReapRespawn, Fork, TypeOK
    <3>3. \A t \in Used' : t \in Used BY <3>1, <3>2 DEF Used
    <3> QED BY <3>1, <3>3, NoneMarked DEF Reloading
  <2> QED BY <1>5, <2>1, <2>2, <2>3
<1>6. ASSUME NEW s \in Slots, ReapRemove(s) PROVE SparedInv'
  <2>1. UNCHANGED just /\ mpc = "reap" /\ mpc' = "reap" /\ s = ri /\ s < last
    BY <1>6 DEF ReapRemove, ReapAt
  <2>2. \A t \in Used' : t \in Used
    <3>1. \/ last' = last - 1 /\ UNCHANGED pid
          \/ pid' = [pid EXCEPT ![s] = InvalidPid] /\ UNCHANGED last
      BY <1>6, Zenon DEF ReapRemove
    <3> QED BY <3>1, SizeAssumption DEF Used, TypeOK, Slots
  <2> QED BY <2>1, <2>2, NoneMarked DEF Reloading
<1>7. ASSUME Terminate \/ Quit \/ Reopen \/ Noaccept \/ ReconfigureTold PROVE SparedInv'
  <2>1. mpc \in {"work", "told"} /\ mpc' \in {"top", "work"}
    BY <1>7 DEF Terminate, Quit, Reopen, Noaccept, ReconfigureTold, Turn
  <2>2. CASE UNCHANGED slotVars /\ mpc = "work"
    BY <1>1, <2>1, <2>2 DEF Reloading
  <2>3. ASSUME NEW sig, NEW cleared, SignalWorkers(sig, cleared) PROVE SparedInv'
    <3>1. UNCHANGED <<pid, last>> BY <2>3 DEF SignalWorkers
    <3>2. Used' = Used BY <3>1 DEF Used
    <3>3. \A s \in Used : just'[s] => just[s] /\ detached[s]
      BY <2>3 DEF SignalWorkers, Used
    <3>4. \A s \in Used : ~just'[s] BY <3>3 DEF SparedInv, JustInReload
    <3> QED BY <2>1, <3>2, <3>4 DEF SparedInv, JustInReload, JobsInReload
  <2> QED BY <1>7, <2>2, <2>3 DEF Terminate, Quit, Reopen, Noaccept, ReconfigureTold
<1>8. ASSUME ReconfigureOldBinary \/ Restart PROVE SparedInv'
  BY <1>8, StartsUnmarked DEF ReconfigureOldBinary, Restart, Turn
<1>9. ASSUME Reconfigure PROVE SparedInv'
  BY <1>9 DEF Reconfigure, StartProcesses, Turn, SparedInv, JustInReload, JobsInReload,
     Reloading, Used
<1>10. ASSUME ChangeBinary PROVE SparedInv'
  <2>1. mpc = "work" /\ mpc' = "work" BY <1>10 DEF ChangeBinary, Turn
  <2>2. ASSUME NEW s \in Slots, NewSlot(s), ForkDetached(s),
               FillSlot(s, "binary", "detached")
        PROVE  SparedInv'
    <3>1. \A t \in Used' : t # s => t \in Used
      BY <2>2, SizeAssumption DEF ForkDetached, FillSlot, Used, TypeOK, Slots, NewSlot
    <3>2. just' = [just EXCEPT ![s] = FALSE] BY <2>2 DEF FillSlot
    <3>3. ASSUME NEW t \in Used', just'[t] PROVE t \in Used /\ just[t]
      <4>1. t \in Slots BY DEF Used
      <4>2. t # s BY <3>2, <3>3, <4>1 DEF TypeOK
      <4> QED BY <3>1, <3>2, <3>3, <4>1, <4>2 DEF TypeOK
    <3> QED BY <2>1, <3>3, NoneMarked DEF Reloading
  <2>3. CASE UNCHANGED slotVars
    BY <1>1, <2>1, <2>3 DEF Reloading
  <2> QED BY <1>10, <2>2, <2>3 DEF ChangeBinary
<1>11. ASSUME \/ Alarm \/ \E sig \in AdminSignals : Kill(sig)
              \/ \E p \in Pids : ChildQuits(p) \/ ChildExits(p) \/ ChildCrashes(p)
              \/ UNCHANGED vars
       PROVE  SparedInv'
  BY <1>2, <1>11 DEF Alarm, Kill, ChildQuits, ChildExits, ChildCrashes, vars
<1> QED BY <1>3, <1>4, <1>5, <1>6, <1>7, <1>8, <1>9, <1>10, <1>11 DEF Next, MasterStep

(* When the master sleeps nothing is marked just_spawn: the mark is used   *)
(* up by the very reload that set it and spares no process a later QUIT.   *)
THEOREM SparedOnce == Spec => []NoneSparedTwice
<1>1. Init => SparedInv
  BY ToStartJobs DEF Init, SparedInv, JustInReload, JobsInReload, Used
<1>2. SparedInv => NoneSparedTwice
  BY DEF SparedInv, JustInReload, Reloading, NoneSparedTwice
<1> QED BY <1>1, <1>2, NextSpared, TypeCorrect, PTL DEF Spec

-----------------------------------------------------------------------------
(* The exit of the master.  live is what ngx_reap_children last returned,  *)
(* so a FALSE live means that no process is left but detached ones, until  *)
(* something is started: by a reload, which sets live afterwards, or by    *)
(* the branch for HUP in the middle of an upgrade, which does not.  An     *)
(* upgrade is harmless as long as that branch runs with live set.          *)
OldBinaryLive == [][ReconfigureOldBinary => live]_vars

DetachedBinary == \A s \in Slots : detached[s] => role[s] = "binary"

Over(s) == exited[s] \/ detached[s]

LiveInv ==
  /\ mpc = "exited" => ~live
  /\ mpc \in {"top", "suspend", "work", "exited"} /\ ~live => \A s \in Used : Over(s)
  /\ mpc = "reap" /\ ~rlive => \A s \in Used : s < ri => Over(s)
  /\ mpc = "spawn" /\ cont # "told" => live

ExitInv == DetachedBinary /\ LiveInv

(* A step outside a reap that starts nothing, keeps live, and forgets      *)
(* neither an exit nor a detachment.                                       *)
LEMMA ExitKept ==
  ASSUME TypeOK, ExitInv, UNCHANGED <<pid, last, role, detached, live>>,
         \A s \in Slots : exited[s] => exited'[s],
         mpc \in {"top", "suspend", "work", "exited"},
         mpc' \in {"top", "suspend", "work"} \/ (mpc' = mpc)
  PROVE  ExitInv'
<1>1. Used' = Used BY DEF Used
<1>2. DetachedBinary' BY DEF ExitInv, DetachedBinary
<1>3. \A s \in Slots : Over(s) => Over(s)' BY DEF Over
<1>4. \A s \in Used : s \in Slots BY DEF Used
<1>5. mpc' = "exited" => mpc = "exited" /\ ~live'
  BY DEF ExitInv, LiveInv
<1>6. ~live' => \A s \in Used' : Over(s)'
  BY <1>1, <1>3, <1>4 DEF ExitInv, LiveInv
<1> QED BY <1>2, <1>5, <1>6 DEF ExitInv, LiveInv

LEMMA ExitFilled ==
  ASSUME TypeOK, DetachedBinary, NEW s \in Slots, NEW r, NEW type,
         type = "detached" => r = "binary", FillSlot(s, r, type)
  PROVE  DetachedBinary'
<1> SUFFICES ASSUME NEW t \in Slots, detached'[t] PROVE role'[t] = "binary"
  BY DEF DetachedBinary
<1>1. CASE t = s
  <2>1. detached'[s] <=> type = "detached" BY DEF FillSlot, TypeOK
  <2>2. role'[s] = r BY DEF FillSlot, TypeOK
  <2> QED BY <1>1, <2>1, <2>2
<1>2. CASE t # s
  BY <1>2 DEF FillSlot, TypeOK, DetachedBinary
<1> QED BY <1>1, <1>2

LEMMA SignalKeepsExited ==
  ASSUME NEW sig, NEW cleared, SignalWorkers(sig, cleared)
  PROVE  /\ UNCHANGED <<pid, last, role, detached>>
         /\ \A s \in Slots : exited[s] => exited'[s]
BY Zenon DEF SignalWorkers

LEMMA NextExit ==
  TypeOK /\ ExitInv /\ [Next]_vars /\ [ReconfigureOldBinary => live]_vars => ExitInv'
<1> SUFFICES ASSUME TypeOK, ExitInv, [Next]_vars, [ReconfigureOldBinary => live]_vars
             PROVE  ExitInv'
  OBVIOUS
<1> USE DEF slotVars, workVars, loopVars, Goto
<1>1. ASSUME UNCHANGED <<slotVars, mpc, live, ri, rlive, cont>> PROVE ExitInv'
  BY <1>1 DEF ExitInv, DetachedBinary, LiveInv, Over, Used
<1>2. ASSUME Spawn PROVE ExitInv'
  <2>1. /\ mpc = "spawn" /\ mpc' = "spawn" /\ cont' = cont /\ live' = live
        /\ todo \in Seq(Job) /\ todo # <<>>
    BY <1>2 DEF Spawn, TypeOK, Job
  <2>2. LiveInv' BY <2>1 DEF ExitInv, LiveInv
  <2>3. Head(todo)[2] # "detached"
    BY <2>1, HeadTailProperties DEF Job
  <2>4. DetachedBinary'
    BY <1>2, <2>3, ExitFilled DEF Spawn, ExitInv, DetachedBinary
  <2> QED BY <2>2, <2>4 DEF ExitInv
<1>3. ASSUME SpawnsDone PROVE ExitInv'
  <2>1. CASE cont = "told"
    BY <1>3, <2>1 DEF SpawnsDone, ExitInv, DetachedBinary, LiveInv
  <2>2. CASE cont # "told"
    BY <1>3, <2>2 DEF SpawnsDone, ExitInv, DetachedBinary, LiveInv, TypeOK
  <2> QED BY <2>1, <2>2
<1>4. ASSUME Sigsuspend PROVE ExitInv'
  <2>1. UNCHANGED <<pid, last, role, detached, live>> /\ mpc = "suspend"
    BY <1>4 DEF Sigsuspend
  <2>2. \A s \in Slots : exited[s] => exited'[s]
    BY <1>4, Zenon DEF Sigsuspend, GetStatus
  <2>3. CASE mpc' = "reap" /\ ri' = 0
    <3>1. LiveInv' BY <2>3 DEF LiveInv, Used, Slots
    <3> QED BY <2>1, <3>1 DEF ExitInv, DetachedBinary
  <2>4. CASE mpc' = "work"
    BY <2>1, <2>2, <2>4, ExitKept
  <2> QED BY <1>4, <2>3, <2>4, Zenon DEF Sigsuspend
<1>5. ASSUME NEW s \in Slots, ReapSkip(s) PROVE ExitInv'
  <2>1. /\ mpc = "reap" /\ mpc' = "reap" /\ UNCHANGED slotVars
        /\ ri = s /\ ri' = ri + 1
    BY <1>5 DEF ReapSkip, ReapAt
  <2>2. rlive' <=> (rlive \/ (pid[s] # InvalidPid /\ (exiting[s] \/ ~detached[s])))
    BY <1>5, Zenon DEF ReapSkip
  <2>3. Used' = Used /\ \A t \in Used : t \in Slots /\ (Over(t)' <=> Over(t))
    BY <2>1 DEF Used, Over
  <2>4. ASSUME ~rlive', NEW t \in Used, t < ri' PROVE Over(t)
    <3>1. ~rlive BY <2>2, <2>4
    <3>2. CASE t < ri BY <2>1, <2>4, <3>1, <3>2 DEF ExitInv, LiveInv
    <3>3. CASE t = s
      <4>1. pid[s] # InvalidPid BY <2>4, <3>3 DEF Used
      <4> QED BY <2>2, <2>4, <3>3, <4>1 DEF Over
    <3> QED BY <2>1, <2>3, <2>4, <3>2, <3>3 DEF Slots
  <2>5. LiveInv' BY <2>1, <2>3, <2>4 DEF LiveInv
  <2> QED BY <2>1, <2>5 DEF ExitInv, DetachedBinary
<1>6. ASSUME NEW s \in Slots, ReapRespawn(s) PROVE ExitInv'
  <2>1. /\ mpc = "reap" /\ mpc' = "reap" /\ UNCHANGED <<last, detached, role>>
        /\ ri = s /\ ri' = ri + 1 /\ s \in Used /\ exited[s]
    BY <1>6 DEF ReapRespawn, ReapAt, Used
  <2>2. DetachedBinary' BY <2>1 DEF ExitInv, DetachedBinary
  <2>3. CASE rlive' = TRUE
    <3>1. LiveInv' BY <2>1, <2>3 DEF LiveInv
    <3> QED BY <2>2, <3>1 DEF ExitInv
  <2>4. CASE UNCHANGED <<pid, exited, rlive>>
    <3>1. Used' = Used /\ \A t \in Used : t \in Slots /\ (Over(t)' <=> Over(t))
      BY <2>1, <2>4 DEF Used, Over
    <3>2. ASSUME ~rlive', NEW t \in Used, t < ri' PROVE Over(t)
      <4>1. CASE t < ri BY <2>1, <2>4, <3>2, <4>1 DEF ExitInv, LiveInv
      <4>2. CASE t = s BY <2>1, <4>2 DEF Over
      <4> QED BY <2>1, <3>1, <3>2, <4>1, <4>2 DEF Slots
    <3>3. LiveInv' BY <2>1, <3>1, <3>2 DEF LiveInv
    <3> QED BY <2>2, <3>3 DEF ExitInv
  <2> QED BY <1>6, <2>3, <2>4 DEF ReapRespawn, childVars
<1>7. ASSUME NEW s \in Slots, ReapRemove(s) PROVE ExitInv'
  <2>1. /\ mpc = "reap" /\ mpc' = "reap" /\ UNCHANGED <<exited, detached, role, rlive>>
        /\ ri = s /\ ri' = ri + 1 /\ s \in Used /\ s < last
    BY <1>7 DEF ReapRemove, ReapAt, Used
  <2>2. \/ s = last - 1 /\ last' = last - 1 /\ UNCHANGED pid
        \/ pid' = [pid EXCEPT ![s] = InvalidPid] /\ UNCHANGED last
    BY <1>7, Zenon DEF ReapRemove
  <2>3. \A t \in Used' : t \in Used /\ t # s
    BY <2>1, <2>2, SizeAssumption DEF Used, TypeOK, Slots
  <2>4. ASSUME ~rlive', NEW t \in Used', t < ri' PROVE Over(t)'
    <3>1. t \in Used /\ t # s /\ t \in Slots BY <2>3, <2>4 DEF Used
    <3>2. t < ri BY <2>1, <2>4, <3>1 DEF Slots
    <3>3. Over(t) BY <2>1, <2>4, <3>1, <3>2 DEF ExitInv, LiveInv
    <3> QED BY <2>1, <3>3 DEF Over
  <2>5. LiveInv' BY <2>1, <2>4 DEF LiveInv
  <2> QED BY <2>1, <2>5 DEF ExitInv, DetachedBinary
<1>8. ASSUME ReapDone PROVE ExitInv'
  <2>1. /\ mpc = "reap" /\ mpc' = "work" /\ UNCHANGED slotVars /\ ri >= last
        /\ (live' <=> rlive)
    BY <1>8 DEF ReapDone
  <2>2. ASSUME ~live', NEW s \in Used' PROVE Over(s)'
    <3>1. s \in Used BY <2>1, <2>2 DEF Used
    <3>2. s < ri BY <2>1, <3>1, SizeAssumption DEF Used, TypeOK, Slots
    <3>3. Over(s) BY <2>1, <2>2, <3>1, <3>2 DEF ExitInv, LiveInv
    <3> QED BY <2>1, <3>3 DEF Over
  <2>3. LiveInv' BY <2>1, <2>2 DEF LiveInv
  <2> QED BY <2>1, <2>3 DEF ExitInv, DetachedBinary
<1>9. ASSUME MasterExit PROVE ExitInv'
  <2>1. mpc = "work" /\ ~live /\ mpc' = "exited" /\ UNCHANGED <<slotVars, live>>
    BY <1>9 DEF MasterExit
  <2>2. Used' = Used /\ \A s \in Used : Over(s)' <=> Over(s)
    BY <2>1 DEF Used, Over
  <2>3. LiveInv' BY <2>1, <2>2 DEF ExitInv, LiveInv
  <2> QED BY <2>1, <2>3 DEF ExitInv, DetachedBinary
<1>10. ASSUME Terminate \/ Quit \/ Reopen \/ Noaccept PROVE ExitInv'
  <2>1. mpc = "work" /\ mpc' \in {"top", "work"} /\ live' = live
    BY <1>10 DEF Terminate, Quit, Reopen, Noaccept, Turn
  <2>2. CASE UNCHANGED slotVars
    BY <2>1, <2>2, ExitKept
  <2>3. ASSUME NEW sig, NEW cleared, SignalWorkers(sig, cleared) PROVE ExitInv'
    BY <2>1, <2>3, SignalKeepsExited, ExitKept
  <2> QED BY <1>10, <2>2, <2>3 DEF Terminate, Quit, Reopen, Noaccept
<1>11. ASSUME ReconfigureTold PROVE ExitInv'
  <2>1. mpc' = "work" /\ live' BY <1>11 DEF ReconfigureTold
  <2>2. UNCHANGED <<role, detached>> BY <1>11 DEF ReconfigureTold, SignalWorkers
  <2>3. LiveInv' BY <2>1 DEF LiveInv
  <2> QED BY <2>2, <2>3 DEF ExitInv, DetachedBinary
<1>12. ASSUME Top \/ ReconfigureFails \/ WorkDone PROVE ExitInv'
  <2>1. /\ mpc \in {"top", "work"} /\ mpc' \in {"suspend", "top"}
        /\ UNCHANGED <<slotVars, live>>
    BY <1>12 DEF Top, ReconfigureFails, WorkDone, Turn
  <2> QED BY <2>1, ExitKept
<1>13. ASSUME ReconfigureOldBinary \/ Reconfigure \/ Restart PROVE ExitInv'
  <2>1. mpc' = "spawn" /\ UNCHANGED slotVars
    BY <1>13 DEF ReconfigureOldBinary, Reconfigure, Restart, StartProcesses
  <2>2. cont' # "told" => live'
    <3>1. CASE ReconfigureOldBinary
      <4>1. mpc' # mpc BY <2>1, <3>1 DEF ReconfigureOldBinary, Turn
      <4>2. live BY <3>1, <4>1 DEF vars
      <4> QED BY <3>1, <4>2 DEF ReconfigureOldBinary
    <3>2. CASE Reconfigure BY <3>2 DEF Reconfigure, StartProcesses
    <3>3. CASE Restart BY <3>3 DEF Restart
    <3> QED BY <1>13, <3>1, <3>2, <3>3
  <2>3. LiveInv' BY <2>1, <2>2 DEF LiveInv
  <2> QED BY <2>1, <2>3 DEF ExitInv, DetachedBinary
<1>14. ASSUME ChangeBinary PROVE ExitInv'
  <2>1. mpc = "work" /\ mpc' = "work" /\ live' = live
    BY <1>14 DEF ChangeBinary, Turn
  <2>2. CASE UNCHANGED slotVars
    BY <2>1, <2>2, ExitKept
  <2>3. ASSUME NEW s \in Slots, NewSlot(s), ForkDetached(s),
               FillSlot(s, "binary", "detached")
        PROVE  ExitInv'
    <3>1. \A t \in Used' : t # s => t \in Used
      BY <2>3, SizeAssumption DEF ForkDetached, FillSlot, Used, TypeOK, Slots, NewSlot
    <3>2. detached'[s] BY <2>3 DEF FillSlot, TypeOK
    <3>3. \A t \in Slots : t # s => (Over(t)' <=> Over(t))
      BY <2>3 DEF ForkDetached, FillSlot, TypeOK, Over
    <3>4. ASSUME ~live', NEW t \in Used' PROVE Over(t)'
      <4>1. t \in Slots BY DEF Used
      <4>2. CASE t = s BY <3>2, <4>2 DEF Over
      <4>3. CASE t # s
        BY <2>1, <3>1, <3>3, <3>4, <4>1, <4>3 DEF ExitInv, LiveInv
      <4> QED BY <4>2, <4>3
    <3>5. LiveInv' BY <2>1, <3>4 DEF LiveInv
    <3>6. DetachedBinary' BY <2>3, ExitFilled DEF ExitInv
    <3> QED BY <3>5, <3>6 DEF ExitInv
  <2> QED BY <1>14, <2>2, <2>3 DEF ChangeBinary
<1>15. ASSUME \/ Alarm \/ \E sig \in AdminSignals : Kill(sig)
              \/ \E p \in Pids : ChildQuits(p) \/ ChildExits(p) \/ ChildCrashes(p)
              \/ UNCHANGED vars
       PROVE  ExitInv'
  BY <1>1, <1>15 DEF Alarm, Kill, ChildQuits, ChildExits, ChildCrashes, vars
<1> QED BY <1>2, <1>3, <1>4, <1>5, <1>6, <1>7, <1>8, <1>9, <1>10, <1>11, <1>12, <1>13,
           <1>14, <1>15 DEF Next, MasterStep

LEMMA TableInvariant == Spec => []TableInv
<1>1. Init => TableInv
  BY DEF Init, TableInv, ChildHasSlot, DistinctPids, Used
<1> QED BY <1>1, NextTable, TypeCorrect, PTL DEF Spec

LEMMA InitExit == Init => ExitInv
BY DEF Init, ExitInv, DetachedBinary, LiveInv, Used

LEMMA ExitInvariant == Spec /\ OldBinaryLive => []ExitInv
BY InitExit, NextExit, TypeCorrect, PTL DEF Spec, OldBinaryLive

LEMMA ExitSafe == TypeOK /\ TableInv /\ ExitInv => ExitsLast
<1> SUFFICES ASSUME TypeOK, TableInv, ExitInv, mpc = "exited",
                    NEW p \in Pids, child[p] \in {"running", "quitting"}
             PROVE  RoleOf(p) = "binary"
  BY DEF ExitsLast
<1>1. PICK s \in Used : pid[s] = p /\ ~exited[s]
  BY DEF TableInv, ChildHasSlot
<1>2. \A t \in Used : pid[t] = p => t = s
  BY <1>1 DEF TableInv, DistinctPids
<1>3. s \in Slots /\ Over(s) BY <1>1 DEF ExitInv, LiveInv, Used
<1>4. role[s] = "binary" BY <1>1, <1>3 DEF ExitInv, DetachedBinary, Over
<1>5. (CHOOSE t \in Used : pid[t] = p) = s BY <1>1, <1>2
<1> QED BY <1>4, <1>5 DEF RoleOf

(* The master exits only after its last child, but for a new binary that   *)
(* runs on (ngx_reap_children's live, ngx_master_process_exit), unless a   *)
(* HUP in the middle of an upgrade starts workers when live is already     *)
(* FALSE: the branch that the run MasterOrphans refutes the claim with is  *)
(* the only one that can break it.                                         *)
THEOREM ExitsLastButForHup == Spec /\ OldBinaryLive => []ExitsLast
BY ExitInvariant, ExitSafe, TypeCorrect, TableInvariant, PTL

(* Without a new binary there is no such branch.                            *)
NoUpgrade ==
  /\ newBinary = 0 /\ "USR2" \notin pend
  /\ "change_binary" \notin flags /\ "restart" \notin flags

LEMMA NextNoUpgrade ==
  "USR2" \notin AdminSignals =>
    (TypeOK /\ NoUpgrade /\ [Next]_vars => NoUpgrade' /\ [~ReconfigureOldBinary]_vars)
<1> SUFFICES ASSUME "USR2" \notin AdminSignals, TypeOK, NoUpgrade, [Next]_vars
             PROVE  NoUpgrade' /\ ~ReconfigureOldBinary
  OBVIOUS
<1> USE DEF slotVars, workVars, loopVars, childVars, Goto
<1>1. ~ReconfigureOldBinary BY DEF NoUpgrade, ReconfigureOldBinary
<1>2. ~ChangeBinary /\ ~Restart
  BY DEF NoUpgrade, ChangeBinary, Restart, Turn
<1>3. ASSUME Sigsuspend PROVE NoUpgrade'
  <2>1. "change_binary" \notin Raised /\ "restart" \notin Raised
    BY DEF NoUpgrade, Raised
  <2> QED BY <1>3, <2>1 DEF Sigsuspend, NoUpgrade
<1>4. ASSUME NEW s \in Slots, ReapRemove(s) PROVE NoUpgrade'
  <2>1. pid[s] # 0 BY <1>4, SizeAssumption DEF ReapRemove, TypeOK
  <2> QED BY <1>4, <2>1 DEF ReapRemove, NoUpgrade
<1>5. ASSUME Terminate \/ Quit \/ Reopen \/ Noaccept \/ ReconfigureTold PROVE NoUpgrade'
  <2>1. newBinary' = newBinary
    BY <1>5 DEF Terminate, Quit, Reopen, Noaccept, ReconfigureTold
  <2>2. CASE UNCHANGED <<flags, pend>>
    BY <2>1, <2>2 DEF NoUpgrade
  <2>3. ASSUME NEW sig, NEW cleared, SignalWorkers(sig, cleared) PROVE NoUpgrade'
    <3>1. \A f \in flags' : f \in flags \/ f = "reap" BY <2>3 DEF SignalWorkers
    <3>2. \A g \in pend' : g \in pend \/ g = "CHLD" BY <2>3 DEF SignalWorkers
    <3> QED BY <2>1, <3>1, <3>2 DEF NoUpgrade
  <2> QED BY <1>5, <2>2, <2>3 DEF Terminate, Quit, Reopen, Noaccept, ReconfigureTold
<1>6. ASSUME NEW sig \in AdminSignals, Kill(sig) PROVE NoUpgrade'
  BY <1>6 DEF Kill, Raise, NoUpgrade
<1>7. ASSUME \/ Alarm
             \/ \E p \in Pids : ChildQuits(p) \/ ChildExits(p) \/ ChildCrashes(p)
      PROVE  NoUpgrade'
  BY <1>7 DEF Alarm, ChildQuits, ChildExits, ChildCrashes, Dies, Raise, NoUpgrade
<1>8. ASSUME \/ Spawn \/ SpawnsDone \/ Top \/ ReapDone \/ MasterExit
             \/ ReconfigureFails \/ Reconfigure \/ WorkDone
             \/ \E s \in Slots : ReapSkip(s) \/ ReapRespawn(s)
             \/ UNCHANGED vars
      PROVE  NoUpgrade'
  <2>1. newBinary' = newBinary /\ pend' = pend /\ \A f \in flags' : f \in flags
    BY <1>8 DEF Spawn, SpawnsDone, Top, ReapDone, MasterExit, ReconfigureFails,
       Reconfigure, WorkDone, ReapSkip, ReapRespawn, vars
  <2> QED BY <2>1 DEF NoUpgrade
<1> QED BY <1>1, <1>2, <1>3, <1>4, <1>5, <1>6, <1>7, <1>8 DEF Next, MasterStep

LEMMA NoUpgradeInvariant ==
  ASSUME "USR2" \notin AdminSignals
  PROVE  Spec => []NoUpgrade /\ OldBinaryLive
<1>1. Init => NoUpgrade BY DEF Init, NoUpgrade
<1>2. TypeOK /\ NoUpgrade /\ [Next]_vars => NoUpgrade' /\ [~ReconfigureOldBinary]_vars
  BY NextNoUpgrade
<1>3. [~ReconfigureOldBinary]_vars => [ReconfigureOldBinary => live]_vars
  OBVIOUS
<1> QED BY <1>1, <1>2, <1>3, TypeCorrect, PTL DEF Spec, OldBinaryLive

(* In a server that is never upgraded the master exits last.                *)
THEOREM ExitsAfterChildren ==
  ASSUME "USR2" \notin AdminSignals
  PROVE  Spec => []ExitsLast
BY NoUpgradeInvariant, ExitsLastButForHup, PTL

-----------------------------------------------------------------------------
(* Whom a reload tells to quit.  A command goes to the reader of the       *)
(* slot's channel, so what is needed is that a slot holds the channel of   *)
(* its own process and no other.  That lasts as long as no slot keeps the  *)
(* number of a channel that was closed: socketpair may give it out again.  *)
NoStaleNumber == \A s \in Used : chan[s] # Closed

OwnChannel(s) ==
  /\ chan[s] \in Pids => s \in Used /\ chan[s] = pid[s]
  /\ detached[s] => chan[s] \notin Pids /\ ~respawn[s]

ChannelInv == \A s \in Slots : OwnChannel(s)

NoneClosed == \A s \in Slots : chan[s] # Closed

(* A slot that is filled becomes a used one, beside those that were.        *)
LEMMA FilledUsed ==
  ASSUME TypeOK, NEW s \in Slots, s <= last, NEW r, NEW type, FillSlot(s, r, type),
         NEW p \in Pids, pid' = [pid EXCEPT ![s] = p]
  PROVE  /\ Used' = Used \cup {s} /\ pid'[s] = p
         /\ \A t \in Slots : t # s => pid'[t] = pid[t]
<1>1. last \in Nat /\ s \in Nat /\ \A t \in Slots : t \in Nat
  BY SizeAssumption DEF TypeOK, Slots
<1>2. last' = IF s = last THEN last + 1 ELSE last BY DEF FillSlot
<1>3. \A t \in Slots : t < last' <=> (t < last \/ t = s)
  BY <1>1, <1>2
<1>4. pid'[s] = p /\ p # InvalidPid /\ \A t \in Slots : t # s => pid'[t] = pid[t]
  BY SizeAssumption DEF TypeOK
<1> QED BY <1>3, <1>4 DEF Used

(* A channel is known by one slot only, so closing it leaves its number    *)
(* nowhere else.                                                           *)
LEMMA CloseOwn ==
  ASSUME TypeOK, DistinctPids, ChannelInv, NEW s \in Slots
  PROVE  /\ CloseChannel(s) \in [Slots -> Pids \cup {NoChannel, Closed}]
         /\ CloseChannel(s)[s] \notin Pids /\ (NoneClosed => CloseChannel(s)[s] # Closed)
         /\ \A t \in Slots : t # s => CloseChannel(s)[t] = chan[t]
<1>1. CloseChannel(s) \in [Slots -> Pids \cup {NoChannel, Closed}]
  BY DEF CloseChannel, TypeOK
<1>2. NoChannel \notin Pids BY SizeAssumption
<1>3. CloseChannel(s)[s] \notin Pids
  BY <1>2 DEF CloseChannel, ChannelInv, OwnChannel
<1>4. NoneClosed => CloseChannel(s)[s] # Closed
  BY <1>2 DEF CloseChannel, NoneClosed, ChannelInv, OwnChannel
<1>5. ASSUME NEW t \in Slots, t # s PROVE CloseChannel(s)[t] = chan[t]
  <2>1. ~(chan[t] \in Pids /\ chan[t] = chan[s])
    BY <1>5 DEF ChannelInv, OwnChannel, DistinctPids
  <2> QED BY <1>5, <2>1 DEF CloseChannel
<1> QED BY <1>1, <1>3, <1>4, <1>5

(* A spawn gives the slot its process's channel and touches no other one.   *)
LEMMA ForkOwn ==
  ASSUME TypeOK, NoStaleNumber, ChannelInv, NEW s \in Slots,
         NEW ch \in [Slots -> Pids \cup {NoChannel, Closed}],
         \A t \in Slots : t # s => ch[t] = chan[t],
         Fork(s, ch), \A t \in Slots : t # s /\ t \in Used => t \in Used',
         s \in Used', \A t \in Slots : t # s => detached'[t] = detached[t]
                                                /\ respawn'[t] = respawn[t],
         ~detached'[s]
  PROVE  ChannelInv' /\ (NoneClosed => NoneClosed')
<1>1. Reused(s) = {{}} BY DEF Reused, NoStaleNumber
<1>2. PICK p \in Fresh : /\ pid' = [pid EXCEPT ![s] = p]
                         /\ \A t \in Slots : chan'[t] = IF t = s THEN p ELSE ch[t]
  <2>1. PICK p \in Fresh : /\ pid' = [pid EXCEPT ![s] = p]
                           /\ \E reused \in {{}} :
                                chan' = [t \in Slots |->
                                           IF t = s \/ t \in reused THEN p ELSE ch[t]]
    BY <1>1, Zenon DEF Fork
  <2>2. PICK reused \in {{}} :
          chan' = [t \in Slots |-> IF t = s \/ t \in reused THEN p ELSE ch[t]]
    BY <2>1
  <2>3. reused = {} OBVIOUS
  <2> QED BY <2>1, <2>2, <2>3
<1>3. p \in Pids /\ p # Closed BY SizeAssumption DEF Fresh
<1>4. pid'[s] = p /\ chan'[s] = p BY <1>2 DEF TypeOK
<1>5. \A t \in Slots : t # s => chan'[t] = chan[t] /\ pid'[t] = pid[t]
  BY <1>2 DEF TypeOK
<1>6. ASSUME NEW t \in Slots PROVE OwnChannel(t)'
  <2>1. CASE t = s BY <1>3, <1>4, <2>1 DEF OwnChannel
  <2>2. CASE t # s
    <3>1. OwnChannel(t) BY DEF ChannelInv
    <3> QED BY <1>5, <2>2, <3>1 DEF OwnChannel
  <2> QED BY <2>1, <2>2
<1>7. NoneClosed => NoneClosed' BY <1>3, <1>4, <1>5 DEF NoneClosed
<1> QED BY <1>6, <1>7 DEF ChannelInv

LEMMA NextChannel ==
  TypeOK /\ TableInv /\ ChannelInv /\ NoStaleNumber /\ [Next]_vars
    => ChannelInv' /\ (MaxFaults = 0 /\ NoneClosed => NoneClosed')
<1> SUFFICES ASSUME TypeOK, TableInv, ChannelInv, NoStaleNumber, [Next]_vars
             PROVE  ChannelInv' /\ (MaxFaults = 0 /\ NoneClosed => NoneClosed')
  OBVIOUS
<1> DEFINE Goal == ChannelInv' /\ (MaxFaults = 0 /\ NoneClosed => NoneClosed')
<1> USE DEF slotVars, childVars
<1>0. DistinctPids BY DEF TableInv
<1>1. ASSUME UNCHANGED <<pid, last, chan, detached, respawn>> PROVE Goal
  BY <1>1 DEF ChannelInv, OwnChannel, NoneClosed, Used
<1>2. ASSUME Spawn PROVE Goal
  <2>1. todo \in Seq(Job) /\ todo # <<>>
    BY <1>2 DEF Spawn, TypeOK, Job
  <2>2. Head(todo)[2] # "detached" BY <2>1, HeadTailProperties DEF Job
  <2>3. ASSUME NEW s \in Slots, NewSlot(s), Fork(s, chan),
               FillSlot(s, Head(todo)[1], Head(todo)[2])
        PROVE  Goal
    <3>1. PICK p \in Fresh : pid' = [pid EXCEPT ![s] = p] BY <2>3 DEF Fork
    <3>2. p \in Pids /\ s <= last BY <2>3 DEF Fresh, NewSlot
    <3>3. Used' = Used \cup {s} BY <2>3, <3>1, <3>2, FilledUsed
    <3>4. \A t \in Slots : t # s => detached'[t] = detached[t] /\ respawn'[t] = respawn[t]
      BY <2>3 DEF FillSlot, TypeOK
    <3>5. ~detached'[s] BY <2>2, <2>3 DEF FillSlot, TypeOK
    <3>6. chan \in [Slots -> Pids \cup {NoChannel, Closed}] BY DEF TypeOK
    <3> QED BY <2>3, <3>3, <3>4, <3>5, <3>6, ForkOwn
  <2> HIDE DEF Goal
  <2> QED BY <1>1, <1>2, <2>3 DEF Spawn
<1>3. ASSUME Sigsuspend PROVE Goal
  <2>1. UNCHANGED <<pid, last, chan, detached>> BY <1>3 DEF Sigsuspend
  <2>2. \A s \in Slots : respawn'[s] => respawn[s]
    BY <1>3, Zenon DEF Sigsuspend, GetStatus
  <2> QED BY <2>1, <2>2 DEF ChannelInv, OwnChannel, NoneClosed, Used
<1>4. ASSUME NEW s \in Slots, ReapRespawn(s) PROVE Goal
  <2>1. /\ s \in Used /\ respawn[s] /\ UNCHANGED <<last, detached, respawn>>
    BY <1>4 DEF ReapRespawn, ReapAt, ToRespawn, Used
  <2>2. ~detached[s] BY <2>1 DEF ChannelInv, OwnChannel
  <2>3. ASSUME Fork(s, CloseChannel(s)) PROVE Goal
    <3>1. pid'[s] # InvalidPid
      BY <2>3, SizeAssumption DEF Fork, Fresh, TypeOK
    <3>2. \A t \in Slots : t # s => pid'[t] = pid[t] BY <2>3 DEF Fork, TypeOK
    <3>3. Used' = Used BY <2>1, <3>1, <3>2 DEF Used
    <3> QED BY <1>0, <2>1, <2>2, <2>3, <3>3, CloseOwn, ForkOwn
  <2>4. ASSUME ForkFails, UNCHANGED pid,
               NEW c \in {NoChannel, Closed}, chan' = [CloseChannel(s) EXCEPT ![s] = c]
        PROVE  Goal
    <3>1. Used' = Used BY <2>1, <2>4 DEF Used
    <3>2. c \notin Pids BY SizeAssumption
    <3>3. chan'[s] = c /\ \A t \in Slots : t # s => chan'[t] = chan[t]
      BY <1>0, <2>4, CloseOwn
    <3>4. ASSUME NEW t \in Slots PROVE OwnChannel(t)'
      <4>1. OwnChannel(t) BY DEF ChannelInv
      <4> QED BY <2>1, <2>2, <2>4, <3>1, <3>2, <3>3, <4>1 DEF OwnChannel
    <3>5. MaxFaults # 0 BY <2>4 DEF ForkFails, TypeOK
    <3> QED BY <3>4, <3>5 DEF ChannelInv
  <2> HIDE DEF Goal
  <2> QED BY <1>4, <2>3, <2>4 DEF ReapRespawn
<1>5. ASSUME NEW s \in Slots, ReapRemove(s) PROVE Goal
  <2>1. UNCHANGED <<detached, respawn>> /\ chan' = CloseChannel(s) /\ s < last
        /\ s = ri
    BY <1>5 DEF ReapRemove, ReapAt
  <2>2. \/ s = last - 1 /\ last' = last - 1 /\ UNCHANGED pid
        \/ pid' = [pid EXCEPT ![s] = InvalidPid] /\ UNCHANGED last
    BY <1>5, Zenon DEF ReapRemove
  <2>3. \A t \in Slots : t # s => pid'[t] = pid[t] /\ (t \in Used => t \in Used')
    BY <2>1, <2>2, SizeAssumption DEF Used, TypeOK, Slots
  <2>4. /\ chan'[s] \notin Pids /\ (NoneClosed => chan'[s] # Closed)
        /\ \A t \in Slots : t # s => chan'[t] = chan[t]
    BY <1>0, <2>1, CloseOwn
  <2>5. ASSUME NEW t \in Slots PROVE OwnChannel(t)'
    <3>1. OwnChannel(t) BY DEF ChannelInv
    <3>2. CASE t = s BY <2>1, <2>4, <3>1, <3>2 DEF OwnChannel
    <3>3. CASE t # s BY <2>1, <2>3, <2>4, <3>1, <3>3 DEF OwnChannel
    <3> QED BY <3>2, <3>3
  <2>6. NoneClosed => NoneClosed' BY <2>4 DEF NoneClosed
  <2> QED BY <2>5, <2>6 DEF ChannelInv
<1>6. ASSUME ChangeBinary PROVE Goal
  <2>1. ASSUME NEW s \in Slots, NewSlot(s), ForkDetached(s),
               FillSlot(s, "binary", "detached")
        PROVE  Goal
    <3>1. PICK p \in Fresh : pid' = [pid EXCEPT ![s] = p] BY <2>1 DEF ForkDetached
    <3>2. chan'[s] = NoChannel /\ NoChannel \notin Pids
      BY <2>1, SizeAssumption DEF ForkDetached, TypeOK
    <3>3. ~respawn'[s]
      <4>1. respawn' = [respawn EXCEPT ![s] = "binary" \in {"worker", "manager"}]
        BY <2>1 DEF FillSlot
      <4>2. respawn'[s] <=> "binary" \in {"worker", "manager"}
        BY <4>1, Zenon DEF TypeOK
      <4> QED BY <4>2
    <3>4. \A t \in Slots : t # s =>
            /\ chan'[t] = chan[t] /\ pid'[t] = pid[t]
            /\ detached'[t] = detached[t] /\ respawn'[t] = respawn[t]
      BY <2>1, <3>1 DEF ForkDetached, FillSlot, TypeOK
    <3>5. Used' = Used \cup {s}
      BY <2>1, <3>1, FilledUsed DEF Fresh, NewSlot
    <3>6. ASSUME NEW t \in Slots PROVE OwnChannel(t)'
      <4>1. OwnChannel(t) BY DEF ChannelInv
      <4>2. CASE t = s BY <3>2, <3>3, <4>2 DEF OwnChannel
      <4>3. CASE t # s BY <3>4, <3>5, <4>1, <4>3 DEF OwnChannel
      <4> QED BY <4>2, <4>3
    <3>7. NoneClosed => NoneClosed' BY <3>2, <3>4 DEF NoneClosed
    <3> QED BY <3>6, <3>7 DEF ChannelInv
  <2> HIDE DEF Goal
  <2> QED BY <1>1, <1>6, <2>1 DEF ChangeBinary
<1> HIDE DEF Goal
<1>7. ASSUME Terminate \/ Quit \/ Reopen \/ Noaccept \/ ReconfigureTold PROVE Goal
  BY <1>1, <1>7 DEF Terminate, Quit, Reopen, Noaccept, ReconfigureTold, SignalWorkers
<1>8. ASSUME \/ SpawnsDone \/ Top \/ ReapDone \/ MasterExit \/ ReconfigureOldBinary
             \/ ReconfigureFails \/ Reconfigure \/ Restart \/ WorkDone \/ Alarm
             \/ \E s \in Slots : ReapSkip(s)
             \/ \E sig \in AdminSignals : Kill(sig)
             \/ \E p \in Pids : ChildQuits(p) \/ ChildExits(p) \/ ChildCrashes(p)
             \/ UNCHANGED vars
      PROVE  Goal
  BY <1>1, <1>8 DEF SpawnsDone, Top, ReapDone, MasterExit, ReconfigureOldBinary,
     ReconfigureFails, Reconfigure, Restart, WorkDone, Alarm, ReapSkip, Kill,
     ChildQuits, ChildExits, ChildCrashes, vars
<1>9. Goal
  BY <1>2, <1>3, <1>4, <1>5, <1>6, <1>7, <1>8 DEF Next, MasterStep
<1> QED BY <1>9 DEF Goal

LEMMA InitChannel == Init => ChannelInv /\ NoneClosed
BY SizeAssumption DEF Init, ChannelInv, OwnChannel, NoneClosed, Slots

(* At the end of a reload the command reaches only processes whose slot is *)
(* not marked as just started.                                             *)
LEMMA ToldSpares ==
  ASSUME TypeOK, TableInv, ChannelInv, [Next]_vars, mpc = "told",
         NEW s \in Used, just[s]
  PROVE  inbox'[pid[s]] = inbox[pid[s]]
<1> USE DEF slotVars, workVars, loopVars, childVars
<1>1. CASE ReconfigureTold
  <2>1. pid[s] \in Pids BY DEF Used, TypeOK
  <2>2. ASSUME NEW t \in ToSignal("QUIT") PROVE Reaches(t, "QUIT") # pid[s]
    <3>1. t \in Used /\ t \in Slots /\ ~just[t] BY DEF ToSignal, Used
    <3>2. Reaches(t, "QUIT") = pid[t]
      BY <3>1 DEF Reaches, ByChannel, ChannelInv, OwnChannel
    <3>3. t # s BY <3>1
    <3> QED BY <3>1, <3>2, <3>3 DEF TableInv, DistinctPids
  <2>3. SignalWorkers("QUIT", {}) BY <1>1 DEF ReconfigureTold
  <2> QED BY <2>1, <2>2, <2>3 DEF SignalWorkers, TypeOK
<1>2. CASE UNCHANGED inbox BY <1>2
<1>3. CASE Spawn \/ SpawnsDone \/ Top \/ Sigsuspend \/ ReapDone \/ MasterExit
           \/ Terminate \/ Quit \/ WorkDone
           \/ \E t \in Slots : ReapSkip(t) \/ ReapRespawn(t) \/ ReapRemove(t)
  BY <1>3 DEF Spawn, SpawnsDone, Top, Sigsuspend, ReapDone, MasterExit, Terminate, Quit,
     WorkDone, ReapSkip, ReapRespawn, ReapRemove, ReapAt
<1>4. CASE ReconfigureOldBinary \/ ReconfigureFails \/ Reconfigure \/ Restart \/ Reopen
           \/ ChangeBinary \/ Noaccept
  BY <1>4 DEF ReconfigureOldBinary, ReconfigureFails, Reconfigure, Restart, Reopen,
     ChangeBinary, Noaccept, Turn
<1>5. CASE \/ Alarm \/ \E sig \in AdminSignals : Kill(sig)
           \/ \E p \in Pids : ChildQuits(p) \/ ChildExits(p) \/ ChildCrashes(p)
  BY <1>5 DEF Alarm, Kill, ChildQuits, ChildExits, ChildCrashes, Asleep
<1>6. CASE UNCHANGED vars BY <1>6 DEF vars
<1> QED BY <1>1, <1>3, <1>4, <1>5, <1>6 DEF Next, MasterStep

(* ngx_signal_worker_processes tells none of the processes that the reload *)
(* has just started to quit, as long as no slot keeps the number of a      *)
(* closed channel.                                                         *)
THEOREM ReloadSparesUnlessStale == Spec /\ []NoStaleNumber => ReloadSparesNew
<1>1. TypeOK /\ TableInv /\ ChannelInv /\ [Next]_vars
        => [mpc = "told" => \A s \in Used : just[s] => inbox'[pid[s]] = inbox[pid[s]]]_vars
  BY ToldSpares
<1> QED BY <1>1, InitChannel, NextChannel, TypeCorrect, TableInvariant, PTL
        DEF Spec, ReloadSparesNew

(* When no call fails, no slot ever keeps such a number.                    *)
THEOREM ReloadSpares ==
  ASSUME MaxFaults = 0
  PROVE  Spec => ReloadSparesNew
<1>1. NoneClosed => NoStaleNumber
  BY DEF NoneClosed, NoStaleNumber, Used
<1>2. TypeOK /\ TableInv /\ ChannelInv /\ NoneClosed /\ [Next]_vars
        => (ChannelInv /\ NoneClosed)'
  BY <1>1, NextChannel
<1>3. Spec => []NoStaleNumber
  BY <1>1, <1>2, InitChannel, TypeCorrect, TableInvariant, PTL DEF Spec
<1> QED BY <1>3, ReloadSparesUnlessStale, PTL

-----------------------------------------------------------------------------
(* How many workers are meant to stay.  A slot that is not marked exited   *)
(* has a child, so a signal finds the process of every such slot.          *)
ChildThere == \A s \in Used : ~exited[s] => child[pid[s]] # "none"

LEMMA SignalKeepsChildren ==
  ASSUME TypeOK, NEW sig, NEW cleared, SignalWorkers(sig, cleared)
  PROVE  \A p \in Pids : child'[p] = child[p] \/ child'[p] = "zombie"
BY DEF SignalWorkers

LEMMA NextChildThere == TypeOK /\ TableInv /\ ChildThere /\ [Next]_vars => ChildThere'
<1> SUFFICES ASSUME TypeOK, TableInv, ChildThere, [Next]_vars PROVE ChildThere'
  OBVIOUS
<1> USE DEF slotVars, childVars
<1>1. ASSUME UNCHANGED <<pid, last>>, \A s \in Slots : exited[s] => exited'[s],
             \A p \in Pids : child[p] # "none" => child'[p] # "none"
      PROVE  ChildThere'
  <2> SUFFICES ASSUME NEW s \in Used', ~exited'[s] PROVE child'[pid'[s]] # "none"
    BY DEF ChildThere
  <2>1. s \in Used /\ s \in Slots /\ pid[s] \in Pids
    BY <1>1 DEF Used, TypeOK
  <2> QED BY <1>1, <2>1 DEF ChildThere
<1>2. ASSUME NEW s \in Slots, NEW p \in Fresh,
             \A t \in Used' : t = s \/ t \in Used,
             pid' = [pid EXCEPT ![s] = p], exited' = [exited EXCEPT ![s] = FALSE],
             child' = [child EXCEPT ![p] = "running"]
      PROVE  ChildThere'
  <2> SUFFICES ASSUME NEW t \in Used', ~exited'[t] PROVE child'[pid'[t]] # "none"
    BY DEF ChildThere
  <2>1. p \in Pids /\ child'[p] = "running" /\ pid'[s] = p
    BY <1>2 DEF Fresh, TypeOK
  <2>2. CASE t = s BY <2>1, <2>2
  <2>3. CASE t # s
    <3>1. t \in Used /\ t \in Slots /\ pid[t] \in Pids
      BY <1>2, <2>3 DEF Used, TypeOK
    <3>2. pid'[t] = pid[t] /\ ~exited[t]
      BY <1>2, <2>3, <3>1 DEF TypeOK
    <3>3. child[pid[t]] # "none" BY <3>1, <3>2 DEF ChildThere
    <3> QED BY <1>2, <3>1, <3>2, <3>3 DEF TypeOK
  <2> QED BY <2>2, <2>3
<1>3. ASSUME Spawn PROVE ChildThere'
  <2>1. ASSUME NEW s \in Slots, NewSlot(s), Fork(s, chan),
               FillSlot(s, Head(todo)[1], Head(todo)[2])
        PROVE  ChildThere'
    <3>1. PICK p \in Fresh : /\ pid' = [pid EXCEPT ![s] = p]
                             /\ child' = [child EXCEPT ![p] = "running"]
      BY <2>1 DEF Fork
    <3>2. p \in Pids /\ s <= last BY <2>1 DEF Fresh, NewSlot
    <3>3. Used' = Used \cup {s} BY <2>1, <3>1, <3>2, FilledUsed
    <3> QED BY <1>2, <2>1, <3>1, <3>3 DEF Fork
  <2> QED BY <1>1, <1>3, <2>1 DEF Spawn
<1>4. ASSUME ChangeBinary PROVE ChildThere'
  <2>1. ASSUME NEW s \in Slots, NewSlot(s), ForkDetached(s),
               FillSlot(s, "binary", "detached")
        PROVE  ChildThere'
    <3>1. PICK p \in Fresh : /\ pid' = [pid EXCEPT ![s] = p]
                             /\ child' = [child EXCEPT ![p] = "running"]
      BY <2>1 DEF ForkDetached
    <3>2. p \in Pids /\ s <= last BY <2>1 DEF Fresh, NewSlot
    <3>3. Used' = Used \cup {s} BY <2>1, <3>1, <3>2, FilledUsed
    <3> QED BY <1>2, <2>1, <3>1, <3>3 DEF ForkDetached
  <2> QED BY <1>1, <1>4, <2>1 DEF ChangeBinary
<1>5. ASSUME Sigsuspend PROVE ChildThere'
  <2> SUFFICES ASSUME NEW s \in Used', ~exited'[s] PROVE child'[pid'[s]] # "none"
    BY DEF ChildThere
  <2>1. s \in Used /\ s \in Slots /\ pid[s] \in Pids /\ pid' = pid
    BY <1>5 DEF Sigsuspend, Used, TypeOK
  <2>2. exited'[s] <=> (exited[s] \/ (s \in Used /\ pid[s] \in Waited))
    BY <1>5, <2>1, Zenon DEF Sigsuspend, GetStatus
  <2>3. child'[pid[s]] = child[pid[s]]
    BY <1>5, <2>1, <2>2 DEF Sigsuspend, GetStatus
  <2> QED BY <2>1, <2>2, <2>3 DEF ChildThere
<1>6. ASSUME NEW s \in Slots, ReapRespawn(s) PROVE ChildThere'
  <2>1. s \in Used /\ UNCHANGED last BY <1>6 DEF ReapRespawn, ReapAt, Used
  <2>2. ASSUME Fork(s, CloseChannel(s)) PROVE ChildThere'
    <3>1. PICK p \in Fresh : /\ pid' = [pid EXCEPT ![s] = p]
                             /\ child' = [child EXCEPT ![p] = "running"]
      BY <2>2 DEF Fork
    <3>2. \A t \in Used' : t = s \/ t \in Used
      BY <2>1, <3>1 DEF Used, TypeOK
    <3> QED BY <1>2, <2>2, <3>1, <3>2 DEF Fork
  <2> QED BY <1>1, <1>6, <2>1, <2>2 DEF ReapRespawn
<1>7. ASSUME NEW s \in Slots, ReapRemove(s) PROVE ChildThere'
  <2>1. UNCHANGED <<exited, child>> /\ s < last BY <1>7 DEF ReapRemove, ReapAt
  <2>2. \/ s = last - 1 /\ last' = last - 1 /\ UNCHANGED pid
        \/ pid' = [pid EXCEPT ![s] = InvalidPid] /\ UNCHANGED last
    BY <1>7, Zenon DEF ReapRemove
  <2>3. \A t \in Used' : t \in Used /\ pid'[t] = pid[t]
    BY <2>1, <2>2, SizeAssumption DEF Used, TypeOK, Slots
  <2> QED BY <2>1, <2>3 DEF ChildThere
<1>8. ASSUME Terminate \/ Quit \/ Reopen \/ Noaccept \/ ReconfigureTold PROVE ChildThere'
  <2>1. ASSUME NEW sig, NEW cleared, SignalWorkers(sig, cleared) PROVE ChildThere'
    <3>1. \A p \in Pids : child[p] # "none" => child'[p] # "none"
      BY <2>1, SignalKeepsChildren
    <3> QED BY <1>1, <2>1, <3>1, SignalKeepsExited
  <2> QED BY <1>1, <1>8, <2>1 DEF Terminate, Quit, Reopen, Noaccept, ReconfigureTold
<1>9. ASSUME NEW p \in Pids, ChildQuits(p) \/ ChildExits(p) \/ ChildCrashes(p)
      PROVE  ChildThere'
  <2>1. UNCHANGED <<pid, last, exited>>
    BY <1>9 DEF ChildQuits, ChildExits, ChildCrashes
  <2>2. \E v : v # "none" /\ child' = [child EXCEPT ![p] = v]
    BY <1>9 DEF ChildQuits, ChildExits, ChildCrashes, Dies
  <2>3. \A q \in Pids : child[q] # "none" => child'[q] # "none"
    BY <2>2 DEF TypeOK
  <2> QED BY <1>1, <2>1, <2>3
<1>10. ASSUME \/ SpawnsDone \/ Top \/ ReapDone \/ MasterExit \/ ReconfigureOldBinary
              \/ ReconfigureFails \/ Reconfigure \/ Restart \/ WorkDone \/ Alarm
              \/ \E s \in Slots : ReapSkip(s)
              \/ \E sig \in AdminSignals : Kill(sig)
              \/ UNCHANGED vars
       PROVE  ChildThere'
  BY <1>1, <1>10 DEF SpawnsDone, Top, ReapDone, MasterExit, ReconfigureOldBinary,
     ReconfigureFails, Reconfigure, Restart, WorkDone, Alarm, ReapSkip, Kill, vars
<1> QED BY <1>3, <1>4, <1>5, <1>6, <1>7, <1>8, <1>9, <1>10 DEF Next, MasterStep

(* After ngx_reap_children no slot is left with a process that has exited, *)
(* unless a respawn failed.                                                *)
Refilled == mpc # "reap" => \A s \in Used : ~exited[s]

(* The workers that are not to quit, those that this reload has started,   *)
(* and k of them that are still to be started.                             *)
Staying == {s \in Used : role[s] = "worker" /\ ~exiting[s]}

Started == {s \in Used : role[s] = "worker" /\ just[s]}

WorkersLeft(k) == \A i \in 1 .. Len(todo) : todo[i][1] = "worker" <=> i <= k

Room(S) ==
  \E k \in 0 .. WorkerProcesses :
    WorkersLeft(k) /\ Cardinality(S) + k <= WorkerProcesses

CountInv ==
  /\ mpc = "spawn" /\ cont # "told" => Room(Staying)
  /\ mpc = "spawn" /\ cont = "told" => Room(Started)
  /\ mpc = "told" => Cardinality(Started) <= WorkerProcesses
  /\ mpc \notin {"spawn", "told"} => Cardinality(Staying) <= WorkerProcesses

LEMMA SlotsFinite ==
  ASSUME NEW S, S \subseteq Slots
  PROVE  IsFiniteSet(S) /\ Cardinality(S) \in Nat
<1>1. 0 \in Int /\ MaxProcesses - 1 \in Int BY SizeAssumption
<1>2. IsFiniteSet(Slots) BY <1>1, FS_Interval DEF Slots
<1> QED BY <1>2, FS_Subset, FS_CardinalityType

LEMMA FewerSlots ==
  ASSUME NEW S, NEW T, S \subseteq T, T \subseteq Slots
  PROVE  /\ Cardinality(S) <= Cardinality(T)
         /\ Cardinality(S) \in Nat /\ Cardinality(T) \in Nat
BY SlotsFinite, FS_Subset

(* The workers come first in what is to be started.                         *)
LEMMA ToStartWorkers ==
  ASSUME NEW type
  PROVE  \A i \in 1 .. Len(ToStart(type)) :
           ToStart(type)[i][1] = "worker" <=> i <= WorkerProcesses
<1> DEFINE W == [i \in 1 .. WorkerProcesses |-> <<"worker", type>>]
           M == IF CacheManager THEN << <<"manager", type>> >> ELSE <<>>
           L == IF CacheManager /\ CacheLoader THEN << <<"loader", type>> >> ELSE <<>>
           Any == {"worker", "manager", "loader"} \X {type}
<1>1. /\ W \in Seq(Any) /\ Len(W) = WorkerProcesses
      /\ \A i \in 1 .. Len(W) : W[i][1] = "worker"
  <2>1. \A i \in 1 .. WorkerProcesses : <<"worker", type>> \in Any OBVIOUS
  <2> QED BY <2>1, SizeAssumption, IsASeq
<1>2. M \in Seq(Any) /\ \A i \in 1 .. Len(M) : M[i][1] # "worker"
  OBVIOUS
<1>3. L \in Seq(Any) /\ \A i \in 1 .. Len(L) : L[i][1] # "worker"
  <2>1. CASE CacheManager /\ CacheLoader
    BY <2>1
  <2>2. CASE ~(CacheManager /\ CacheLoader)
    BY <2>2
  <2> QED BY <2>1, <2>2
<1>4. ToStart(type) = W \o M \o L BY DEF ToStart
<1> HIDE DEF W, M, L, Any
<1> DEFINE WM == W \o M
<1>5. /\ WM \in Seq(Any) /\ Len(WM) \in Nat /\ WorkerProcesses <= Len(WM)
      /\ \A i \in 1 .. Len(WM) : WM[i][1] = "worker" <=> i <= WorkerProcesses
  BY <1>1, <1>2, SizeAssumption
<1> HIDE DEF WM
<1>6. \A i \in 1 .. Len(WM \o L) : (WM \o L)[i][1] = "worker" <=> i <= WorkerProcesses
  BY <1>3, <1>5, SizeAssumption
<1> QED BY <1>4, <1>6 DEF WM

(* One process less to start; if it was a worker, one worker less.          *)
LEMMA OneLess ==
  ASSUME TypeOK, todo # <<>>, todo' = Tail(todo),
         NEW k \in 0 .. WorkerProcesses, WorkersLeft(k)
  PROVE  \E j \in 0 .. WorkerProcesses :
           /\ WorkersLeft(j)' /\ j <= k
           /\ Head(todo)[1] = "worker" => j + 1 = k
<1>1. /\ todo \in Seq(Job) /\ Len(todo) \in Nat /\ Len(todo) > 0
      /\ Len(Tail(todo)) = Len(todo) - 1
      /\ \A i \in 1 .. Len(Tail(todo)) : Tail(todo)[i] = todo[i + 1]
      /\ Head(todo) = todo[1]
  BY HeadTailProperties, EmptySeq, LenProperties DEF TypeOK, Job
<1>2. todo[1][1] = "worker" <=> 1 <= k
  <2>1. 1 \in 1 .. Len(todo) BY <1>1
  <2> QED BY <2>1 DEF WorkersLeft
<1>3. ASSUME NEW j \in 0 .. WorkerProcesses,
             \A i \in Nat \ {0} : i <= j <=> i + 1 <= k
      PROVE  WorkersLeft(j)'
  <2> SUFFICES ASSUME NEW i \in 1 .. Len(Tail(todo))
               PROVE  Tail(todo)[i][1] = "worker" <=> i <= j
    BY DEF WorkersLeft
  <2>1. i + 1 \in 1 .. Len(todo) /\ i \in Nat \ {0} BY <1>1
  <2> QED BY <1>1, <1>3, <2>1 DEF WorkersLeft
<1>4. CASE k = 0
  <2>1. WorkersLeft(0)' BY <1>3, <1>4, SizeAssumption
  <2> QED BY <1>1, <1>2, <1>4, <2>1, SizeAssumption
<1>5. CASE k > 0
  <2>1. k - 1 \in 0 .. WorkerProcesses BY <1>5, SizeAssumption
  <2>2. WorkersLeft(k - 1)' BY <1>3, <1>5, <2>1, SizeAssumption
  <2> QED BY <1>5, <2>1, <2>2, SizeAssumption
<1> QED BY <1>4, <1>5, SizeAssumption

(* A spawn adds at most its slot, and that only if it is to be a worker.    *)
LEMMA RoomKept ==
  ASSUME TypeOK, todo # <<>>, todo' = Tail(todo), NEW S, NEW T, S \subseteq Slots,
         T \subseteq Slots, Room(S), NEW s, T \subseteq S \cup {s},
         s \in T => s \in S \/ Head(todo)[1] = "worker"
  PROVE  \E k \in 0 .. WorkerProcesses :
           WorkersLeft(k)' /\ Cardinality(T) + k <= WorkerProcesses
<1>1. PICK k \in 0 .. WorkerProcesses :
        WorkersLeft(k) /\ Cardinality(S) + k <= WorkerProcesses
  BY DEF Room
<1>2. PICK j \in 0 .. WorkerProcesses :
        /\ WorkersLeft(j)' /\ j <= k
        /\ Head(todo)[1] = "worker" => j + 1 = k
  BY <1>1, OneLess
<1>3. j \in Nat /\ k \in Nat /\ Cardinality(S) \in Nat /\ IsFiniteSet(S)
      /\ WorkerProcesses \in Nat
  BY SizeAssumption, SlotsFinite
<1>4. CASE s \in T /\ s \notin S
  <2>1. Cardinality(S \cup {s}) = Cardinality(S) + 1
    BY <1>3, <1>4, FS_AddElement
  <2>2. S \cup {s} \subseteq Slots BY <1>4
  <2>3. Cardinality(T) <= Cardinality(S \cup {s}) /\ Cardinality(T) \in Nat
    BY <2>2, FewerSlots
  <2>4. j + 1 = k BY <1>2, <1>4
  <2>5. Cardinality(T) + j <= WorkerProcesses BY <1>1, <1>3, <2>1, <2>3, <2>4
  <2> QED BY <1>2, <2>5
<1>5. CASE ~(s \in T /\ s \notin S)
  <2>1. T \subseteq S BY <1>5
  <2>2. Cardinality(T) <= Cardinality(S) /\ Cardinality(T) \in Nat
    BY <2>1, FewerSlots
  <2>3. Cardinality(T) + j <= WorkerProcesses BY <1>1, <1>2, <1>3, <2>2
  <2> QED BY <1>2, <2>3
<1> QED BY <1>4, <1>5
(* The mark is not on any slot when a reload begins.                        *)
LEMMA NextCount ==
  "USR2" \notin AdminSignals =>
    (TypeOK /\ SparedInv /\ DetachedBinary /\ NoUpgrade /\ ChildThere
       /\ Refilled /\ CountInv /\ [Next]_vars => CountInv')
<1> SUFFICES ASSUME "USR2" \notin AdminSignals, TypeOK, SparedInv, DetachedBinary,
                    NoUpgrade, ChildThere, Refilled, CountInv, [Next]_vars
             PROVE  CountInv'
  OBVIOUS
<1> USE DEF slotVars, workVars, loopVars, childVars, Goto
<1>1. Staying \subseteq Slots /\ Started \subseteq Slots
      /\ Staying' \subseteq Slots /\ Started' \subseteq Slots
  BY DEF Staying, Started, Used
<1>2. ASSUME Staying' \subseteq Staying, mpc \notin {"spawn", "told"},
             mpc' \notin {"spawn", "told"}
      PROVE  CountInv'
  <2>1. Cardinality(Staying) <= WorkerProcesses BY <1>2 DEF CountInv
  <2>2. Cardinality(Staying') <= WorkerProcesses
    BY <1>1, <1>2, <2>1, FewerSlots, SizeAssumption
  <2> QED BY <1>2, <2>2 DEF CountInv
<1>3. ASSUME UNCHANGED <<pid, last, role, exiting, just, mpc, todo, cont>> PROVE CountInv'
  BY <1>3 DEF CountInv, Room, WorkersLeft, Staying, Started, Used
<1>4. ASSUME UNCHANGED <<pid, last, role, exiting>> PROVE Staying' = Staying
  BY <1>4 DEF Staying, Used
<1>5. ~ReconfigureOldBinary /\ ~ChangeBinary /\ ~Restart
  BY DEF NoUpgrade, ReconfigureOldBinary, ChangeBinary, Restart, Turn
<1>6. ASSUME Spawn PROVE CountInv'
  <2>1. /\ todo # <<>> /\ todo' = Tail(todo) /\ mpc = "spawn"
        /\ mpc' = "spawn" /\ cont' = cont
    BY <1>6 DEF Spawn
  <2> DEFINE Adds(s) ==
        /\ Staying' \subseteq Staying \cup {s} /\ Started' \subseteq Started \cup {s}
        /\ s \in Staying' => s \in Staying \/ Head(todo)[1] = "worker"
        /\ s \in Started' => s \in Started \/ Head(todo)[1] = "worker"
  <2>2. \E s : Adds(s)
    <3>1. ASSUME NEW s \in Slots, NewSlot(s), Fork(s, chan),
                 FillSlot(s, Head(todo)[1], Head(todo)[2])
          PROVE  Adds(s)
      <4>1. PICK p \in Fresh : pid' = [pid EXCEPT ![s] = p] BY <3>1 DEF Fork
      <4>2. p \in Pids /\ s <= last BY <3>1 DEF Fresh, NewSlot
      <4>3. Used' = Used \cup {s} BY <3>1, <4>1, <4>2, FilledUsed
      <4>4. role'[s] = Head(todo)[1] BY <3>1 DEF FillSlot, TypeOK
      <4>5. \A t \in Slots : t # s =>
              role'[t] = role[t] /\ exiting'[t] = exiting[t] /\ just'[t] = just[t]
        BY <3>1 DEF FillSlot, TypeOK
      <4>6. \A t \in Used' : t \in Slots BY DEF Used
      <4> QED BY <4>3, <4>4, <4>5, <4>6 DEF Staying, Started
    <3>2. ASSUME UNCHANGED slotVars
          PROVE  Adds(0)
      BY <3>2 DEF Staying, Started, Used
    <3> HIDE DEF Adds
    <3> QED BY <1>6, <3>1, <3>2 DEF Spawn
  <2>3. PICK s : Adds(s) BY <2>2
  <2>4. CASE cont = "told"
    <3>1. Room(Started) BY <2>1, <2>4 DEF CountInv
    <3>2. Room(Started)'
      BY <1>1, <2>1, <2>3, <3>1, RoomKept DEF Room
    <3> QED BY <2>1, <2>4, <3>2 DEF CountInv
  <2>5. CASE cont # "told"
    <3>1. Room(Staying) BY <2>1, <2>5 DEF CountInv
    <3>2. Room(Staying)'
      BY <1>1, <2>1, <2>3, <3>1, RoomKept DEF Room
    <3> QED BY <2>1, <2>5, <3>2 DEF CountInv
  <2> QED BY <2>4, <2>5
<1>7. ASSUME SpawnsDone PROVE CountInv'
  <2>1. mpc = "spawn" /\ mpc' = cont /\ UNCHANGED slotVars
    BY <1>7 DEF SpawnsDone
  <2>2. Staying' = Staying /\ Started' = Started BY <2>1 DEF Staying, Started, Used
  <2>3. CASE cont = "told"
    <3>1. PICK k \in 0 .. WorkerProcesses : Cardinality(Started) + k <= WorkerProcesses
      BY <2>1, <2>3 DEF CountInv, Room
    <3>2. Cardinality(Started) <= WorkerProcesses
      BY <1>1, <3>1, SlotsFinite, SizeAssumption
    <3> QED BY <2>1, <2>2, <2>3, <3>2 DEF CountInv
  <2>4. CASE cont # "told"
    <3>1. PICK k \in 0 .. WorkerProcesses : Cardinality(Staying) + k <= WorkerProcesses
      BY <2>1, <2>4 DEF CountInv, Room
    <3>2. Cardinality(Staying) <= WorkerProcesses
      BY <1>1, <3>1, SlotsFinite, SizeAssumption
    <3>3. cont \in {"top", "work"} BY <2>4 DEF TypeOK
    <3> QED BY <2>1, <2>2, <3>2, <3>3 DEF CountInv
  <2> QED BY <2>3, <2>4
<1>8. ASSUME Reconfigure PROVE CountInv'
  <2>1. /\ mpc = "work" /\ mpc' = "spawn" /\ cont' = "told" /\ todo' = ToStart("just")
        /\ UNCHANGED slotVars
    BY <1>8 DEF Reconfigure, Turn, StartProcesses
  <2>2. Started' = {}
    BY <2>1 DEF Started, Used, SparedInv, JustInReload, Reloading
  <2>3. WorkersLeft(WorkerProcesses)' BY <2>1, ToStartWorkers DEF WorkersLeft
  <2>4. Cardinality(Started') + WorkerProcesses <= WorkerProcesses
    BY <2>2, FS_EmptySet, SizeAssumption
  <2>5. WorkerProcesses \in 0 .. WorkerProcesses BY SizeAssumption
  <2> QED BY <2>1, <2>3, <2>4, <2>5 DEF CountInv, Room
<1>9. ASSUME NEW sig, NEW cleared, SignalWorkers(sig, cleared), mpc # "reap"
      PROVE  /\ Staying' \subseteq Staying
             /\ sig = "QUIT" => Staying' \subseteq Started
  <2> DEFINE gone == {s \in ToSignal(sig) : ~ByChannel(s, sig) /\ child[pid[s]] = "none"}
             hit == ToSignal(sig) \ gone
  <2>1. gone = {}
    <3>1. \A s \in Used : child[pid[s]] # "none"
      BY <1>9 DEF Refilled, ChildThere
    <3> QED BY <3>1 DEF ToSignal
  <2>2. /\ UNCHANGED <<pid, last, role>>
        /\ exiting' = [s \in Slots |-> /\ exiting[s] \/ (s \in hit /\ sig # "USR1")
                                       /\ s \notin gone]
    BY <1>9, Zenon DEF SignalWorkers
  <2>3. hit = ToSignal(sig) BY <2>1
  <2> HIDE DEF gone, hit
  <2>4. Used' = Used /\ \A s \in Used : s \in Slots BY <2>2 DEF Used
  <2>5. ASSUME NEW s \in Slots
        PROVE  exiting'[s] <=> (exiting[s] \/ (s \in ToSignal(sig) /\ sig # "USR1"))
    BY <2>1, <2>2, <2>3, Zenon
  <2>6. Staying' \subseteq Staying BY <2>2, <2>4, <2>5 DEF Staying
  <2>7. ASSUME sig = "QUIT", NEW s \in Staying' PROVE s \in Started
    <3>1. s \in Used /\ s \in Slots /\ role[s] = "worker" /\ ~exiting'[s]
      BY <2>2, <2>4 DEF Staying
    <3>2. ~exiting[s] /\ s \notin ToSignal(sig) BY <2>5, <2>7, <3>1
    <3>3. ~detached[s] BY <3>1 DEF DetachedBinary
    <3>4. just[s] BY <2>7, <3>1, <3>2, <3>3 DEF ToSignal
    <3> QED BY <3>1, <3>4 DEF Started
  <2> QED BY <2>6, <2>7
<1>10. ASSUME ReconfigureTold PROVE CountInv'
  <2>1. mpc = "told" /\ mpc' = "work" /\ SignalWorkers("QUIT", {})
    BY <1>10 DEF ReconfigureTold
  <2>2. Staying' \subseteq Started BY <1>9, <2>1
  <2>3. Cardinality(Started) <= WorkerProcesses BY <2>1 DEF CountInv
  <2>4. Cardinality(Staying') <= WorkerProcesses
    BY <1>1, <2>2, <2>3, FewerSlots, SizeAssumption
  <2> QED BY <2>1, <2>4 DEF CountInv
<1>11. ASSUME Terminate \/ Quit \/ Reopen \/ Noaccept PROVE CountInv'
  <2>1. mpc = "work" /\ mpc' \in {"work", "top"}
    BY <1>11 DEF Terminate, Quit, Reopen, Noaccept, Turn
  <2>2. CASE UNCHANGED slotVars BY <1>2, <1>4, <2>1, <2>2
  <2>3. ASSUME NEW sig, NEW cleared, SignalWorkers(sig, cleared) PROVE CountInv'
    <3>1. Staying' \subseteq Staying BY <1>9, <2>1, <2>3
    <3> QED BY <1>2, <2>1, <3>1
  <2> QED BY <1>11, <2>2, <2>3 DEF Terminate, Quit, Reopen, Noaccept
<1>12. ASSUME NEW s \in Slots, ReapRespawn(s) PROVE CountInv'
  <2>1. mpc = "reap" /\ mpc' = "reap" /\ UNCHANGED <<last, role, exiting>> /\ s \in Used
    BY <1>12 DEF ReapRespawn, ReapAt, Used
  <2>2. \A t \in Slots : t # s => pid'[t] = pid[t]
    BY <1>12 DEF ReapRespawn, Fork, TypeOK
  <2>3. \A t \in Used' : t \in Used BY <2>1, <2>2 DEF Used
  <2> QED BY <1>2, <2>1, <2>3 DEF Staying
<1>13. ASSUME NEW s \in Slots, ReapRemove(s) PROVE CountInv'
  <2>1. mpc = "reap" /\ mpc' = "reap" /\ UNCHANGED <<role, exiting>> /\ s < last
    BY <1>13 DEF ReapRemove, ReapAt
  <2>2. \/ s = last - 1 /\ last' = last - 1 /\ UNCHANGED pid
        \/ pid' = [pid EXCEPT ![s] = InvalidPid] /\ UNCHANGED last
    BY <1>13, Zenon DEF ReapRemove
  <2>3. \A t \in Used' : t \in Used
    BY <2>1, <2>2, SizeAssumption DEF Used, TypeOK, Slots
  <2> QED BY <1>2, <2>1, <2>3 DEF Staying
<1>14. ASSUME Top \/ Sigsuspend \/ ReapDone \/ MasterExit \/ ReconfigureFails \/ WorkDone
       PROVE  CountInv'
  <2>1. /\ UNCHANGED <<pid, last, role, exiting>>
        /\ mpc \notin {"spawn", "told"} /\ mpc' \notin {"spawn", "told"}
    BY <1>14 DEF Top, Sigsuspend, ReapDone, MasterExit, ReconfigureFails, WorkDone, Turn
  <2> QED BY <1>2, <1>4, <2>1
<1>15. ASSUME \/ \E s \in Slots : ReapSkip(s)
              \/ Alarm \/ \E sig \in AdminSignals : Kill(sig)
              \/ \E p \in Pids : ChildQuits(p) \/ ChildExits(p) \/ ChildCrashes(p)
              \/ UNCHANGED vars
       PROVE  CountInv'
  BY <1>3, <1>15 DEF ReapSkip, Alarm, Kill, ChildQuits, ChildExits, ChildCrashes, vars
<1> QED BY <1>5, <1>6, <1>7, <1>8, <1>10, <1>11, <1>12, <1>13, <1>14, <1>15
        DEF Next, MasterStep

LEMMA InitCount == Init => CountInv /\ ChildThere /\ Refilled
<1> SUFFICES ASSUME Init PROVE CountInv /\ ChildThere /\ Refilled
  OBVIOUS
<1>1. Used = {} BY DEF Init, Used
<1>2. Cardinality(Staying) = 0 BY <1>1, FS_EmptySet DEF Staying
<1>4. WorkersLeft(WorkerProcesses) BY ToStartWorkers DEF Init, WorkersLeft
<1>5. WorkerProcesses \in 0 .. WorkerProcesses BY SizeAssumption
<1>6. Room(Staying) BY <1>2, <1>4, <1>5, SizeAssumption DEF Room
<1> QED BY <1>1, <1>6 DEF Init, CountInv, ChildThere, Refilled

LEMMA CountSafe == CountInv => NoDoubleWorkers
<1> SUFFICES ASSUME CountInv, mpc = "suspend"
             PROVE  Cardinality(Serving) <= WorkerProcesses
  BY DEF NoDoubleWorkers
<1>1. Serving \subseteq Staying /\ Staying \subseteq Slots
  BY DEF Serving, Staying, Used
<1>2. Cardinality(Staying) <= WorkerProcesses BY DEF CountInv
<1> QED BY <1>1, <1>2, FewerSlots, SizeAssumption

(* Without upgrades, the master never means more workers to stay than      *)
(* worker_processes says, whatever reloads, deaths and shutdowns follow    *)
(* each other, as long as every dead process's slot is refilled or freed.  *)
THEOREM NoDoubleUnlessUnfilled ==
  ASSUME "USR2" \notin AdminSignals
  PROVE  Spec /\ []Refilled => []NoDoubleWorkers
<1>1. Spec => []NoUpgrade BY NoUpgradeInvariant
<1>2. Spec => []DetachedBinary
  <2>1. ExitInv => DetachedBinary BY DEF ExitInv
  <2> QED BY <2>1, NoUpgradeInvariant, ExitInvariant, PTL
<1>3. TypeOK /\ SparedInv /\ DetachedBinary /\ NoUpgrade /\ ChildThere
        /\ Refilled /\ CountInv /\ [Next]_vars => CountInv'
  BY NextCount
<1>4. Init => SparedInv
  BY ToStartJobs DEF Init, SparedInv, JustInReload, JobsInReload, Used
<1> QED BY <1>1, <1>2, <1>3, <1>4, InitCount, NextSpared, NextChildThere, CountSafe,
           TypeCorrect, TableInvariant, PTL DEF Spec

(* When no call fails, a reap leaves no slot of a process that has exited.  *)
ScanRefilled == mpc = "reap" => \A s \in Used : s < ri => ~exited[s]

RefillInv == Refilled /\ ScanRefilled

LEMMA NextRefill ==
  MaxFaults = 0 =>
    (TypeOK /\ ChildThere /\ RefillInv /\ [Next]_vars => RefillInv')
<1> SUFFICES ASSUME MaxFaults = 0, TypeOK, ChildThere, RefillInv, [Next]_vars
             PROVE  RefillInv'
  OBVIOUS
<1> USE DEF slotVars, workVars, loopVars, childVars, Goto
<1>1. ~ForkFails BY DEF ForkFails, TypeOK
<1>2. ASSUME UNCHANGED <<pid, last, exited>>, mpc # "reap", mpc' # "reap" PROVE RefillInv'
  BY <1>2 DEF RefillInv, Refilled, ScanRefilled, Used
<1>3. ASSUME UNCHANGED <<pid, last, exited, mpc, ri>> PROVE RefillInv'
  BY <1>3 DEF RefillInv, Refilled, ScanRefilled, Used
<1>4. ASSUME NEW s \in Slots, NewSlot(s), NEW r, NEW type, FillSlot(s, r, type),
             NEW p \in Fresh, pid' = [pid EXCEPT ![s] = p],
             exited' = [exited EXCEPT ![s] = FALSE], mpc # "reap", mpc' # "reap"
      PROVE  RefillInv'
  <2>1. p \in Pids /\ s <= last BY <1>4 DEF Fresh, NewSlot
  <2>2. Used' = Used \cup {s} BY <1>4, <2>1, FilledUsed
  <2>3. \A t \in Used : t \in Slots /\ ~exited[t]
    BY <1>4 DEF RefillInv, Refilled, Used
  <2>4. \A t \in Used' : ~exited'[t] BY <1>4, <2>2, <2>3 DEF TypeOK
  <2> QED BY <1>4, <2>4 DEF RefillInv, Refilled, ScanRefilled
<1>5. ASSUME Spawn PROVE RefillInv'
  <2>1. mpc # "reap" /\ mpc' # "reap" BY <1>5 DEF Spawn
  <2> QED BY <1>2, <1>4, <1>5, <2>1 DEF Spawn, Fork
<1>6. ASSUME ChangeBinary PROVE RefillInv'
  <2>1. mpc # "reap" /\ mpc' # "reap" BY <1>6 DEF ChangeBinary, Turn
  <2> QED BY <1>2, <1>4, <1>6, <2>1 DEF ChangeBinary, ForkDetached
<1>7. ASSUME Sigsuspend PROVE RefillInv'
  <2>1. UNCHANGED <<pid, last>> BY <1>7 DEF Sigsuspend
  <2>2. CASE mpc' = "reap" /\ ri' = 0
    BY <2>2, SizeAssumption DEF RefillInv, Refilled, ScanRefilled, Used, Slots
  <2>3. CASE mpc' = "work" /\ "reap" \notin Raised
    <3>1. Waited = {} BY <2>3 DEF Raised, Waited, Zombies
    <3>2. \A s \in Used : s \in Slots /\ ~exited[s]
      BY <1>7 DEF RefillInv, Refilled, Used, Sigsuspend
    <3>3. \A s \in Used : ~exited'[s]
      BY <1>7, <3>1, <3>2 DEF Sigsuspend, GetStatus
    <3>4. Used' = Used BY <2>1 DEF Used
    <3> QED BY <2>3, <3>3, <3>4 DEF RefillInv, Refilled, ScanRefilled
  <2> QED BY <1>7, <2>2, <2>3, Zenon DEF Sigsuspend
<1>8. ASSUME NEW s \in Slots, ReapSkip(s) PROVE RefillInv'
  <2>1. /\ mpc = "reap" /\ mpc' = "reap" /\ UNCHANGED slotVars /\ ri = s /\ ri' = ri + 1
        /\ pid[s] = InvalidPid \/ ~exited[s]
    BY <1>8 DEF ReapSkip, ReapAt
  <2>2. Used' = Used BY <2>1 DEF Used
  <2>3. ASSUME NEW t \in Used, t < ri' PROVE ~exited[t]
    <3>1. t \in Nat /\ s \in Nat BY SizeAssumption DEF Used, Slots
    <3>2. CASE t = s BY <2>1, <3>2 DEF Used
    <3>3. CASE t # s
      <4>1. t < ri BY <2>1, <2>3, <3>1, <3>3
      <4> QED BY <2>1, <4>1 DEF RefillInv, ScanRefilled
    <3> QED BY <3>2, <3>3
  <2> QED BY <2>1, <2>2, <2>3 DEF RefillInv, Refilled, ScanRefilled
<1>9. ASSUME NEW s \in Slots, ReapRespawn(s) PROVE RefillInv'
  <2>1. /\ mpc = "reap" /\ mpc' = "reap" /\ UNCHANGED last /\ s \in Used
        /\ ri = s /\ ri' = ri + 1
    BY <1>9 DEF ReapRespawn, ReapAt, Used
  <2>2. Fork(s, CloseChannel(s)) BY <1>1, <1>9 DEF ReapRespawn
  <2>3. \A t \in Slots : t # s => pid'[t] = pid[t] /\ exited'[t] = exited[t]
    BY <2>2 DEF Fork, TypeOK
  <2>4. ~exited'[s] BY <2>2 DEF Fork, TypeOK
  <2>5. ASSUME NEW t \in Used', t < ri' PROVE ~exited'[t]
    <3>1. t \in Slots /\ t \in Nat /\ s \in Nat BY SizeAssumption DEF Used, Slots
    <3>2. CASE t = s BY <2>4, <3>2
    <3>3. CASE t # s
      <4>1. t < ri /\ t \in Used BY <2>1, <2>3, <2>5, <3>1, <3>3 DEF Used
      <4> QED BY <2>1, <2>3, <3>1, <3>3, <4>1 DEF RefillInv, ScanRefilled
    <3> QED BY <3>2, <3>3
  <2> QED BY <2>1, <2>5 DEF RefillInv, Refilled, ScanRefilled
<1>10. ASSUME NEW s \in Slots, ReapRemove(s) PROVE RefillInv'
  <2>1. /\ mpc = "reap" /\ mpc' = "reap" /\ UNCHANGED exited /\ s < last
        /\ ri = s /\ ri' = ri + 1
    BY <1>10 DEF ReapRemove, ReapAt
  <2>2. \/ s = last - 1 /\ last' = last - 1 /\ UNCHANGED pid
        \/ pid' = [pid EXCEPT ![s] = InvalidPid] /\ UNCHANGED last
    BY <1>10, Zenon DEF ReapRemove
  <2>3. \A t \in Used' : t \in Used /\ t # s
    BY <2>1, <2>2, SizeAssumption DEF Used, TypeOK, Slots
  <2>4. ASSUME NEW t \in Used', t < ri' PROVE ~exited[t]
    <3>1. t \in Used /\ t # s /\ t \in Nat /\ s \in Nat
      BY <2>3, <2>4, SizeAssumption DEF Used, Slots
    <3>2. t < ri BY <2>1, <2>4, <3>1
    <3> QED BY <2>1, <3>1, <3>2 DEF RefillInv, ScanRefilled
  <2> QED BY <2>1, <2>4 DEF RefillInv, Refilled, ScanRefilled
<1>11. ASSUME ReapDone PROVE RefillInv'
  <2>1. mpc = "reap" /\ mpc' = "work" /\ ri >= last /\ UNCHANGED slotVars
    BY <1>11 DEF ReapDone
  <2>2. ASSUME NEW t \in Used PROVE ~exited[t]
    <3>1. t < ri BY <2>1, SizeAssumption DEF Used, TypeOK, Slots
    <3> QED BY <2>1, <3>1 DEF RefillInv, ScanRefilled
  <2> QED BY <2>1, <2>2 DEF RefillInv, Refilled, ScanRefilled, Used
<1>12. ASSUME Terminate \/ Quit \/ Reopen \/ Noaccept \/ ReconfigureTold PROVE RefillInv'
  <2>1. mpc # "reap" /\ mpc' # "reap"
    BY <1>12 DEF Terminate, Quit, Reopen, Noaccept, ReconfigureTold, Turn
  <2>2. CASE UNCHANGED slotVars BY <1>2, <2>1, <2>2
  <2>3. ASSUME NEW sig, NEW cleared, SignalWorkers(sig, cleared) PROVE RefillInv'
    <3> DEFINE gone == {s \in ToSignal(sig) :
                          ~ByChannel(s, sig) /\ child[pid[s]] = "none"}
    <3>1. gone = {}
      <4>1. \A s \in Used : child[pid[s]] # "none"
        BY <2>1 DEF RefillInv, Refilled, ChildThere
      <4> QED BY <4>1 DEF ToSignal
    <3>2. /\ UNCHANGED <<pid, last>>
          /\ exited' = [s \in Slots |-> exited[s] \/ s \in gone]
      BY <2>3, Zenon DEF SignalWorkers
    <3> HIDE DEF gone
    <3>3. \A s \in Slots : exited'[s] <=> exited[s] BY <3>1, <3>2, Zenon
    <3>4. Used' = Used /\ \A s \in Used : s \in Slots BY <3>2 DEF Used
    <3> QED BY <2>1, <3>3, <3>4 DEF RefillInv, Refilled, ScanRefilled
  <2> QED BY <1>12, <2>2, <2>3 DEF Terminate, Quit, Reopen, Noaccept, ReconfigureTold
<1>13. ASSUME \/ Top \/ MasterExit \/ ReconfigureFails \/ WorkDone \/ SpawnsDone
              \/ ReconfigureOldBinary \/ Reconfigure \/ Restart
       PROVE  RefillInv'
  BY <1>2, <1>13 DEF Top, MasterExit, ReconfigureFails, WorkDone, SpawnsDone, TypeOK,
     ReconfigureOldBinary, Reconfigure, Restart, StartProcesses, Turn
<1>14. ASSUME \/ Alarm \/ \E sig \in AdminSignals : Kill(sig)
              \/ \E p \in Pids : ChildQuits(p) \/ ChildExits(p) \/ ChildCrashes(p)
              \/ UNCHANGED vars
       PROVE  RefillInv'
  BY <1>3, <1>14 DEF Alarm, Kill, ChildQuits, ChildExits, ChildCrashes, vars
<1> QED BY <1>5, <1>6, <1>7, <1>8, <1>9, <1>10, <1>11, <1>12, <1>13, <1>14
        DEF Next, MasterStep

(* So when no call fails either, no reload ever doubles the workers.        *)
THEOREM NoDouble ==
  ASSUME "USR2" \notin AdminSignals, MaxFaults = 0
  PROVE  Spec => []NoDoubleWorkers
<1>1. Init => RefillInv
  BY InitCount DEF Init, RefillInv, ScanRefilled
<1>2. TypeOK /\ ChildThere /\ RefillInv /\ [Next]_vars => RefillInv'
  BY NextRefill
<1>3. RefillInv => Refilled BY DEF RefillInv
<1>4. Spec => []Refilled
  BY <1>1, <1>2, <1>3, InitCount, NextChildThere, TypeCorrect, TableInvariant, PTL DEF Spec
<1> QED BY <1>4, NoDoubleUnlessUnfilled, PTL
=============================================================================
