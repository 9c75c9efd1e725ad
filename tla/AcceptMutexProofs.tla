------------------------- MODULE AcceptMutexProofs -------------------------
(***************************************************************************)
(* What holds of the workers' event loop for any number of workers,        *)
(* listening sockets, clients and connections.                             *)
(***************************************************************************)
EXTENDS AcceptMutex, TLAPS

LEMMA InitTypeOK == Init => TypeOK
BY SizeAssumption, SwitchAssumption DEF Init, TypeOK, Capacity

LEMMA NextTypeOK == TypeOK /\ [Next]_vars => TypeOK'
<1> SUFFICES ASSUME TypeOK, [Next]_vars PROVE TypeOK'
  OBVIOUS
<1> USE SizeAssumption, SwitchAssumption, BoundAssumption DEF TypeOK, lockVars,
      loopVars, sysVars, Goto, Fault
<1>1. ASSUME NEW w \in Workers, SkipMutex(w) PROVE TypeOK'
  BY <1>1 DEF SkipMutex
<1>2. ASSUME NEW w \in Workers, NoMutex(w) PROVE TypeOK'
  BY <1>2 DEF NoMutex
<1>3. ASSUME NEW w \in Workers, TrylockTaken(w) PROVE TypeOK'
  BY <1>3 DEF TrylockTaken, ShmtxTrylock
<1>4. ASSUME NEW w \in Workers, TrylockBusy(w) PROVE TypeOK'
  <2>1. active' \in [Workers -> SUBSET Sockets]
    BY <1>4 DEF TrylockBusy, DisableAcceptEvents
  <2>2. faults' \in Nat
    BY <1>4 DEF TrylockBusy
  <2>3. /\ held' \in [Workers -> BOOLEAN]
        /\ mode' \in [Workers -> {"post", "delay", "direct"}]
    BY <1>4 DEF TrylockBusy
  <2>4. pc' \in [Workers -> {"loop", "enable", "poll", "accept", "unlock", "tail",
                             "dead", "reaped", "exited"}]
    BY <1>4 DEF TrylockBusy
  <2> QED
    BY <1>4, <2>1, <2>2, <2>3, <2>4 DEF TrylockBusy
<1>5. ASSUME NEW w \in Workers, EnableDone(w) PROVE TypeOK'
  BY <1>5 DEF EnableDone
<1>6. ASSUME NEW w \in Workers, EnableFails(w) PROVE TypeOK'
  <2>1. active' \in [Workers -> SUBSET Sockets]
    BY <1>6 DEF EnableFails, Sockets
  <2>2. faults' \in Nat
    BY <1>6 DEF EnableFails
  <2> QED
    BY <1>6, <2>1, <2>2 DEF EnableFails, ShmtxUnlock
<1>7. ASSUME NEW w \in Workers, Poll(w) PROVE TypeOK'
  BY <1>7 DEF Poll, Ready, Capacity
<1>8. ASSUME NEW w \in Workers, PollInterrupted(w) PROVE TypeOK'
  BY <1>8 DEF PollInterrupted
<1>9. ASSUME NEW w \in Workers, NEW s \in Sockets, AcceptClient(w, s) PROVE TypeOK'
  <2>1. Drained(w) \subseteq Nat
    BY DEF Drained, Capacity
  <2>2. PICK f \in Drained(w) : \/ f > 0 /\ free' = [free EXCEPT ![w] = f - 1]
                                \/ free' = [free EXCEPT ![w] = f]
    BY <1>9 DEF AcceptClient
  <2>3. free' \in [Workers -> Nat]
    BY <2>1, <2>2
  <2>4. disabled' \in [Workers -> Int]
    BY <1>9 DEF AcceptClient, Threshold
  <2>5. pending' \in [Workers -> SUBSET Sockets]
    BY <1>9 DEF AcceptClient, HandlerReturns
  <2>6. backlog' \in [Sockets -> Nat]
    BY <1>9 DEF AcceptClient
  <2> QED
    BY <1>9, <2>3, <2>4, <2>5, <2>6 DEF AcceptClient
<1>10. ASSUME NEW w \in Workers, NEW s \in Sockets,
              AcceptNotReady(w, s) \/ AcceptAborted(w, s) \/ AcceptFails(w, s)
       PROVE TypeOK'
  BY <1>10 DEF AcceptNotReady, AcceptAborted, AcceptFails, HandlerReturns
<1>11. ASSUME NEW w \in Workers, AcceptsDone(w) PROVE TypeOK'
  BY <1>11 DEF AcceptsDone
<1>12. ASSUME NEW w \in Workers, Unlock(w) PROVE TypeOK'
  BY <1>12 DEF Unlock, ShmtxUnlock
<1>13. ASSUME NEW w \in Workers, Tail(w) PROVE TypeOK'
  BY <1>13 DEF Tail, Capacity
<1>14. ASSUME NEW w \in Workers, Quit(w) PROVE TypeOK'
  BY <1>14 DEF Quit
<1>15. ASSUME NEW w \in Workers, Exit(w) PROVE TypeOK'
  BY <1>15 DEF Exit
<1>16. ASSUME NEW w \in Workers, Crash(w) PROVE TypeOK'
  BY <1>16 DEF Crash
<1>17. ASSUME NEW w \in Workers, GetStatus(w) PROVE TypeOK'
  BY <1>17 DEF GetStatus, AtomicCmpSet
<1>18. ASSUME NEW w \in Workers, Respawn(w) PROVE TypeOK'
  BY <1>18 DEF Respawn, Capacity
<1>19. ASSUME NEW s \in Sockets, Connect(s) PROVE TypeOK'
  BY <1>19 DEF Connect
<1>20. CASE UNCHANGED vars
  BY <1>20 DEF vars
<1> QED
  BY <1>1, <1>2, <1>3, <1>4, <1>5, <1>6, <1>7, <1>8, <1>9, <1>10, <1>11, <1>12,
     <1>13, <1>14, <1>15, <1>16, <1>17, <1>18, <1>19, <1>20
     DEF Next, Step, Accept

(* Every variable keeps its type whatever the workers, the clients, the    *)
(* faults and the signals do; in particular ngx_get_connection never       *)
(* drives free_connection_n below zero and the accept mutex's word is      *)
(* never anything but 0 and the lock bit.                                  *)
THEOREM TypeCorrect == Spec => []TypeOK
<1>1. Init => TypeOK
  BY InitTypeOK
<1>2. TypeOK /\ [Next]_vars => TypeOK'
  BY NextTypeOK
<1> QED
  BY <1>1, <1>2, PTL DEF Spec

-----------------------------------------------------------------------------
(* Why the mutex is not abandoned: whoever set the word is still before    *)
(* its own unlock, and will find ngx_accept_mutex_held set when it gets    *)
(* there.                                                                  *)
OwnerInv ==
  /\ lock = LockBit <=> owner # NoOwner
  /\ crashes = 0 => \A w \in Workers : owner = w => Critical(w)
  /\ \A w \in Workers :
       pc[w] \in {"poll", "accept", "unlock"} /\ mode[w] = "post" => held[w]

LEMMA NextOwnerInv ==
  ASSUME TypeOK, OwnerInv, [Next]_vars
  PROVE  OwnerInv'
<1> USE WordAssumption DEF TypeOK, OwnerInv, Critical, lockVars, loopVars, sysVars, Goto,
        NoOwner
<1>1. ASSUME NEW w \in Workers, SkipMutex(w) \/ NoMutex(w) PROVE OwnerInv'
  BY <1>1 DEF SkipMutex, NoMutex
<1>2. ASSUME NEW w \in Workers, TrylockTaken(w) PROVE OwnerInv'
  BY <1>2 DEF TrylockTaken, ShmtxTrylock, TriesMutex
<1>3. ASSUME NEW w \in Workers, TrylockBusy(w) PROVE OwnerInv'
  BY <1>3 DEF TrylockBusy, TriesMutex
<1>4. ASSUME NEW w \in Workers, EnableDone(w) PROVE OwnerInv'
  BY <1>4 DEF EnableDone
<1>5. ASSUME NEW w \in Workers, EnableFails(w) PROVE OwnerInv'
  BY <1>5 DEF EnableFails, ShmtxUnlock
<1>6. ASSUME NEW w \in Workers, Poll(w) \/ PollInterrupted(w) PROVE OwnerInv'
  BY <1>6 DEF Poll, PollInterrupted
<1>7. ASSUME NEW w \in Workers, Accept(w) PROVE OwnerInv'
  BY <1>7 DEF Accept, AcceptClient, AcceptNotReady, AcceptAborted, AcceptFails,
              AcceptsDone
<1>8. ASSUME NEW w \in Workers, Unlock(w) PROVE OwnerInv'
  BY <1>8 DEF Unlock, ShmtxUnlock
<1>9. ASSUME NEW w \in Workers, Tail(w) \/ Quit(w) \/ Exit(w) PROVE OwnerInv'
  BY <1>9 DEF Tail, Quit, Exit
<1>10. ASSUME NEW w \in Workers, Crash(w) PROVE OwnerInv'
  BY <1>10 DEF Crash, Alive
<1>11. ASSUME NEW w \in Workers, GetStatus(w) PROVE OwnerInv'
  BY <1>11 DEF GetStatus, AtomicCmpSet
<1>12. ASSUME NEW w \in Workers, Respawn(w) PROVE OwnerInv'
  BY <1>12 DEF Respawn
<1>13. ASSUME NEW s \in Sockets, Connect(s) PROVE OwnerInv'
  BY <1>13 DEF Connect
<1>14. CASE UNCHANGED vars
  BY <1>14 DEF vars
<1> QED
  BY <1>1, <1>2, <1>3, <1>4, <1>5, <1>6, <1>7, <1>8, <1>9, <1>10, <1>11, <1>12,
     <1>13, <1>14 DEF Next, Step

(* As long as no worker was killed, the accept mutex is never left set     *)
(* with nobody on the way to unlocking it, for every number of workers and *)
(* every threshold, although a worker over its threshold may unlock the    *)
(* mutex of another.                                                       *)
THEOREM NotAbandoned == Spec => []NoAbandonedMutex
<1>1. Init => OwnerInv
  BY WordAssumption DEF Init, OwnerInv, NoOwner
<1>2. TypeOK /\ OwnerInv /\ [Next]_vars => OwnerInv'
  BY NextOwnerInv
<1>3. TypeOK /\ OwnerInv => NoAbandonedMutex
  BY DEF TypeOK, OwnerInv, NoAbandonedMutex, Abandoned
<1> QED
  BY <1>1, <1>2, <1>3, TypeCorrect, PTL DEF Spec

-----------------------------------------------------------------------------
(* Without a worker over its threshold, ngx_accept_mutex_held tells the    *)
(* truth between trylock and unlock: it is set exactly in the iterations   *)
(* that took the mutex.  This is what MutexHeldByCritical needs to be      *)
(* inductive.                                                              *)
ExclusiveInv ==
  /\ \A w \in Workers : disabled[w] <= 0
  /\ \A w \in Workers : held[w] \/ pc[w] = "enable" => using[w]
  /\ \A w \in Workers :
       pc[w] \in {"poll", "accept", "unlock"} => (held[w] <=> mode[w] = "post")
  /\ MutexHeldByCritical

LEMMA NoThreshold ==
  ASSUME ConnectionN \div Share = 0, TypeOK, NEW w \in Workers
  PROVE  Threshold(w) <= 0
BY DEF Threshold, TypeOK

LEMMA NextExclusiveInv ==
  ASSUME ConnectionN \div Share = 0, TypeOK, ExclusiveInv, [Next]_vars
  PROVE  ExclusiveInv'
<1> USE WordAssumption DEF TypeOK, ExclusiveInv, MutexHeldByCritical, Critical,
        lockVars, loopVars, sysVars, Goto, NoOwner
<1>1. ASSUME NEW w \in Workers, SkipMutex(w) PROVE FALSE
  BY <1>1 DEF SkipMutex
<1>2. ASSUME NEW w \in Workers, NoMutex(w) PROVE ExclusiveInv'
  BY <1>2 DEF NoMutex
<1>3. ASSUME NEW w \in Workers, TrylockTaken(w) PROVE ExclusiveInv'
  BY <1>3 DEF TrylockTaken, ShmtxTrylock, TriesMutex
<1>4. ASSUME NEW w \in Workers, TrylockBusy(w) PROVE ExclusiveInv'
  BY <1>4 DEF TrylockBusy, TriesMutex
<1>5. ASSUME NEW w \in Workers, EnableDone(w) PROVE ExclusiveInv'
  BY <1>5 DEF EnableDone
<1>6. ASSUME NEW w \in Workers, EnableFails(w) PROVE ExclusiveInv'
  BY <1>6 DEF EnableFails, ShmtxUnlock
<1>7. ASSUME NEW w \in Workers, Poll(w) \/ PollInterrupted(w) PROVE ExclusiveInv'
  BY <1>7 DEF Poll, PollInterrupted
<1>8. ASSUME NEW w \in Workers, Accept(w) PROVE ExclusiveInv'
  <2>1. Threshold(w) <= 0
    BY NoThreshold
  <2>2. /\ UNCHANGED <<lock, owner, held, using, mode, crashes>>
        /\ \/ UNCHANGED pc
           \/ pc[w] = "accept" /\ pc' = [pc EXCEPT ![w] = "unlock"]
    BY <1>8 DEF Accept, AcceptClient, AcceptNotReady, AcceptAborted, AcceptFails,
                AcceptsDone
  <2>3. UNCHANGED disabled \/ disabled' = [disabled EXCEPT ![w] = Threshold(w)]
    BY <1>8 DEF Accept, AcceptClient, AcceptNotReady, AcceptAborted, AcceptFails,
                AcceptsDone
  <2> QED
    BY <2>1, <2>2, <2>3
<1>9. ASSUME NEW w \in Workers, Unlock(w) PROVE ExclusiveInv'
  BY <1>9 DEF Unlock, ShmtxUnlock
<1>10. ASSUME NEW w \in Workers, Tail(w) \/ Quit(w) \/ Exit(w) PROVE ExclusiveInv'
  BY <1>10 DEF Tail, Quit, Exit
<1>11. ASSUME NEW w \in Workers, Crash(w) PROVE ExclusiveInv'
  BY <1>11 DEF Crash, Alive
<1>12. ASSUME NEW w \in Workers, GetStatus(w) PROVE ExclusiveInv'
  BY <1>12 DEF GetStatus, AtomicCmpSet
<1>13. ASSUME NEW w \in Workers, Respawn(w) PROVE ExclusiveInv'
  BY <1>13 DEF Respawn
<1>14. ASSUME NEW s \in Sockets, Connect(s) PROVE ExclusiveInv'
  BY <1>14 DEF Connect
<1>15. CASE UNCHANGED vars
  BY <1>15 DEF vars
<1> QED
  BY <1>1, <1>2, <1>3, <1>4, <1>5, <1>6, <1>7, <1>8, <1>9, <1>10, <1>11, <1>12,
     <1>13, <1>14, <1>15 DEF Next, Step

LEMMA ExclusiveInvariant ==
  ASSUME ConnectionN \div Share = 0
  PROVE  Spec => []ExclusiveInv
<1>1. Init => ExclusiveInv
  BY WordAssumption DEF Init, ExclusiveInv, MutexHeldByCritical, Critical, NoOwner
<1>2. TypeOK /\ ExclusiveInv /\ [Next]_vars => ExclusiveInv'
  BY NextExclusiveInv
<1> QED
  BY <1>1, <1>2, TypeCorrect, PTL DEF Spec

(* While connection_n / 8 = 0, only the worker that set the lock word runs *)
(* with NGX_POST_EVENTS, and until a worker is killed the word is set only *)
(* then.                                                                   *)
THEOREM HeldByCritical ==
  ASSUME ConnectionN \div Share = 0
  PROVE  Spec => []MutexHeldByCritical
<1>1. ExclusiveInv => MutexHeldByCritical
  BY DEF ExclusiveInv
<1> QED
  BY <1>1, ExclusiveInvariant, PTL

(* While connection_n / 8 = 0 two workers never process posted accept      *)
(* events at the same time, whoever is killed.                             *)
THEOREM Exclusive ==
  ASSUME ConnectionN \div Share = 0
  PROVE  Spec => []AcceptExclusive
<1>1. ExclusiveInv => AcceptExclusive
  BY DEF ExclusiveInv, MutexHeldByCritical, AcceptExclusive
<1> QED
  BY <1>1, ExclusiveInvariant, PTL

(* A step changes the set of workers in the critical section only as the   *)
(* abstract lock allows.                                                   *)
LEMMA StepRefines ==
  ASSUME TypeOK, ExclusiveInv, TypeOK', ExclusiveInv', [Next]_vars
  PROVE  [M!Next]_{w \in Workers : Critical(w)}
<1> DEFINE In == {w \in Workers : Critical(w)}
<1> USE WordAssumption DEF ExclusiveInv, MutexHeldByCritical, NoOwner
<1>1. In \subseteq {owner} /\ (owner = NoOwner => In = {})
  BY DEF TypeOK
<1>2. In' \subseteq {owner'} /\ (owner' = NoOwner => In' = {})
  BY DEF TypeOK
<1>3. \/ owner' = owner \/ owner' = NoOwner
      \/ owner = NoOwner /\ owner' \in Workers
  <2>1. ASSUME NEW w \in Workers, Step(w)
        PROVE  \/ owner' = owner \/ owner' = NoOwner
               \/ owner = NoOwner /\ owner' \in Workers
    BY <2>1 DEF Step, SkipMutex, NoMutex, TrylockTaken, TrylockBusy, EnableDone,
         EnableFails, Poll, PollInterrupted, Accept, AcceptClient, AcceptNotReady,
         AcceptAborted, AcceptFails, AcceptsDone, Unlock, Tail, ShmtxTrylock,
         ShmtxUnlock, lockVars, TypeOK
  <2>2. ASSUME NEW w \in Workers, \/ Quit(w) \/ Exit(w) \/ Crash(w)
                                  \/ GetStatus(w) \/ Respawn(w)
        PROVE  owner' = owner \/ owner' = NoOwner
    BY <2>2 DEF Quit, Exit, Crash, GetStatus, Respawn, AtomicCmpSet, lockVars
  <2>3. ASSUME NEW s \in Sockets, Connect(s) PROVE owner' = owner
    BY <2>3 DEF Connect, lockVars
  <2> QED
    BY <2>1, <2>2, <2>3 DEF Next, vars, lockVars
<1> HIDE DEF In
<1>4. In' = In \/ \E w \in Workers : \/ In = {} /\ In' = {w}
                                     \/ In = {w} /\ In' = {}
  <2>1. In \subseteq Workers /\ In' \subseteq Workers
    BY DEF In
  <2>2. In = {} \/ In = {owner}
    BY <1>1
  <2>3. In' = {} \/ In' = {owner'}
    BY <1>2
  <2>4. CASE In # {} /\ In' # {}
    <3>1. In = {owner} /\ In' = {owner'} /\ owner # NoOwner /\ owner' # NoOwner
      BY <1>1, <1>2, <2>2, <2>3, <2>4
    <3> QED
      BY <1>3, <3>1
  <2> QED
    BY <2>1, <2>2, <2>3, <2>4
<1> QED
  BY <1>4 DEF M!Next, M!Enter, M!Leave, In

(* While connection_n / 8 = 0 the event loop's use of the accept mutex     *)
(* implements the abstract lock, whoever is killed.                        *)
THEOREM RefinesMutex ==
  ASSUME ConnectionN \div Share = 0
  PROVE  Spec => MutexSpec
<1>1. Init => M!Init
  BY DEF Init, M!Init, Critical
<1>2. TypeOK /\ ExclusiveInv /\ TypeOK' /\ ExclusiveInv' /\ [Next]_vars
        => [M!Next]_{w \in Workers : Critical(w)}
  BY StepRefines
<1> QED
  BY <1>1, <1>2, ExclusiveInvariant, TypeCorrect, PTL DEF Spec, MutexSpec, M!Spec

-----------------------------------------------------------------------------
(* Why a worker over its threshold still listens: it got there through a   *)
(* handler of a socket in its epoll set, and pending events always belong  *)
(* to that set.                                                            *)
ListenInv ==
  /\ ListensAsHeld
  /\ ThresholdKeepsListening
  /\ \A w \in Workers :
       pc[w] = "enable" => ~held[w] /\ active[w] = {} /\ disabled[w] <= 0
  /\ \A w \in Workers : Alive(w) /\ pc[w] # "accept" => pending[w] = {}
  /\ \A w \in Workers : Alive(w) => pending[w] \subseteq active[w]

LEMMA NextListenInv ==
  ASSUME MaxFaults = 0, TypeOK, ListenInv, [Next]_vars
  PROVE  ListenInv'
<1> USE BoundAssumption DEF TypeOK, ListenInv, ListensAsHeld, ThresholdKeepsListening,
        Alive, lockVars, loopVars, sysVars, Goto, Fault
<1>1. ASSUME NEW w \in Workers, SkipMutex(w) \/ NoMutex(w) PROVE ListenInv'
  <2>1. CASE SkipMutex(w)
    BY <2>1 DEF SkipMutex
  <2>2. CASE NoMutex(w)
    BY <2>2 DEF NoMutex
  <2> QED
    BY <1>1, <2>1, <2>2
<1>2. ASSUME NEW w \in Workers, TrylockTaken(w) PROVE ListenInv'
  BY <1>2 DEF TrylockTaken, ShmtxTrylock, TriesMutex
<1>3. ASSUME NEW w \in Workers, TrylockBusy(w) PROVE ListenInv'
  <2>1. /\ pc[w] = "loop" /\ pc' = [pc EXCEPT ![w] = "poll"]
        /\ using[w] /\ disabled[w] <= 0 /\ UNCHANGED <<disabled, using, pending>>
        /\ active' = [active EXCEPT ![w] = IF held[w] THEN {} ELSE @]
        /\ held' = [held EXCEPT ![w] = FALSE]
    BY <1>3 DEF TrylockBusy, TriesMutex, DisableAcceptEvents
  <2>2. ListensAsHeld' /\ ThresholdKeepsListening'
    <3>1. active'[w] = {} /\ ~held'[w] /\ ~(disabled'[w] > 0)
      BY <2>1
    <3>2. ASSUME NEW v \in Workers, v # w
          PROVE  /\ active'[v] = active[v] /\ held'[v] = held[v] /\ pc'[v] = pc[v]
                 /\ using'[v] = using[v] /\ disabled'[v] = disabled[v]
      BY <2>1, <3>2
    <3> QED
      BY <3>1, <3>2
  <2>3. \A v \in Workers : Alive(v)' => pending'[v] \subseteq active'[v]
    <3>1. pending[w] = {}
      BY <2>1
    <3> QED
      BY <2>1, <3>1
  <2>4. \A v \in Workers : Alive(v)' /\ pc'[v] # "accept" => pending'[v] = {}
    BY <2>1
  <2> QED
    BY <2>1, <2>2, <2>3, <2>4
<1>4. ASSUME NEW w \in Workers, EnableDone(w) PROVE ListenInv'
  BY <1>4 DEF EnableDone
<1>5. ASSUME NEW w \in Workers, EnableFails(w) PROVE FALSE
  BY <1>5 DEF EnableFails
<1>6. ASSUME NEW w \in Workers, Poll(w) PROVE ListenInv'
  BY <1>6 DEF Poll, Ready
<1>7. ASSUME NEW w \in Workers, PollInterrupted(w) PROVE FALSE
  BY <1>7 DEF PollInterrupted
<1>8. ASSUME NEW w \in Workers, Accept(w) PROVE ListenInv'
  <2>1. CASE AcceptsDone(w)
    BY <2>1 DEF AcceptsDone
  <2>2. CASE \E s \in Sockets : \/ AcceptClient(w, s) \/ AcceptNotReady(w, s)
                                \/ AcceptAborted(w, s) \/ AcceptFails(w, s)
    <3>1. PICK s \in Sockets : \/ AcceptClient(w, s) \/ AcceptNotReady(w, s)
                               \/ AcceptAborted(w, s) \/ AcceptFails(w, s)
      BY <2>2
    <3>2. /\ UNCHANGED <<pc, held, using, active>>
          /\ pc[w] = "accept" /\ s \in pending[w]
          /\ UNCHANGED pending \/ pending' = [pending EXCEPT ![w] = @ \ {s}]
          /\ disabled' \in [Workers -> Int]
          /\ \A v \in Workers \ {w} : disabled'[v] = disabled[v]
      BY <3>1, SizeAssumption DEF AcceptClient, AcceptNotReady, AcceptAborted,
           AcceptFails, HandlerReturns, Threshold
    <3>3. using[w] => held[w] /\ active[w] = Sockets
      BY <3>2
    <3> QED
      BY <3>2, <3>3
  <2> QED
    BY <1>8, <2>1, <2>2 DEF Accept
<1>9. ASSUME NEW w \in Workers, Unlock(w) PROVE ListenInv'
  BY <1>9 DEF Unlock
<1>10. ASSUME NEW w \in Workers, Tail(w) PROVE ListenInv'
  BY <1>10 DEF Tail
<1>11. ASSUME NEW w \in Workers, Quit(w) PROVE ListenInv'
  BY <1>11 DEF Quit
<1>12. ASSUME NEW w \in Workers, Exit(w) PROVE ListenInv'
  BY <1>12 DEF Exit
<1>13. ASSUME NEW w \in Workers, Crash(w) PROVE ListenInv'
  BY <1>13 DEF Crash
<1>14. ASSUME NEW w \in Workers, GetStatus(w) PROVE ListenInv'
  BY <1>14 DEF GetStatus
<1>15. ASSUME NEW w \in Workers, Respawn(w) PROVE ListenInv'
  <2>1. ListensAsHeld' /\ ThresholdKeepsListening'
    <3>1. /\ using'[w] => active'[w] = {}
          /\ ~held'[w] /\ ~(disabled'[w] > 0)
      BY <1>15, SwitchAssumption DEF Respawn
    <3>2. ASSUME NEW v \in Workers, v # w
          PROVE  /\ active'[v] = active[v] /\ held'[v] = held[v] /\ pc'[v] = pc[v]
                 /\ using'[v] = using[v] /\ disabled'[v] = disabled[v]
      BY <1>15, <3>2 DEF Respawn
    <3>3. ListensAsHeld'
      <4>1. ASSUME NEW v \in Workers, Alive(v)', using'[v], pc'[v] # "enable"
            PROVE  active'[v] = IF held'[v] THEN Sockets' ELSE {}
        <5>1. CASE v = w
          BY <3>1, <4>1, <5>1
        <5>2. CASE v # w
          BY <3>2, <4>1, <5>2
        <5> QED
          BY <5>1, <5>2
      <4> QED
        BY <4>1
    <3>4. ThresholdKeepsListening'
      BY <3>1, <3>2
    <3> QED
      BY <3>3, <3>4
  <2>2. \A v \in Workers : Alive(v)' => pending'[v] \subseteq active'[v]
    BY <1>15 DEF Respawn
  <2>3. \A v \in Workers : Alive(v)' /\ pc'[v] # "accept" => pending'[v] = {}
    BY <1>15 DEF Respawn
  <2>4. \A v \in Workers :
          pc'[v] = "enable" => ~held'[v] /\ active'[v] = {} /\ disabled'[v] <= 0
    BY <1>15 DEF Respawn
  <2> QED
    BY <2>1, <2>2, <2>3, <2>4
<1>16. ASSUME NEW s \in Sockets, Connect(s) PROVE ListenInv'
  BY <1>16 DEF Connect
<1>17. CASE UNCHANGED vars
  BY <1>17 DEF vars
<1> QED
  BY <1>1, <1>2, <1>3, <1>4, <1>5, <1>6, <1>7, <1>8, <1>9, <1>10, <1>11, <1>12,
     <1>13, <1>14, <1>15, <1>16, <1>17 DEF Next, Step

LEMMA ListenInvariant ==
  ASSUME MaxFaults = 0
  PROVE  Spec => []ListenInv
<1>1. Init => ListenInv
  BY SwitchAssumption DEF Init, ListenInv, ListensAsHeld, ThresholdKeepsListening, Alive
<1>2. TypeOK /\ ListenInv /\ [Next]_vars => ListenInv'
  BY NextListenInv
<1> QED
  BY <1>1, <1>2, TypeCorrect, PTL DEF Spec

(* As long as no system call fails half way, a worker listens on all       *)
(* sockets or on none, as its ngx_accept_mutex_held says.                  *)
THEOREM HeldListens ==
  ASSUME MaxFaults = 0
  PROVE  Spec => []ListensAsHeld
<1>1. ListenInv => ListensAsHeld
  BY DEF ListenInv
<1> QED
  BY <1>1, ListenInvariant, PTL

(* As long as no system call fails half way, a worker that skips the mutex *)
(* because it is over its threshold listens on all sockets: it cannot fall *)
(* asleep deaf.  For every number of workers, sockets and connections,     *)
(* crashes included.                                                       *)
THEOREM OverThresholdListens ==
  ASSUME MaxFaults = 0
  PROVE  Spec => []ThresholdKeepsListening
<1>1. ListenInv => ThresholdKeepsListening
  BY DEF ListenInv
<1> QED
  BY <1>1, ListenInvariant, PTL

=============================================================================
