--------------------------- MODULE ChannelProofs ---------------------------
(***************************************************************************)
(* Proofs about the channels of the children, for any number of slots and  *)
(* children and any size of the sockets.                                   *)
(***************************************************************************)
EXTENDS Channel, SequenceTheorems, FiniteSetTheorems, TLAPS

-----------------------------------------------------------------------------
(* How many slots of a table name a channel.                               *)

InTable(t, q) == {s \in Slots : t[s] = q}

LEMMA SlotsFinite ==
  ASSUME NEW T \in SUBSET Slots
  PROVE  IsFiniteSet(T) /\ Cardinality(T) \in Nat
<1>1. IsFiniteSet(Slots)
  BY FS_Interval, SizeAssumption DEF Slots
<1> QED BY <1>1, FS_Subset, FS_CardinalityType

LEMMA NamedIs ==
  ASSUME NEW p, NEW q
  PROVE  Named(p, q) = Cardinality(InTable(tab[p], q))
BY DEF Named, InTable

(* One entry of a table changes.                                           *)
LEMMA Renamed ==
  ASSUME NEW t \in [Slots -> Pids \cup {None, GivenUp}], NEW s \in Slots,
         NEW v \in Pids \cup {None, GivenUp}, NEW q
  PROVE  LET u == [t EXCEPT ![s] = v]
             before == Cardinality(InTable(t, q))
             after == Cardinality(InTable(u, q))
         IN  /\ before \in Nat /\ after \in Nat
             /\ v = q /\ t[s] # q => after = before + 1
             /\ v # q /\ t[s] = q => after = before - 1
             /\ (v = q <=> t[s] = q) => after = before
<1> DEFINE u == [t EXCEPT ![s] = v]
<1>1. /\ InTable(t, q) \in SUBSET Slots /\ InTable(u, q) \in SUBSET Slots
      /\ IsFiniteSet(InTable(t, q)) /\ Cardinality(InTable(t, q)) \in Nat
      /\ Cardinality(InTable(u, q)) \in Nat
  BY SlotsFinite DEF InTable
<1>2. ASSUME v = q, t[s] # q PROVE Cardinality(InTable(u, q)) = Cardinality(InTable(t, q)) + 1
  <2>1. InTable(u, q) = InTable(t, q) \cup {s} /\ s \notin InTable(t, q)
    BY <1>2 DEF InTable
  <2> QED BY <1>1, <2>1, FS_AddElement
<1>3. ASSUME v # q, t[s] = q PROVE Cardinality(InTable(u, q)) = Cardinality(InTable(t, q)) - 1
  <2>1. InTable(u, q) = InTable(t, q) \ {s} /\ s \in InTable(t, q)
    BY <1>3 DEF InTable
  <2>2. Cardinality(InTable(t, q) \ {s}) = Cardinality(InTable(t, q)) - 1
    BY <1>1, <2>1, FS_RemoveElement
  <2> QED BY <2>1, <2>2
<1>4. ASSUME v = q <=> t[s] = q PROVE InTable(u, q) = InTable(t, q)
  BY <1>4 DEF InTable
<1> QED BY <1>1, <1>2, <1>3, <1>4

-----------------------------------------------------------------------------
(* Messages *)

LEMMA Written ==
  ASSUME NEW to, NEW m \in Message, queue \in [Pids -> Seq(Message)],
         WriteChannel(to, m)
  PROVE  /\ queue' \in [Pids -> Seq(Message)]
         /\ \A p \in Pids : \/ queue'[p] = queue[p] /\ (p \notin to \/ Full(p))
                            \/ p \in to /\ ~Full(p) /\ queue'[p] = Append(queue[p], m)
<1> DEFINE next(p) == IF p \in to /\ ~Full(p) THEN Append(queue[p], m) ELSE queue[p]
<1>1. \A p \in Pids : queue[p] \in Seq(Message) /\ next(p) \in Seq(Message)
  OBVIOUS
<1>2. queue' = [p \in Pids |-> next(p)]
  BY DEF WriteChannel
<1> QED BY <1>1, <1>2

(* The parts of the invariant about one process are about its channel, its *)
(* slot and its messages.                                                  *)

(* The channel in a slot is that of a process that was started there.      *)
OwnInv ==
  /\ \A s \in Slots : chan[s] # None => child[chan[s]] # "none" /\ own[chan[s]] = s
  /\ \A p \in Pids : child[p] = "none" => queue[p] = <<>>

(* Slots without a process have no channel, and a running child has both.  *)
TableInv ==
  /\ \A s \in Slots : pid[s] = None \/ s >= last => chan[s] = None
  /\ \A p \in Running :
       own[p] < last /\ pid[own[p]] = p /\ chan[own[p]] = p /\ ~exited[own[p]]
  /\ mpc = "told" => ri < last /\ chan[ri] = None

MessageInv ==
  /\ ch.command = Open => ch.fd \in Pids
  /\ \A p \in Pids : \A i \in DOMAIN queue[p] :
       /\ child[p] = "running" => queue[p][i].slot # own[p]
       /\ queue[p][i].command = Open => queue[p][i].fd \in Pids

CountInv == \A p \in Running, q \in Pids : Named(p, q) <= held[p][q]

IInv == TypeOK /\ OwnInv /\ TableInv /\ MessageInv /\ CountInv

-----------------------------------------------------------------------------
(* Types and counts *)

LEMMA ForkCounts ==
  ASSUME TypeOK, NEW s \in Slots, NEW p \in Pids, Fork(s, p)
  PROVE  /\ child' \in [Pids -> {"none", "running", "zombie", "gone"}]
         /\ own' \in [Pids -> Slots]
         /\ tab' \in [Pids -> [Slots -> Pids \cup {None, GivenUp}]]
         /\ held' \in [Pids -> [Pids -> Nat]]
         /\ \A q \in Pids : Cardinality(InTable(tab'[p], q)) = held'[p][q]
         /\ \A r \in Pids \ {p} : tab'[r] = tab[r] /\ held'[r] = held[r]
<1> DEFINE new == [chan EXCEPT ![s] = GivenUp]
           n(q) == Cardinality({t \in Slots \ {s} : chan[t] = q})
<1>1. new \in [Slots -> Pids \cup {None, GivenUp}]
  BY DEF TypeOK
<1>2. \A q \in Pids : n(q) \in Nat /\ n(q) = Cardinality(InTable(new, q))
  <2> SUFFICES ASSUME NEW q \in Pids
               PROVE  n(q) \in Nat /\ n(q) = Cardinality(InTable(new, q))
    OBVIOUS
  <2>1. {t \in Slots \ {s} : chan[t] = q} = InTable(new, q)
    BY DEF InTable, TypeOK, Pids, GivenUp
  <2>2. InTable(new, q) \in SUBSET Slots
    BY DEF InTable
  <2> QED BY <2>1, <2>2, SlotsFinite
<1>3. tab' = [tab EXCEPT ![p] = new] /\ held' = [held EXCEPT ![p] = [q \in Pids |-> n(q)]]
  BY DEF Fork
<1>4. child' = [child EXCEPT ![p] = "running"] /\ own' = [own EXCEPT ![p] = s]
  BY DEF Fork
<1> HIDE DEF new, n
<1>5. tab \in [Pids -> [Slots -> Pids \cup {None, GivenUp}]] /\ held \in [Pids -> [Pids -> Nat]]
      /\ child \in [Pids -> {"none", "running", "zombie", "gone"}]
      /\ own \in [Pids -> Slots]
  BY DEF TypeOK
<1>6. [q \in Pids |-> n(q)] \in [Pids -> Nat]
  BY <1>2
<1>7. tab'[p] = new /\ held'[p] = [q \in Pids |-> n(q)]
  BY <1>3, <1>5
<1> QED BY <1>1, <1>2, <1>3, <1>4, <1>5, <1>6, <1>7

(* What a child reads keeps its entries covered by descriptors; if every   *)
(* channel it opens replaces none, it has no more than that.               *)
LEMMA ReadCounts ==
  ASSUME IInv, NEW p \in Pids, Read(p)
  PROVE  LET m == Head(queue[p]) IN
         /\ m \in Message /\ m.slot # own[p]
         /\ queue' \in [Pids -> Seq(Message)]
         /\ tab' \in [Pids -> [Slots -> Pids \cup {None, GivenUp}]]
         /\ held' \in [Pids -> [Pids -> Nat]]
         /\ \A r \in Pids \ {p} :
              tab'[r] = tab[r] /\ held'[r] = held[r] /\ queue'[r] = queue[r]
         /\ tab'[p] = [tab[p] EXCEPT ![m.slot] = IF m.command = Open THEN m.fd ELSE None]
         /\ \A q \in Pids :
              /\ Cardinality(InTable(tab'[p], q)) <= held'[p][q]
              /\ (m.command = Open => tab[p][m.slot] = None)
                 /\ held[p][q] = Named(p, q)
                   => held'[p][q] = Cardinality(InTable(tab'[p], q))
<1> DEFINE m == Head(queue[p])
           v == IF m.command = Open THEN m.fd ELSE None
           old == tab[p][m.slot]  \* what the message replaces
<1>1. /\ queue[p] \in Seq(Message) /\ queue[p] # <<>> /\ p \in Running
      /\ queue' = [queue EXCEPT ![p] = Tail(@)] /\ queue \in [Pids -> Seq(Message)]
      /\ tab \in [Pids -> [Slots -> Pids \cup {None, GivenUp}]]
      /\ held \in [Pids -> [Pids -> Nat]]
  BY DEF IInv, TypeOK, Read
<1>2. m \in Message /\ m = queue[p][1] /\ 1 \in DOMAIN queue[p] /\ Tail(queue[p]) \in Seq(Message)
  BY <1>1
<1>3. m.slot # own[p] /\ (m.command = Open => m.fd \in Pids)
  BY <1>1, <1>2 DEF IInv, MessageInv, Running
<1>4. /\ m.slot \in Slots /\ v \in Pids \cup {None, GivenUp} /\ m.command \in {Open, Close}
      /\ old \in Pids \cup {None, GivenUp} /\ Open # Close
  BY <1>1, <1>2 DEF Message, Open, Close
<1>5. \/ m.command = Open /\ OpenChannel(p, m)
      \/ m.command = Close /\ CloseChannel(p, m)
  BY DEF Read
<1>6. tab' = [tab EXCEPT ![p] = [tab[p] EXCEPT ![m.slot] = v]]
  BY <1>1, <1>4, <1>5 DEF OpenChannel, CloseChannel
<1>7. \A q \in Pids : Named(p, q) <= held[p][q] /\ held[p][q] \in Nat
  BY <1>1 DEF IInv, CountInv
<1>8. CASE m.command = Open
  <2>1. v = m.fd /\ m.fd \in Pids /\ held' = [held EXCEPT ![p][m.fd] = @ + 1]
    BY <1>3, <1>4, <1>5, <1>8 DEF OpenChannel
  <2>2. held' \in [Pids -> [Pids -> Nat]]
        /\ \A q \in Pids : held'[p][q] = IF q = m.fd THEN held[p][q] + 1 ELSE held[p][q]
    BY <1>1, <2>1
  <2>3. ASSUME NEW q \in Pids
        PROVE  /\ Cardinality(InTable(tab'[p], q)) <= held'[p][q]
               /\ old = None /\ held[p][q] = Named(p, q)
                  => held'[p][q] = Cardinality(InTable(tab'[p], q))
    <3>1. tab[p] \in [Slots -> Pids \cup {None, GivenUp}]
          /\ tab'[p] = [tab[p] EXCEPT ![m.slot] = v]
      BY <1>1, <1>6
    <3>2. /\ Cardinality(InTable(tab[p], q)) \in Nat
          /\ Cardinality(InTable(tab'[p], q)) \in Nat
          /\ v = q /\ old # q => Cardinality(InTable(tab'[p], q)) = Cardinality(InTable(tab[p], q)) + 1
          /\ v # q /\ old = q => Cardinality(InTable(tab'[p], q)) = Cardinality(InTable(tab[p], q)) - 1
          /\ (v = q <=> old = q) => Cardinality(InTable(tab'[p], q)) = Cardinality(InTable(tab[p], q))
      <4> DEFINE t == tab[p]
                 i == m.slot
      <4>1. t \in [Slots -> Pids \cup {None, GivenUp}] /\ i \in Slots
            /\ v \in Pids \cup {None, GivenUp}
        BY <1>4, <3>1
      <4>2. tab'[p] = [t EXCEPT ![i] = v] /\ old = t[i]
        BY <3>1
      <4> HIDE DEF t, i, v, old
      <4>3. LET u == [t EXCEPT ![i] = v]
                before == Cardinality(InTable(t, q))
                after == Cardinality(InTable(u, q))
            IN  /\ before \in Nat /\ after \in Nat
                /\ v = q /\ t[i] # q => after = before + 1
                /\ v # q /\ t[i] = q => after = before - 1
                /\ (v = q <=> t[i] = q) => after = before
        BY <4>1, Renamed
      <4> QED BY <4>2, <4>3 DEF t
    <3>3. None # q
      BY DEF None, Pids
    <3> HIDE DEF m, v, old
    <3> QED BY <1>7, <2>1, <2>2, <3>2, <3>3, NamedIs
  <2> QED BY <1>1, <1>2, <1>3, <1>4, <1>6, <1>8, <2>1, <2>2, <2>3
<1>9. CASE m.command = Close
  <2>1. v = None /\ held' = IF old \in Pids THEN [held EXCEPT ![p][old] = @ - 1] ELSE held
    BY <1>4, <1>5, <1>9 DEF CloseChannel
  <2>2. ASSUME NEW q \in Pids
        PROVE  /\ held'[p][q] = IF old = q THEN held[p][q] - 1 ELSE held[p][q]
               /\ held'[p][q] \in Nat
               /\ Cardinality(InTable(tab'[p], q)) <= held'[p][q]
               /\ held[p][q] = Named(p, q) => held'[p][q] = Cardinality(InTable(tab'[p], q))
    <3>1. tab[p] \in [Slots -> Pids \cup {None, GivenUp}]
          /\ tab'[p] = [tab[p] EXCEPT ![m.slot] = v]
      BY <1>1, <1>6
    <3>2. /\ Cardinality(InTable(tab[p], q)) \in Nat
          /\ Cardinality(InTable(tab'[p], q)) \in Nat
          /\ v # q /\ old = q => Cardinality(InTable(tab'[p], q)) = Cardinality(InTable(tab[p], q)) - 1
          /\ (v = q <=> old = q) => Cardinality(InTable(tab'[p], q)) = Cardinality(InTable(tab[p], q))
      <4> DEFINE t == tab[p]
                 i == m.slot
      <4>1. t \in [Slots -> Pids \cup {None, GivenUp}] /\ i \in Slots
            /\ v \in Pids \cup {None, GivenUp}
        BY <1>4, <3>1
      <4>2. tab'[p] = [t EXCEPT ![i] = v] /\ old = t[i]
        BY <3>1
      <4> HIDE DEF t, i, v, old
      <4>3. LET u == [t EXCEPT ![i] = v]
                before == Cardinality(InTable(t, q))
                after == Cardinality(InTable(u, q))
            IN  /\ before \in Nat /\ after \in Nat
                /\ v = q /\ t[i] # q => after = before + 1
                /\ v # q /\ t[i] = q => after = before - 1
                /\ (v = q <=> t[i] = q) => after = before
        BY <4>1, Renamed
      <4> QED BY <4>2, <4>3 DEF t
    <3>3. None # q
      BY DEF None, Pids
    <3>4. held'[p][q] = IF old = q THEN held[p][q] - 1 ELSE held[p][q]
      <4> HIDE DEF m, old
      <4> QED BY <1>1, <2>1
    <3> HIDE DEF m, v, old
    <3> QED BY <1>7, <2>1, <3>2, <3>3, <3>4, NamedIs
  <2>3. held' \in [Pids -> [Pids -> Nat]] /\ \A r \in Pids \ {p} : held'[r] = held[r]
    <3>1. held' \in [Pids -> [Pids -> Int]] /\ \A r \in Pids \ {p} : held'[r] = held[r]
      <4> HIDE DEF m, old
      <4> QED BY <1>1, <2>1
    <3>2. \A r, q \in Pids : held'[r][q] \in Nat
      BY <1>1, <2>2, <3>1
    <3> QED BY <3>1, <3>2
  <2>4. m.command # Open
    BY <1>9 DEF Open, Close
  <2> HIDE DEF m, v, old
  <2>5. tab' \in [Pids -> [Slots -> Pids \cup {None, GivenUp}]]
        /\ tab'[p] = [tab[p] EXCEPT ![m.slot] = v]
        /\ \A r \in Pids \ {p} : tab'[r] = tab[r]
    BY <1>1, <1>4, <1>6
  <2>6. queue' \in [Pids -> Seq(Message)] /\ \A r \in Pids \ {p} : queue'[r] = queue[r]
    BY <1>1, <1>2
  <2> QED BY <1>2, <1>3, <2>2, <2>3, <2>5, <2>6 DEF m, v, old
<1> QED BY <1>8, <1>9, <1>4

-----------------------------------------------------------------------------
(* The steps of the master *)

LEMMA SpawnKeeps ==
  ASSUME IInv, NEW s \in Slots, NEW p \in Pids, SpawnInto(s, p), chan[s] = None
  PROVE  /\ pid' \in [Slots -> Pids \cup {None}] /\ chan' \in [Slots -> Pids \cup {None}]
         /\ exited' \in [Slots -> BOOLEAN]
         /\ child' \in [Pids -> {"none", "running", "zombie", "gone"}]
         /\ own' \in [Pids -> Slots]
         /\ tab' \in [Pids -> [Slots -> Pids \cup {None, GivenUp}]]
         /\ held' \in [Pids -> [Pids -> Nat]]
         /\ queue' \in [Pids -> Seq(Message)] /\ missed' \subseteq Pids \X Slots
         /\ OwnInv' /\ CountInv'
         /\ p \notin Running /\ Running' = Running \cup {p}
         /\ Running \subseteq Siblings(s, p) /\ own'[p] = s /\ queue'[p] = <<>>
         /\ \A r \in Running : own'[r] = own[r] /\ own[r] # s
         /\ \A q \in Pids : \A i \in DOMAIN queue'[q] :
              /\ child'[q] = "running" => queue'[q][i].slot # own'[q]
              /\ queue'[q][i].command = Open => queue'[q][i].fd \in Pids
<1> DEFINE m == [command |-> Open, slot |-> s, fd |-> p]
           to == Siblings(s, p)
<1>1. TypeOK /\ Fresh(p) /\ Fork(s, p) /\ WriteChannel(to, m)
      /\ missed' = missed \cup Misled(to, m, FALSE)
      /\ pid' = [pid EXCEPT ![s] = p] /\ chan' = [chan EXCEPT ![s] = p]
      /\ exited' = [exited EXCEPT ![s] = FALSE]
  BY DEF IInv, SpawnInto, PassOpenChannel
<1>2. m \in Message /\ m.slot = s /\ m.command = Open /\ m.fd = p
  BY DEF Message
<1>3. /\ pid' \in [Slots -> Pids \cup {None}] /\ chan' \in [Slots -> Pids \cup {None}]
      /\ exited' \in [Slots -> BOOLEAN]
  BY <1>1 DEF TypeOK
<1>4. child[p] = "none" /\ queue[p] = <<>> /\ p \notin Running
      /\ child' = [child EXCEPT ![p] = "running"] /\ own' = [own EXCEPT ![p] = s]
  BY <1>1 DEF Fresh, Fork, IInv, OwnInv, Running
<1>5. Running' = Running \cup {p} /\ own'[p] = s /\ p # None
  BY <1>1, <1>4 DEF Running, TypeOK, None, Pids
<1>6. \A t \in Slots : chan[t] # None => chan[t] # p /\ own[chan[t]] = t /\ child[chan[t]] # "none"
  BY <1>4 DEF IInv, OwnInv
<1>7. p \notin to /\ \A r \in to : own[r] # s /\ r \in Running
  BY <1>4, <1>6 DEF Siblings, Used, IInv, TypeOK, Running, Pids, None
<1>8. ASSUME NEW r \in Running PROVE own'[r] = own[r] /\ own[r] # s /\ r \in to
  <2>1. r \in Pids /\ r # p /\ r # None
    BY <1>4 DEF Running, None, Pids
  <2>2. own[r] < last /\ pid[own[r]] = r /\ chan[own[r]] = r
    BY DEF IInv, TableInv
  <2>3. own[r] \in Slots /\ own'[r] = own[r]
    BY <1>1, <1>4, <2>1 DEF TypeOK
  <2> QED BY <2>1, <2>2, <2>3 DEF Siblings, Used
<1> HIDE DEF m, to
<1>9. /\ queue' \in [Pids -> Seq(Message)]
      /\ \A q \in Pids : \/ queue'[q] = queue[q]
                         \/ q \in to /\ queue'[q] = Append(queue[q], m)
  BY <1>1, <1>2, Written DEF TypeOK
<1>10. queue'[p] = <<>>
  BY <1>4, <1>7, <1>9
<1>11. missed' \subseteq Pids \X Slots
  BY <1>1, <1>2 DEF Misled, to, Siblings, Running, TypeOK
<1>12. OwnInv'
  <2>1. ASSUME NEW t \in Slots, chan'[t] # None PROVE child'[chan'[t]] # "none" /\ own'[chan'[t]] = t
    BY <1>1, <1>4, <1>5, <1>6, <2>1 DEF TypeOK
  <2>2. ASSUME NEW q \in Pids, child'[q] = "none" PROVE queue'[q] = <<>>
    <3>1. q # p /\ child[q] = "none"
      BY <1>1, <1>4, <2>2 DEF TypeOK
    <3>2. q \notin to
      BY <1>7, <3>1 DEF Running
    <3> QED BY <1>9, <3>1, <3>2 DEF IInv, OwnInv
  <2> QED BY <2>1, <2>2 DEF OwnInv
<1>13. /\ tab' \in [Pids -> [Slots -> Pids \cup {None, GivenUp}]]
       /\ held' \in [Pids -> [Pids -> Nat]]
       /\ child' \in [Pids -> {"none", "running", "zombie", "gone"}] /\ own' \in [Pids -> Slots]
       /\ \A q \in Pids : Cardinality(InTable(tab'[p], q)) = held'[p][q]
       /\ \A r \in Pids \ {p} : tab'[r] = tab[r] /\ held'[r] = held[r]
  BY <1>1, ForkCounts
<1>14. CountInv'
  <2> SUFFICES ASSUME NEW r \in Running', NEW q \in Pids
               PROVE  Cardinality(InTable(tab'[r], q)) <= held'[r][q]
    BY DEF CountInv, Named, InTable
  <2>1. CASE r = p
    BY <1>13, <2>1
  <2>2. CASE r # p
    <3>1. r \in Running /\ r \in Pids \ {p}
      BY <1>5, <2>2 DEF Running
    <3>2. Cardinality(InTable(tab[r], q)) <= held[r][q]
      BY <3>1, NamedIs DEF IInv, CountInv
    <3> QED BY <1>13, <3>1, <3>2
  <2> QED BY <2>1, <2>2
<1>15. ASSUME NEW q \in Pids, NEW i \in DOMAIN queue'[q]
       PROVE  /\ child'[q] = "running" => queue'[q][i].slot # own'[q]
              /\ queue'[q][i].command = Open => queue'[q][i].fd \in Pids
  <2>1. q # p /\ own'[q] = own[q] /\ child'[q] = child[q]
    BY <1>1, <1>4, <1>10 DEF TypeOK
  <2>2. \A j \in DOMAIN queue[q] :
              /\ child[q] = "running" => queue[q][j].slot # own[q]
              /\ queue[q][j].command = Open => queue[q][j].fd \in Pids
    BY DEF IInv, MessageInv
  <2>3. CASE queue'[q] = queue[q]
    BY <2>1, <2>2, <2>3
  <2>4. CASE q \in to /\ queue'[q] = Append(queue[q], m)
    <3>1. \/ i \in DOMAIN queue[q] /\ queue'[q][i] = queue[q][i]
          \/ queue'[q][i] = m
      BY <1>1, <2>4 DEF TypeOK
    <3> QED BY <1>2, <1>7, <2>1, <2>2, <2>4, <3>1
  <2> QED BY <1>9, <2>3, <2>4
<1> QED BY <1>3, <1>4, <1>5, <1>8, <1>9, <1>10, <1>11, <1>12, <1>13, <1>14, <1>15 DEF to

(* The others of a process that is gone are all that run.                  *)
LEMMA OthersAreAll ==
  ASSUME IInv, NEW s \in Slots, exited[s]
  PROVE  Others(s) = Running /\ \A r \in Running : own[r] # s
<1>1. ASSUME NEW r \in Running PROVE r \in Others(s) /\ own[r] # s
  <2>1. r \in Pids /\ r # None /\ own[r] \in Slots
    BY DEF IInv, TypeOK, Running, None, Pids
  <2>2. own[r] < last /\ pid[own[r]] = r /\ chan[own[r]] = r /\ ~exited[own[r]]
    BY DEF IInv, TableInv
  <2> QED BY <2>1, <2>2 DEF Others, Used
<1> QED BY <1>1 DEF Others

LEMMA TellKeeps ==
  ASSUME IInv, NEW s \in Slots, ReapTell(s)
  PROVE  IInv'
<1> DEFINE m == [command |-> ch.command, slot |-> s, fd |-> ch.fd]
           to == Others(s)
<1>1. /\ TypeOK /\ ReapAt(s) /\ exited[s] /\ chan' = [chan EXCEPT ![s] = None]
      /\ WriteChannel(to, m) /\ missed' = missed \cup Misled(to, m, ch.command = Open)
      /\ mpc' = "told"
      /\ UNCHANGED <<pid, exited, last, ri, ch, child, own, tab, held>>
  BY DEF ReapTell, IInv
<1>2. m \in Message /\ m.slot = s /\ (m.command = Open => m.fd \in Pids)
  BY <1>1 DEF Message, TypeOK, IInv, MessageInv
<1>3. to = Running /\ \A r \in Running : own[r] # s
  BY <1>1, OthersAreAll
<1> HIDE DEF m, to
<1>4. /\ queue' \in [Pids -> Seq(Message)]
      /\ \A q \in Pids : \/ queue'[q] = queue[q]
                         \/ q \in to /\ queue'[q] = Append(queue[q], m)
  BY <1>1, <1>2, Written DEF TypeOK
<1>5. TypeOK'
  <2>1. missed' \subseteq Pids \X Slots
    BY <1>1, <1>2, <1>3 DEF Misled, Running, TypeOK
  <2> QED BY <1>1, <1>4, <2>1 DEF TypeOK
<1>6. OwnInv'
  BY <1>1, <1>3, <1>4 DEF OwnInv, IInv, TypeOK, Running
<1>7. TableInv'
  <2>1. Running' = Running /\ \A r \in Running : own[r] \in Slots
    BY <1>1 DEF Running, TypeOK
  <2>2. s = ri /\ s < last
    BY <1>1 DEF ReapAt
  <2> QED BY <1>1, <1>3, <2>1, <2>2 DEF TableInv, IInv, TypeOK
<1>8. MessageInv'
  <2> SUFFICES ASSUME NEW q \in Pids, NEW i \in DOMAIN queue'[q]
               PROVE  /\ child[q] = "running" => queue'[q][i].slot # own[q]
                      /\ queue'[q][i].command = Open => queue'[q][i].fd \in Pids
    BY <1>1 DEF MessageInv, IInv
  <2>1. \/ i \in DOMAIN queue[q] /\ queue'[q][i] = queue[q][i]
        \/ q \in to /\ queue'[q][i] = m
    <3>1. queue[q] \in Seq(Message)
      BY <1>1 DEF TypeOK
    <3>2. CASE queue'[q] = queue[q]
      BY <3>2
    <3>3. CASE q \in to /\ queue'[q] = Append(queue[q], m)
      BY <3>1, <3>3
    <3> QED BY <1>4, <3>2, <3>3
  <2> QED BY <1>2, <1>3, <2>1 DEF IInv, MessageInv
<1>9. CountInv'
  BY <1>1 DEF CountInv, IInv, Running, Named
<1> QED BY <1>5, <1>6, <1>7, <1>8, <1>9 DEF IInv

-----------------------------------------------------------------------------
(* The invariant *)

LEMMA InitOK == Init => IInv
<1> SUFFICES ASSUME Init PROVE IInv
  OBVIOUS
<1>1. TypeOK
  BY SizeAssumption DEF Init, TypeOK, Slots, Pids, None, Nothing, NoFds, Open, Close
<1>2. Running = {} /\ OwnInv /\ TableInv
  BY DEF Init, Running, OwnInv, TableInv, Nothing, None
<1>3. MessageInv
  BY DEF Init, MessageInv, Open, Close
<1> QED BY <1>1, <1>2, <1>3 DEF IInv, CountInv

LEMMA Numbers ==
  ASSUME TypeOK
  PROVE  /\ MaxProcesses \in Nat /\ last \in Nat /\ last <= MaxProcesses
         /\ ri \in Nat /\ ri <= MaxProcesses
         /\ \A s \in Slots : s \in Nat /\ s < MaxProcesses
BY SizeAssumption DEF TypeOK, Slots

LEMMA NextOK == IInv /\ [Next]_vars => IInv'
<1> SUFFICES ASSUME IInv, [Next]_vars PROVE IInv'
  OBVIOUS
<1> USE DEF IInv
<1>1. CASE Sigsuspend
  <2> DEFINE dead == {p \in Pids : child[p] = "zombie"}
  <2>1. /\ exited' = [s \in Slots |-> exited[s] \/ (s \in Used /\ pid[s] \in dead)]
        /\ child' = [p \in Pids |-> IF p \in dead THEN "gone" ELSE child[p]]
        /\ mpc' = "reap" /\ ri' = 0 /\ ch' = [command |-> Close, fd |-> None]
        /\ UNCHANGED <<pid, chan, last, own, tab, held, queue, missed>>
    BY <1>1 DEF Sigsuspend
  <2>2. TypeOK'
    BY <2>1, SizeAssumption DEF TypeOK
  <2>3. \A p \in Pids : /\ child'[p] = "none" <=> child[p] = "none"
                        /\ child'[p] = "running" <=> child[p] = "running"
                        /\ child[p] = "running" => p \notin dead
    BY <2>1
  <2>4. Running' = Running
    BY <2>3 DEF Running
  <2>5. OwnInv'
    BY <2>1, <2>3 DEF OwnInv, TypeOK
  <2>6. \A r \in Running : own[r] \in Slots /\ r \in Pids /\ r \notin dead
    BY DEF Running, TypeOK
  <2>7. TableInv'
    BY <2>1, <2>4, <2>6 DEF TableInv
  <2>8. MessageInv'
    BY <2>1, <2>3 DEF MessageInv, Open, Close
  <2>9. CountInv'
    BY <2>1, <2>4 DEF CountInv, Named
  <2> QED BY <2>2, <2>5, <2>7, <2>8, <2>9
<1>2. CASE ReapDone
  BY <1>2 DEF ReapDone, master, children, TypeOK, OwnInv, TableInv, MessageInv, CountInv, Named,
              Running
<1>3. ASSUME NEW s \in Slots, ReapSkip(s) PROVE IInv'
  <2>1. ri' \in 0 .. MaxProcesses /\ mpc = "reap" /\ UNCHANGED <<master, mpc, ch, children>>
    BY <1>3, Numbers DEF ReapSkip, ReapAt
  <2> QED BY <2>1 DEF master, children, TypeOK, OwnInv, TableInv, MessageInv, CountInv, Named,
                      Running
<1>4. ASSUME NEW s \in Slots, ReapTell(s) PROVE IInv'
  BY <1>4, TellKeeps
<1>5. ASSUME NEW s \in Slots, ReapRemove(s) PROVE IInv'
  <2>1. /\ mpc = "told" /\ s = ri /\ mpc' = "reap" /\ ri' = ri + 1
        /\ UNCHANGED <<chan, exited, ch, child, own, tab, held, queue, missed>>
        /\ \/ s = last - 1 /\ last' = last - 1 /\ pid' = pid
           \/ s # last - 1 /\ pid' = [pid EXCEPT ![s] = None] /\ last' = last
    BY <1>5 DEF ReapRemove, children
  <2>2. s < last /\ chan[s] = None /\ s \in Nat /\ s < MaxProcesses
    BY <2>1, Numbers DEF TableInv
  <2>3. TypeOK'
    <3>1. last' \in 0 .. MaxProcesses /\ ri' \in 0 .. MaxProcesses
      BY <2>1, <2>2, Numbers
    <3>2. pid' \in [Slots -> Pids \cup {None}]
      BY <2>1 DEF TypeOK
    <3> QED BY <2>1, <3>1, <3>2 DEF TypeOK
  <2>4. Running' = Running /\ \A r \in Running : own[r] \in Slots /\ r # None
    BY <2>1 DEF Running, TypeOK, Pids, None
  <2>5. TableInv'
    <3>1. \A t \in Slots : pid'[t] = None \/ t >= last' => chan[t] = None
      <4> SUFFICES ASSUME NEW t \in Slots, pid'[t] = None \/ t >= last' PROVE chan[t] = None
        OBVIOUS
      <4>1. t = s \/ pid[t] = None \/ t >= last
        BY <2>1, <2>2, Numbers DEF TypeOK
      <4> QED BY <2>2, <4>1 DEF TableInv
    <3>2. \A r \in Running : own[r] # s
      BY <2>2, <2>4 DEF TableInv
    <3>3. \A r \in Running : own[r] < last' /\ pid'[own[r]] = r
      <4> SUFFICES ASSUME NEW r \in Running PROVE own[r] < last' /\ pid'[own[r]] = r
        OBVIOUS
      <4>1. own[r] < last /\ pid[own[r]] = r /\ own[r] # s /\ own[r] \in Slots
        BY <2>4, <3>2 DEF TableInv
      <4>2. own[r] < last'
        BY <2>1, <4>1, Numbers
      <4>3. pid'[own[r]] = pid[own[r]]
        BY <2>1, <4>1 DEF TypeOK
      <4> QED BY <4>1, <4>2, <4>3
    <3> QED BY <2>1, <2>4, <3>1, <3>3 DEF TableInv
  <2> QED BY <2>1, <2>3, <2>4, <2>5 DEF OwnInv, MessageInv, CountInv, Named
<1>6. ASSUME NEW s \in Slots, NEW p \in Pids, Spawn(s, p) PROVE IInv'
  <2>1. /\ mpc = "sleep" /\ NewSlot(s) /\ SpawnInto(s, p) /\ UNCHANGED <<mpc, ri, ch>>
        /\ last' = IF s = last THEN last + 1 ELSE last
    BY <1>6 DEF Spawn, reaping
  <2>2. chan[s] = None
    BY <2>1, Numbers DEF NewSlot, TableInv
  <2>3. last' \in 0 .. MaxProcesses /\ s < last' /\ last <= last' /\ last \in Nat
    BY <2>1, Numbers DEF NewSlot
  <2> TypeOK'
    <3>1. /\ pid' \in [Slots -> Pids \cup {None}] /\ chan' \in [Slots -> Pids \cup {None}]
          /\ exited' \in [Slots -> BOOLEAN]
          /\ child' \in [Pids -> {"none", "running", "zombie", "gone"}]
          /\ own' \in [Pids -> Slots]
          /\ tab' \in [Pids -> [Slots -> Pids \cup {None, GivenUp}]]
          /\ held' \in [Pids -> [Pids -> Nat]]
          /\ queue' \in [Pids -> Seq(Message)] /\ missed' \subseteq Pids \X Slots
      BY <2>1, <2>2, SpawnKeeps
    <3> QED BY <2>1, <2>3, <3>1 DEF TypeOK
  <2>4. TableInv'
    <3>1. /\ pid' = [pid EXCEPT ![s] = p] /\ chan' = [chan EXCEPT ![s] = p]
          /\ exited' = [exited EXCEPT ![s] = FALSE] /\ p # None
      BY <2>1 DEF SpawnInto, Pids, None
    <3>2. \A t \in Slots : pid'[t] = None \/ t >= last' => chan'[t] = None
      <4> SUFFICES ASSUME NEW t \in Slots, pid'[t] = None \/ t >= last' PROVE chan'[t] = None
        OBVIOUS
      <4>1. t # s /\ (pid[t] = None \/ t >= last)
        <5>1. pid'[s] = p /\ (t # s => pid'[t] = pid[t])
          BY <3>1 DEF TypeOK
        <5>2. t >= last' => t # s /\ t >= last
          BY <2>3, Numbers
        <5> QED BY <3>1, <5>1, <5>2
      <4> QED BY <3>1, <4>1 DEF TypeOK, TableInv
    <3>3. /\ Running' = Running \cup {p} /\ own'[p] = s
          /\ \A r \in Running : own'[r] = own[r] /\ own[r] # s /\ own[r] \in Slots
      BY <2>1, <2>2, SpawnKeeps DEF Running, TypeOK
    <3>4. \A r \in Running : /\ own'[r] < last' /\ pid'[own'[r]] = r /\ chan'[own'[r]] = r
                             /\ ~exited'[own'[r]]
      <4> SUFFICES ASSUME NEW r \in Running
                   PROVE  /\ own[r] < last' /\ pid'[own[r]] = r /\ chan'[own[r]] = r
                          /\ ~exited'[own[r]]
        BY <3>3
      <4>1. own[r] < last /\ pid[own[r]] = r /\ chan[own[r]] = r /\ ~exited[own[r]]
            /\ own[r] # s /\ own[r] \in Slots
        BY <3>3 DEF TableInv
      <4>2. own[r] < last'
        BY <2>3, <4>1, Numbers
      <4> QED BY <3>1, <4>1, <4>2 DEF TypeOK
    <3>5. pid'[s] = p /\ chan'[s] = p /\ ~exited'[s]
      BY <3>1 DEF TypeOK
    <3> QED BY <2>1, <2>3, <3>2, <3>3, <3>4, <3>5 DEF TableInv
  <2>5. MessageInv'
    BY <2>1, <2>2, SpawnKeeps DEF MessageInv
  <2> QED BY <2>1, <2>2, <2>3, <2>4, <2>5, SpawnKeeps
<1>7. ASSUME NEW s \in Slots, NEW p \in Pids, ReapRespawn(s, p) PROVE IInv'
  <2>1. /\ mpc = "told" /\ s = ri /\ SpawnInto(s, p) /\ mpc' = "reap" /\ ri' = ri + 1
        /\ ch' = [command |-> Open, fd |-> p] /\ last' = last
    BY <1>7 DEF ReapRespawn
  <2>2. chan[s] = None /\ s < last
    BY <2>1 DEF TableInv
  <2>3. TypeOK'
    <3>1. /\ pid' \in [Slots -> Pids \cup {None}] /\ chan' \in [Slots -> Pids \cup {None}]
          /\ exited' \in [Slots -> BOOLEAN]
          /\ child' \in [Pids -> {"none", "running", "zombie", "gone"}]
          /\ own' \in [Pids -> Slots]
          /\ tab' \in [Pids -> [Slots -> Pids \cup {None, GivenUp}]]
          /\ held' \in [Pids -> [Pids -> Nat]]
          /\ queue' \in [Pids -> Seq(Message)] /\ missed' \subseteq Pids \X Slots
      BY <2>1, <2>2, SpawnKeeps
    <3>2. ri' \in 0 .. MaxProcesses /\ ch' \in [command : {Open, Close}, fd : Pids \cup {None}]
      BY <2>1, <2>2, Numbers
    <3> QED BY <2>1, <3>1, <3>2 DEF TypeOK
  <2>4. TableInv'
    <3>1. /\ pid' = [pid EXCEPT ![s] = p] /\ chan' = [chan EXCEPT ![s] = p]
          /\ exited' = [exited EXCEPT ![s] = FALSE] /\ p # None
      BY <2>1 DEF SpawnInto, Pids, None
    <3>2. \A t \in Slots : pid'[t] = None \/ t >= last' => chan'[t] = None
      BY <2>1, <2>2, <3>1 DEF TypeOK, TableInv, Slots
    <3>3. /\ Running' = Running \cup {p} /\ own'[p] = s
          /\ \A r \in Running : own'[r] = own[r] /\ own[r] # s /\ own[r] \in Slots
      BY <2>1, <2>2, SpawnKeeps DEF Running, TypeOK
    <3>4. \A r \in Running : /\ own'[r] < last' /\ pid'[own'[r]] = r /\ chan'[own'[r]] = r
                             /\ ~exited'[own'[r]]
      BY <2>1, <3>1, <3>3 DEF TableInv, TypeOK, Slots
    <3>5. pid'[s] = p /\ chan'[s] = p /\ ~exited'[s]
      BY <3>1 DEF TypeOK
    <3> QED BY <2>1, <2>2, <3>2, <3>3, <3>4, <3>5 DEF TableInv
  <2>5. MessageInv'
    BY <2>1, <2>2, SpawnKeeps DEF MessageInv
  <2> QED BY <2>1, <2>2, <2>3, <2>4, <2>5, SpawnKeeps
<1>8. ASSUME NEW p \in Pids, Read(p) PROVE IInv'
  <2>1. /\ queue' = [queue EXCEPT ![p] = Tail(@)] /\ queue[p] # <<>> /\ p \in Running
        /\ UNCHANGED <<pid, chan, exited, last, mpc, ri, ch, child, own, missed>>
    BY <1>8 DEF Read, master, reaping
  <2>2. TypeOK' /\ Running' = Running
    BY <1>8, <2>1, ReadCounts DEF TypeOK, Running
  <2>3. \A r \in Pids : \A i \in DOMAIN queue'[r] :
          \E j \in DOMAIN queue[r] : queue'[r][i] = queue[r][j]
    <3> SUFFICES ASSUME NEW r \in Pids, NEW i \in DOMAIN queue'[r]
                 PROVE  \E j \in DOMAIN queue[r] : queue'[r][i] = queue[r][j]
      OBVIOUS
    <3>1. CASE r = p
      <4>1. queue[p] \in Seq(Message) /\ queue'[p] = Tail(queue[p]) /\ queue[p] # <<>>
        BY <2>1 DEF TypeOK
      <4>2. i + 1 \in DOMAIN queue[p] /\ queue'[p][i] = queue[p][i + 1]
        BY <3>1, <4>1
      <4> QED BY <3>1, <4>2
    <3>2. CASE r # p
      BY <2>1, <3>2 DEF TypeOK
    <3> QED BY <3>1, <3>2
  <2>4. OwnInv'
    <3>1. child[p] # "none"
      BY <2>1 DEF Running
    <3> QED BY <2>1, <3>1 DEF OwnInv, TypeOK
  <2>5. MessageInv'
    BY <2>1, <2>3 DEF MessageInv
  <2>6. CountInv'
    <3> SUFFICES ASSUME NEW r \in Running, NEW q \in Pids
                 PROVE  Cardinality(InTable(tab'[r], q)) <= held'[r][q]
      BY <2>2 DEF CountInv, Named, InTable
    <3>1. CASE r = p
      BY <1>8, <3>1, ReadCounts
    <3>2. CASE r # p
      <4>1. tab'[r] = tab[r] /\ held'[r] = held[r]
        BY <1>8, <3>2, ReadCounts DEF Running
      <4> QED BY <4>1, NamedIs DEF CountInv
    <3> QED BY <3>1, <3>2
  <2>7. TableInv'
    BY <2>1, <2>2 DEF TableInv
  <2> QED BY <2>2, <2>4, <2>5, <2>6, <2>7
<1>9. ASSUME NEW p \in Pids, Die(p) PROVE IInv'
  <2>1. /\ child' = [child EXCEPT ![p] = "zombie"]
        /\ tab' = [tab EXCEPT ![p] = Nothing] /\ held' = [held EXCEPT ![p] = NoFds]
        /\ queue' = [queue EXCEPT ![p] = <<>>] /\ missed' = missed \ ({p} \X Slots)
        /\ UNCHANGED <<pid, chan, exited, last, mpc, ri, ch, own>> /\ p \in Running
    BY <1>9 DEF Die, master, reaping
  <2>2. TypeOK'
    BY <2>1 DEF TypeOK, Nothing, NoFds
  <2>3. Running' \subseteq Running /\ Running' \subseteq Pids \ {p}
    BY <2>1 DEF Running, TypeOK
  <2>4. OwnInv'
    BY <2>1 DEF OwnInv, TypeOK, Running
  <2>5. TableInv'
    BY <2>1, <2>3 DEF TableInv
  <2>6. \A q \in Pids : \/ q = p /\ queue'[q] = <<>> /\ child'[q] # "running"
                        \/ queue'[q] = queue[q] /\ child'[q] = child[q]
    BY <2>1 DEF TypeOK
  <2>7. MessageInv'
    BY <2>1, <2>6 DEF MessageInv
  <2>8. CountInv'
    <3>1. \A r \in Running' : tab'[r] = tab[r] /\ held'[r] = held[r] /\ r \in Running
      BY <2>1, <2>3 DEF TypeOK
    <3> QED BY <3>1 DEF CountInv, Named
  <2> QED BY <2>2, <2>4, <2>5, <2>7, <2>8
<1>10. CASE UNCHANGED vars
  BY <1>10 DEF vars, master, reaping, children, TypeOK, OwnInv, TableInv, MessageInv, CountInv,
               Named, Running
<1> QED BY <1>1, <1>2, <1>3, <1>4, <1>5, <1>6, <1>7, <1>8, <1>9, <1>10 DEF Next

LEMMA Invariance == Spec => []IInv
BY InitOK, NextOK, PTL DEF Spec

(* The variables have their types (ngx_process_cycle.c, ngx_channel.c).    *)
THEOREM TypeCorrect == Spec => []TypeOK
<1>1. IInv => TypeOK
  BY DEF IInv
<1> QED BY <1>1, Invariance, PTL

(* A close in ngx_channel_handler takes away a descriptor of the channel   *)
(* that the entry names, and never the entry of the reader itself, for any *)
(* number of slots and messages lost.                                      *)
THEOREM CloseSafe == Spec => []CloseIsSafe
<1>1. IInv => CloseIsSafe
  BY DEF IInv, CloseIsSafe, CountInv, MessageInv, Running
<1> QED BY <1>1, Invariance, PTL

-----------------------------------------------------------------------------
(* What a child was told of a slot.  With its entry v, the messages q it   *)
(* has yet to read and the channel c of the master, for a slot s:          *)

About(q, s) == {i \in DOMAIN q : q[i].slot = s}
Says(m) == IF m.command = Open THEN m.fd ELSE None

(* What it will have read last is the truth, and a channel is opened only  *)
(* where there is none.                                                    *)
Told(q, s, v, c) ==
  /\ About(q, s) = {} => v = c
  /\ \A i \in About(q, s) :
       /\ (\A j \in About(q, s) : j <= i) => Says(q[i]) = c
       /\ q[i].command = Open /\ (\A j \in About(q, s) : j >= i) => v = None
       /\ \A j \in About(q, s) :
            q[j].command = Open /\ i < j /\ (\A k \in About(q, s) : k <= i \/ k >= j)
              => q[i].command = Close

LEMMA AboutAppend ==
  ASSUME NEW q \in Seq(Message), NEW m \in Message, NEW s
  PROVE  LET n == Len(q) + 1
             u == Append(q, m)
         IN  /\ n \in Nat /\ u[n] = m
             /\ \A i \in About(q, s) : i \in Nat /\ i < n /\ u[i] = q[i] /\ q[i] \in Message
             /\ m.slot = s => About(u, s) = About(q, s) \cup {n}
             /\ m.slot # s => About(u, s) = About(q, s)
<1> DEFINE n == Len(q) + 1
           u == Append(q, m)
<1>1. n \in Nat /\ u[n] = m /\ DOMAIN q = 1 .. Len(q) /\ DOMAIN u = 1 .. n /\ Len(q) \in Nat
      /\ \A i \in 1 .. Len(q) : u[i] = q[i] /\ q[i] \in Message
  OBVIOUS
<1>2. 1 .. n = (1 .. Len(q)) \cup {n} /\ \A i \in 1 .. Len(q) : i \in Nat /\ i < n
  BY <1>1
<1> HIDE DEF u, n
<1> QED BY <1>1, <1>2 DEF About, u, n

LEMMA ToldMore ==
  ASSUME NEW q \in Seq(Message), NEW m \in Message, NEW s, NEW v, NEW c,
         \A i \in DOMAIN q : q[i].command = Open => q[i].fd \in Pids,
         Told(q, s, v, c), m.slot = s, m.command = Open => c = None
  PROVE  Told(Append(q, m), s, v, Says(m))
<1> DEFINE n == Len(q) + 1
           u == Append(q, m)
           A == About(q, s)
           B == About(u, s)
<1>1. /\ n \in Nat /\ u[n] = m /\ B = A \cup {n}
      /\ \A i \in A : i \in Nat /\ i < n /\ u[i] = q[i] /\ q[i] \in Message
  BY AboutAppend
<1>2. /\ A = {} => v = c
      /\ \A i \in A :
           /\ (\A j \in A : j <= i) => Says(q[i]) = c
           /\ q[i].command = Open /\ (\A j \in A : j >= i) => v = None
           /\ \A j \in A :
                q[j].command = Open /\ i < j /\ (\A k \in A : k <= i \/ k >= j)
                  => q[i].command = Close
  BY DEF Told
<1>3. \A i \in A : q[i].command = Open => q[i].fd \in Pids
  BY DEF About
<1>4. \A i \in A : q[i].command \in {Open, Close}
  BY <1>1 DEF Message
<1>5. \A i \in A : Says(q[i]) = None => q[i].command = Close
  BY <1>3, <1>4 DEF Says, Pids, None
<1>6. B # {} /\ n \in B
  BY <1>1
<1> HIDE DEF n, u, A, B
<1>7. ASSUME NEW i \in B
      PROVE  /\ (\A j \in B : j <= i) => Says(u[i]) = Says(m)
             /\ u[i].command = Open /\ (\A j \in B : j >= i) => v = None
  <2>1. (\A j \in B : j <= i) => i = n
    BY <1>1
  <2>2. CASE i = n
    <3>1. u[i].command = Open /\ (\A j \in B : j >= i) => A = {} /\ c = None
      BY <1>1, <2>2
    <3> QED BY <1>1, <1>2, <2>2, <3>1
  <2>3. CASE i # n
    BY <1>1, <1>2, <2>1, <2>3
  <2> QED BY <2>2, <2>3
<1>8. ASSUME NEW i \in B, NEW j \in B, u[j].command = Open, i < j,
             \A k \in B : k <= i \/ k >= j
      PROVE  u[i].command = Close
  <2>1. i \in A
    BY <1>1, <1>8
  <2>2. CASE j \in A
    BY <1>1, <1>2, <1>8, <2>1, <2>2
  <2>3. CASE j = n
    <3>1. \A k \in A : k <= i
      BY <1>1, <1>8, <2>1, <2>3
    <3>2. Says(q[i]) = c /\ c = None
      BY <1>1, <1>2, <1>8, <2>1, <2>3, <3>1
    <3> QED BY <1>1, <1>5, <2>1, <3>2
  <2> QED BY <1>1, <2>2, <2>3
<1> QED BY <1>6, <1>7, <1>8 DEF Told, u, B

LEMMA AboutOther ==
  ASSUME NEW q \in Seq(Message), NEW m \in Message, NEW s, m.slot # s
  PROVE  /\ About(Append(q, m), s) = About(q, s)
         /\ \A i \in About(q, s) : Append(q, m)[i] = q[i]
<1> DEFINE u == Append(q, m)
<1>1. /\ Len(q) \in Nat /\ DOMAIN q = 1 .. Len(q) /\ DOMAIN u = 1 .. (Len(q) + 1)
      /\ u[Len(q) + 1] = m /\ \A i \in 1 .. Len(q) : u[i] = q[i]
  OBVIOUS
<1>2. 1 .. (Len(q) + 1) = (1 .. Len(q)) \cup {Len(q) + 1}
  BY <1>1
<1> HIDE DEF u
<1> QED BY <1>1, <1>2 DEF About, u

LEMMA ToldOther ==
  ASSUME NEW q \in Seq(Message), NEW m \in Message, NEW s, NEW v, NEW c,
         Told(q, s, v, c), m.slot # s
  PROVE  Told(Append(q, m), s, v, c)
<1> DEFINE u == Append(q, m)
           A == About(q, s)
<1>1. About(u, s) = A /\ \A i \in A : u[i] = q[i]
  BY AboutOther
<1>2. Told(q, s, v, c)
  OBVIOUS
<1> HIDE DEF u
<1>3. Told(u, s, v, c)
  BY <1>1, <1>2 DEF Told
<1> QED BY <1>3 DEF u

LEMMA AboutTail ==
  ASSUME NEW q \in Seq(Message), q # <<>>, NEW s
  PROVE  LET u == Tail(q) IN
         /\ \A i \in About(q, s) : i \in Nat /\ i >= 1 /\ (i > 1 => i - 1 \in About(u, s))
         /\ \A i \in About(u, s) :
              i \in Nat /\ i >= 1 /\ i + 1 \in About(q, s) /\ u[i] = q[i + 1]
         /\ 1 \in About(q, s) <=> Head(q).slot = s
<1> DEFINE u == Tail(q)
<1>1. /\ Len(q) \in Nat /\ Len(q) >= 1 /\ DOMAIN q = 1 .. Len(q) /\ u \in Seq(Message)
      /\ DOMAIN u = 1 .. (Len(q) - 1) /\ Head(q) = q[1]
      /\ \A i \in DOMAIN u : u[i] = q[i + 1]
  OBVIOUS
<1> HIDE DEF u
<1>2. ASSUME NEW i \in About(q, s)
      PROVE  i \in Nat /\ i >= 1 /\ (i > 1 => i - 1 \in About(u, s))
  <2>1. i \in 1 .. Len(q) /\ q[i].slot = s
    BY <1>1 DEF About
  <2>2. ASSUME i > 1 PROVE i - 1 \in About(u, s)
    <3>1. i - 1 \in DOMAIN u /\ (i - 1) + 1 = i
      BY <1>1, <2>1, <2>2
    <3> QED BY <1>1, <2>1, <3>1 DEF About
  <2> QED BY <1>1, <2>1, <2>2
<1>3. ASSUME NEW i \in About(u, s)
      PROVE  i \in Nat /\ i >= 1 /\ i + 1 \in About(q, s) /\ u[i] = q[i + 1]
  <2>1. i \in 1 .. (Len(q) - 1) /\ u[i].slot = s /\ u[i] = q[i + 1]
    BY <1>1 DEF About
  <2> QED BY <1>1, <2>1 DEF About
<1>4. 1 \in About(q, s) <=> Head(q).slot = s
  BY <1>1 DEF About
<1> QED BY <1>2, <1>3, <1>4 DEF u

(* It reads a message about the slot, or about another.                    *)
LEMMA ToldLess ==
  ASSUME NEW q \in Seq(Message), q # <<>>, NEW s, NEW v, NEW c, Told(q, s, v, c)
  PROVE  LET m == Head(q) IN
         /\ Told(Tail(q), s, IF m.slot = s THEN Says(m) ELSE v, c)
         /\ m.slot = s /\ m.command = Open => v = None
<1> DEFINE u == Tail(q)
           A == About(q, s)
           B == About(u, s)
           m == Head(q)
           w == IF m.slot = s THEN Says(m) ELSE v
<1>1. /\ \A i \in A : i \in Nat /\ i >= 1 /\ (i > 1 => i - 1 \in B)
      /\ \A i \in B : i \in Nat /\ i >= 1 /\ i + 1 \in A /\ u[i] = q[i + 1]
      /\ 1 \in A <=> m.slot = s
  BY AboutTail
<1>2. /\ A = {} => v = c
      /\ \A i \in A :
           /\ (\A j \in A : j <= i) => Says(q[i]) = c
           /\ q[i].command = Open /\ (\A j \in A : j >= i) => v = None
           /\ \A j \in A :
                q[j].command = Open /\ i < j /\ (\A k \in A : k <= i \/ k >= j)
                  => q[i].command = Close
  BY DEF Told
<1>3. m = q[1]
  OBVIOUS
<1> HIDE DEF u, A, B, m
<1>4. m.slot = s /\ m.command = Open => v = None
  BY <1>1, <1>2, <1>3
<1>5. B = {} => w = c
  <2> SUFFICES ASSUME B = {} PROVE w = c
    OBVIOUS
  <2>1. \A i \in A : i = 1
    BY <1>1
  <2>2. CASE 1 \in A
    BY <1>1, <1>2, <1>3, <2>1, <2>2
  <2>3. CASE 1 \notin A
    BY <1>1, <1>2, <2>1, <2>3
  <2> QED BY <2>2, <2>3
<1>6. ASSUME NEW i \in B, \A j \in B : j <= i PROVE Says(u[i]) = c
  <2>1. i + 1 \in A /\ u[i] = q[i + 1] /\ i \in Nat
    BY <1>1
  <2>2. \A j \in A : j <= i + 1
    <3> SUFFICES ASSUME NEW j \in A, j > 1 PROVE j <= i + 1
      BY <1>1, <2>1
    <3>1. j - 1 \in B /\ j \in Nat
      BY <1>1
    <3> QED BY <1>6, <2>1, <3>1
  <2> QED BY <1>2, <2>1, <2>2
<1>7. ASSUME NEW i \in B, u[i].command = Open, \A j \in B : j >= i PROVE w = None
  <2>1. i + 1 \in A /\ u[i] = q[i + 1] /\ i \in Nat /\ i >= 1
    BY <1>1
  <2>2. \A j \in A : j = 1 \/ j >= i + 1
    <3> SUFFICES ASSUME NEW j \in A, j > 1 PROVE j >= i + 1
      BY <1>1
    <3>1. j - 1 \in B /\ j \in Nat
      BY <1>1
    <3> QED BY <1>7, <2>1, <3>1
  <2>3. CASE 1 \in A
    <3>1. q[1].command = Close
      BY <1>2, <1>7, <2>1, <2>2, <2>3
    <3> QED BY <1>1, <1>3, <2>3, <3>1 DEF Says, Open, Close
  <2>4. CASE 1 \notin A
    BY <1>1, <1>2, <1>7, <2>1, <2>2, <2>4
  <2> QED BY <2>3, <2>4
<1>8. ASSUME NEW i \in B, NEW j \in B, u[j].command = Open, i < j,
             \A k \in B : k <= i \/ k >= j
      PROVE  u[i].command = Close
  <2>1. /\ i + 1 \in A /\ u[i] = q[i + 1] /\ i \in Nat /\ i >= 1
        /\ j + 1 \in A /\ u[j] = q[j + 1] /\ j \in Nat
    BY <1>1
  <2>2. \A k \in A : k <= i + 1 \/ k >= j + 1
    <3> SUFFICES ASSUME NEW k \in A, k > 1 PROVE k <= i + 1 \/ k >= j + 1
      BY <1>1, <2>1
    <3>1. k - 1 \in B /\ k \in Nat
      BY <1>1
    <3> QED BY <1>8, <2>1, <3>1
  <2>3. i + 1 < j + 1
    BY <1>8, <2>1
  <2> QED BY <1>2, <1>8, <2>1, <2>2, <2>3
<1> HIDE DEF w
<1>9. Told(u, s, w, c)
  BY <1>5, <1>6, <1>7, <1>8 DEF Told, B
<1> QED BY <1>4, <1>9 DEF u, w, m

-----------------------------------------------------------------------------
(* What the children know, and what they hold *)

ToldInv ==
  \A p \in Running, s \in Slots :
    s # own[p] /\ <<p, s>> \notin missed => Told(queue[p], s, tab[p][s], chan[s])

LeakInv == NoLeak

TInv == IInv /\ ToldInv /\ LeakInv

LEMMA ToldNothing ==
  ASSUME NEW s, NEW v
  PROVE  Told(<<>>, s, v, v)
<1>1. About(<<>>, s) = {}
  BY DEF About
<1> QED BY <1>1 DEF Told

(* A message about slot s to all that run.                                 *)
LEMMA ToldAll ==
  ASSUME IInv, ToldInv, NEW m \in Message, WriteChannel(Running, m),
         \A t \in Slots \ {m.slot} : chan'[t] = chan[t],
         NEW p \in Running, NEW s \in Slots, s # own[p], <<p, s>> \notin missed,
         s = m.slot => /\ ~Full(p) /\ chan'[s] = Says(m)
                       /\ m.command = Open => chan[s] = None
  PROVE  Told(queue'[p], s, tab[p][s], chan'[s])
<1>1. queue[p] \in Seq(Message) /\ queue \in [Pids -> Seq(Message)] /\ p \in Pids
  BY DEF IInv, TypeOK, Running
<1>2. \/ queue'[p] = queue[p] /\ Full(p)
      \/ ~Full(p) /\ queue'[p] = Append(queue[p], m)
  BY <1>1, Written
<1>3. Told(queue[p], s, tab[p][s], chan[s])
  BY DEF ToldInv
<1>4. \A i \in DOMAIN queue[p] : queue[p][i].command = Open => queue[p][i].fd \in Pids
  BY <1>1 DEF IInv, MessageInv
<1>5. CASE s = m.slot
  <2>1. ~Full(p) /\ chan'[s] = Says(m) /\ (m.command = Open => chan[s] = None)
    BY <1>5
  <2> DEFINE q == queue[p]
             v == tab[p][s]
             c == chan[s]
  <2> HIDE DEF q, v, c
  <2>3. Told(Append(q, m), s, v, Says(m))
    BY <1>1, <1>3, <1>4, <1>5, <2>1, ToldMore DEF q, v, c
  <2> QED BY <1>2, <1>5, <2>1, <2>3 DEF q, v
<1>6. CASE s # m.slot
  <2>1. chan'[s] = chan[s]
    BY <1>6
  <2> DEFINE q == queue[p]
             v == tab[p][s]
             c == chan[s]
  <2> HIDE DEF q, v, c
  <2>2. Told(Append(q, m), s, v, c)
    BY <1>1, <1>3, <1>6, ToldOther DEF q, v, c
  <2> QED BY <1>2, <1>3, <2>1, <2>2 DEF q, v, c
<1> QED BY <1>5, <1>6

LEMMA SpawnTells ==
  ASSUME TInv, NEW s \in Slots, NEW p \in Pids, SpawnInto(s, p), chan[s] = None
  PROVE  ToldInv' /\ LeakInv'
<1> DEFINE m == [command |-> Open, slot |-> s, fd |-> p]
<1>1. /\ Fork(s, p) /\ WriteChannel(Siblings(s, p), m)
      /\ missed' = missed \cup Misled(Siblings(s, p), m, FALSE)
      /\ chan' = [chan EXCEPT ![s] = p]
  BY DEF SpawnInto, PassOpenChannel
<1>2. m \in Message /\ m.slot = s /\ m.command = Open /\ m.fd = p /\ Says(m) = p
  BY DEF Message, Says
<1> HIDE DEF m
<1>3. /\ p \notin Running /\ Running' = Running \cup {p}
      /\ Running \subseteq Siblings(s, p) /\ own'[p] = s /\ queue'[p] = <<>>
      /\ \A r \in Running : own'[r] = own[r] /\ own[r] # s
      /\ chan' \in [Slots -> Pids \cup {None}]
  BY SpawnKeeps DEF TInv
<1>4. Siblings(s, p) = Running
  BY <1>3 DEF Siblings
<1>5. chan'[s] = p /\ \A t \in Slots \ {s} : chan'[t] = chan[t]
  BY <1>1 DEF TInv, IInv, TypeOK
<1>6. /\ \A q \in Pids : Cardinality(InTable(tab'[p], q)) = held'[p][q]
      /\ \A r \in Pids \ {p} : tab'[r] = tab[r] /\ held'[r] = held[r]
  BY <1>1, ForkCounts DEF TInv, IInv
<1>7. \A t \in Slots \ {s} : tab'[p][t] = chan[t]
  BY <1>1 DEF Fork, TInv, IInv, TypeOK
<1>8. ToldInv'
  <2> SUFFICES ASSUME NEW r \in Running', NEW t \in Slots, t # own'[r], <<r, t>> \notin missed'
               PROVE  Told(queue'[r], t, tab'[r][t], chan'[t])
    BY DEF ToldInv
  <2>1. CASE r = p
    BY <1>3, <1>5, <1>7, <2>1, ToldNothing
  <2>2. CASE r # p
    <3>1. r \in Running /\ t # own[r] /\ tab'[r] = tab[r]
      BY <1>3, <1>6, <2>2 DEF Running
    <3>2. <<r, t>> \notin missed /\ (t = s => ~Full(r) /\ chan'[t] = Says(m))
      BY <1>1, <1>2, <1>4, <1>5, <3>1 DEF Misled
    <3>3. IInv /\ ToldInv /\ WriteChannel(Running, m)
      BY <1>1, <1>4 DEF TInv
    <3>4. Told(queue'[r], t, tab[r][t], chan'[t])
      BY <1>2, <1>5, <3>1, <3>2, <3>3, ToldAll
    <3> QED BY <3>1, <3>4
  <2> QED BY <2>1, <2>2
<1>9. LeakInv'
  <2> SUFFICES ASSUME NEW r \in Running', \A t \in Slots : <<r, t>> \notin missed', NEW q \in Pids
               PROVE  held'[r][q] = Cardinality(InTable(tab'[r], q))
    BY DEF LeakInv, NoLeak, Named, InTable
  <2>1. CASE r = p
    BY <1>6, <2>1
  <2>2. CASE r # p
    <3>1. r \in Running /\ r \in Pids /\ tab'[r] = tab[r] /\ held'[r] = held[r]
      BY <1>3, <1>6, <2>2 DEF Running
    <3>2. held[r][q] = Named(r, q)
      BY <1>1, <3>1 DEF TInv, LeakInv, NoLeak
    <3> QED BY <3>1, <3>2, NamedIs
  <2> QED BY <2>1, <2>2
<1> QED BY <1>8, <1>9

LEMMA TellTells ==
  ASSUME TInv, NEW s \in Slots, ReapTell(s)
  PROVE  ToldInv' /\ LeakInv'
<1> DEFINE m == [command |-> ch.command, slot |-> s, fd |-> ch.fd]
           stale == ch.command = Open
<1>1. /\ exited[s] /\ chan' = [chan EXCEPT ![s] = None]
      /\ WriteChannel(Others(s), m) /\ missed' = missed \cup Misled(Others(s), m, stale)
      /\ UNCHANGED <<child, own, tab, held>>
  BY DEF ReapTell
<1>2. /\ m \in Message /\ m.slot = s /\ m.command = ch.command
      /\ ~stale => Says(m) = None
  BY DEF Message, Says, TInv, IInv, TypeOK
<1> HIDE DEF m, stale
<1>4. Others(s) = Running /\ Running' = Running
  BY <1>1, OthersAreAll DEF TInv, Running
<1>5. chan'[s] = None /\ \A t \in Slots \ {s} : chan'[t] = chan[t]
      /\ chan' \in [Slots -> Pids \cup {None}]
  BY <1>1 DEF TInv, IInv, TypeOK
<1>6. ToldInv'
  <2> SUFFICES ASSUME NEW r \in Running, NEW t \in Slots, t # own[r], <<r, t>> \notin missed'
               PROVE  Told(queue'[r], t, tab[r][t], chan'[t])
    BY <1>1, <1>4 DEF ToldInv
  <2>1. IInv /\ ToldInv /\ WriteChannel(Running, m)
    BY <1>1, <1>4 DEF TInv
  <2>2. <<r, t>> \notin missed /\ (t = s => ~Full(r) /\ ~stale)
    BY <1>1, <1>2, <1>4 DEF Misled
  <2>3. t = s => chan'[t] = Says(m) /\ m.command # Open
    BY <1>2, <1>5, <2>2 DEF stale
  <2> QED BY <1>2, <1>5, <2>1, <2>2, <2>3, ToldAll
<1>7. LeakInv'
  BY <1>1, <1>4 DEF TInv, LeakInv, NoLeak, Named
<1> QED BY <1>6, <1>7

LEMMA ReadTold ==
  ASSUME TInv, NEW p \in Pids, Read(p)
  PROVE  ToldInv' /\ LeakInv'
<1> DEFINE m == Head(queue[p])
           w == IF m.command = Open THEN m.fd ELSE None
<1>1. /\ p \in Running /\ queue[p] # <<>> /\ queue' = [queue EXCEPT ![p] = Tail(@)]
      /\ UNCHANGED <<chan, child, own, missed>>
  BY DEF Read, master, reaping
<1>2. /\ m \in Message /\ m.slot # own[p]
      /\ \A r \in Pids \ {p} :
           tab'[r] = tab[r] /\ held'[r] = held[r] /\ queue'[r] = queue[r]
      /\ tab'[p] = [tab[p] EXCEPT ![m.slot] = w]
      /\ \A q \in Pids :
           (m.command = Open => tab[p][m.slot] = None) /\ held[p][q] = Named(p, q)
             => held'[p][q] = Cardinality(InTable(tab'[p], q))
  BY ReadCounts DEF TInv
<1>3. /\ queue[p] \in Seq(Message) /\ queue'[p] = Tail(queue[p]) /\ Running' = Running
      /\ tab[p] \in [Slots -> Pids \cup {None, GivenUp}]
  BY <1>1 DEF TInv, IInv, TypeOK, Running
<1>4. m.slot \in Slots /\ Says(m) = w
  BY <1>2 DEF Message, Says
<1>5. ASSUME NEW s \in Slots, s # own[p], <<p, s>> \notin missed
      PROVE  /\ Told(Tail(queue[p]), s, IF m.slot = s THEN w ELSE tab[p][s], chan[s])
             /\ m.slot = s /\ m.command = Open => tab[p][s] = None
  <2>1. Told(queue[p], s, tab[p][s], chan[s])
    BY <1>1, <1>5 DEF TInv, ToldInv
  <2> QED BY <1>1, <1>3, <1>4, <2>1, ToldLess
<1> HIDE DEF m, w
<1>6. ToldInv'
  <2> SUFFICES ASSUME NEW r \in Running, NEW s \in Slots, s # own[r], <<r, s>> \notin missed
               PROVE  Told(queue'[r], s, tab'[r][s], chan[s])
    BY <1>1, <1>3 DEF ToldInv
  <2>1. CASE r = p
    <3>1. tab'[p][s] = IF m.slot = s THEN w ELSE tab[p][s]
      BY <1>2, <1>3, <1>4
    <3> QED BY <1>3, <1>5, <2>1, <3>1
  <2>2. CASE r # p
    <3>1. tab'[r] = tab[r] /\ queue'[r] = queue[r]
      BY <1>2, <2>2 DEF Running
    <3> QED BY <3>1 DEF TInv, ToldInv
  <2> QED BY <2>1, <2>2
<1>7. LeakInv'
  <2> SUFFICES ASSUME NEW r \in Running, \A s \in Slots : <<r, s>> \notin missed, NEW q \in Pids
               PROVE  held'[r][q] = Cardinality(InTable(tab'[r], q))
    BY <1>1, <1>3 DEF LeakInv, NoLeak, Named, InTable
  <2>1. held[r][q] = Named(r, q)
    BY DEF TInv, LeakInv, NoLeak
  <2>2. CASE r = p
    BY <1>2, <1>4, <1>5, <2>1, <2>2
  <2>3. CASE r # p
    <3>1. tab'[r] = tab[r] /\ held'[r] = held[r]
      BY <1>2, <2>3 DEF Running
    <3> QED BY <2>1, <3>1, NamedIs
  <2> QED BY <2>2, <2>3
<1> QED BY <1>6, <1>7

LEMMA TInvNext == TInv /\ [Next]_vars => TInv'
<1> SUFFICES ASSUME TInv, [Next]_vars PROVE ToldInv' /\ LeakInv'
  BY NextOK DEF TInv
<1>1. ASSUME NEW s \in Slots, ReapTell(s) PROVE ToldInv' /\ LeakInv'
  BY <1>1, TellTells
<1>2. ASSUME NEW s \in Slots, NEW p \in Pids, Spawn(s, p) PROVE ToldInv' /\ LeakInv'
  <2>1. SpawnInto(s, p) /\ chan[s] = None
    BY <1>2, Numbers DEF Spawn, NewSlot, TInv, IInv, TableInv
  <2> QED BY <2>1, SpawnTells
<1>3. ASSUME NEW s \in Slots, NEW p \in Pids, ReapRespawn(s, p) PROVE ToldInv' /\ LeakInv'
  <2>1. SpawnInto(s, p) /\ chan[s] = None
    BY <1>3 DEF ReapRespawn, TInv, IInv, TableInv
  <2> QED BY <2>1, SpawnTells
<1>4. ASSUME NEW p \in Pids, Read(p) PROVE ToldInv' /\ LeakInv'
  BY <1>4, ReadTold
<1>5. ASSUME NEW p \in Pids, Die(p) PROVE ToldInv' /\ LeakInv'
  <2>1. /\ child' = [child EXCEPT ![p] = "zombie"] /\ own' = own /\ chan' = chan
        /\ tab' = [tab EXCEPT ![p] = Nothing] /\ held' = [held EXCEPT ![p] = NoFds]
        /\ queue' = [queue EXCEPT ![p] = <<>>] /\ missed' = missed \ ({p} \X Slots)
    BY <1>5 DEF Die, master
  <2>2. Running' = Running \ {p}
    BY <2>1 DEF Running, TInv, IInv, TypeOK
  <2>3. \A r \in Running' : /\ r \in Running /\ r # p /\ tab'[r] = tab[r] /\ held'[r] = held[r]
                            /\ queue'[r] = queue[r]
    BY <2>1, <2>2 DEF Running, TInv, IInv, TypeOK
  <2>4. \A r \in Running', s \in Slots : <<r, s>> \notin missed' => <<r, s>> \notin missed
    BY <2>1, <2>3
  <2>5. ToldInv'
    BY <2>1, <2>3, <2>4 DEF TInv, ToldInv
  <2>6. LeakInv'
    BY <2>1, <2>3, <2>4 DEF TInv, LeakInv, NoLeak, Named
  <2> QED BY <2>5, <2>6
<1>6. ASSUME UNCHANGED <<chan, own, tab, held, queue, missed>>, Running' = Running
      PROVE  ToldInv' /\ LeakInv'
  BY <1>6 DEF TInv, ToldInv, LeakInv, NoLeak, Named
<1>7. CASE Sigsuspend
  <2>1. Running' = Running
    BY <1>7 DEF Sigsuspend, Running, TInv, IInv, TypeOK
  <2> QED BY <1>6, <1>7, <2>1 DEF Sigsuspend
<1>8. CASE ReapDone \/ UNCHANGED vars
  BY <1>6, <1>8 DEF ReapDone, vars, master, children, Running
<1>9. ASSUME NEW s \in Slots, ReapSkip(s) \/ ReapRemove(s) PROVE ToldInv' /\ LeakInv'
  BY <1>6, <1>9 DEF ReapSkip, ReapRemove, master, children, Running
<1> QED BY <1>1, <1>2, <1>3, <1>4, <1>5, <1>7, <1>8, <1>9 DEF Next

LEMMA TInvInit == Init => TInv
<1> SUFFICES ASSUME Init PROVE TInv
  OBVIOUS
<1>1. Running = {}
  BY DEF Init, Running
<1> QED BY <1>1, InitOK DEF TInv, ToldInv, LeakInv, NoLeak

LEMMA TInvariance == Spec => []TInv
BY TInvInit, TInvNext, PTL DEF Spec

(* A child that has read its messages agrees with the master on every slot *)
(* that it was not misled about, however many messages were lost and       *)
(* however often the slots were reused.                                    *)
THEOREM TablesAgree == Spec => []TableAgrees
<1>1. TInv => TableAgrees
  <2> SUFFICES ASSUME TInv, NEW p \in Running, NEW s \in Slots,
                      queue[p] = <<>>, s # own[p], <<p, s>> \notin missed
               PROVE  tab[p][s] = chan[s]
    BY DEF TableAgrees
  <2>1. Told(queue[p], s, tab[p][s], chan[s])
    BY DEF TInv, ToldInv
  <2>2. About(queue[p], s) = {}
    BY DEF About
  <2> QED BY <2>1, <2>2 DEF Told
<1> QED BY <1>1, TInvariance, PTL

(* The descriptors of a child that was not misled are those in its table:  *)
(* ngx_channel_handler never overwrites one that is open.                  *)
THEOREM NoLeaks == Spec => []NoLeak
<1>1. TInv => NoLeak
  BY DEF TInv, LeakInv
<1> QED BY <1>1, TInvariance, PTL

=============================================================================
