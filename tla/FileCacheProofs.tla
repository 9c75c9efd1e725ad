-------------------------- MODULE FileCacheProofs --------------------------
(***************************************************************************)
(* Proofs about the index of the file cache, for any number of keys,       *)
(* entries, requests and cache managers.                                   *)
(***************************************************************************)
EXTENDS FileCache, SequenceTheorems, FiniteSetTheorems, TLAPS

-----------------------------------------------------------------------------
(* The queue.  S is the set of the entries that have expired.               *)

NoRepeat(q) == \A i, j \in DOMAIN q : q[i] = q[j] => i = j
Sorted(q, S) == \A i, j \in DOMAIN q : i < j /\ q[i] \in S => q[j] \in S

LEMMA Pushed ==
  ASSUME NEW q \in Seq(Nodes), NEW n \in Nodes, NEW S, NEW T,
         NoRepeat(q), Sorted(q, S), n \notin Members(q), n \notin T,
         \A e \in Members(q) : e \in S <=> e \in T
  PROVE  LET t == <<n>> \o q IN
         /\ t \in Seq(Nodes) /\ Members(t) = Members(q) \cup {n}
         /\ NoRepeat(t) /\ Sorted(t, T)
<1> DEFINE t == <<n>> \o q
<1>1. t \in Seq(Nodes) /\ DOMAIN t = 1 .. Len(q) + 1 /\ t[1] = n
      /\ Len(q) \in Nat /\ DOMAIN q = 1 .. Len(q)
      /\ \A i \in 1 .. Len(q) : t[i + 1] = q[i]
  OBVIOUS
<1>2. \A i \in 2 .. Len(q) + 1 : i - 1 \in 1 .. Len(q) /\ t[i] = q[i - 1]
  BY <1>1
<1> HIDE DEF t
<1>3. \A i \in DOMAIN t : i = 1 \/ i \in 2 .. Len(q) + 1
  BY <1>1
<1>4. Members(t) = Members(q) \cup {n}
  <2>1. ASSUME NEW e \in Members(t) PROVE e \in Members(q) \cup {n}
    BY <1>1, <1>2, <1>3 DEF Members
  <2>2. ASSUME NEW e \in Members(q) PROVE e \in Members(t)
    <3>1. PICK i \in 1 .. Len(q) : e = q[i]
      BY <1>1 DEF Members
    <3>2. i + 1 \in DOMAIN t /\ t[i + 1] = e
      BY <1>1, <3>1
    <3> QED BY <3>2 DEF Members
  <2>3. n \in Members(t)
    BY <1>1 DEF Members
  <2> QED BY <2>1, <2>2, <2>3
<1>5. \A i \in 1 .. Len(q) : q[i] \in Members(q) /\ q[i] # n /\ (q[i] \in S <=> q[i] \in T)
  BY <1>1 DEF Members
<1>6. NoRepeat(t)
  <2> SUFFICES ASSUME NEW i \in DOMAIN t, NEW j \in DOMAIN t, t[i] = t[j] PROVE i = j
    BY DEF NoRepeat
  <2>1. CASE i = 1 \/ j = 1
    BY <1>1, <1>2, <1>3, <1>5, <2>1
  <2>2. CASE i \in 2 .. Len(q) + 1 /\ j \in 2 .. Len(q) + 1
    <3>1. i - 1 = j - 1
      BY <1>1, <1>2, <2>2 DEF NoRepeat
    <3> QED BY <2>2, <3>1
  <2> QED BY <1>3, <2>1, <2>2
<1>7. Sorted(t, T)
  <2> SUFFICES ASSUME NEW i \in DOMAIN t, NEW j \in DOMAIN t, i < j, t[i] \in T PROVE t[j] \in T
    BY DEF Sorted
  <2>1. i \in 2 .. Len(q) + 1 /\ j \in 2 .. Len(q) + 1
    BY <1>1, <1>3
  <2>2. /\ i - 1 \in 1 .. Len(q) /\ t[i] = q[i - 1] /\ j - 1 \in 1 .. Len(q) /\ t[j] = q[j - 1]
        /\ i - 1 < j - 1
    BY <1>2, <2>1
  <2> QED BY <1>1, <1>5, <2>2 DEF Sorted
<1> QED BY <1>1, <1>4, <1>6, <1>7 DEF t

LEMMA Unlinked ==
  ASSUME NEW q \in Seq(Nodes), NEW n, NEW S, NoRepeat(q), Sorted(q, S)
  PROVE  LET t == Unlink(q, n) IN
         /\ t \in Seq(Nodes) /\ Members(t) = Members(q) \ {n}
         /\ NoRepeat(t) /\ Sorted(t, S)
<1>1. CASE n \notin Members(q)
  <2>1. Unlink(q, n) = q
    BY <1>1 DEF Unlink
  <2> QED BY <1>1, <2>1
<1>2. CASE n \in Members(q)
  <2> DEFINE i == CHOOSE j \in DOMAIN q : q[j] = n
             t == [j \in 1 .. Len(q) - 1 |-> IF j < i THEN q[j] ELSE q[j + 1]]
             at(j) == IF j < i THEN j ELSE j + 1
  <2>1. i \in DOMAIN q /\ q[i] = n
    <3>1. \E j \in DOMAIN q : q[j] = n
      BY <1>2 DEF Members
    <3> QED BY <3>1
  <2>2. Unlink(q, n) = t
    BY <1>2 DEF Unlink
  <2> HIDE DEF i
  <2>3. DOMAIN q = 1 .. Len(q) /\ i \in 1 .. Len(q) /\ Len(q) - 1 \in Nat
    BY <2>1
  <2>4. \A j \in 1 .. Len(q) - 1 :
          /\ at(j) \in 1 .. Len(q) /\ at(j) # i
          /\ (IF j < i THEN q[j] ELSE q[j + 1]) = q[at(j)] /\ q[at(j)] \in Nodes
    BY <2>3
  <2>5. t \in Seq(Nodes)
    BY <2>3, <2>4, IsASeq
  <2>6. DOMAIN t = 1 .. Len(q) - 1 /\ \A j \in DOMAIN t : t[j] = q[at(j)]
    BY <2>4
  <2>7. \A j, k \in 1 .. Len(q) - 1 : (at(j) = at(k) => j = k) /\ (j < k => at(j) < at(k))
    BY <2>3
  <2>8. \A k \in 1 .. Len(q) : k # i => \E j \in 1 .. Len(q) - 1 : at(j) = k
    <3> SUFFICES ASSUME NEW k \in 1 .. Len(q), k # i
                 PROVE  \E j \in 1 .. Len(q) - 1 : at(j) = k
      OBVIOUS
    <3>1. CASE k < i
      <4>1. k \in 1 .. Len(q) - 1 /\ at(k) = k
        BY <2>3, <3>1
      <4> QED BY <4>1
    <3>2. CASE k > i
      <4>1. k - 1 \in 1 .. Len(q) - 1 /\ at(k - 1) = k
        BY <2>3, <3>2
      <4> QED BY <4>1
    <3> QED BY <2>3, <3>1, <3>2
  <2> HIDE DEF t, at
  <2>9. Members(t) = Members(q) \ {n}
    <3>1. ASSUME NEW e \in Members(t) PROVE e \in Members(q) /\ e # n
      BY <2>1, <2>3, <2>4, <2>6 DEF Members, NoRepeat
    <3>2. ASSUME NEW e \in Members(q), e # n PROVE e \in Members(t)
      <4>1. PICK k \in 1 .. Len(q) : e = q[k]
        BY <2>3 DEF Members
      <4>2. k # i
        BY <2>1, <3>2, <4>1
      <4>3. PICK j \in 1 .. Len(q) - 1 : at(j) = k
        BY <2>8, <4>2
      <4> QED BY <2>6, <4>1, <4>3 DEF Members
    <3> QED BY <3>1, <3>2
  <2>10. NoRepeat(t)
    BY <2>3, <2>4, <2>6, <2>7 DEF NoRepeat
  <2>11. Sorted(t, S)
    BY <2>3, <2>4, <2>6, <2>7 DEF Sorted
  <2> QED BY <2>2, <2>5, <2>9, <2>10, <2>11
<1> QED BY <1>1, <1>2

LEMMA Touched ==
  ASSUME NEW q \in Seq(Nodes), NEW n \in Nodes, NEW S, NEW T,
         NoRepeat(q), Sorted(q, S), n \notin T,
         \A e \in Members(q) \ {n} : e \in S <=> e \in T
  PROVE  LET t == Touch(q, n) IN
         /\ t \in Seq(Nodes) /\ Members(t) = Members(q) \cup {n}
         /\ NoRepeat(t) /\ Sorted(t, T)
<1> DEFINE u == Unlink(q, n)
           t == <<n>> \o u
<1>1. u \in Seq(Nodes) /\ Members(u) = Members(q) \ {n} /\ NoRepeat(u) /\ Sorted(u, S)
  BY Unlinked
<1>2. Touch(q, n) = t
  BY DEF Touch
<1> HIDE DEF u
<1>3. t \in Seq(Nodes) /\ Members(t) = Members(u) \cup {n} /\ NoRepeat(t) /\ Sorted(t, T)
  BY <1>1, Pushed
<1> HIDE DEF t
<1> QED BY <1>1, <1>2, <1>3

-----------------------------------------------------------------------------
(* Counting *)

Where(P, f, n) == {p \in P : f[p] = n}

LEMMA CountIs ==
  ASSUME NEW P, IsFiniteSet(P), NEW f, NEW n
  PROVE  IsFiniteSet(Where(P, f, n)) /\ Cardinality(Where(P, f, n)) \in Nat
<1>1. Where(P, f, n) \subseteq P
  BY DEF Where
<1> QED BY <1>1, FS_Subset, FS_CardinalityType

(* One value of a function changes.                                        *)
Elsewhere(P, p, f, g) == \A r \in P \ {p} : g[r] = f[r]

LEMMA Recount ==
  ASSUME NEW P, IsFiniteSet(P), NEW f, NEW g, NEW p \in P,
         Elsewhere(P, p, f, g), NEW n
  PROVE  LET before == Cardinality(Where(P, f, n))
             after == Cardinality(Where(P, g, n))
         IN  /\ before \in Nat /\ after \in Nat
             /\ f[p] # n /\ g[p] = n => after = before + 1
             /\ f[p] = n /\ g[p] # n => after = before - 1 /\ before > 0
             /\ (f[p] = n <=> g[p] = n) => after = before
<1> DEFINE F == Where(P, f, n)
           G == Where(P, g, n)
<1>1. /\ IsFiniteSet(F) /\ Cardinality(F) \in Nat
      /\ IsFiniteSet(G) /\ Cardinality(G) \in Nat
  BY CountIs
<1>2. ASSUME f[p] # n, g[p] = n PROVE Cardinality(G) = Cardinality(F) + 1
  <2>1. G = F \cup {p} /\ p \notin F
    BY <1>2 DEF Where, Elsewhere
  <2> HIDE DEF F, G
  <2> QED BY <1>1, <2>1, FS_AddElement
<1>3. ASSUME f[p] = n, g[p] # n PROVE Cardinality(F) = Cardinality(G) + 1
  <2>1. F = G \cup {p} /\ p \notin G
    BY <1>3 DEF Where, Elsewhere
  <2> HIDE DEF F, G
  <2> QED BY <1>1, <2>1, FS_AddElement
<1>4. ASSUME f[p] = n <=> g[p] = n PROVE G = F
  BY <1>4 DEF Where, Elsewhere
<1> HIDE DEF F, G
<1>5. /\ f[p] # n /\ g[p] = n => Cardinality(G) = Cardinality(F) + 1
      /\ f[p] = n /\ g[p] # n => Cardinality(G) = Cardinality(F) - 1 /\ Cardinality(F) > 0
      /\ (f[p] = n <=> g[p] = n) => Cardinality(G) = Cardinality(F)
  BY <1>1, <1>2, <1>3, <1>4
<1> QED BY <1>1, <1>5 DEF F, G

(* Requests that hold an entry, processes that delete its file.            *)
Holds == [r \in Requests |-> c[r].node]
Held(n) == Cardinality(Where(Requests, Holds, n))
Unlinking(n) == Cardinality(Where(Processes, del, n))

LEMMA Finite == IsFiniteSet(Requests) /\ IsFiniteSet(Processes)
BY ProcessAssumption, FS_Union DEF Processes

LEMMA HeldIs ==
  ASSUME NEW n
  PROVE  /\ Held(n) = Cardinality({r \in Requests : c[r].node = n})
         /\ Unlinking(n) = Cardinality({p \in Processes : del[p] = n})
<1>1. /\ Where(Requests, Holds, n) = {r \in Requests : c[r].node = n}
      /\ Where(Processes, del, n) = {p \in Processes : del[p] = n}
  BY DEF Where, Holds
<1> QED BY <1>1 DEF Held, Unlinking

LEMMA Counts ==
  ASSUME NEW n
  PROVE  /\ Held(n) \in Nat /\ Unlinking(n) \in Nat
         /\ (\A r \in Requests : c[r].node # n) => Held(n) = 0
         /\ (\A p \in Processes : del[p] # n) => Unlinking(n) = 0
<1>1. Held(n) \in Nat /\ Unlinking(n) \in Nat
  BY Finite, CountIs DEF Held, Unlinking
<1>2. (\A r \in Requests : c[r].node # n) => Where(Requests, Holds, n) = {}
  BY DEF Where, Holds
<1>3. (\A p \in Processes : del[p] # n) => Where(Processes, del, n) = {}
  BY DEF Where
<1> QED BY <1>1, <1>2, <1>3, FS_EmptySet DEF Held, Unlinking

LEMMA HeldChange ==
  ASSUME NEW r \in Requests, \A s \in Requests \ {r} : c'[s] = c[s], NEW n
  PROVE  /\ Held(n) \in Nat /\ Held(n)' \in Nat
         /\ c[r].node # n /\ c'[r].node = n => Held(n)' = Held(n) + 1
         /\ c[r].node = n /\ c'[r].node # n => Held(n)' = Held(n) - 1 /\ Held(n) > 0
         /\ (c[r].node = n <=> c'[r].node = n) => Held(n)' = Held(n)
<1>1. /\ Holds[r] = c[r].node /\ Holds'[r] = c'[r].node
      /\ \A s \in Requests \ {r} : Holds'[s] = Holds[s]
  BY DEF Holds
<1> DEFINE f == Holds
           g == Holds'
<1> HIDE DEF f, g
<1>2. f[r] = c[r].node /\ g[r] = c'[r].node /\ Elsewhere(Requests, r, f, g)
  BY <1>1 DEF f, g, Elsewhere
<1>3. LET before == Cardinality(Where(Requests, f, n))
          after == Cardinality(Where(Requests, g, n))
      IN  /\ before \in Nat /\ after \in Nat
          /\ f[r] # n /\ g[r] = n => after = before + 1
          /\ f[r] = n /\ g[r] # n => after = before - 1 /\ before > 0
          /\ (f[r] = n <=> g[r] = n) => after = before
  BY <1>2, Finite, Recount
<1>4. Held(n) = Cardinality(Where(Requests, f, n)) /\ Held(n)' = Cardinality(Where(Requests, g, n))
  BY DEF Held, f, g
<1> QED BY <1>2, <1>3, <1>4

LEMMA UnlinkingChange ==
  ASSUME NEW p \in Processes, \A s \in Processes \ {p} : del'[s] = del[s], NEW n
  PROVE  /\ Unlinking(n) \in Nat /\ Unlinking(n)' \in Nat
         /\ del[p] # n /\ del'[p] = n => Unlinking(n)' = Unlinking(n) + 1
         /\ del[p] = n /\ del'[p] # n
              => Unlinking(n)' = Unlinking(n) - 1 /\ Unlinking(n) > 0
         /\ (del[p] = n <=> del'[p] = n) => Unlinking(n)' = Unlinking(n)
<1> DEFINE f == del
           g == del'
<1> HIDE DEF f, g
<1>1. Elsewhere(Processes, p, f, g)
  BY DEF f, g, Elsewhere
<1>2. LET before == Cardinality(Where(Processes, f, n))
          after == Cardinality(Where(Processes, g, n))
      IN  /\ before \in Nat /\ after \in Nat
          /\ f[p] # n /\ g[p] = n => after = before + 1
          /\ f[p] = n /\ g[p] # n => after = before - 1 /\ before > 0
          /\ (f[p] = n <=> g[p] = n) => after = before
  BY <1>1, Finite, Recount
<1> QED BY <1>2 DEF Unlinking, f, g

-----------------------------------------------------------------------------
(* The inductive invariant *)

Expired == {n \in Nodes : node[n].old}

QueueInv ==
  /\ Members(queue) = tree /\ NoRepeat(queue) /\ Sorted(queue, Expired)

(* The stages at which a request has an entry, or deletes one.             *)
StageInv ==
  \A r \in Requests :
    /\ c[r].node = None <=> c[r].pc \in {"idle", "full", "retry"}
    /\ del[r] # None => c[r].pc = "retry"

CountInv ==
  /\ \A n \in tree : node[n].count = Held(n) + Unlinking(n) + leaked[n]
  /\ \A n \in Nodes \ tree : leaked[n] = 0

IInv == TypeOK /\ QueueInv /\ StageInv /\ HeldIsInTree /\ CountInv /\ UpdatingClaimed

-----------------------------------------------------------------------------
(* The queue in a step *)

LEMMA QueueSame ==
  ASSUME TypeOK, QueueInv, UNCHANGED <<tree, queue>>,
         \A n \in tree : node'[n].old = node[n].old
  PROVE  QueueInv'
<1>1. \A i \in DOMAIN queue : queue[i] \in tree /\ queue[i] \in Nodes
  BY DEF QueueInv, Members, TypeOK
<1>2. \A i \in DOMAIN queue : queue[i] \in Expired' <=> queue[i] \in Expired
  BY <1>1 DEF Expired
<1> QED BY <1>2 DEF QueueInv, Sorted

LEMMA QueueTouch ==
  ASSUME TypeOK, QueueInv, NEW n \in tree, tree' = tree, queue' = Touch(queue, n),
         ~node'[n].old, \A e \in tree \ {n} : node'[e].old = node[e].old
  PROVE  queue' \in Seq(Nodes) /\ QueueInv'
<1> DEFINE S == Expired
           T == Expired'
<1>1. /\ queue \in Seq(Nodes) /\ n \in Nodes /\ n \notin T
      /\ \A e \in Members(queue) \ {n} : e \in S <=> e \in T
  BY DEF QueueInv, TypeOK, Expired
<1> HIDE DEF S, T
<1>2. NoRepeat(queue) /\ Sorted(queue, S)
  BY DEF QueueInv, S
<1>3. LET t == Touch(queue, n) IN
      /\ t \in Seq(Nodes) /\ Members(t) = Members(queue) \cup {n}
      /\ NoRepeat(t) /\ Sorted(t, T)
  BY <1>1, <1>2, Touched
<1> QED BY <1>3 DEF QueueInv, T

LEMMA QueueInsert ==
  ASSUME TypeOK, QueueInv, NEW n \in Nodes, n \notin tree, tree' = tree \cup {n},
         queue' = <<n>> \o queue, ~node'[n].old, \A e \in tree : node'[e].old = node[e].old
  PROVE  queue' \in Seq(Nodes) /\ QueueInv'
<1> DEFINE S == Expired
           T == Expired'
<1>1. /\ queue \in Seq(Nodes) /\ n \notin T /\ n \notin Members(queue)
      /\ \A e \in Members(queue) : e \in S <=> e \in T
  BY DEF QueueInv, TypeOK, Expired
<1> HIDE DEF S, T
<1>2. NoRepeat(queue) /\ Sorted(queue, S)
  BY DEF QueueInv, S
<1>3. LET t == <<n>> \o queue IN
      /\ t \in Seq(Nodes) /\ Members(t) = Members(queue) \cup {n}
      /\ NoRepeat(t) /\ Sorted(t, T)
  BY <1>1, <1>2, Pushed
<1> QED BY <1>3 DEF QueueInv, T

LEMMA QueueRemove ==
  ASSUME TypeOK, QueueInv, NEW n \in tree, Remove(n)
  PROVE  /\ node' \in [Nodes -> Entry] /\ tree' = tree \ {n} /\ queue' \in Seq(Nodes)
         /\ QueueInv' /\ n \in Nodes /\ \A e \in Nodes \ {n} : node'[e] = node[e]
<1>1. /\ node' = [node EXCEPT ![n] = Blank] /\ tree' = tree \ {n} /\ n \in Nodes
      /\ queue' = Unlink(queue, n) /\ Blank \in Entry /\ ~Blank.old
  BY NumberAssumption DEF Remove, TypeOK, Blank, Entry
<1>2. node' \in [Nodes -> Entry] /\ \A e \in Nodes \ {n} : node'[e] = node[e]
  BY <1>1 DEF TypeOK
<1>3. LET t == Unlink(queue, n) IN
      /\ t \in Seq(Nodes) /\ Members(t) = Members(queue) \ {n}
      /\ NoRepeat(t) /\ Sorted(t, Expired)
  BY Unlinked DEF TypeOK, QueueInv
<1>4. queue' \in Seq(Nodes) /\ Members(queue') = tree' /\ NoRepeat(queue')
      /\ Sorted(queue', Expired)
  BY <1>1, <1>3 DEF QueueInv
<1>5. \A i \in DOMAIN queue' : queue'[i] \in Expired' <=> queue'[i] \in Expired
  <2>1. \A i \in DOMAIN queue' : queue'[i] \in tree'
    BY <1>4 DEF Members
  <2> QED BY <1>1, <1>2, <2>1 DEF Expired, TypeOK
<1>6. Sorted(queue', Expired')
  BY <1>4, <1>5 DEF Sorted
<1> QED BY <1>1, <1>2, <1>4, <1>6 DEF QueueInv

-----------------------------------------------------------------------------
(* The steps of a request *)

Without == {"idle", "full", "retry"}

(* A request goes on with the entry that it has, or without.               *)
LEMMA Stays ==
  ASSUME IInv, NEW r \in Requests, NEW x \in Cache, c' = [c EXCEPT ![r] = x],
         x.node = c[r].node, x.node # None => x.key = c[r].key,
         x.node = None <=> x.pc \in Without, del[r] # None => x.pc = "retry",
         x.node # None /\ (c[r].updating \/ c[r].pc = "update")
           => x.updating \/ x.pc = "update",
         UNCHANGED <<tree, queue, del, leaked, kills, cold>>,
         node' \in [Nodes -> Entry],
         \A n \in tree :
           /\ node'[n].key = node[n].key /\ node'[n].count = node[n].count
           /\ node'[n].old = node[n].old
           /\ node'[n].updating => node[n].updating \/ (x.updating /\ x.node = n)
  PROVE  IInv'
<1> USE DEF IInv
<1>1. c'[r] = x /\ (\A s \in Requests \ {r} : c'[s] = c[s]) /\ c' \in [Requests -> Cache]
  BY DEF TypeOK
<1>2. TypeOK'
  BY <1>1 DEF TypeOK
<1>3. QueueInv'
  BY QueueSame
<1>4. StageInv'
  BY <1>1 DEF StageInv, Without
<1>5. HeldIsInTree'
  BY <1>1 DEF HeldIsInTree
<1>6. CountInv'
  <2>1. \A n : Held(n)' = Held(n) /\ Unlinking(n)' = Unlinking(n)
    BY <1>1, HeldChange DEF Unlinking
  <2> QED BY <2>1 DEF CountInv
<1>7. UpdatingClaimed'
  <2> SUFFICES ASSUME NEW n \in tree, node'[n].updating, ~(leaked[n] > 0)
               PROVE  \E s \in Requests : c'[s].node = n /\ (c'[s].updating \/ c'[s].pc = "update")
    BY DEF UpdatingClaimed
  <2>1. CASE x.updating /\ x.node = n
    BY <1>1, <2>1
  <2>2. CASE node[n].updating
    <3>1. PICK s \in Requests : c[s].node = n /\ (c[s].updating \/ c[s].pc = "update")
      BY <2>2 DEF UpdatingClaimed
    <3>2. n # None
      BY ProcessAssumption DEF TypeOK
    <3> QED BY <1>1, <3>1, <3>2
  <2> QED BY <2>1, <2>2
<1> QED BY <1>2, <1>3, <1>4, <1>5, <1>6, <1>7

(* It takes an entry, one of the tree or a new one.                        *)
LEMMA Takes ==
  ASSUME IInv, NEW r \in Requests, NEW x \in Cache, c' = [c EXCEPT ![r] = x],
         c[r].node = None, del[r] = None, NEW n \in Nodes, x.node = n, x.pc \notin Without,
         NEW e \in Entry, node' = [node EXCEPT ![n] = e], x.key = e.key,
         UNCHANGED <<del, leaked, kills, cold>>, tree' = tree \cup {n},
         queue' \in Seq(Nodes), QueueInv',
         n \in tree => /\ e.key = node[n].key /\ e.count = node[n].count + 1
                       /\ e.updating = node[n].updating,
         n \notin tree => e.count = 1 /\ ~e.updating
  PROVE  IInv'
<1> USE DEF IInv
<1>1. c'[r] = x /\ (\A s \in Requests \ {r} : c'[s] = c[s]) /\ c' \in [Requests -> Cache]
  BY DEF TypeOK
<1>2. node' \in [Nodes -> Entry] /\ node'[n] = e /\ \A m \in Nodes \ {n} : node'[m] = node[m]
  BY DEF TypeOK
<1>3. n # None /\ tree \subseteq Nodes
  BY ProcessAssumption DEF TypeOK
<1>4. TypeOK'
  BY <1>1, <1>2, <1>3 DEF TypeOK
<1>5. StageInv'
  BY <1>1, <1>3 DEF StageInv, Without
<1>6. HeldIsInTree'
  BY <1>1, <1>2, <1>3 DEF HeldIsInTree
<1>7. CountInv'
  <2>1. Held(n)' = Held(n) + 1 /\ Held(n) \in Nat
    BY <1>1, <1>3, HeldChange
  <2>2. \A m \in Nodes \ {n} : Held(m)' = Held(m)
    <3> SUFFICES ASSUME NEW m \in Nodes \ {n} PROVE Held(m)' = Held(m)
      OBVIOUS
    <3>1. c[r].node # m /\ c'[r].node # m
      BY <1>1, ProcessAssumption
    <3> QED BY <1>1, <3>1, HeldChange
  <2>3. \A m : Unlinking(m)' = Unlinking(m) /\ Unlinking(m) \in Nat
    BY Counts DEF Unlinking
  <2>4. \A m \in tree \ {n} : node'[m].count = Held(m)' + Unlinking(m)' + leaked[m]
    BY <1>2, <1>3, <2>2, <2>3 DEF CountInv
  <2>5. CASE n \in tree
    <3>1. node[n].count = Held(n) + Unlinking(n) + leaked[n] /\ leaked[n] \in Nat
      BY <2>5 DEF CountInv, TypeOK
    <3>2. node'[n].count = Held(n)' + Unlinking(n)' + leaked[n]
      BY <1>2, <2>1, <2>3, <2>5, <3>1
    <3> QED BY <2>4, <2>5, <3>2 DEF CountInv
  <2>6. CASE n \notin tree
    <3>1. Held(n) = 0 /\ Unlinking(n) = 0 /\ leaked[n] = 0
      BY <1>3, <2>6, Counts DEF HeldIsInTree, CountInv
    <3> QED BY <1>2, <2>1, <2>3, <2>4, <2>6, <3>1 DEF CountInv
  <2> QED BY <2>5, <2>6
<1>8. UpdatingClaimed'
  <2> SUFFICES ASSUME NEW m \in tree', node'[m].updating, ~(leaked[m] > 0)
               PROVE  \E s \in Requests : c'[s].node = m /\ (c'[s].updating \/ c'[s].pc = "update")
    BY DEF UpdatingClaimed
  <2>1. m \in tree /\ node[m].updating
    BY <1>2, <1>3
  <2>2. PICK s \in Requests : c[s].node = m /\ (c[s].updating \/ c[s].pc = "update")
    BY <2>1 DEF UpdatingClaimed
  <2>3. s # r
    BY <1>3, <2>1, <2>2, ProcessAssumption
  <2> QED BY <1>1, <2>2, <2>3
<1> QED BY <1>4, <1>5, <1>6, <1>7, <1>8

(* It gives its entry back.                                                *)
LEMMA Drops ==
  ASSUME IInv, NEW r \in Requests, c' = [c EXCEPT ![r] = Idle], NEW n, n = c[r].node, n # None,
         NEW e \in Entry, node' = [node EXCEPT ![n] = e], e.key = node[n].key,
         e.count = node[n].count - 1, e.old = node[n].old,
         e.updating => node[n].updating /\ ~c[r].updating /\ c[r].pc # "update",
         UNCHANGED <<tree, queue, del, leaked, kills, cold>>
  PROVE  IInv'
<1> USE DEF IInv
<1>1. /\ c'[r] = Idle /\ \A s \in Requests \ {r} : c'[s] = c[s]
      /\ c' \in [Requests -> Cache] /\ n \in tree /\ n \in Nodes
  BY DEF TypeOK, HeldIsInTree, Idle, Cache
<1>2. node' \in [Nodes -> Entry] /\ node'[n] = e /\ \A m \in Nodes \ {n} : node'[m] = node[m]
  BY <1>1 DEF TypeOK
<1>3. Idle.node = None /\ Idle.pc = "idle" /\ tree \subseteq Nodes
  BY DEF Idle, TypeOK
<1>4. TypeOK'
  BY <1>1, <1>2, <1>3 DEF TypeOK
<1>5. QueueInv'
  <2>1. \A m \in tree : node'[m].old = node[m].old
    BY <1>2, <1>3
  <2> QED BY <2>1, QueueSame
<1>6. StageInv'
  <2>1. del[r] = None
    BY DEF StageInv
  <2> QED BY <1>1, <1>3, <2>1 DEF StageInv
<1>7. HeldIsInTree'
  BY <1>1, <1>2, <1>3 DEF HeldIsInTree
<1>8. CountInv'
  <2>1. Held(n)' = Held(n) - 1 /\ Held(n) \in Nat
    BY <1>1, <1>3, HeldChange
  <2>2. \A m \in Nodes \ {n} : Held(m)' = Held(m)
    <3> SUFFICES ASSUME NEW m \in Nodes \ {n} PROVE Held(m)' = Held(m)
      OBVIOUS
    <3>1. c[r].node # m /\ c'[r].node # m
      BY <1>1, <1>3, ProcessAssumption
    <3> QED BY <1>1, <3>1, HeldChange
  <2>3. \A m : Unlinking(m)' = Unlinking(m) /\ Unlinking(m) \in Nat
    BY Counts DEF Unlinking
  <2>4. \A m \in tree \ {n} : node'[m].count = Held(m)' + Unlinking(m)' + leaked[m]
    BY <1>2, <1>3, <2>2, <2>3 DEF CountInv
  <2>5. node[n].count = Held(n) + Unlinking(n) + leaked[n] /\ leaked[n] \in Nat
    BY <1>1 DEF CountInv, TypeOK
  <2>6. node'[n].count = Held(n)' + Unlinking(n)' + leaked[n]
    BY <1>2, <2>1, <2>3, <2>5
  <2> QED BY <2>4, <2>6 DEF CountInv
<1>9. UpdatingClaimed'
  <2> SUFFICES ASSUME NEW m \in tree, node'[m].updating, ~(leaked[m] > 0)
               PROVE  \E s \in Requests : c'[s].node = m /\ (c'[s].updating \/ c'[s].pc = "update")
    BY DEF UpdatingClaimed
  <2>1. node[m].updating /\ (m = n => ~c[r].updating /\ c[r].pc # "update")
    BY <1>2, <1>3
  <2>2. PICK s \in Requests : c[s].node = m /\ (c[s].updating \/ c[s].pc = "update")
    BY <2>1 DEF UpdatingClaimed
  <2>3. s # r
    BY <2>1, <2>2
  <2> QED BY <1>1, <2>2, <2>3
<1> QED BY <1>4, <1>5, <1>6, <1>7, <1>8, <1>9

(* Its entry goes with it.                                                 *)
LEMMA DropsLast ==
  ASSUME IInv, NEW r \in Requests, c' = [c EXCEPT ![r] = Idle], NEW n, n = c[r].node, n # None,
         node[n].count - 1 = 0, Remove(n), UNCHANGED <<del, leaked, kills, cold>>
  PROVE  IInv'
<1> USE DEF IInv
<1>1. /\ c'[r] = Idle /\ \A s \in Requests \ {r} : c'[s] = c[s]
      /\ c' \in [Requests -> Cache] /\ n \in tree
  BY DEF TypeOK, HeldIsInTree, Idle, Cache
<1>2. /\ node' \in [Nodes -> Entry] /\ tree' = tree \ {n} /\ queue' \in Seq(Nodes)
      /\ QueueInv' /\ n \in Nodes /\ \A e \in Nodes \ {n} : node'[e] = node[e]
  BY <1>1, QueueRemove
<1>3. Idle.node = None /\ Idle.pc = "idle" /\ tree \subseteq Nodes
  BY DEF Idle, TypeOK
<1>4. TypeOK'
  BY <1>1, <1>2, <1>3 DEF TypeOK
<1>5. StageInv'
  <2>1. del[r] = None
    BY DEF StageInv
  <2> QED BY <1>1, <1>3, <2>1 DEF StageInv
<1>6. Held(n)' = Held(n) - 1 /\ Held(n) \in Nat /\ Held(n)' \in Nat
  BY <1>1, <1>3, HeldChange
<1>7. Unlinking(n) \in Nat /\ leaked[n] \in Nat /\ node[n].count \in Nat
      /\ node[n].count = Held(n) + Unlinking(n) + leaked[n]
  BY <1>1, <1>2, Counts DEF CountInv, TypeOK, Entry
<1>8. Held(n)' = 0 /\ Unlinking(n) = 0 /\ leaked[n] = 0
  BY <1>6, <1>7
<1>9. /\ \A s \in Requests : c'[s].node # n
      /\ \A p \in Processes : del[p] # n
  <2>1. ASSUME NEW s \in Requests, c'[s].node = n PROVE FALSE
    <3>1. s # r /\ c[s].node = n
      BY <1>1, <1>3, <2>1
    <3>2. s \in Where(Requests, Holds', n) /\ IsFiniteSet(Where(Requests, Holds', n))
      <4>1. Holds'[s] = n
        BY <2>1 DEF Holds
      <4> QED BY <4>1, Finite, CountIs DEF Where
    <3> QED BY <1>8, <3>2, FS_EmptySet DEF Held
  <2>2. ASSUME NEW p \in Processes, del[p] = n PROVE FALSE
    <3>1. p \in Where(Processes, del, n) /\ IsFiniteSet(Where(Processes, del, n))
      BY <2>2, Finite, CountIs DEF Where
    <3> QED BY <1>8, <3>1, FS_EmptySet DEF Unlinking
  <2> QED BY <2>1, <2>2
<1>10. HeldIsInTree'
  <2>1. ASSUME NEW s \in Requests, c'[s].node # None
        PROVE  c'[s].node \in tree' /\ node'[c'[s].node].key = c'[s].key
    <3>1. s # r /\ c'[s] = c[s] /\ c[s].node # n
      BY <1>1, <1>3, <1>9, <2>1
    <3> QED BY <1>2, <1>3, <2>1, <3>1 DEF HeldIsInTree
  <2>2. ASSUME NEW p \in Processes, del[p] # None PROVE del[p] \in tree'
    BY <1>2, <1>9, <2>2 DEF HeldIsInTree
  <2> QED BY <2>1, <2>2 DEF HeldIsInTree
<1>11. CountInv'
  <2>1. \A m \in Nodes \ {n} : Held(m)' = Held(m)
    <3> SUFFICES ASSUME NEW m \in Nodes \ {n} PROVE Held(m)' = Held(m)
      OBVIOUS
    <3>1. c[r].node # m /\ c'[r].node # m
      BY <1>1, <1>3, ProcessAssumption
    <3> QED BY <1>1, <3>1, HeldChange
  <2>2. \A m : Unlinking(m)' = Unlinking(m)
    BY DEF Unlinking
  <2>3. \A m \in tree' : node'[m].count = Held(m)' + Unlinking(m)' + leaked[m]
    BY <1>2, <1>3, <2>1, <2>2 DEF CountInv
  <2>4. \A m \in Nodes \ tree' : leaked[m] = 0
    BY <1>2, <1>8 DEF CountInv
  <2> QED BY <2>3, <2>4 DEF CountInv
<1>12. UpdatingClaimed'
  <2> SUFFICES ASSUME NEW m \in tree', node'[m].updating, ~(leaked[m] > 0)
               PROVE  \E s \in Requests : c'[s].node = m /\ (c'[s].updating \/ c'[s].pc = "update")
    BY DEF UpdatingClaimed
  <2>1. m \in tree /\ m # n /\ node[m].updating
    BY <1>2, <1>3
  <2>2. PICK s \in Requests : c[s].node = m /\ (c[s].updating \/ c[s].pc = "update")
    BY <2>1 DEF UpdatingClaimed
  <2>3. s # r
    BY <2>1, <2>2
  <2> QED BY <1>1, <2>2, <2>3
<1> QED BY <1>2, <1>4, <1>5, <1>10, <1>11, <1>12

-----------------------------------------------------------------------------
(* Deletion *)

(* Nothing of the requests' entries changes.                               *)
SameEntries ==
  /\ c' \in [Requests -> Cache]
  /\ \A r \in Requests :
       /\ c'[r].node = c[r].node /\ c'[r].key = c[r].key /\ c'[r].updating = c[r].updating
       /\ c[r].pc = "update" => c'[r].pc = "update"

LEMMA HeldSame ==
  ASSUME SameEntries
  PROVE  \A n : Held(n)' = Held(n)
<1>1. Holds' = Holds
  BY DEF Holds, SameEntries
<1> QED BY <1>1 DEF Held

(* An entry that nobody uses goes.                                         *)
LEMMA Goes0 ==
  ASSUME IInv, SameEntries, StageInv', NEW n \in tree, Remove(n),
         del' \in [Processes -> Nodes \cup {None}],
         \A m \in Nodes \ {n} : Unlinking(m)' = Unlinking(m),
         \A p \in Processes : del'[p] # None => del'[p] = del[p] /\ del[p] # n,
         Held(n) = 0, leaked[n] = 0, \A r \in Requests : c[r].node # n,
         UNCHANGED <<leaked, kills, cold>>
  PROVE  IInv'
<1> USE DEF IInv
<1>1. /\ node' \in [Nodes -> Entry] /\ tree' = tree \ {n} /\ queue' \in Seq(Nodes)
      /\ QueueInv' /\ n \in Nodes /\ \A e \in Nodes \ {n} : node'[e] = node[e]
  BY QueueRemove
<1>2. tree \subseteq Nodes
  BY DEF TypeOK
<1>3. TypeOK'
  BY <1>1, <1>2 DEF TypeOK, SameEntries
<1>4. HeldIsInTree'
  <2>1. ASSUME NEW s \in Requests, c'[s].node # None
        PROVE  c'[s].node \in tree' /\ node'[c'[s].node].key = c'[s].key
    <3>1. c'[s].node = c[s].node /\ c'[s].key = c[s].key /\ c[s].node # n
      BY DEF SameEntries
    <3> QED BY <1>1, <1>2, <2>1, <3>1 DEF HeldIsInTree
  <2>2. ASSUME NEW p \in Processes, del'[p] # None PROVE del'[p] \in tree'
    BY <1>1, <2>2 DEF HeldIsInTree
  <2> QED BY <2>1, <2>2 DEF HeldIsInTree
<1>5. CountInv'
  <2>1. \A m \in tree' : node'[m].count = Held(m)' + Unlinking(m)' + leaked[m]
    BY <1>1, <1>2, HeldSame DEF CountInv
  <2>2. \A m \in Nodes \ tree' : leaked[m] = 0
    BY <1>1 DEF CountInv
  <2> QED BY <2>1, <2>2 DEF CountInv
<1>6. UpdatingClaimed'
  <2> SUFFICES ASSUME NEW m \in tree', node'[m].updating, ~(leaked[m] > 0)
               PROVE  \E s \in Requests : c'[s].node = m /\ (c'[s].updating \/ c'[s].pc = "update")
    BY DEF UpdatingClaimed
  <2>1. m \in tree /\ node[m].updating
    BY <1>1, <1>2
  <2>2. PICK s \in Requests : c[s].node = m /\ (c[s].updating \/ c[s].pc = "update")
    BY <2>1 DEF UpdatingClaimed
  <2> QED BY <2>2 DEF SameEntries
<1> QED BY <1>1, <1>3, <1>4, <1>5, <1>6

(* An entry stays, and its count follows a deletion.                       *)
LEMMA Counted ==
  ASSUME IInv, SameEntries, StageInv', NEW n \in tree, NEW e \in Entry,
         node' = [node EXCEPT ![n] = e], e.key = node[n].key, e.old = node[n].old,
         e.updating = node[n].updating, NEW p \in Processes, NEW v \in {None, n},
         del' = [del EXCEPT ![p] = v], del[p] \in {None, n},
         v = n => del[p] = None /\ e.count = node[n].count + 1,
         v = None => del[p] = n /\ e.count = node[n].count - 1,
         UNCHANGED <<tree, queue, leaked, kills, cold>>
  PROVE  IInv'
<1> USE DEF IInv
<1>1. n \in Nodes /\ tree \subseteq Nodes /\ n # None
  BY ProcessAssumption DEF TypeOK
<1>2. node' \in [Nodes -> Entry] /\ node'[n] = e /\ \A m \in Nodes \ {n} : node'[m] = node[m]
  BY <1>1 DEF TypeOK
<1>3. /\ del' \in [Processes -> Nodes \cup {None}] /\ del'[p] = v
      /\ \A s \in Processes \ {p} : del'[s] = del[s]
  BY <1>1 DEF TypeOK
<1>4. TypeOK'
  BY <1>2, <1>3 DEF TypeOK, SameEntries
<1>5. QueueInv'
  <2>1. \A m \in tree : node'[m].old = node[m].old
    BY <1>1, <1>2
  <2> QED BY <2>1, QueueSame
<1>6. HeldIsInTree'
  BY <1>1, <1>2, <1>3 DEF HeldIsInTree, SameEntries
<1>7. CountInv'
  <2>1. \A m : Held(m)' = Held(m) /\ Held(m) \in Nat
    BY HeldSame, Counts
  <2>2. \A m \in Nodes \ {n} : Unlinking(m)' = Unlinking(m)
    <3> SUFFICES ASSUME NEW m \in Nodes \ {n} PROVE Unlinking(m)' = Unlinking(m)
      OBVIOUS
    <3>1. del[p] # m /\ del'[p] # m
      BY <1>3, ProcessAssumption
    <3> QED BY <1>3, <3>1, UnlinkingChange
  <2>3. \A m \in tree \ {n} : node'[m].count = Held(m)' + Unlinking(m)' + leaked[m]
    BY <1>1, <1>2, <2>1, <2>2 DEF CountInv
  <2>4. node[n].count = Held(n) + Unlinking(n) + leaked[n] /\ leaked[n] \in Nat
    BY <1>1 DEF CountInv, TypeOK
  <2>5. Unlinking(n) \in Nat
        /\ Unlinking(n)' = IF v = n THEN Unlinking(n) + 1 ELSE Unlinking(n) - 1
    BY <1>1, <1>3, UnlinkingChange
  <2>6. node'[n].count = Held(n)' + Unlinking(n)' + leaked[n]
    BY <1>1, <1>2, <2>1, <2>4, <2>5
  <2> QED BY <2>3, <2>6 DEF CountInv
<1>8. UpdatingClaimed'
  <2> SUFFICES ASSUME NEW m \in tree, node'[m].updating, ~(leaked[m] > 0)
               PROVE  \E s \in Requests : c'[s].node = m /\ (c'[s].updating \/ c'[s].pc = "update")
    BY DEF UpdatingClaimed
  <2>1. node[m].updating
    BY <1>1, <1>2
  <2>2. PICK s \in Requests : c[s].node = m /\ (c[s].updating \/ c[s].pc = "update")
    BY <2>1 DEF UpdatingClaimed
  <2> QED BY <2>2 DEF SameEntries
<1> QED BY <1>4, <1>5, <1>6, <1>7, <1>8

LEMMA Nobody ==
  ASSUME NEW n
  PROVE  /\ Held(n) = 0 => \A r \in Requests : c[r].node # n
         /\ Unlinking(n) = 0 => \A p \in Processes : del[p] # n
<1>1. IsFiniteSet(Where(Requests, Holds, n)) /\ IsFiniteSet(Where(Processes, del, n))
  BY Finite, CountIs
<1>2. ASSUME Held(n) = 0, NEW r \in Requests PROVE c[r].node # n
  <2>1. Where(Requests, Holds, n) = {}
    BY <1>1, <1>2, FS_EmptySet DEF Held
  <2> QED BY <2>1 DEF Where, Holds
<1>3. ASSUME Unlinking(n) = 0, NEW p \in Processes PROVE del[p] # n
  <2>1. Where(Processes, del, n) = {}
    BY <1>1, <1>3, FS_EmptySet DEF Unlinking
  <2> QED BY <2>1 DEF Where
<1> QED BY <1>2, <1>3

(* The parts of the count.                                                 *)
LEMMA Parts ==
  ASSUME IInv, NEW n \in tree
  PROVE  /\ n \in Nodes /\ n # None /\ node[n] \in Entry /\ node[n].count \in Nat
         /\ Held(n) \in Nat /\ Unlinking(n) \in Nat /\ leaked[n] \in Nat
         /\ node[n].count = Held(n) + Unlinking(n) + leaked[n]
<1>1. n \in Nodes /\ n # None /\ node[n] \in Entry /\ leaked[n] \in Nat
  BY ProcessAssumption DEF IInv, TypeOK
<1> QED BY <1>1, Counts DEF IInv, CountInv, Entry

LEMMA DeleteKeeps ==
  ASSUME IInv, SameEntries, NEW p \in Processes, NEW n \in tree, node[n].count = 0,
         del[p] = None, Delete(p, n), UNCHANGED <<leaked, kills, cold>>,
         \A r \in Requests : /\ c'[r].node = None <=> c'[r].pc \in Without
                             /\ c[r].pc = "retry" => c'[r].pc = "retry",
         p \in Requests => c'[p].pc = "retry"
  PROVE  IInv'
<1>1. /\ n \in Nodes /\ n # None /\ node[n] \in Entry /\ node[n].count \in Nat
      /\ Held(n) = 0 /\ Unlinking(n) = 0 /\ leaked[n] = 0
  BY Parts
<1>2. del \in [Processes -> Nodes \cup {None}] /\ Requests \subseteq Processes
  BY DEF IInv, TypeOK, Processes
<1>3. StageInv'
  <2>1. \A r \in Requests : del'[r] # None => del[r] # None \/ r = p
    BY <1>2 DEF Delete
  <2> QED BY <2>1 DEF StageInv, IInv, Without
<1>4. CASE node[n].exists
  <2> DEFINE e == [node[n] EXCEPT !.count = @ + 1, !.deleting = TRUE]
  <2>1. node' = [node EXCEPT ![n] = e] /\ del' = [del EXCEPT ![p] = n] /\ UNCHANGED <<tree, queue>>
    BY <1>1, <1>4 DEF Delete, IInv, TypeOK
  <2>2. /\ e \in Entry /\ e.key = node[n].key /\ e.old = node[n].old
        /\ e.updating = node[n].updating /\ e.count = node[n].count + 1
    <3>1. node[n] \in Entry /\ node[n].count + 1 \in Nat
      BY <1>1
    <3> QED BY <3>1 DEF Entry
  <2> HIDE DEF e
  <2> QED BY <1>1, <1>3, <2>1, <2>2, Counted
<1>5. CASE ~node[n].exists
  <2>1. Remove(n) /\ del' = del
    BY <1>5 DEF Delete
  <2>2. \A m \in Nodes \ {n} : Unlinking(m)' = Unlinking(m)
    BY <2>1 DEF Unlinking
  <2>3. (\A r \in Requests : c[r].node # n) /\ (\A q \in Processes : del[q] # n)
    BY <1>1, Nobody
  <2> QED BY <1>1, <1>2, <1>3, <2>1, <2>2, <2>3, Goes0
<1> QED BY <1>4, <1>5

LEMMA DeletedKeeps ==
  ASSUME IInv, NEW p \in Processes, NEW n, n = del[p], Deleted(p)
  PROVE  IInv'
<1>1. n # None /\ del' = [del EXCEPT ![p] = None] /\ UNCHANGED <<cold, c, leaked, kills>>
  BY DEF Deleted
<1>2. n \in tree /\ del \in [Processes -> Nodes \cup {None}]
  BY <1>1 DEF IInv, HeldIsInTree, TypeOK
<1>3. del'[p] = None /\ \A q \in Processes \ {p} : del'[q] = del[q]
  BY <1>2, <1>1
<1>4. SameEntries /\ StageInv'
  <2>1. \A r \in Requests : del'[r] # None => del[r] # None
    BY <1>1, <1>2 DEF Processes
  <2> QED BY <1>1, <2>1 DEF SameEntries, StageInv, IInv, TypeOK
<1>5. CASE node[n].count = 1
  <2>1. Remove(n)
    BY <1>5 DEF Deleted
  <2>2. Unlinking(n)' = Unlinking(n) - 1 /\ Unlinking(n) > 0 /\ Unlinking(n)' \in Nat
    BY <1>1, <1>3, UnlinkingChange
  <2>3. Held(n) = 0 /\ leaked[n] = 0 /\ Unlinking(n) = 1 /\ Unlinking(n)' = 0
    BY <1>2, <1>5, <2>2, Parts
  <2>4. \A q \in Processes : q # p => del[q] # n
    <3> SUFFICES ASSUME NEW q \in Processes, q # p, del[q] = n PROVE FALSE
      OBVIOUS
    <3>1. q \in Where(Processes, del', n) /\ IsFiniteSet(Where(Processes, del', n))
      BY <1>3, Finite, CountIs DEF Where
    <3> QED BY <2>3, <3>1, FS_EmptySet DEF Unlinking
  <2>5. \A m \in Nodes \ {n} : Unlinking(m)' = Unlinking(m)
    <3> SUFFICES ASSUME NEW m \in Nodes \ {n} PROVE Unlinking(m)' = Unlinking(m)
      OBVIOUS
    <3>1. del[p] # m /\ del'[p] # m
      BY <1>3, ProcessAssumption
    <3> QED BY <1>3, <3>1, UnlinkingChange
  <2>6. \A r \in Requests : c[r].node # n
    BY <2>3, Nobody
  <2> QED BY <1>1, <1>2, <1>3, <1>4, <2>1, <2>3, <2>4, <2>5, <2>6, Goes0
<1>6. CASE node[n].count # 1
  <2> DEFINE e == [node[n] EXCEPT !.count = @ - 1, !.deleting = FALSE]
  <2>1. node' = [node EXCEPT ![n] = e] /\ UNCHANGED <<tree, queue>>
    BY <1>2, <1>6 DEF Deleted, IInv, TypeOK
  <2>2. Unlinking(n) > 0
    BY <1>1, <1>3, UnlinkingChange
  <2>3. node[n] \in Entry /\ node[n].count - 1 \in Nat
    BY <1>2, <2>2, Parts
  <2>4. /\ e \in Entry /\ e.key = node[n].key /\ e.old = node[n].old
        /\ e.updating = node[n].updating /\ e.count = node[n].count - 1
    BY <2>3 DEF Entry
  <2> HIDE DEF e
  <2> QED BY <1>1, <1>2, <1>4, <2>1, <2>4, Counted
<1> QED BY <1>5, <1>6

(* A worker dies, with an entry in use or while it deletes one.            *)
LEMMA KillKeeps ==
  ASSUME IInv, NEW r \in Requests, Kill(r)
  PROVE  IInv'
<1> USE DEF IInv
<1>1. /\ c' = [c EXCEPT ![r] = Idle] /\ del' = [del EXCEPT ![r] = None]
      /\ leaked' = [n \in Nodes |-> leaked[n] + (IF n \in {c[r].node, del[r]} THEN 1 ELSE 0)]
      /\ UNCHANGED <<node, tree, queue, cold>> /\ kills < MaxKills /\ kills' = kills + 1
  BY DEF Kill, index
<1>2. /\ c'[r] = Idle /\ Idle.node = None /\ Idle.pc = "idle"
      /\ \A s \in Requests \ {r} : c'[s] = c[s]
      /\ c' \in [Requests -> Cache] /\ r \in Processes
  BY <1>1 DEF TypeOK, Idle, Cache, Processes
<1>3. /\ del' \in [Processes -> Nodes \cup {None}] /\ del'[r] = None
      /\ \A p \in Processes \ {r} : del'[p] = del[p]
  BY <1>1, <1>2 DEF TypeOK
<1>4. \A n \in Nodes : /\ leaked[n] \in Nat /\ leaked'[n] \in Nat /\ n # None
                       /\ n \in {c[r].node, del[r]} => leaked'[n] = leaked[n] + 1
                       /\ n \notin {c[r].node, del[r]} => leaked'[n] = leaked[n]
  BY <1>1, ProcessAssumption DEF TypeOK
<1>5. TypeOK'
  <2>1. kills' \in 0 .. MaxKills
    BY <1>1, KillAssumption DEF TypeOK
  <2>2. leaked' \in [Nodes -> Nat]
    BY <1>1, <1>4
  <2> QED BY <1>1, <1>2, <1>3, <2>1, <2>2 DEF TypeOK
<1>6. QueueInv'
  BY <1>1, QueueSame
<1>7. StageInv'
  BY <1>2, <1>3 DEF StageInv, Processes
<1>8. HeldIsInTree'
  BY <1>1, <1>2, <1>3 DEF HeldIsInTree
<1>9. \/ c[r].node = None
      \/ del[r] = None
  BY DEF StageInv
<1>10. tree \subseteq Nodes
  BY DEF TypeOK
<1>11. CountInv'
  <2>1. ASSUME NEW n \in tree PROVE node[n].count = Held(n)' + Unlinking(n)' + leaked'[n]
    <3>1. /\ Held(n) \in Nat /\ Unlinking(n) \in Nat /\ leaked[n] \in Nat
          /\ node[n].count = Held(n) + Unlinking(n) + leaked[n]
      BY Parts
    <3>2. /\ c[r].node = n => Held(n)' = Held(n) - 1
          /\ c[r].node # n => Held(n)' = Held(n)
      BY <1>2, <1>4, <1>10, HeldChange
    <3>3. /\ del[r] = n => Unlinking(n)' = Unlinking(n) - 1
          /\ del[r] # n => Unlinking(n)' = Unlinking(n)
      BY <1>2, <1>3, <1>4, <1>10, UnlinkingChange
    <3>4. ~(c[r].node = n /\ del[r] = n)
      BY <1>4, <1>9, <1>10
    <3> QED BY <1>4, <1>10, <3>1, <3>2, <3>3, <3>4
  <2>2. ASSUME NEW n \in Nodes \ tree PROVE leaked'[n] = 0
    <3>1. n \notin {c[r].node, del[r]}
      BY <1>2, <1>4 DEF HeldIsInTree
    <3> QED BY <1>4, <3>1 DEF CountInv
  <2> QED BY <1>1, <2>1, <2>2 DEF CountInv
<1>12. UpdatingClaimed'
  <2> SUFFICES ASSUME NEW n \in tree, node[n].updating, ~(leaked'[n] > 0)
               PROVE  \E s \in Requests : c'[s].node = n /\ (c'[s].updating \/ c'[s].pc = "update")
    BY <1>1 DEF UpdatingClaimed
  <2>1. n \in Nodes /\ n # c[r].node /\ leaked[n] = 0
    BY <1>4, <1>10
  <2>2. PICK s \in Requests : c[s].node = n /\ (c[s].updating \/ c[s].pc = "update")
    BY <2>1 DEF UpdatingClaimed
  <2>3. s # r
    BY <2>1, <2>2
  <2> QED BY <1>2, <2>2, <2>3
<1> QED BY <1>5, <1>6, <1>7, <1>8, <1>11, <1>12

-----------------------------------------------------------------------------
(* The actions *)

LEMMA GoesTo ==
  ASSUME IInv, NEW r \in Requests, NEW pc, Goes(r, pc)
  PROVE  LET x == [c[r] EXCEPT !.pc = pc, !.declined = @ /\ pc = "open"] IN
         /\ c' = [c EXCEPT ![r] = x] /\ x.node = c[r].node /\ x.key = c[r].key
         /\ x.updating = c[r].updating /\ x.pc = pc
         /\ pc \in {"idle", "full", "retry", "looked", "open", "read", "check",
                    "serve", "fetch", "pass", "update"} => x \in Cache
<1>1. c[r] \in Cache /\ c \in [Requests -> Cache]
  BY DEF IInv, TypeOK
<1> QED BY <1>1 DEF Goes, Cache

(* A request that has an entry goes on.                                    *)
LEMMA GoesOn ==
  ASSUME IInv, NEW r \in Requests, NEW pc, Goes(r, pc),
         pc \in {"open", "read", "check", "serve", "fetch", "pass"},
         c[r].pc \in {"looked", "open", "read", "check"},
         UNCHANGED <<tree, queue, del, leaked, kills, cold>>,
         node' \in [Nodes -> Entry],
         \A n \in tree :
           /\ node'[n].key = node[n].key /\ node'[n].count = node[n].count
           /\ node'[n].old = node[n].old /\ node'[n].updating = node[n].updating
  PROVE  IInv'
<1> DEFINE x == [c[r] EXCEPT !.pc = pc, !.declined = @ /\ pc = "open"]
<1>1. /\ c' = [c EXCEPT ![r] = x] /\ x.node = c[r].node /\ x.key = c[r].key
      /\ x.updating = c[r].updating /\ x.pc = pc /\ x \in Cache
  BY GoesTo
<1>2. c[r].node # None /\ del[r] = None /\ pc \notin Without
  BY DEF IInv, StageInv, Without
<1> HIDE DEF x
<1> QED BY <1>1, <1>2, Stays DEF Without

LEMMA Entered ==
  ASSUME IInv, NEW r \in Requests, c[r].pc \in Without, del[r] = None,
         NEW k \in Keys \cup {None}, NEW n \in Nodes, NEW e \in Entry, e.key = k,
         node' = [node EXCEPT ![n] = e],
         NEW declined \in BOOLEAN, NEW error \in BOOLEAN,
         NEW pc \in {"looked", "open", "serve", "fetch", "pass"},
         Hold(r, k, n, declined, error, pc),
         UNCHANGED <<del, leaked, kills, cold>>, tree' = tree \cup {n},
         queue' \in Seq(Nodes), QueueInv',
         n \in tree => /\ k = node[n].key /\ e.count = node[n].count + 1
                       /\ e.updating = node[n].updating,
         n \notin tree => e.count = 1 /\ ~e.updating
  PROVE  IInv'
<1>1. PICK next \in {pc, "fetch"} :
        c' = [c EXCEPT ![r] = [pc |-> next, key |-> k, node |-> n,
                               declined |-> declined /\ next # "fetch",
                               error |-> error, updating |-> FALSE]]
  BY DEF Hold
<1> DEFINE x == [pc |-> next, key |-> k, node |-> n, declined |-> declined /\ next # "fetch",
                 error |-> error, updating |-> FALSE]
<1>2. x \in Cache /\ x.node = n /\ x.key = e.key /\ x.pc \notin Without
  BY DEF Cache, Without
<1>3. c[r].node = None
  BY DEF IInv, StageInv, Without
<1> HIDE DEF x
<1> QED BY <1>1, <1>2, <1>3, Takes DEF x

LEMMA InsertKeeps ==
  ASSUME IInv, NEW r \in Requests, c[r].pc \in Without, del[r] = None,
         NEW k \in Keys \cup {None}, NEW n \in Nodes, Insert(r, k, n),
         UNCHANGED <<del, leaked, kills, cold>>
  PROVE  IInv'
<1> DEFINE e == [Blank EXCEPT !.key = k, !.uses = 1, !.count = 1]
<1>1. /\ n \notin tree /\ node' = [node EXCEPT ![n] = e] /\ tree' = tree \cup {n}
      /\ queue' = <<n>> \o queue /\ Hold(r, k, n, TRUE, FALSE, "looked")
  BY DEF Insert
<1>2. e \in Entry /\ e.key = k /\ e.count = 1 /\ ~e.updating /\ ~e.old
  <2>1. /\ Blank \in Entry /\ ~Blank.updating /\ ~Blank.old
        /\ 1 \in 0 .. MaxUses /\ 1 \in Nat
    BY NumberAssumption DEF Blank, Entry
  <2> QED BY <2>1 DEF Entry
<1> HIDE DEF e
<1>3. ~node'[n].old /\ \A m \in tree : node'[m].old = node[m].old
  BY <1>1, <1>2 DEF IInv, TypeOK
<1>4. queue' \in Seq(Nodes) /\ QueueInv'
  BY <1>1, <1>3, QueueInsert DEF IInv
<1> QED BY <1>1, <1>2, <1>4, Entered

LEMMA FoundKeeps ==
  ASSUME IInv, NEW r \in Requests, c[r].pc = "idle", NEW k \in Keys, NEW n \in Matches(k),
         Found(r, k, n), UNCHANGED <<del, leaked, kills, cold>>
  PROVE  IInv'
<1> DEFINE up == [node[n] EXCEPT !.uses = AtMost(@ + 1, MaxUses), !.count = @ + 1, !.old = FALSE]
           down == [up EXCEPT !.exists = FALSE, !.error = FALSE]
<1>1. n \in tree /\ node[n].key = k /\ n \in Nodes /\ node[n] \in Entry /\ node[n].count \in Nat
      /\ tree' = tree /\ queue' = Touch(queue, n)
  BY Parts DEF Matches, Found
<1>2. AtMost(node[n].uses + 1, MaxUses) \in 0 .. MaxUses
  BY <1>1, NumberAssumption DEF Entry, AtMost
<1>3. /\ up \in Entry /\ up.key = k /\ up.count = node[n].count + 1 /\ ~up.old
      /\ up.updating = node[n].updating
  <2>1. node[n] \in Entry /\ node[n].count + 1 \in Nat
    BY <1>1
  <2> QED BY <1>1, <1>2, <2>1 DEF Entry
<1>4. /\ down \in Entry /\ down.key = k /\ down.count = node[n].count + 1 /\ ~down.old
      /\ down.updating = node[n].updating
  BY <1>3 DEF Entry
<1>5. \E e \in {up, down}, declined, error \in BOOLEAN,
        pc \in {"looked", "open", "serve", "fetch", "pass"} :
          node' = [node EXCEPT ![n] = e] /\ Hold(r, k, n, declined, error, pc)
  <2>1. \/ node' = [node EXCEPT ![n] = down] /\ Hold(r, k, n, TRUE, FALSE, "looked")
        \/ node' = [node EXCEPT ![n] = up] /\ Hold(r, k, n, FALSE, TRUE, "serve")
        \/ node' = [node EXCEPT ![n] = up] /\ Hold(r, k, n, FALSE, FALSE, Known(r, up))
    BY DEF Found
  <2>2. Known(r, up) \in {"open", "fetch", "pass"}
    BY DEF Known
  <2> HIDE DEF up, down
  <2> QED BY <2>1, <2>2
<1> HIDE DEF up, down
<1>6. PICK e \in {up, down}, declined \in BOOLEAN, error \in BOOLEAN,
        pc \in {"looked", "open", "serve", "fetch", "pass"} :
          node' = [node EXCEPT ![n] = e] /\ Hold(r, k, n, declined, error, pc)
  BY <1>5
<1>7. /\ e \in Entry /\ e.key = k /\ e.count = node[n].count + 1 /\ ~e.old
      /\ e.updating = node[n].updating
  BY <1>3, <1>4, <1>6
<1>8. ~node'[n].old /\ \A m \in tree \ {n} : node'[m].old = node[m].old
  BY <1>1, <1>6, <1>7 DEF IInv, TypeOK
<1>9. queue' \in Seq(Nodes) /\ QueueInv'
  BY <1>1, <1>8, QueueTouch DEF IInv
<1>10. del[r] = None /\ c[r].pc \in Without /\ tree' = tree \cup {n}
  BY <1>1 DEF IInv, StageInv, Without
<1> QED BY <1>1, <1>6, <1>7, <1>9, <1>10, Entered

LEMMA Holding ==
  ASSUME NEW r \in Requests
  PROVE  Held(c[r].node) > 0
<1>1. Held(c[r].node) \in Nat
  BY Counts
<1>2. Held(c[r].node) # 0
  BY Nobody
<1> QED BY <1>1, <1>2

LEMMA VictimUnused ==
  ASSUME IInv, NEW n \in Victims
  PROVE  n \in tree /\ node[n].count = 0
<1>1. \A i \in DOMAIN queue : queue[i] \in tree
  BY DEF IInv, QueueInv, Members
<1> QED BY <1>1 DEF Victims, Unused

LEMMA RequestKeeps ==
  ASSUME IInv, NEW r \in Requests, Request(r)
  PROVE  IInv'
<1> USE DEF IInv
<1>1. c[r] \in Cache /\ c \in [Requests -> Cache] /\ node \in [Nodes -> Entry]
      /\ (c[r].node # None => c[r].node \in tree /\ c[r].node \in Nodes)
  BY DEF TypeOK, HeldIsInTree
<1>2. ASSUME NEW k \in Keys, Exists(r, k) PROVE IInv'
  <2>1. c[r].pc = "idle" /\ UNCHANGED <<cold, del, leaked, kills>>
    BY <1>2 DEF Exists
  <2>2. CASE \E n \in Matches(k) : Found(r, k, n)
    BY <2>1, <2>2, FoundKeeps
  <2>3. CASE \E n \in Nodes : Insert(r, k, n)
    <3>1. del[r] = None /\ c[r].pc \in Without
      BY <2>1 DEF StageInv, Without
    <3> QED BY <2>1, <2>3, <3>1, InsertKeeps
  <2>4. CASE c' = [c EXCEPT ![r].pc = "full", ![r].key = k] /\ UNCHANGED index
    <3> DEFINE x == [c[r] EXCEPT !.pc = "full", !.key = k]
    <3>1. c' = [c EXCEPT ![r] = x]
      BY <1>1, <2>4
    <3>2. x \in Cache /\ x.node = c[r].node /\ x.pc = "full" /\ x.updating = c[r].updating
      BY <1>1 DEF Cache
    <3>3. c[r].node = None /\ del[r] = None
      BY <2>1 DEF StageInv
    <3> HIDE DEF x
    <3>4. UNCHANGED <<node, tree, queue, del, leaked, kills, cold>>
      BY <2>1, <2>4 DEF index
    <3>5. x.node = None /\ x.pc \in Without
      BY <3>2, <3>3 DEF Without
    <3> QED BY <1>1, <3>1, <3>2, <3>3, <3>4, <3>5, Stays
  <2> QED BY <1>2, <2>2, <2>3, <2>4 DEF Exists
<1>3. CASE Retry(r)
  <2>1. c[r].pc = "retry" /\ del[r] = None /\ UNCHANGED <<cold, del, leaked, kills>>
    BY <1>3 DEF Retry
  <2>2. CASE \E n \in Nodes : Insert(r, c[r].key, n)
    <3>1. c[r].key \in Keys \cup {None}
      BY <1>1 DEF Cache
    <3> QED BY <2>1, <2>2, <3>1, InsertKeeps DEF Without
  <2>3. CASE c' = [c EXCEPT ![r] = Idle] /\ UNCHANGED index
    <3>1. Idle \in Cache /\ Idle.node = None /\ Idle.pc = "idle"
      BY DEF Idle, Cache
    <3>2. c[r].node = None
      BY <2>1 DEF StageInv
    <3> QED BY <1>1, <2>1, <2>3, <3>1, <3>2, Stays DEF Without, index
  <2> QED BY <1>3, <2>2, <2>3 DEF Retry
<1>4. CASE Decide(r)
  <2>1. /\ c[r].pc = "looked" /\ UNCHANGED <<node, tree, queue, cold, del, leaked, kills>>
        /\ \E pc \in {"open", "fetch", "pass"} : Goes(r, pc)
    BY <1>4 DEF Decide, Missing, index
  <2> QED BY <1>1, <2>1, GoesOn
<1>5. CASE Open(r)
  <2>1. /\ c[r].pc = "open" /\ UNCHANGED <<node, tree, queue, cold, del, leaked, kills>>
        /\ \E pc \in {"read", "fetch", "pass"} : Goes(r, pc)
    BY <1>5 DEF Open, Missing, index
  <2> QED BY <1>1, <2>1, GoesOn
<1>6. CASE Read(r)
  <2> DEFINE n == c[r].node
             e == [node[n] EXCEPT !.uses = 1, !.exists = TRUE]
  <2>1. /\ c[r].pc = "read" /\ UNCHANGED <<tree, queue, cold, del, leaked, kills>>
        /\ \E pc \in {"check", "fetch"} : Goes(r, pc)
        /\ node' = node \/ node' = [node EXCEPT ![n] = e]
    BY <1>1, <1>6 DEF Read
  <2>2. n \in Nodes
    BY <1>1, <2>1 DEF StageInv
  <2>3. e \in Entry /\ e.key = node[n].key /\ e.count = node[n].count /\ e.old = node[n].old
        /\ e.updating = node[n].updating
    <3>1. node[n] \in Entry /\ 1 \in 0 .. MaxUses
      BY <1>1, <2>2, NumberAssumption
    <3> QED BY <3>1 DEF Entry
  <2> HIDE DEF n, e
  <2>4. /\ node' \in [Nodes -> Entry]
        /\ \A m \in tree :
             /\ node'[m].key = node[m].key /\ node'[m].count = node[m].count
             /\ node'[m].old = node[m].old /\ node'[m].updating = node[m].updating
    BY <1>1, <2>1, <2>2, <2>3 DEF TypeOK
  <2> QED BY <1>1, <2>1, <2>4, GoesOn
<1>7. CASE Check(r)
  <2>1. c[r].pc = "check" /\ UNCHANGED <<tree, queue, cold, del, leaked, kills>>
    BY <1>7 DEF Check
  <2>2. CASE (\E pc \in {"serve", "fetch"} : Goes(r, pc)) /\ node' = node
    BY <1>1, <2>1, <2>2, GoesOn
  <2>3. CASE /\ node' = [node EXCEPT ![c[r].node].updating = TRUE]
             /\ c' = [c EXCEPT ![r].pc = "fetch", ![r].updating = TRUE]
    <3> DEFINE n == c[r].node
               x == [c[r] EXCEPT !.pc = "fetch", !.updating = TRUE]
               e == [node[n] EXCEPT !.updating = TRUE]
    <3>1. n \in Nodes /\ n # None /\ del[r] = None
      BY <1>1, <2>1 DEF StageInv
    <3>2. c' = [c EXCEPT ![r] = x] /\ node' = [node EXCEPT ![n] = e]
      BY <1>1, <2>3, <3>1
    <3>3. x \in Cache /\ x.node = n /\ x.key = c[r].key /\ x.pc = "fetch" /\ x.updating
      BY <1>1 DEF Cache
    <3>4. e \in Entry /\ e.key = node[n].key /\ e.count = node[n].count /\ e.old = node[n].old
      <4>1. node[n] \in Entry
        BY <1>1, <3>1
      <4> QED BY <4>1 DEF Entry
    <3>5. n = c[r].node
      OBVIOUS
    <3> HIDE DEF n, x, e
    <3>6. /\ node' \in [Nodes -> Entry]
          /\ \A m \in tree :
               /\ node'[m].key = node[m].key /\ node'[m].count = node[m].count
               /\ node'[m].old = node[m].old
               /\ node'[m].updating => node[m].updating \/ (x.updating /\ x.node = m)
      BY <1>1, <3>1, <3>2, <3>3, <3>4 DEF TypeOK
    <3>7. /\ x.node = c[r].node /\ x.node # None /\ x.key = c[r].key /\ x.pc \notin Without
          /\ (x.node = None <=> x.pc \in Without) /\ (del[r] # None => x.pc = "retry")
      BY <3>1, <3>3, <3>5 DEF Without
    <3>8. c' = [c EXCEPT ![r] = x] /\ x \in Cache /\ x.updating
      BY <3>2, <3>3
    <3>9. UNCHANGED <<tree, queue, del, leaked, kills, cold>>
      BY <2>1
    <3> QED BY <3>6, <3>7, <3>8, <3>9, Stays
  <2> QED BY <1>7, <2>2, <2>3 DEF Check
<1>8. CASE Rename(r)
  <2> DEFINE x == [c[r] EXCEPT !.pc = "update", !.updating = FALSE]
  <2>1. /\ c[r].pc = "fetch" /\ c' = [c EXCEPT ![r] = x]
        /\ UNCHANGED <<node, tree, queue, cold, del, leaked, kills>>
    BY <1>1, <1>8 DEF Rename, index
  <2>2. x \in Cache /\ x.node = c[r].node /\ x.key = c[r].key /\ x.pc = "update"
    BY <1>1 DEF Cache
  <2>3. c[r].node # None /\ del[r] = None
    BY <2>1 DEF StageInv
  <2> HIDE DEF x
  <2>4. x.node # None /\ x.pc \notin Without
    BY <2>2, <2>3 DEF Without
  <2> QED BY <1>1, <2>1, <2>2, <2>3, <2>4, Stays
<1>9. CASE Update(r)
  <2> DEFINE n == c[r].node
  <2>1. /\ c[r].pc = "update" /\ c' = [c EXCEPT ![r] = Idle]
        /\ UNCHANGED <<tree, queue, cold, del, leaked, kills>>
    BY <1>9 DEF Update
  <2>2. n # None /\ n \in tree
    BY <1>1, <2>1 DEF StageInv
  <2>3. PICK renamed \in BOOLEAN :
          node' = [node EXCEPT ![n] = [node[n] EXCEPT !.count = @ - 1, !.updating = FALSE,
                                                      !.exists = @ \/ renamed]]
    BY <1>1, <1>9, <2>2 DEF Update
  <2> DEFINE e == [node[n] EXCEPT !.count = @ - 1, !.updating = FALSE, !.exists = @ \/ renamed]
  <2>4. node[n] \in Entry /\ node[n].count - 1 \in Nat
    <3>1. Held(n) > 0
      BY Holding
    <3> QED BY <2>2, <3>1, Parts
  <2>5. e \in Entry /\ e.key = node[n].key /\ e.count = node[n].count - 1
        /\ e.old = node[n].old /\ ~e.updating
    BY <2>4 DEF Entry
  <2>6. node' = [node EXCEPT ![n] = e] /\ n = c[r].node
    BY <2>3
  <2> HIDE DEF n, e
  <2> QED BY <2>1, <2>2, <2>5, <2>6, Drops
<1>10. CASE Free(r)
  <2> DEFINE n == c[r].node
  <2>1. /\ c[r].pc \in {"serve", "fetch", "pass", "open"} /\ c' = [c EXCEPT ![r] = Idle]
        /\ UNCHANGED <<cold, del, leaked, kills>>
    BY <1>10 DEF Free
  <2>2. n # None /\ n \in tree
    BY <1>1, <2>1 DEF StageInv
  <2>3. PICK error \in BOOLEAN :
          LET e == [node[n] EXCEPT !.count = @ - 1, !.updating = @ /\ ~c[r].updating,
                                   !.error = @ \/ error]
          IN  \/ e.count = 0 /\ Remove(n)
              \/ node' = [node EXCEPT ![n] = e] /\ UNCHANGED <<tree, queue>>
    <3>1. PICK failed \in BOOLEAN :
            LET error == failed \/ c[r].error
                e == [node[n] EXCEPT !.count = @ - 1, !.updating = @ /\ ~c[r].updating,
                                     !.error = @ \/ error]
            IN  \/ e.count = 0 /\ Remove(n)
                \/ node' = [node EXCEPT ![n] = e] /\ UNCHANGED <<tree, queue>>
      BY <1>10 DEF Free
    <3>2. (failed \/ c[r].error) \in BOOLEAN
      OBVIOUS
    <3> QED BY <3>1, <3>2
  <2> DEFINE e == [node[n] EXCEPT !.count = @ - 1, !.updating = @ /\ ~c[r].updating,
                                  !.error = @ \/ error]
  <2>4. node[n] \in Entry /\ node[n].count - 1 \in Nat
    <3>1. Held(n) > 0
      BY Holding
    <3> QED BY <2>2, <3>1, Parts
  <2>5. e \in Entry /\ e.key = node[n].key /\ e.count = node[n].count - 1
        /\ e.old = node[n].old /\ (e.updating => node[n].updating /\ ~c[r].updating)
    BY <2>4 DEF Entry
  <2>6. n = c[r].node
    OBVIOUS
  <2>7. \/ e.count = 0 /\ Remove(n)
        \/ node' = [node EXCEPT ![n] = e] /\ UNCHANGED <<tree, queue>>
    BY <2>3
  <2> HIDE DEF n, e
  <2>8. CASE e.count = 0 /\ Remove(n)
    BY <2>1, <2>2, <2>5, <2>6, <2>8, DropsLast
  <2>9. CASE node' = [node EXCEPT ![n] = e] /\ UNCHANGED <<tree, queue>>
    BY <2>1, <2>2, <2>5, <2>6, <2>9, Drops
  <2> QED BY <2>7, <2>8, <2>9
<1>11. CASE ForcedExpire(r)
  <2>1. c[r].pc = "full" /\ Goes(r, "retry") /\ UNCHANGED <<cold, leaked, kills>>
    BY <1>11 DEF ForcedExpire
  <2> DEFINE x == [c[r] EXCEPT !.pc = "retry", !.declined = @ /\ "retry" = "open"]
  <2>2. /\ c' = [c EXCEPT ![r] = x] /\ x.node = c[r].node /\ x.key = c[r].key
        /\ x.updating = c[r].updating /\ x.pc = "retry" /\ x \in Cache
    BY <1>1, <2>1 DEF Goes, Cache
  <2>3. c[r].node = None /\ del[r] = None
    BY <2>1 DEF StageInv
  <2> HIDE DEF x
  <2>4. /\ c' \in [Requests -> Cache] /\ c'[r] = x /\ \A s \in Requests \ {r} : c'[s] = c[s]
    BY <1>1, <2>2
  <2>5. CASE \E n \in Victims : Delete(r, n)
    <3> SUFFICES ASSUME NEW n \in Victims, Delete(r, n) PROVE IInv'
      BY <2>5
    <3>1. n \in tree /\ node[n].count = 0
      BY VictimUnused
    <3>2. SameEntries
      BY <2>1, <2>2, <2>4 DEF SameEntries
    <3>3. /\ \A s \in Requests : /\ c'[s].node = None <=> c'[s].pc \in Without
                                 /\ c[s].pc = "retry" => c'[s].pc = "retry"
          /\ r \in Processes
      BY <2>2, <2>3, <2>4 DEF StageInv, Without, Processes
    <3> QED BY <2>1, <2>2, <2>3, <2>4, <3>1, <3>2, <3>3, DeleteKeeps
  <2>6. CASE UNCHANGED <<index, del>>
    BY <1>1, <2>1, <2>2, <2>3, <2>6, Stays DEF Without, index
  <2> QED BY <1>11, <2>5, <2>6 DEF ForcedExpire
<1>12. CASE Kill(r)
  BY <1>12, KillKeeps
<1> QED BY <1>2, <1>3, <1>4, <1>5, <1>6, <1>7, <1>8, <1>9, <1>10, <1>11, <1>12 DEF Request

-----------------------------------------------------------------------------
(* The invariant *)

LEMMA InitOK == Init => IInv
<1> SUFFICES ASSUME Init PROVE IInv
  OBVIOUS
<1>1. Blank \in Entry /\ Idle \in Cache /\ Idle.node = None /\ Idle.pc = "idle"
  BY NumberAssumption DEF Blank, Entry, Idle, Cache
<1>2. TypeOK
  BY <1>1, KillAssumption DEF Init, TypeOK
<1>3. QueueInv
  BY DEF Init, QueueInv, Members, NoRepeat, Sorted
<1>4. StageInv /\ HeldIsInTree
  BY <1>1 DEF Init, StageInv, HeldIsInTree, Processes
<1>5. CountInv /\ UpdatingClaimed
  BY DEF Init, CountInv, UpdatingClaimed
<1> QED BY <1>2, <1>3, <1>4, <1>5 DEF IInv

(* The cache manager and the loader leave the requests alone.              *)
LEMMA Elsewhere0 ==
  ASSUME IInv, UNCHANGED <<c, del, leaked, kills, tree>>, cold' \in BOOLEAN,
         node' \in [Nodes -> Entry], queue' \in Seq(Nodes), QueueInv',
         \A n \in tree : /\ node'[n].key = node[n].key /\ node'[n].count = node[n].count
                         /\ node'[n].updating = node[n].updating
  PROVE  IInv'
<1> USE DEF IInv
<1>1. TypeOK'
  BY DEF TypeOK
<1>2. StageInv' /\ HeldIsInTree'
  BY DEF StageInv, HeldIsInTree
<1>3. CountInv'
  BY DEF CountInv, Held, Holds, Unlinking
<1>4. UpdatingClaimed'
  BY DEF UpdatingClaimed
<1> QED BY <1>1, <1>2, <1>3, <1>4

LEMMA TouchedKeeps ==
  ASSUME IInv, NEW n \in tree, node' = [node EXCEPT ![n].old = FALSE], queue' = Touch(queue, n),
         UNCHANGED <<tree, c, del, leaked, kills, cold>>
  PROVE  IInv'
<1> DEFINE e == [node[n] EXCEPT !.old = FALSE]
<1>1. n \in Nodes /\ node[n] \in Entry /\ node \in [Nodes -> Entry] /\ tree \subseteq Nodes
      /\ cold \in BOOLEAN
  BY Parts DEF IInv, TypeOK
<1>2. node' = [node EXCEPT ![n] = e]
  BY <1>1
<1>3. /\ e \in Entry /\ ~e.old /\ e.key = node[n].key /\ e.count = node[n].count
      /\ e.updating = node[n].updating
  BY <1>1 DEF Entry
<1> HIDE DEF e
<1>4. /\ node' \in [Nodes -> Entry] /\ node'[n] = e
      /\ \A m \in tree \ {n} : node'[m] = node[m]
  BY <1>1, <1>2, <1>3
<1>5. queue' \in Seq(Nodes) /\ QueueInv'
  BY <1>3, <1>4, QueueTouch DEF IInv
<1>6. \A m \in tree : /\ node'[m].key = node[m].key /\ node'[m].count = node[m].count
                      /\ node'[m].updating = node[m].updating
  BY <1>3, <1>4
<1> QED BY <1>1, <1>4, <1>5, <1>6, Elsewhere0

LEMMA ManagerKeeps ==
  ASSUME IInv, NEW m \in Managers, Expire(m) \/ Shrink(m)
  PROVE  IInv'
<1>1. /\ m \in Processes /\ m \notin Requests /\ del[m] = None
      /\ UNCHANGED <<cold, c, leaked, kills>>
  BY ProcessAssumption DEF Processes, Expire, Shrink
<1>2. /\ SameEntries
      /\ \A r \in Requests : /\ c'[r].node = None <=> c'[r].pc \in Without
                             /\ c[r].pc = "retry" => c'[r].pc = "retry"
  BY <1>1 DEF SameEntries, IInv, TypeOK, StageInv, Without
<1>3. ASSUME NEW n \in tree, node[n].count = 0, Delete(m, n) PROVE IInv'
  BY <1>1, <1>2, <1>3, DeleteKeeps
<1>4. CASE Expire(m)
  <2> DEFINE n == Last(queue)
  <2>1. queue # <<>>
    BY <1>4 DEF Expire, Due
  <2>2. n \in tree
    <3>1. Len(queue) \in DOMAIN queue
      BY <2>1 DEF IInv, TypeOK
    <3> QED BY <3>1 DEF Last, IInv, QueueInv, Members
  <2>3. \/ node[n].count = 0 /\ Delete(m, n)
        \/ /\ queue' = Touch(queue, n) /\ node' = [node EXCEPT ![n].old = FALSE]
           /\ UNCHANGED <<tree, del>>
    BY <1>4 DEF Expire
  <2> HIDE DEF n
  <2> QED BY <1>1, <1>3, <2>2, <2>3, TouchedKeeps
<1>5. CASE Shrink(m)
  BY <1>3, <1>5, VictimUnused DEF Shrink
<1> QED BY <1>4, <1>5

LEMMA VisitKeeps ==
  ASSUME IInv, NEW k \in Keys, Visit(k)
  PROVE  IInv'
<1>1. UNCHANGED <<cold, c, del, leaked, kills>>
  BY DEF Visit
<1>2. ASSUME NEW n \in Matches(k), node' = [node EXCEPT ![n].old = FALSE],
             queue' = Touch(queue, n), tree' = tree
      PROVE  IInv'
  BY <1>1, <1>2, TouchedKeeps DEF Matches
<1>3. ASSUME NEW n \in Nodes \ tree, tree' = tree \cup {n}, queue' = <<n>> \o queue,
             node' = [node EXCEPT ![n] = [Blank EXCEPT !.key = k, !.uses = 1, !.exists = TRUE]]
      PROVE  IInv'
  <2> USE DEF IInv
  <2> DEFINE e == [Blank EXCEPT !.key = k, !.uses = 1, !.exists = TRUE]
  <2>1. e \in Entry /\ ~e.updating /\ ~e.old /\ e.count = 0
    <3>1. /\ Blank \in Entry /\ ~Blank.updating /\ ~Blank.old /\ Blank.count = 0
          /\ 1 \in 0 .. MaxUses
      BY NumberAssumption DEF Blank, Entry
    <3> QED BY <3>1 DEF Entry
  <2>2. node' = [node EXCEPT ![n] = e]
    BY <1>3
  <2> HIDE DEF e
  <2>3. /\ node' \in [Nodes -> Entry] /\ node'[n] = e /\ tree \subseteq Nodes
        /\ \A m \in Nodes \ {n} : node'[m] = node[m]
    BY <2>1, <2>2 DEF TypeOK
  <2>4. queue' \in Seq(Nodes) /\ QueueInv'
    <3>1. n \notin tree /\ ~node'[n].old /\ \A m \in tree : node'[m].old = node[m].old
      BY <2>1, <2>3
    <3> QED BY <1>3, <3>1, QueueInsert
  <2>5. TypeOK'
    BY <1>1, <1>3, <2>3, <2>4 DEF TypeOK
  <2>6. StageInv'
    BY <1>1 DEF StageInv
  <2>7. HeldIsInTree'
    BY <1>1, <1>3, <2>3 DEF HeldIsInTree
  <2>8. CountInv'
    <3>1. Held(n) = 0 /\ Unlinking(n) = 0 /\ leaked[n] = 0
      BY <1>3, Counts, ProcessAssumption DEF HeldIsInTree, CountInv
    <3>2. \A m : Held(m)' = Held(m) /\ Unlinking(m)' = Unlinking(m)
      BY <1>1 DEF Held, Holds, Unlinking
    <3>3. ASSUME NEW m \in tree' PROVE node'[m].count = Held(m)' + Unlinking(m)' + leaked'[m]
      <4>1. CASE m = n
        <5>1. node'[m].count = 0 /\ Held(m)' = 0 /\ Unlinking(m)' = 0 /\ leaked'[m] = 0
          BY <1>1, <2>1, <2>3, <3>1, <3>2, <4>1
        <5> QED BY <5>1
      <4>2. CASE m # n
        <5>1. m \in tree /\ node'[m] = node[m]
          BY <1>3, <2>3, <3>3, <4>2
        <5> QED BY <1>1, <3>2, <5>1 DEF CountInv
      <4> QED BY <4>1, <4>2
    <3>4. \A m \in Nodes \ tree' : leaked'[m] = 0
      BY <1>1, <1>3 DEF CountInv
    <3> QED BY <3>3, <3>4 DEF CountInv
  <2>9. UpdatingClaimed'
    <3> SUFFICES ASSUME NEW m \in tree', node'[m].updating
                 PROVE  \/ leaked'[m] > 0
                        \/ \E r \in Requests : /\ c'[r].node = m
                                               /\ c'[r].updating \/ c'[r].pc = "update"
      BY DEF UpdatingClaimed
    <3>1. m # n
      BY <2>1, <2>3
    <3>2. m \in tree /\ node[m].updating
      BY <1>3, <2>3, <3>1
    <3> QED BY <1>1, <3>2 DEF UpdatingClaimed
  <2> QED BY <2>4, <2>5, <2>6, <2>7, <2>8, <2>9
<1> QED BY <1>2, <1>3 DEF Visit

LEMMA NextOK == IInv /\ [Next]_vars => IInv'
<1> SUFFICES ASSUME IInv, [Next]_vars PROVE IInv'
  OBVIOUS
<1>1. ASSUME NEW r \in Requests, Request(r) PROVE IInv'
  BY <1>1, RequestKeeps
<1>2. ASSUME NEW m \in Managers, Expire(m) \/ Shrink(m) PROVE IInv'
  BY <1>2, ManagerKeeps
<1>3. ASSUME NEW p \in Processes, Deleted(p) PROVE IInv'
  BY <1>3, DeletedKeeps
<1>4. ASSUME NEW k \in Keys, Visit(k) PROVE IInv'
  BY <1>4, VisitKeeps
<1>5. CASE Loaded \/ UNCHANGED vars
  <2>1. UNCHANGED <<node, tree, queue, c, del, leaked, kills>> /\ cold' \in BOOLEAN
    BY <1>5 DEF Loaded, vars, index, IInv, TypeOK
  <2>2. node' \in [Nodes -> Entry] /\ queue' \in Seq(Nodes)
    BY <2>1 DEF IInv, TypeOK
  <2>3. QueueInv'
    BY <2>1, QueueSame DEF IInv
  <2> QED BY <2>1, <2>2, <2>3, Elsewhere0
<1>6. CASE Age
  <2>1. /\ node' = [n \in Nodes |-> [node[n] EXCEPT !.old = n \in tree]]
        /\ UNCHANGED <<tree, queue, cold, c, del, leaked, kills>>
    BY <1>6 DEF Age
  <2>2. \A n \in Nodes : node[n] \in Entry
    BY DEF IInv, TypeOK
  <2>3. \A n \in Nodes :
          /\ node'[n] \in Entry /\ node'[n].old = (n \in tree)
          /\ node'[n].key = node[n].key /\ node'[n].count = node[n].count
          /\ node'[n].updating = node[n].updating
    <3> SUFFICES ASSUME NEW n \in Nodes
                 PROVE  /\ node'[n] \in Entry /\ node'[n].old = (n \in tree)
                        /\ node'[n].key = node[n].key /\ node'[n].count = node[n].count
                        /\ node'[n].updating = node[n].updating
      OBVIOUS
    <3> DEFINE is == n \in tree
    <3>1. is \in BOOLEAN /\ is = (n \in tree)
      OBVIOUS
    <3>2. node'[n] = [node[n] EXCEPT !.old = is]
      BY <2>1
    <3> HIDE DEF is
    <3>3. /\ [node[n] EXCEPT !.old = is] \in Entry /\ [node[n] EXCEPT !.old = is].old = is
          /\ [node[n] EXCEPT !.old = is].key = node[n].key
          /\ [node[n] EXCEPT !.old = is].count = node[n].count
          /\ [node[n] EXCEPT !.old = is].updating = node[n].updating
      BY <2>2, <3>1 DEF Entry
    <3> QED BY <3>1, <3>2, <3>3
  <2>4. node' \in [Nodes -> Entry] /\ queue' \in Seq(Nodes) /\ cold' \in BOOLEAN
        /\ tree \subseteq Nodes
    BY <2>1, <2>3 DEF IInv, TypeOK
  <2>5. QueueInv'
    <3>1. \A i \in DOMAIN queue : queue[i] \in Expired'
      <4> SUFFICES ASSUME NEW i \in DOMAIN queue PROVE queue[i] \in Expired'
        OBVIOUS
      <4>1. queue[i] \in tree
        BY DEF IInv, QueueInv, Members
      <4>2. queue[i] \in Nodes /\ node'[queue[i]].old
        BY <2>3, <2>4, <4>1
      <4> QED BY <4>2 DEF Expired
    <3> QED BY <2>1, <3>1 DEF IInv, QueueInv, Sorted
  <2> QED BY <2>1, <2>3, <2>4, <2>5, Elsewhere0
<1> QED BY <1>1, <1>2, <1>3, <1>4, <1>5, <1>6 DEF Next

LEMMA Invariance == Spec => []IInv
BY InitOK, NextOK, PTL DEF Spec

(* The variables have their types (ngx_http_file_cache.c).                 *)
THEOREM TypeCorrect == Spec => []TypeOK
<1>1. IInv => TypeOK
  BY DEF IInv
<1> QED BY <1>1, Invariance, PTL

(* The count of an entry is exact: ngx_http_file_cache_free and            *)
(* ngx_http_file_cache_delete free it below nobody, and it is leaked by    *)
(* dead workers only.                                                      *)
THEOREM CountsExact == Spec => []NodeCount
<1>1. IInv => NodeCount
  BY HeldIs DEF IInv, CountInv, NodeCount
<1> QED BY <1>1, Invariance, PTL

(* An entry in use is in the tree, with the key it was looked up by.       *)
THEOREM HeldStays == Spec => []HeldIsInTree
<1>1. IInv => HeldIsInTree
  BY DEF IInv
<1> QED BY <1>1, Invariance, PTL

(* The queue and the tree have the same entries, each once.                *)
THEOREM QueueIsTree == Spec => []QueueExact
<1>1. IInv => QueueExact
  BY DEF IInv, QueueInv, NoRepeat, QueueExact
<1> QED BY <1>1, Invariance, PTL

(* A stale file marked as being updated is being updated, or its entry was *)
(* leaked.                                                                 *)
THEOREM UpdatersClaim == Spec => []UpdatingClaimed
<1>1. IInv => UpdatingClaimed
  BY DEF IInv
<1> QED BY <1>1, Invariance, PTL

-----------------------------------------------------------------------------
(* Deletions come to an end in view of the manager, when no worker dies    *)
(* between the two halves of one.                                          *)

DeletingInv == \A n \in tree : node[n].deleting => \E p \in Processes : del[p] = n

(* A step that neither begins nor ends a deletion.                         *)
Calm ==
  /\ del' = del
  /\ \A n \in tree' : node'[n].deleting => n \in tree /\ node[n].deleting

LEMMA CalmKeeps == DeletingInv /\ Calm => DeletingInv'
BY DEF DeletingInv, Calm

LEMMA SetCalm ==
  ASSUME IInv, NEW n \in Nodes, NEW e, node' = [node EXCEPT ![n] = e], del' = del,
         tree' \subseteq tree \cup {n}, e.deleting => n \in tree /\ node[n].deleting
  PROVE  Calm
<1>1. node'[n] = e /\ \A m \in Nodes \ {n} : node'[m] = node[m]
  BY DEF IInv, TypeOK
<1>2. tree \subseteq Nodes
  BY DEF IInv, TypeOK
<1> QED BY <1>1, <1>2 DEF Calm

LEMMA RemoveCalm ==
  ASSUME IInv, NEW n \in Nodes, Remove(n), del' = del
  PROVE  Calm
<1>1. ~Blank.deleting
  BY DEF Blank
<1> QED BY <1>1, SetCalm DEF Remove

LEMMA DeleteDeleting ==
  ASSUME IInv, DeletingInv, NEW p \in Processes, NEW n \in tree, node[n].count = 0,
         del[p] = None, Delete(p, n)
  PROVE  DeletingInv'
<1>1. n \in Nodes /\ None \notin Nodes /\ tree \subseteq Nodes
  BY ProcessAssumption DEF IInv, TypeOK
<1>2. CASE node[n].exists
  <2>1. /\ del' = [del EXCEPT ![p] = n] /\ tree' = tree
        /\ \A m \in Nodes \ {n} : node'[m] = node[m]
    BY <1>1, <1>2 DEF Delete, IInv, TypeOK
  <2>2. del'[p] = n /\ \A q \in Processes \ {p} : del'[q] = del[q]
    BY <2>1 DEF IInv, TypeOK
  <2> SUFFICES ASSUME NEW m \in tree', node'[m].deleting PROVE \E q \in Processes : del'[q] = m
    BY DEF DeletingInv
  <2>3. CASE m = n
    BY <2>2, <2>3
  <2>4. CASE m # n
    <3>1. m \in tree /\ node[m].deleting /\ m # None
      BY <1>1, <2>1, <2>4
    <3>2. PICK q \in Processes : del[q] = m
      BY <3>1 DEF DeletingInv
    <3> QED BY <2>2, <3>1, <3>2
  <2> QED BY <2>3, <2>4
<1>3. CASE ~node[n].exists
  BY <1>1, <1>3, RemoveCalm, CalmKeeps DEF Delete
<1> QED BY <1>2, <1>3

LEMMA DeletedDeleting ==
  ASSUME IInv, DeletingInv, NEW p \in Processes, NEW n, n = del[p], Deleted(p)
  PROVE  DeletingInv'
<1>1. n \in tree /\ n \in Nodes /\ tree \subseteq Nodes /\ None \notin Nodes
  BY ProcessAssumption DEF Deleted, IInv, HeldIsInTree, TypeOK
<1>2. del' = [del EXCEPT ![p] = None]
  BY DEF Deleted
<1>3. \A q \in Processes \ {p} : del'[q] = del[q]
  BY <1>2 DEF IInv, TypeOK
<1>4. /\ tree' \subseteq tree
      /\ \A m \in Nodes \ {n} : node'[m] = node[m]
      /\ n \in tree' => ~node'[n].deleting
  <2>1. CASE node[n].count = 1
    BY <1>1, <2>1 DEF Deleted, Remove, IInv, TypeOK
  <2>2. CASE node[n].count # 1
    <3> DEFINE e == [node[n] EXCEPT !.count = @ - 1, !.deleting = FALSE]
    <3>1. node' = [node EXCEPT ![n] = e] /\ tree' = tree
      BY <1>1, <2>2 DEF Deleted, IInv, TypeOK
    <3>2. ~e.deleting
      <4>1. node[n] \in Entry
        BY <1>1 DEF IInv, TypeOK
      <4> QED BY <4>1 DEF Entry
    <3> HIDE DEF e
    <3> QED BY <1>1, <3>1, <3>2 DEF IInv, TypeOK
  <2> QED BY <2>1, <2>2
<1> SUFFICES ASSUME NEW m \in tree', node'[m].deleting PROVE \E q \in Processes : del'[q] = m
  BY DEF DeletingInv
<1>5. m # n /\ m \in tree /\ node[m].deleting
  BY <1>1, <1>4
<1>6. PICK q \in Processes : del[q] = m
  BY <1>5 DEF DeletingInv
<1> QED BY <1>3, <1>5, <1>6

LEMMA InsertCalm ==
  ASSUME IInv, NEW r, NEW k, NEW n \in Nodes, Insert(r, k, n), del' = del
  PROVE  Calm
<1> DEFINE e == [Blank EXCEPT !.key = k, !.uses = 1, !.count = 1]
<1>1. ~e.deleting
  BY DEF Blank
<1>2. node' = [node EXCEPT ![n] = e] /\ tree' = tree \cup {n}
  BY DEF Insert
<1> HIDE DEF e
<1> QED BY <1>1, <1>2, SetCalm

LEMMA FoundCalm ==
  ASSUME IInv, NEW r, NEW k, NEW n \in tree, Found(r, k, n), del' = del
  PROVE  Calm
<1> DEFINE e == [node[n] EXCEPT !.uses = AtMost(@ + 1, MaxUses), !.count = @ + 1, !.old = FALSE]
           f == [e EXCEPT !.exists = FALSE, !.error = FALSE]
<1>1. n \in Nodes /\ node[n] \in Entry
  BY DEF IInv, TypeOK
<1>2. e.deleting = node[n].deleting /\ f.deleting = node[n].deleting
  BY <1>1 DEF Entry
<1>3. /\ tree' = tree
      /\ node' = [node EXCEPT ![n] = e] \/ node' = [node EXCEPT ![n] = f]
  BY DEF Found
<1> HIDE DEF e, f
<1> QED BY <1>1, <1>2, <1>3, SetCalm

LEMMA RequestDeleting ==
  ASSUME KillInDelete = FALSE, IInv, DeletingInv, NEW r \in Requests, Request(r)
  PROVE  DeletingInv'
<1> USE DEF IInv
<1>1. /\ \A n \in Nodes : node[n] \in Entry
      /\ tree \subseteq Nodes /\ None \notin Nodes /\ r \in Processes
      /\ c[r].node # None => c[r].node \in tree
  BY ProcessAssumption DEF TypeOK, Processes, HeldIsInTree
<1>2. ASSUME NEW k \in Keys, Exists(r, k) PROVE Calm
  <2>1. CASE \E n \in Matches(k) : Found(r, k, n)
    BY <1>2, <2>1, FoundCalm DEF Exists, Matches
  <2>2. CASE \E n \in Nodes : Insert(r, k, n)
    BY <1>2, <2>2, InsertCalm DEF Exists
  <2>3. CASE UNCHANGED index
    BY <1>2, <2>3 DEF Exists, index, Calm
  <2> QED BY <1>2, <2>1, <2>2, <2>3 DEF Exists
<1>3. CASE Retry(r)
  <2>1. CASE \E n \in Nodes : Insert(r, c[r].key, n)
    BY <1>3, <2>1, InsertCalm, CalmKeeps DEF Retry
  <2>2. CASE UNCHANGED index
    BY <1>3, <2>2, CalmKeeps DEF Retry, index, Calm
  <2> QED BY <1>3, <2>1, <2>2 DEF Retry
<1>4. CASE Decide(r) \/ Open(r) \/ Rename(r)
  <2>1. UNCHANGED <<node, tree, del>>
    BY <1>4 DEF Decide, Open, Rename, index
  <2> QED BY <2>1, CalmKeeps DEF Calm
<1>5. CASE Read(r)
  <2> DEFINE n == c[r].node
  <2>1. n \in tree /\ tree' = tree /\ del' = del
    BY <1>1, <1>5 DEF Read, StageInv
  <2>2. \/ node' = node
        \/ node' = [node EXCEPT ![n] = [node[n] EXCEPT !.uses = 1, !.exists = TRUE]]
    BY <1>1, <1>5, <2>1 DEF Read, TypeOK
  <2> DEFINE e == [node[n] EXCEPT !.uses = 1, !.exists = TRUE]
  <2>3. e.deleting = node[n].deleting
    BY <1>1, <2>1 DEF Entry
  <2> HIDE DEF n, e
  <2>4. CASE node' = [node EXCEPT ![n] = e]
    BY <1>1, <2>1, <2>3, <2>4, SetCalm, CalmKeeps
  <2>5. CASE node' = node
    BY <2>1, <2>5, CalmKeeps DEF Calm
  <2> QED BY <2>2, <2>4, <2>5 DEF e
<1>6. CASE Check(r)
  <2> DEFINE n == c[r].node
             e == [node[n] EXCEPT !.updating = TRUE]
  <2>1. n \in tree /\ tree' = tree /\ del' = del
    BY <1>1, <1>6 DEF Check, StageInv
  <2>2. node' = node \/ node' = [node EXCEPT ![n] = e]
    BY <1>1, <1>6, <2>1 DEF Check, TypeOK
  <2>3. e.deleting = node[n].deleting
    BY <1>1, <2>1 DEF Entry
  <2> HIDE DEF n, e
  <2>4. CASE node' = [node EXCEPT ![n] = e]
    BY <1>1, <2>1, <2>3, <2>4, SetCalm, CalmKeeps
  <2>5. CASE node' = node
    BY <2>1, <2>5, CalmKeeps DEF Calm
  <2> QED BY <2>2, <2>4, <2>5
<1>7. CASE Update(r)
  <2> DEFINE n == c[r].node
             e(renamed) == [node[n] EXCEPT !.count = @ - 1, !.updating = FALSE,
                                           !.exists = @ \/ renamed]
  <2>1. n \in tree /\ tree' = tree /\ del' = del
    BY <1>1, <1>7 DEF Update, StageInv
  <2>2. PICK renamed \in BOOLEAN : node' = [node EXCEPT ![n] = e(renamed)]
    BY <1>1, <1>7, <2>1 DEF Update, TypeOK
  <2>3. e(renamed).deleting = node[n].deleting
    BY <1>1, <2>1 DEF Entry
  <2> DEFINE f == e(renamed)
  <2>4. node' = [node EXCEPT ![n] = f] /\ f.deleting = node[n].deleting
    BY <2>2, <2>3
  <2> HIDE DEF n, e, f
  <2> QED BY <1>1, <2>1, <2>4, SetCalm, CalmKeeps
<1>8. CASE Free(r)
  <2> DEFINE n == c[r].node
             e(error) == [node[n] EXCEPT !.count = @ - 1, !.updating = @ /\ ~c[r].updating,
                                         !.error = @ \/ error]
  <2>1. n \in tree /\ del' = del
    BY <1>1, <1>8 DEF Free, StageInv
  <2>2. PICK failed \in BOOLEAN :
          \/ Remove(n)
          \/ node' = [node EXCEPT ![n] = e(failed \/ c[r].error)] /\ tree' = tree
    BY <1>8 DEF Free
  <2> DEFINE f == e(failed \/ c[r].error)
  <2>3. f.deleting = node[n].deleting
    BY <1>1, <2>1 DEF Entry
  <2>4. Remove(n) \/ (node' = [node EXCEPT ![n] = f] /\ tree' = tree)
    BY <2>2
  <2> HIDE DEF n, e, f
  <2>5. CASE Remove(n)
    BY <1>1, <2>1, <2>5, RemoveCalm, CalmKeeps
  <2>6. CASE node' = [node EXCEPT ![n] = f] /\ tree' = tree
    BY <1>1, <2>1, <2>3, <2>6, SetCalm, CalmKeeps
  <2> QED BY <2>4, <2>5, <2>6
<1>9. CASE ForcedExpire(r)
  <2>1. CASE \E n \in Victims : Delete(r, n)
    <3>1. del[r] = None
      BY <1>9 DEF ForcedExpire, StageInv
    <3> QED BY <1>1, <2>1, <3>1, VictimUnused, DeleteDeleting
  <2>2. CASE UNCHANGED <<index, del>>
    BY <2>2, CalmKeeps DEF Calm, index
  <2> QED BY <1>9, <2>1, <2>2 DEF ForcedExpire
<1>10. CASE Kill(r)
  <2>1. c[r].node # None /\ UNCHANGED <<node, tree>> /\ del' = [del EXCEPT ![r] = None]
    BY <1>10 DEF Kill, index
  <2>2. del[r] = None
    BY <2>1 DEF StageInv
  <2>3. del' = del
    BY <1>1, <2>1, <2>2 DEF TypeOK
  <2> QED BY <2>1, <2>3, CalmKeeps DEF Calm
<1> QED BY <1>2, <1>3, <1>4, <1>5, <1>6, <1>7, <1>8, <1>9, <1>10, CalmKeeps DEF Request

LEMMA OtherDeleting ==
  ASSUME IInv, DeletingInv,
         \/ \E m \in Managers : Expire(m) \/ Shrink(m)
         \/ \E k \in Keys : Visit(k)
         \/ Loaded \/ Age \/ UNCHANGED vars
  PROVE  DeletingInv'
<1> USE DEF IInv
<1>1. /\ \A n \in Nodes : node[n] \in Entry
      /\ tree \subseteq Nodes /\ Managers \subseteq Processes
  BY DEF TypeOK, Processes
<1>2. ASSUME NEW n \in tree, node' = [node EXCEPT ![n].old = FALSE], tree' = tree, del' = del
      PROVE  DeletingInv'
  <2> DEFINE e == [node[n] EXCEPT !.old = FALSE]
  <2>1. e.deleting = node[n].deleting
    BY <1>1 DEF Entry
  <2>2. node' = [node EXCEPT ![n] = e]
    BY <1>1, <1>2 DEF TypeOK
  <2> HIDE DEF e
  <2> QED BY <1>1, <1>2, <2>1, <2>2, SetCalm, CalmKeeps
<1>3. ASSUME NEW m \in Managers, Expire(m) PROVE DeletingInv'
  <2>1. Len(queue) \in DOMAIN queue /\ del[m] = None
    BY <1>3 DEF Expire, Due, TypeOK
  <2>2. Last(queue) \in tree
    BY <2>1 DEF Last, QueueInv, Members
  <2> QED BY <1>1, <1>2, <1>3, <2>1, <2>2, DeleteDeleting DEF Expire
<1>4. ASSUME NEW m \in Managers, Shrink(m) PROVE DeletingInv'
  BY <1>1, <1>4, VictimUnused, DeleteDeleting DEF Shrink
<1>5. ASSUME NEW k \in Keys, Visit(k) PROVE DeletingInv'
  <2>1. ASSUME NEW n \in Nodes \ tree, tree' = tree \cup {n},
               node' = [node EXCEPT ![n] = [Blank EXCEPT !.key = k, !.uses = 1, !.exists = TRUE]]
        PROVE  DeletingInv'
    <3> DEFINE e == [Blank EXCEPT !.key = k, !.uses = 1, !.exists = TRUE]
    <3>1. ~e.deleting
      BY DEF Blank
    <3>2. node' = [node EXCEPT ![n] = e] /\ del' = del
      BY <1>5, <2>1 DEF Visit
    <3> HIDE DEF e
    <3> QED BY <2>1, <3>1, <3>2, SetCalm, CalmKeeps
  <2>2. ASSUME NEW n \in Matches(k), node' = [node EXCEPT ![n].old = FALSE], tree' = tree
        PROVE  DeletingInv'
    BY <1>2, <1>5, <2>2 DEF Visit, Matches
  <2> QED BY <1>5, <2>1, <2>2 DEF Visit
<1>6. CASE Loaded \/ UNCHANGED vars
  <2>1. UNCHANGED <<node, tree, del>>
    BY <1>6 DEF Loaded, vars, index
  <2> QED BY <2>1, CalmKeeps DEF Calm
<1>7. CASE Age
  <2>1. tree' = tree /\ del' = del
    BY <1>7 DEF Age
  <2>2. \A n \in Nodes : node'[n].deleting = node[n].deleting
    BY <1>1, <1>7 DEF Age, Entry
  <2> QED BY <1>1, <2>1, <2>2, CalmKeeps DEF Calm
<1> QED BY <1>3, <1>4, <1>5, <1>6, <1>7

LEMMA DeletingOK ==
  ASSUME KillInDelete = FALSE
  PROVE  Spec => [](IInv /\ DeletingInv)
<1>1. Init => IInv /\ DeletingInv
  BY InitOK DEF Init, DeletingInv
<1>2. IInv /\ DeletingInv /\ [Next]_vars => (IInv /\ DeletingInv)'
  <2> SUFFICES ASSUME IInv, DeletingInv, [Next]_vars PROVE DeletingInv'
    BY NextOK
  <2>1. CASE \E r \in Requests : Request(r)
    BY <2>1, RequestDeleting
  <2>2. CASE \E p \in Processes : Deleted(p)
    BY <2>2, DeletedDeleting
  <2> QED BY <2>1, <2>2, OtherDeleting DEF Next
<1> QED BY <1>1, <1>2, PTL DEF Spec

(* An entry that is due is found by the manager: when no worker dies       *)
(* between the two halves of ngx_http_file_cache_delete, then whatever is  *)
(* in use or is being deleted, the end of the queue is due, and can be     *)
(* dealt with now or by the process that comes back from its unlink.       *)
THEOREM InactiveFound ==
  ASSUME KillInDelete = FALSE
  PROVE  Spec => []InactiveInReach
<1>1. IInv /\ DeletingInv => InactiveInReach
  <2> SUFFICES ASSUME IInv, DeletingInv, NEW n \in tree, node[n].old
               PROVE  Due /\ (node[Last(queue)].deleting
                                => \E p \in Processes : del[p] = Last(queue))
    BY DEF InactiveInReach
  <2>1. PICK i \in DOMAIN queue : queue[i] = n
    BY DEF IInv, QueueInv, Members
  <2>2. /\ Len(queue) \in DOMAIN queue /\ i <= Len(queue) /\ queue # <<>>
        /\ i \in Nat /\ Len(queue) \in Nat
    BY <2>1 DEF IInv, TypeOK
  <2>3. n \in Expired
    BY DEF IInv, TypeOK, Expired
  <2>4. queue[Len(queue)] \in Expired
    <3>1. CASE i = Len(queue)
      BY <2>1, <2>3, <3>1
    <3>2. CASE i < Len(queue)
      BY <2>1, <2>2, <2>3, <3>2 DEF IInv, QueueInv, Sorted
    <3> QED BY <2>2, <3>1, <3>2
  <2>5. Last(queue) \in tree
    BY <2>2 DEF Last, IInv, QueueInv, Members
  <2> QED BY <2>2, <2>4, <2>5 DEF Due, Last, Expired, DeletingInv
<1> QED BY <1>1, DeletingOK, PTL

=============================================================================
