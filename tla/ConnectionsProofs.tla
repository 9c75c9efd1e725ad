------------------------- MODULE ConnectionsProofs -------------------------
(***************************************************************************)
(* Proofs about the connections of a worker, for any number of connections *)
(* and any limit on drained ones.                                          *)
(***************************************************************************)
EXTENDS Connections, SequenceTheorems, FiniteSetTheorems, TLAPS

-----------------------------------------------------------------------------
(* Lists.                                                                   *)

LEMMA MembersOfSeq ==
  ASSUME NEW S, NEW s \in Seq(S), NEW x \in Members(s)
  PROVE  x \in S
BY DEF Members

LEMMA PushedMembers ==
  ASSUME NEW S, NEW s \in Seq(S), NEW x \in S
  PROVE  /\ <<x>> \o s \in Seq(S)
         /\ Len(<<x>> \o s) = Len(s) + 1
         /\ Members(<<x>> \o s) = Members(s) \cup {x}
         /\ NoRepeat(s) /\ x \notin Members(s) => NoRepeat(<<x>> \o s)
<1> DEFINE t == <<x>> \o s
<1>1. t \in Seq(S) /\ Len(t) = Len(s) + 1 /\ DOMAIN t = 1 .. Len(s) + 1
  OBVIOUS
<1>2. t[1] = x /\ \A i \in 1 .. Len(s) : t[i + 1] = s[i]
  OBVIOUS
<1>3. \A i \in 2 .. Len(s) + 1 : i - 1 \in 1 .. Len(s) /\ t[i] = s[i - 1]
  BY <1>2
<1> HIDE DEF t
<1>4. Members(t) = Members(s) \cup {x}
  <2>1. ASSUME NEW y \in Members(t) PROVE y \in Members(s) \cup {x}
    BY <1>1, <1>2, <1>3 DEF Members
  <2>2. ASSUME NEW y \in Members(s) PROVE y \in Members(t)
    <3>1. PICK i \in 1 .. Len(s) : y = s[i] BY DEF Members
    <3>2. i + 1 \in DOMAIN t /\ t[i + 1] = y BY <1>1, <1>2, <3>1
    <3> QED BY <3>2 DEF Members
  <2>3. x \in Members(t) BY <1>1, <1>2 DEF Members
  <2> QED BY <2>1, <2>2, <2>3
<1>5. ASSUME NoRepeat(s), x \notin Members(s) PROVE NoRepeat(t)
  <2> SUFFICES ASSUME NEW i \in DOMAIN t, NEW j \in DOMAIN t, t[i] = t[j], i # j
               PROVE FALSE
    BY DEF NoRepeat
  <2>1. \A k \in 1 .. Len(s) : s[k] # x BY <1>5 DEF Members
  <2>2. \A k, l \in 1 .. Len(s) : s[k] = s[l] => k = l BY <1>5 DEF NoRepeat
  <2>3. CASE i = 1
    <3>1. j \in 2 .. Len(s) + 1 BY <1>1, <2>3
    <3> QED BY <1>2, <1>3, <2>1, <2>3, <3>1
  <2>4. CASE j = 1
    <3>1. i \in 2 .. Len(s) + 1 BY <1>1, <2>4
    <3> QED BY <1>2, <1>3, <2>1, <2>4, <3>1
  <2>5. CASE i # 1 /\ j # 1
    <3>1. i \in 2 .. Len(s) + 1 /\ j \in 2 .. Len(s) + 1 BY <1>1, <2>5
    <3>2. i - 1 = j - 1 BY <1>3, <2>2, <3>1
    <3> QED BY <3>1, <3>2
  <2> QED BY <2>3, <2>4, <2>5
<1> QED BY <1>1, <1>4, <1>5 DEF t

LEMMA TailMembers ==
  ASSUME NEW S, NEW s \in Seq(S), s # <<>>
  PROVE  /\ Head(s) \in S /\ Head(s) \in Members(s)
         /\ Tail(s) \in Seq(S) /\ Len(Tail(s)) = Len(s) - 1
         /\ Members(Tail(s)) \subseteq Members(s)
         /\ NoRepeat(s) => NoRepeat(Tail(s)) /\ Members(Tail(s)) = Members(s) \ {Head(s)}
<1> DEFINE t == Tail(s)
<1>1. /\ Len(s) \in Nat \ {0} /\ t \in Seq(S) /\ Len(t) = Len(s) - 1
      /\ \A i \in 1 .. Len(t) : i + 1 \in 1 .. Len(s) /\ t[i] = s[i + 1]
      /\ Head(s) = s[1] /\ DOMAIN s = 1 .. Len(s) /\ DOMAIN t = 1 .. Len(t)
  OBVIOUS
<1> HIDE DEF t
<1>2. Head(s) \in S /\ Head(s) \in Members(s)
  BY <1>1 DEF Members
<1>3. Members(t) \subseteq Members(s)
  BY <1>1 DEF Members
<1>4. ASSUME NoRepeat(s) PROVE NoRepeat(t) /\ Members(t) = Members(s) \ {Head(s)}
  <2>1. NoRepeat(t)
    BY <1>1, <1>4 DEF NoRepeat
  <2>2. Head(s) \notin Members(t)
    BY <1>1, <1>4 DEF NoRepeat, Members
  <2>3. ASSUME NEW y \in Members(s), y # Head(s) PROVE y \in Members(t)
    <3>1. PICK i \in 1 .. Len(s) : y = s[i] BY <1>1 DEF Members
    <3>2. i - 1 \in 1 .. Len(t) /\ t[i - 1] = y BY <1>1, <2>3, <3>1
    <3> QED BY <1>1, <3>2 DEF Members
  <2> QED BY <1>3, <2>1, <2>2, <2>3
<1> QED BY <1>1, <1>2, <1>3, <1>4 DEF t

(* What ngx_queue_remove and ngx_delete_posted_event leave.                 *)
LEMMA UnlinkMembers ==
  ASSUME NEW S, NEW s \in Seq(S), NEW x
  PROVE  /\ Unlink(s, x) \in Seq(S)
         /\ Members(Unlink(s, x)) \subseteq Members(s)
         /\ NoRepeat(s) => /\ NoRepeat(Unlink(s, x))
                           /\ Members(Unlink(s, x)) = Members(s) \ {x}
<1>1. CASE x \notin Members(s)
  <2>1. Unlink(s, x) = s BY <1>1 DEF Unlink
  <2> QED BY <1>1, <2>1
<1>2. CASE x \in Members(s)
  <2> DEFINE i == CHOOSE j \in DOMAIN s : s[j] = x
             t == [j \in 1 .. Len(s) - 1 |-> IF j < i THEN s[j] ELSE s[j + 1]]
  <2>1. i \in 1 .. Len(s) /\ s[i] = x
    <3>1. \E j \in DOMAIN s : s[j] = x BY <1>2 DEF Members
    <3> QED BY <3>1
  <2>2. Unlink(s, x) = t BY <1>2 DEF Unlink
  <2> HIDE DEF i
  <2>3. Len(s) - 1 \in Nat BY <2>1
  <2>4. \A j \in 1 .. Len(s) - 1 : (IF j < i THEN s[j] ELSE s[j + 1]) \in S
    BY <2>1
  <2>5. t \in Seq(S) BY <2>3, <2>4, IsASeq
  <2>6. /\ DOMAIN t = 1 .. Len(s) - 1 /\ Len(t) = Len(s) - 1
        /\ \A j \in 1 .. Len(s) - 1 : t[j] = IF j < i THEN s[j] ELSE s[j + 1]
    BY <2>3
  <2> HIDE DEF t
  <2>7. Members(t) \subseteq Members(s)
    BY <2>1, <2>6 DEF Members
  <2>8. ASSUME NoRepeat(s) PROVE NoRepeat(t) /\ Members(t) = Members(s) \ {x}
    <3>1. NoRepeat(t)
      <4> SUFFICES ASSUME NEW j \in DOMAIN t, NEW k \in DOMAIN t, t[j] = t[k], j # k
                   PROVE FALSE
        BY DEF NoRepeat
      <4>1. \A k1, k2 \in 1 .. Len(s) : s[k1] = s[k2] => k1 = k2 BY <2>8 DEF NoRepeat
      <4>2. j \in 1 .. Len(s) - 1 /\ k \in 1 .. Len(s) - 1 BY <2>6
      <4>3. CASE j < i /\ k < i BY <2>1, <2>6, <4>1, <4>2, <4>3
      <4>4. CASE j < i /\ k >= i BY <2>1, <2>6, <4>1, <4>2, <4>4
      <4>5. CASE j >= i /\ k < i BY <2>1, <2>6, <4>1, <4>2, <4>5
      <4>6. CASE j >= i /\ k >= i BY <2>1, <2>6, <4>1, <4>2, <4>6
      <4> QED BY <2>1, <4>2, <4>3, <4>4, <4>5, <4>6
    <3>2. x \notin Members(t)
      <4> SUFFICES ASSUME NEW j \in DOMAIN t, t[j] = x PROVE FALSE
        BY DEF Members
      <4> QED BY <2>1, <2>6, <2>8 DEF NoRepeat
    <3>3. ASSUME NEW y \in Members(s), y # x PROVE y \in Members(t)
      <4>1. PICK j \in 1 .. Len(s) : y = s[j] BY DEF Members
      <4>2. j # i BY <2>1, <3>3, <4>1
      <4>3. CASE j < i
        <5>1. j \in 1 .. Len(s) - 1 /\ t[j] = y BY <2>1, <2>6, <4>1, <4>3
        <5> QED BY <2>6, <5>1 DEF Members
      <4>4. CASE j > i
        <5>1. j - 1 \in 1 .. Len(s) - 1 /\ t[j - 1] = y BY <2>1, <2>6, <4>1, <4>4
        <5> QED BY <2>6, <5>1 DEF Members
      <4> QED BY <2>1, <4>2, <4>3, <4>4
    <3> QED BY <2>7, <3>1, <3>2, <3>3
  <2> QED BY <2>2, <2>5, <2>7, <2>8
<1> QED BY <1>1, <1>2

(* What posting an event leaves.                                            *)
LEMMA PostedMembers ==
  ASSUME NEW S, NEW s \in Seq(S), NEW x \in S
  PROVE  /\ Posted(s, x) \in Seq(S)
         /\ Members(Posted(s, x)) = Members(s) \cup {x}
         /\ NoRepeat(s) => NoRepeat(Posted(s, x))
<1>1. CASE x \in Members(s)
  <2>1. Posted(s, x) = s BY <1>1 DEF Posted
  <2> QED BY <1>1, <2>1
<1>2. CASE x \notin Members(s)
  <2>1. Posted(s, x) = <<x>> \o s BY <1>2 DEF Posted
  <2>2. /\ <<x>> \o s \in Seq(S) /\ Members(<<x>> \o s) = Members(s) \cup {x}
        /\ NoRepeat(s) => NoRepeat(<<x>> \o s)
    BY <1>2, PushedMembers
  <2> QED BY <2>1, <2>2
<1> QED BY <1>1, <1>2

-----------------------------------------------------------------------------
(* Types.                                                                   *)

Role == Client \cup {"closed", "listen", "peer"}

(* The instance bit counts lives modulo 2, an entry of the batch is never   *)
(* younger than its structure, and while events are posted no structure is  *)
(* taken before the batch is worked off.                                    *)
Parity(n) == 1 - (n % 2)

LifeInv ==
  /\ \A c \in Conns : conn[c].instance = Parity(conn[c].life)
  /\ \A i \in DOMAIN batch : /\ batch[i].instance = Parity(batch[i].life)
                             /\ batch[i].life <= conn[batch[i].c].life
                             /\ post => batch[i].life = conn[batch[i].c].life
  /\ pc \notin {"read", "write"} => batch = <<>>
  /\ post /\ pc \in {"read", "write"} => Idle

Counted == freeN = Len(free)

LEMMA FreshType ==
  ASSUME NEW role \in Role, NEW instance \in {0, 1}, NEW life \in Nat
  PROVE  Fresh(role, instance, life) \in Conn
BY DEF Fresh, Conn, Role

LEMMA TakenType ==
  ASSUME TypeOK, NEW c \in Conns, NEW role \in Role
  PROVE  Taken(c, role) \in Conn
<1>1. conn[c].instance \in {0, 1} /\ conn[c].life \in Nat
  BY DEF TypeOK, Conn
<1>2. 1 - conn[c].instance \in {0, 1} /\ conn[c].life + 1 \in Nat
  BY <1>1
<1> QED BY <1>2, FreshType DEF Taken

LEMMA ClosedType ==
  ASSUME TypeOK, NEW c \in Conns
  PROVE  AsClosed(c) \in Conn
<1>1. conn[c] \in Conn BY DEF TypeOK
<1>2. \A r \in Conn : [r EXCEPT !.role = "closed"] \in Conn BY DEF Conn
<1>3. \A r \in Conn : [r EXCEPT !.ractive = FALSE, !.wactive = FALSE] \in Conn
  BY DEF Conn
<1>4. \A r \in Conn : [r EXCEPT !.mate = None] \in Conn BY DEF Conn
<1> DEFINE r1 == [conn[c] EXCEPT !.role = "closed"]
           r2 == [r1 EXCEPT !.ractive = FALSE, !.wactive = FALSE]
           r3 == [r2 EXCEPT !.mate = None]
<1>5. AsClosed(c) = r3 BY DEF AsClosed
<1>6. r1 \in Conn BY <1>1, <1>2
<1> HIDE DEF r1
<1>7. r2 \in Conn BY <1>3, <1>6
<1> HIDE DEF r2
<1> QED BY <1>4, <1>5, <1>7

LEMMA HandleReadType ==
  ASSUME NEW r \in Conn
  PROVE  HandleRead(r) \in Conn
<1>1. [r EXCEPT !.ractive = TRUE] \in Conn BY DEF Conn
<1> QED BY <1>1 DEF HandleRead

LEMMA TakeType ==
  ASSUME TypeOK, Counted, Take
  PROVE  /\ Head(free) \in Conns
         /\ free' \in Seq(Conns) /\ freeN' \in Nat /\ Counted' /\ lives' \in Nat
<1>1. /\ Head(free) \in Conns /\ Tail(free) \in Seq(Conns)
      /\ Len(Tail(free)) = Len(free) - 1
  BY TailMembers DEF TypeOK, Take
<1>2. Len(free) \in Nat \ {0} BY DEF TypeOK, Take
<1> QED BY <1>1, <1>2 DEF TypeOK, Take, Counted

LEMMA ReleaseType ==
  ASSUME TypeOK, Counted, NEW c \in Conns, Release(c)
  PROVE  /\ free' \in Seq(Conns) /\ freeN' \in Nat /\ Counted'
         /\ input' \in [Conns -> Nat] /\ edge' \in [Conns -> SUBSET {"in", "out"}]
<1>1. <<c>> \o free \in Seq(Conns) /\ Len(<<c>> \o free) = Len(free) + 1
  BY PushedMembers DEF TypeOK
<1> QED BY <1>1 DEF TypeOK, Release, Counted

LEMMA CloseType ==
  ASSUME TypeOK, Counted, NEW c \in Conns, CloseConnection(c)
  PROVE  /\ free' \in Seq(Conns) /\ freeN' \in Nat /\ Counted'
         /\ input' \in [Conns -> Nat] /\ edge' \in [Conns -> SUBSET {"in", "out"}]
         /\ posted' \in Seq(Events) /\ reusable' \in Seq(Conns)
<1>1. posted' \in Seq(Events)
  BY UnlinkMembers DEF TypeOK, CloseConnection, Unposted
<1>2. reusable' \in Seq(Conns)
  BY UnlinkMembers DEF TypeOK, CloseConnection, Reused
<1> QED BY <1>1, <1>2, ReleaseType DEF CloseConnection

LEMMA InitInv == Init => TypeOK /\ Counted /\ LifeInv
<1> SUFFICES ASSUME Init PROVE TypeOK /\ Counted /\ LifeInv
  OBVIOUS
<1> USE PoolAssumption
<1>1. ConnectionN - 1 \in Nat /\ Listener \in Conns
  BY DEF Conns, Listener
<1>2. conn \in [Conns -> Conn]
  <2>1. Fresh("listen", 0, 1) \in Conn /\ Fresh("closed", 1, 0) \in Conn
    BY FreshType DEF Role
  <2> QED BY <2>1 DEF Init
<1>3. free \in Seq(Conns) /\ Len(free) = ConnectionN - 1
  <2>1. \A i \in 1 .. ConnectionN - 1 : i + 1 \in Conns BY DEF Conns
  <2>2. [i \in 1 .. ConnectionN - 1 |-> i + 1] \in Seq(Conns) BY <1>1, <2>1, IsASeq
  <2> QED BY <1>1, <2>2 DEF Init
<1>4. <<>> \in Seq(Events) /\ <<>> \in Seq(Conns) /\ <<>> \in Seq(Entry)
  OBVIOUS
<1>5. NoRun \in [c : Conns \cup {None}, late : Nat] BY DEF NoRun
<1>6. input \in [Conns -> Nat] /\ edge \in [Conns -> SUBSET {"in", "out"}] BY DEF Init
<1>7. freeN \in Nat /\ draining \in 0 .. DrainMax BY <1>1 DEF Init
<1>8. TypeOK BY <1>2, <1>3, <1>4, <1>5, <1>6, <1>7 DEF Init, TypeOK
<1>9. Counted BY <1>3 DEF Init, Counted
<1>10. LifeInv
  <2>1. \A c \in Conns : conn[c].instance = Parity(conn[c].life)
    <3>1. Parity(0) = 1 /\ Parity(1) = 0 BY DEF Parity
    <3> QED BY <3>1 DEF Init, Fresh
  <2> QED BY <2>1 DEF Init, LifeInv
<1> QED BY <1>8, <1>9, <1>10

LEMMA ParityFlips == \A n \in Nat : Parity(n + 1) = 1 - Parity(n)
<1> SUFFICES ASSUME NEW n \in Nat PROVE Parity(n + 1) = 1 - Parity(n)
  OBVIOUS
<1>1. n % 2 \in {0, 1} OBVIOUS
<1>2. (n + 1) % 2 = 1 - (n % 2) OBVIOUS
<1> QED BY <1>1, <1>2 DEF Parity

LEMMA EvenGap ==
  ASSUME NEW a \in Nat, NEW b \in Nat, a <= b, Parity(a) = Parity(b)
  PROVE  b - a \in Nat /\ (b - a > 0 => b - a >= 2)
<1>1. a % 2 \in {0, 1} OBVIOUS
<1>2. Parity(a + 1) = 1 - Parity(a) BY ParityFlips
<1>3. Parity(a) \in {0, 1} BY <1>1 DEF Parity
<1>4. b # a + 1 BY <1>2, <1>3
<1> HIDE DEF Parity
<1> QED BY <1>4

LEMMA CallType ==
  ASSUME TypeOK, NEW c \in Conns, NEW life \in Nat, life <= conn[c].life, Call(c, life)
  PROVE  run' \in [c : Conns \cup {None}, late : Nat]
<1>1. conn[c].life \in Nat /\ conn[c].mate \in Conns \cup {None}
  BY DEF TypeOK, Conn
<1>2. Owner(c) \in Conns \cup {None} BY <1>1 DEF Owner
<1>3. conn[c].life - life \in Nat BY <1>1
<1> QED BY <1>2, <1>3 DEF Call

LEMMA TakenLife ==
  ASSUME TypeOK, LifeInv, NEW c \in Conns, NEW role
  PROVE  /\ Taken(c, role).life = conn[c].life + 1
         /\ Taken(c, role).instance = Parity(Taken(c, role).life)
<1>1. conn[c].life \in Nat BY DEF TypeOK, Conn
<1>2. conn[c].instance = Parity(conn[c].life) BY DEF LifeInv
<1> QED BY <1>1, <1>2, ParityFlips DEF Taken, Fresh

LEMMA BatchType ==
  ASSUME TypeOK
  PROVE  \A i \in DOMAIN batch :
           /\ batch[i] \in Entry
           /\ batch[i].c \in Conns /\ batch[i].life \in Nat
           /\ batch[i].instance \in {0, 1} /\ batch[i].ev \subseteq {"in", "out"}
<1>1. batch \in Seq(Entry) BY DEF TypeOK
<1>2. \A i \in DOMAIN batch : batch[i] \in Entry BY <1>1
<1>3. \A e \in Entry : /\ e.c \in Conns /\ e.life \in Nat
                       /\ e.instance \in {0, 1} /\ e.ev \subseteq {"in", "out"}
  BY DEF Entry
<1> QED BY <1>2, <1>3

(* A handler takes new structures only when no posted batch waits, and      *)
(* structures only get older.                                               *)
LEMMA HandlerKeepsLifeInv ==
  ASSUME TypeOK, LifeInv, ~Idle, UNCHANGED loop,
         \A c \in Conns : /\ conn'[c].life \in Nat /\ conn[c].life <= conn'[c].life
                          /\ conn'[c].instance = Parity(conn'[c].life)
  PROVE  LifeInv'
<1>1. ~(post /\ pc \in {"read", "write"}) BY DEF LifeInv
<1>2. \A i \in DOMAIN batch : batch[i].c \in Conns /\ batch[i].life \in Nat
  BY BatchType
<1>3. \A c \in Conns : conn[c].life \in Nat BY DEF TypeOK, Conn
<1>4. ASSUME NEW i \in DOMAIN batch
      PROVE  batch[i].life <= conn'[batch[i].c].life
  <2> DEFINE d == batch[i].c
  <2>1. d \in Conns /\ batch[i].life \in Nat BY <1>2
  <2>2. conn[d].life \in Nat BY <1>3, <2>1
  <2>3. conn[d].life <= conn'[d].life /\ conn'[d].life \in Nat BY <2>1
  <2>4. batch[i].life <= conn[d].life BY DEF LifeInv
  <2> QED BY <2>1, <2>2, <2>3, <2>4
<1>5. post => batch = <<>> BY <1>1 DEF LifeInv
<1>6. batch' = batch /\ pc' = pc /\ post' = post BY DEF loop
<1>7. \A i \in DOMAIN batch : batch[i].instance = Parity(batch[i].life) BY DEF LifeInv
<1>8. \A c \in Conns : conn'[c].instance = Parity(conn'[c].life) OBVIOUS
<1>9. pc \notin {"read", "write"} => batch = <<>> BY DEF LifeInv
<1>10. post => \A i \in DOMAIN batch : batch[i].life = conn'[batch[i].c].life
  BY <1>5
<1> QED BY <1>1, <1>4, <1>6, <1>7, <1>8, <1>9, <1>10 DEF LifeInv

(* Steps that neither take a structure nor change the batch or the mode.    *)
LEMMA SameLives ==
  ASSUME LifeInv, batch' = batch, post' = post,
         \A c \in Conns : /\ conn'[c].life = conn[c].life
                          /\ conn'[c].instance = conn[c].instance,
         \A i \in DOMAIN batch : batch[i].c \in Conns,
         pc' \notin {"read", "write"} => batch = <<>>,
         post /\ pc' \in {"read", "write"} => Idle'
  PROVE  LifeInv'
BY DEF LifeInv

LEMMA Updated ==
  ASSUME TypeOK, NEW c, NEW r \in Conn, conn' = [conn EXCEPT ![c] = r]
  PROVE  conn' \in [Conns -> Conn]
BY DEF TypeOK

-----------------------------------------------------------------------------
(* What a handler does to the structures: none gets younger, and those that *)
(* are not taken keep their life and their instance.                        *)

IInv == TypeOK /\ Counted /\ LifeInv

Aged ==
  /\ conn' \in [Conns -> Conn]
  /\ \A c \in Conns : /\ conn'[c].life \in Nat /\ conn[c].life <= conn'[c].life
                      /\ conn'[c].instance = Parity(conn'[c].life)

SameLife ==
  /\ conn' \in [Conns -> Conn]
  /\ \A c \in Conns : /\ conn'[c].life = conn[c].life
                      /\ conn'[c].instance = conn[c].instance

Kept(c, r) == r \in Conn /\ r.life = conn[c].life /\ r.instance = conn[c].instance

LEMMA SameAged ==
  ASSUME TypeOK, LifeInv, SameLife
  PROVE  Aged
<1>1. \A c \in Conns : conn[c].life \in Nat BY DEF TypeOK, Conn
<1>2. \A c \in Conns : conn[c].instance = Parity(conn[c].life) BY DEF LifeInv
<1> QED BY <1>1, <1>2 DEF SameLife, Aged

LEMMA KeptSame ==
  ASSUME TypeOK, NEW c \in Conns, NEW r, Kept(c, r), conn' = [conn EXCEPT ![c] = r]
  PROVE  SameLife
BY DEF TypeOK, SameLife, Kept

LEMMA ClosedKept ==
  ASSUME TypeOK, NEW c \in Conns
  PROVE  Kept(c, AsClosed(c))
<1>1. AsClosed(c) \in Conn BY ClosedType
<1>2. conn[c] \in Conn BY DEF TypeOK
<1> QED BY <1>1, <1>2 DEF Kept, AsClosed, Conn

LEMMA HandleReadKept ==
  ASSUME NEW c, NEW r, Kept(c, r)
  PROVE  Kept(c, HandleRead(r))
<1>1. HandleRead(r) \in Conn BY HandleReadType DEF Kept
<1> QED BY <1>1 DEF Kept, HandleRead, Conn

LEMMA FieldsKept ==
  ASSUME NEW c, NEW r, Kept(c, r)
  PROVE  /\ Kept(c, [r EXCEPT !.rready = FALSE])
         /\ \A role \in Role : Kept(c, [r EXCEPT !.role = role])
         /\ \A n \in Nat : Kept(c, [r EXCEPT !.buffered = n])
         /\ \A b \in BOOLEAN : Kept(c, [r EXCEPT !.rready = b])
         /\ \A b \in BOOLEAN : Kept(c, [r EXCEPT !.ractive = b])
         /\ \A m \in Conns \cup {None} : Kept(c, [r EXCEPT !.mate = m])
BY DEF Kept, Conn, Role

LEMMA TakenAged ==
  ASSUME TypeOK, LifeInv, NEW c \in Conns, NEW role \in Role,
         NEW r \in Conn, r.life = Taken(c, role).life,
         r.instance = Taken(c, role).instance, conn' = [conn EXCEPT ![c] = r]
  PROVE  Aged
<1>1. \A d \in Conns : conn[d].life \in Nat /\ conn[d].instance = Parity(conn[d].life)
  BY DEF TypeOK, Conn, LifeInv
<1>2. r.life = conn[c].life + 1 /\ r.instance = Parity(r.life)
  BY TakenLife
<1>3. conn' \in [Conns -> Conn] BY Updated
<1>4. conn'[c] = r /\ \A d \in Conns \ {c} : conn'[d] = conn[d]
  BY DEF TypeOK
<1> QED BY <1>1, <1>2, <1>3, <1>4 DEF Aged

LEMMA UnmatedSame ==
  ASSUME TypeOK, NEW u \in Conns, conn' = Unmated(u)
  PROVE  SameLife
<1> DEFINE m == conn[u].mate
           half == [conn EXCEPT ![u] = AsClosed(u)]
<1>1. Kept(u, AsClosed(u)) BY ClosedKept
<1>2. \A d \in Conns : half[d] \in Conn /\ Kept(d, half[d])
  <2>1. \A d \in Conns : conn[d] \in Conn BY DEF TypeOK
  <2> QED BY <1>1, <2>1 DEF Kept, TypeOK
<1>3. half \in [Conns -> Conn] BY <1>2 DEF TypeOK
<1> HIDE DEF half
<1>4. conn' = [half EXCEPT ![m] = [half[m] EXCEPT !.mate = None]]
  BY <1>3 DEF Unmated, half
<1>5. CASE m \in Conns
  <2>1. Kept(m, [half[m] EXCEPT !.mate = None]) BY <1>2, <1>5, FieldsKept
  <2> QED BY <1>2, <1>3, <1>4, <2>1 DEF SameLife, Kept
<1>6. CASE m \notin Conns
  <2>1. conn' = half BY <1>3, <1>4, <1>6
  <2> QED BY <1>2, <1>3, <2>1 DEF SameLife, Kept
<1> QED BY <1>5, <1>6

(* Each step of a handler.                                                  *)
LEMMA HandlerInv ==
  ASSUME IInv, HandlerStep
  PROVE  IInv'
<1> USE DEF IInv
<1>1. \A c \in Conns : conn[c] \in Conn /\ Kept(c, conn[c])
  BY DEF TypeOK, Kept
<1>2. ASSUME Aged, UNCHANGED loop, ~Idle PROVE LifeInv'
  BY <1>2, HandlerKeepsLifeInv DEF Aged
<1>3. \A c \in Conns : run.c = c => run # NoRun
  BY DEF Conns, NoRun, None
<1>4. NoRun \in [c : Conns \cup {None}, late : Nat] BY DEF NoRun
<1>5. CASE DrainStart
  <2>1. conn' = conn /\ UNCHANGED loop /\ ~Idle
    BY <1>5 DEF DrainStart, pool, WantsConnection, Idle
  <2>2. SameLife BY <2>1 DEF SameLife, TypeOK
  <2>3. LifeInv' BY <1>2, <2>1, <2>2, SameAged
  <2>4. draining' \in 0 .. DrainMax BY <1>5, PoolAssumption DEF DrainStart
  <2>5. TypeOK' /\ Counted'
    BY <1>5, <2>4 DEF DrainStart, TypeOK, Counted, pool, kernel, loop, mode, queues
  <2> QED BY <2>3, <2>5
<1>6. CASE DrainStep
  <2>1. UNCHANGED loop /\ ~Idle BY <1>6 DEF DrainStep, Idle, TypeOK
  <2>2. CASE reusable = <<>>
    <3>1. conn' = conn /\ draining' \in 0 .. DrainMax
      BY <1>6, <2>2, PoolAssumption DEF DrainStep, pool
    <3>2. LifeInv' BY <1>2, <2>1, <3>1, SameAged DEF SameLife, TypeOK
    <3>3. TypeOK' /\ Counted'
      BY <1>6, <2>2, <3>1 DEF DrainStep, TypeOK, Counted, pool, kernel, loop, mode, queues
    <3> QED BY <3>2, <3>3
  <2>3. CASE reusable # <<>>
    <3> DEFINE c == reusable[Len(reusable)]
    <3>1. c \in Conns BY <2>3 DEF TypeOK
    <3>2. /\ CloseConnection(c) /\ conn' = [conn EXCEPT ![c] = AsClosed(c)]
          /\ draining' = draining - 1
      BY <1>6, <2>3 DEF DrainStep
    <3> HIDE DEF c
    <3>3. SameLife BY <3>1, <3>2, ClosedKept, KeptSame
    <3>4. LifeInv' BY <1>2, <2>1, <3>3, SameAged
    <3>5. draining' \in 0 .. DrainMax
      <4>1. draining \in 0 .. DrainMax BY DEF TypeOK
      <4>2. draining > 0 BY <1>6 DEF DrainStep
      <4> QED BY <3>2, <4>1, <4>2, PoolAssumption
    <3>6. TypeOK' /\ Counted'
      BY <1>6, <2>3, <3>1, <3>2, <3>3, <3>5, CloseType
         DEF DrainStep, TypeOK, SameLife, loop, mode
    <3> QED BY <3>4, <3>6
  <2> QED BY <2>2, <2>3
<1>7. CASE AcceptFails
  <2>1. conn' = conn /\ UNCHANGED loop /\ ~Idle
    BY <1>7 DEF AcceptFails, pool, Running, Idle
  <2>2. LifeInv' BY <1>2, <2>1, SameAged DEF SameLife, TypeOK
  <2>3. TypeOK' /\ Counted'
    BY <1>4, <1>7 DEF AcceptFails, Return, TypeOK, Counted, pool, loop, mode, queues
  <2> QED BY <2>2, <2>3
<1>8. CASE AcceptedCloses
  <2> DEFINE c == Head(free)
  <2>1. c \in Conns BY <1>8, TailMembers DEF AcceptedCloses, TypeOK
  <2>2. UNCHANGED loop /\ ~Idle BY <1>8 DEF AcceptedCloses, Running, Idle
  <2>3. Taken(c, "closed") \in Conn BY <2>1, TakenType DEF Role
  <2>4. conn' = [conn EXCEPT ![c] = Taken(c, "closed")] BY <1>8 DEF AcceptedCloses
  <2> HIDE DEF c
  <2>5. Aged BY <2>1, <2>3, <2>4, TakenAged DEF Role
  <2>6. LifeInv' BY <1>2, <2>2, <2>5
  <2>7. TypeOK' /\ Counted'
    BY <1>4, <1>8, <2>5
       DEF AcceptedCloses, Return, TypeOK, Counted, Aged, loop, mode, queues
  <2> QED BY <2>6, <2>7
<1>9. CASE \E deferred \in BOOLEAN : Accepted(deferred)
  <2>1. PICK deferred \in BOOLEAN : Accepted(deferred) BY <1>9
  <2> DEFINE c == Head(free)
             t == Taken(c, "reading")
             r == IF deferred THEN [t EXCEPT !.rready = TRUE] ELSE HandleRead(t)
  <2>2. Take /\ UNCHANGED loop /\ ~Idle BY <2>1 DEF Accepted, Running, Idle
  <2>3. c \in Conns /\ free' \in Seq(Conns) /\ freeN' \in Nat /\ Counted' /\ lives' \in Nat
    BY <2>2, TakeType
  <2>4. conn' = [conn EXCEPT ![c] = r] BY <2>1 DEF Accepted
  <2>5. t \in Conn BY <2>3, TakenType DEF Role, Client
  <2>6. r \in Conn /\ r.life = t.life /\ r.instance = t.instance
    <3> HIDE DEF t
    <3>1. [t EXCEPT !.rready = TRUE] \in Conn BY <2>5 DEF Conn
    <3>2. HandleRead(t) \in Conn BY <2>5, HandleReadType
    <3>3. HandleRead(t).life = t.life /\ HandleRead(t).instance = t.instance
      BY <2>5 DEF HandleRead, Conn
    <3>4. [t EXCEPT !.rready = TRUE].life = t.life /\ [t EXCEPT !.rready = TRUE].instance = t.instance
      BY <2>5 DEF Conn
    <3> QED BY <3>1, <3>2, <3>3, <3>4
  <2>7. /\ input' = [input EXCEPT ![c] = IF deferred THEN 1 ELSE 0]
        /\ posted' = IF deferred /\ mutex THEN Posted(posted, <<c, "read">>) ELSE posted
        /\ run' = IF deferred /\ ~mutex THEN [c |-> c, late |-> 0] ELSE NoRun
        /\ backlog > 0 /\ backlog' = backlog - 1
        /\ UNCHANGED <<reusable, draining, edge, stimuli, loop, mode, pAccept>>
    BY <2>1 DEF Accepted
  <2> HIDE DEF c, r
  <2>8. Aged BY <2>3, <2>4, <2>6, TakenAged DEF Role, Client
  <2>9. LifeInv' BY <1>2, <2>2, <2>8
  <2>10. posted' \in Seq(Events)
    <3>1. <<c, "read">> \in Events BY <2>3 DEF Events
    <3> QED BY <2>7, <3>1, PostedMembers DEF TypeOK
  <2>11. run' \in [c : Conns \cup {None}, late : Nat] BY <1>4, <2>3, <2>7
  <2>12. input' \in [Conns -> Nat] /\ backlog' \in Nat
    <3>1. input \in [Conns -> Nat] /\ backlog \in Nat BY DEF TypeOK
    <3>2. backlog > 0 /\ backlog' = backlog - 1 BY <2>7
    <3>3. input' = [input EXCEPT ![c] = IF deferred THEN 1 ELSE 0] BY <2>7
    <3>4. (IF deferred THEN 1 ELSE 0) \in Nat OBVIOUS
    <3>5. input' \in [Conns -> Nat] BY <3>1, <3>3, <3>4
    <3> QED BY <3>1, <3>2, <3>5
  <2>13. TypeOK'
    <3>1. UNCHANGED <<batch, pc, post, mutex, exiting, reusable, draining, edge, stimuli, pAccept>>
      BY <2>7 DEF loop, mode
    <3> QED BY <2>3, <2>8, <2>10, <2>11, <2>12, <3>1 DEF TypeOK, Aged
  <2> QED BY <2>3, <2>9, <2>13
<1>10. ASSUME NEW c \in Conns, ReceivesNothing(c) PROVE IInv'
  <2> DEFINE r == HandleRead(NoLongerReady(conn[c]))
  <2>1. UNCHANGED loop /\ ~Idle BY <1>3, <1>10 DEF ReceivesNothing, Idle
  <2>2. Kept(c, r) BY <1>1, FieldsKept, HandleReadKept DEF NoLongerReady
  <2>3. conn' = [conn EXCEPT ![c] = r] /\ edge' = [edge EXCEPT ![c] = Armed(c, r)]
    BY <1>10 DEF ReceivesNothing
  <2> HIDE DEF r
  <2>4. SameLife BY <2>2, <2>3, KeptSame
  <2>5. LifeInv' BY <1>2, <2>1, <2>4, SameAged
  <2>6. edge' \in [Conns -> SUBSET {"in", "out"}] BY <2>3 DEF Armed, TypeOK
  <2>7. TypeOK' /\ Counted'
    BY <1>4, <1>10, <2>4, <2>6
       DEF ReceivesNothing, Return, TypeOK, Counted, SameLife, loop, mode, queues
  <2> QED BY <2>5, <2>7
<1>11. ASSUME NEW c \in Conns, Receives(c) PROVE IInv'
  <2>1. UNCHANGED loop /\ ~Idle BY <1>3, <1>11 DEF Receives, Idle
  <2>2. SameLife /\ input' \in [Conns -> Nat]
    <3>1. CASE /\ conn[c].buffered > 0 /\ UNCHANGED input
               /\ conn' = [conn EXCEPT ![c].role = "request", ![c].buffered = @ - 1]
      <4> DEFINE r == [[conn[c] EXCEPT !.role = "request"] EXCEPT !.buffered = conn[c].buffered - 1]
      <4>1. conn[c].buffered - 1 \in Nat BY <1>1, <3>1 DEF Conn
      <4>2. Kept(c, r) BY <1>1, <4>1, FieldsKept DEF Role, Client
      <4>3. conn' = [conn EXCEPT ![c] = r] BY <1>1, <3>1 DEF TypeOK, Conn
      <4> QED BY <3>1, <4>2, <4>3, KeptSame DEF TypeOK
    <3>2. ASSUME NEW n \in 1 .. input[c],
                 conn' = [conn EXCEPT ![c].role = "request", ![c].buffered = n - 1],
                 input' = [input EXCEPT ![c] = @ - n]
          PROVE  SameLife /\ input' \in [Conns -> Nat]
      <4> DEFINE r == [[conn[c] EXCEPT !.role = "request"] EXCEPT !.buffered = n - 1]
      <4>1. input[c] \in Nat BY DEF TypeOK
      <4>2. n - 1 \in Nat /\ input[c] - n \in Nat BY <4>1
      <4>3. Kept(c, r) BY <1>1, <4>2, FieldsKept DEF Role, Client
      <4>4. conn' = [conn EXCEPT ![c] = r] BY <3>2
      <4> QED BY <3>2, <4>2, <4>3, <4>4, KeptSame DEF TypeOK
    <3> QED BY <1>11, <3>1, <3>2 DEF Receives
  <2>3. LifeInv' BY <1>2, <2>1, <2>2, SameAged
  <2>4. reusable' \in Seq(Conns)
    BY <1>11, UnlinkMembers DEF Receives, Reused, TypeOK
  <2>5. TypeOK' /\ Counted'
    BY <1>11, <2>2, <2>4 DEF Receives, TypeOK, Counted, SameLife, loop, mode, queues
  <2> QED BY <2>3, <2>5
<1>12. ASSUME NEW c \in Conns, CloseClient(c) PROVE IInv'
  <2>1. UNCHANGED loop /\ ~Idle BY <1>3, <1>12 DEF CloseClient, Idle
  <2>2. SameLife BY <1>12, ClosedKept, KeptSame DEF CloseClient
  <2>3. LifeInv' BY <1>2, <2>1, <2>2, SameAged
  <2>4. TypeOK' /\ Counted'
    BY <1>4, <1>12, <2>2, CloseType
       DEF CloseClient, Return, TypeOK, SameLife, loop, mode
  <2> QED BY <2>3, <2>4
<1>13. ASSUME NEW c \in Conns, SetKeepalive(c) PROVE IInv'
  <2> DEFINE r == HandleRead(conn[c])
             role == IF r.buffered > 0 THEN "reading" ELSE "idle"
  <2>1. UNCHANGED loop /\ ~Idle BY <1>13 DEF SetKeepalive, Running, Idle
  <2>2. Kept(c, r) BY <1>1, HandleReadKept
  <2>3. /\ conn' = [conn EXCEPT ![c] = [r EXCEPT !.role = role]]
        /\ edge' = [edge EXCEPT ![c] = Armed(c, r)]
        /\ reusable' = IF r.buffered > 0 THEN reusable ELSE <<c>> \o reusable
        /\ posted' = IF PostsAgain(r) THEN Posted(posted, <<c, "read">>) ELSE posted
    BY <1>13 DEF SetKeepalive
  <2>4. role \in Role BY DEF Role, Client
  <2> HIDE DEF r, role
  <2>5. SameLife BY <2>2, <2>3, <2>4, FieldsKept, KeptSame
  <2>6. LifeInv' BY <1>2, <2>1, <2>5, SameAged
  <2>7. edge' \in [Conns -> SUBSET {"in", "out"}] BY <2>3 DEF Armed, TypeOK
  <2>8. reusable' \in Seq(Conns) BY <2>3, PushedMembers DEF TypeOK
  <2>9. posted' \in Seq(Events)
    <3>1. <<c, "read">> \in Events BY DEF Events
    <3> QED BY <2>3, <3>1, PostedMembers DEF TypeOK
  <2>10. TypeOK' /\ Counted'
    BY <1>4, <1>13, <2>5, <2>7, <2>8, <2>9
       DEF SetKeepalive, Return, TypeOK, Counted, SameLife, loop, mode
  <2> QED BY <2>6, <2>10
<1>14. ASSUME NEW c \in Conns, ConnectPeer(c) PROVE IInv'
  <2> DEFINE u == Head(free)
             r == [[Taken(u, "peer") EXCEPT !.ractive = TRUE, !.wactive = TRUE]
                      EXCEPT !.mate = c]
             half == [conn EXCEPT ![u] = r]
  <2>1. Take /\ UNCHANGED loop /\ ~Idle BY <1>14 DEF ConnectPeer, Running, Idle
  <2>2. u \in Conns /\ free' \in Seq(Conns) /\ freeN' \in Nat /\ Counted' /\ lives' \in Nat
    BY <2>1, TakeType
  <2>3. /\ r \in Conn /\ r.life = Taken(u, "peer").life
        /\ r.instance = Taken(u, "peer").instance
    <3>1. Taken(u, "peer") \in Conn BY <2>2, TakenType DEF Role
    <3>2. \A t \in Conn : /\ [[t EXCEPT !.ractive = TRUE, !.wactive = TRUE] EXCEPT !.mate = c] \in Conn
                          /\ [[t EXCEPT !.ractive = TRUE, !.wactive = TRUE] EXCEPT !.mate = c].life = t.life
                          /\ [[t EXCEPT !.ractive = TRUE, !.wactive = TRUE] EXCEPT !.mate = c].instance = t.instance
      BY DEF Conn
    <3> HIDE DEF u
    <3> QED BY <3>1, <3>2
  <2>4. conn' = [half EXCEPT ![c] = [half[c] EXCEPT !.mate = u]]
    <3>1. r = [Taken(u, "peer") EXCEPT !.ractive = TRUE, !.wactive = TRUE, !.mate = c]
      OBVIOUS
    <3> QED BY <1>14, <3>1 DEF ConnectPeer
  <2> HIDE DEF u, r
  <2>5. /\ half \in [Conns -> Conn]
        /\ \A d \in Conns : /\ half[d].life \in Nat /\ conn[d].life <= half[d].life
                            /\ half[d].instance = Parity(half[d].life)
    <3>1. \A d \in Conns : conn[d].life \in Nat /\ conn[d].instance = Parity(conn[d].life)
      BY DEF TypeOK, Conn, LifeInv
    <3>2. r.life = conn[u].life + 1 /\ r.instance = Parity(r.life)
      BY <2>2, <2>3, TakenLife
    <3>3. half \in [Conns -> Conn] /\ half[u] = r
          /\ \A d \in Conns \ {u} : half[d] = conn[d]
      BY <2>2, <2>3 DEF TypeOK
    <3> HIDE DEF half
    <3> QED BY <3>1, <3>2, <3>3
  <2> HIDE DEF half
  <2>6. [half[c] EXCEPT !.mate = u] \in Conn BY <2>2, <2>5 DEF Conn
  <2>7. /\ [half[c] EXCEPT !.mate = u].life = half[c].life
        /\ [half[c] EXCEPT !.mate = u].instance = half[c].instance
    BY <2>5 DEF Conn
  <2>8. Aged BY <2>4, <2>5, <2>6, <2>7 DEF Aged
  <2>9. LifeInv' BY <1>2, <2>1, <2>8
  <2>10. TypeOK'
    BY <1>14, <2>2, <2>8 DEF ConnectPeer, TypeOK, Aged, kernel, loop, mode, queues
  <2> QED BY <2>2, <2>9, <2>10
<1>15. ASSUME NEW c \in Conns, ClosePeer(c) PROVE IInv'
  <2> DEFINE u == conn[c].mate
  <2>1. UNCHANGED loop /\ ~Idle BY <1>15 DEF ClosePeer, Running, Idle
  <2>2. u \in Conns BY <1>1, <1>15 DEF ClosePeer, Conn
  <2>3. conn' = Unmated(u) /\ CloseConnection(u) BY <1>15 DEF ClosePeer
  <2> HIDE DEF u
  <2>5. SameLife BY <2>2, <2>3, UnmatedSame
  <2>6. LifeInv' BY <1>2, <2>1, <2>5, SameAged
  <2>7. TypeOK' /\ Counted'
    BY <1>15, <2>2, <2>3, <2>5, CloseType DEF ClosePeer, TypeOK, SameLife, loop, mode
  <2> QED BY <2>6, <2>7
<1>16. ASSUME NEW c \in Conns, AwaitPeer(c) PROVE IInv'
  <2>1. conn' = conn /\ UNCHANGED loop /\ ~Idle
    BY <1>16 DEF AwaitPeer, pool, Running, Idle
  <2>2. LifeInv' BY <1>2, <2>1, SameAged DEF SameLife, TypeOK
  <2>3. TypeOK' /\ Counted'
    BY <1>4, <1>16 DEF AwaitPeer, Return, TypeOK, Counted, pool, kernel, loop, mode, queues
  <2> QED BY <2>2, <2>3
<1> QED
  BY <1>5, <1>6, <1>7, <1>8, <1>9, <1>10, <1>11, <1>12, <1>13, <1>14, <1>15, <1>16
     DEF HandlerStep

-----------------------------------------------------------------------------
(* The event loop.                                                          *)

(* epoll_wait fills the batch with entries of the structures' current lives. *)
LEMMA BatchFilled ==
  ASSUME TypeOK, EpollWait
  PROVE  /\ batch' \in Seq(Entry)
         /\ \A i \in DOMAIN batch' :
              LET e == batch'[i]
              IN e.c \in Conns /\ e.life = conn[e.c].life /\ e.instance = conn[e.c].instance
<1> DEFINE Current == {e \in Entry : e.life = conn[e.c].life /\ e.instance = conn[e.c].instance}
           news == {EntryOf(c) : c \in {d \in Conns : edge[d] # {}}}
           entryOf == [c \in Conns |-> EntryOf(c)]
<1>1. \A c \in Conns : EntryOf(c) \in Current
  <2>1. \A c \in Conns : /\ conn[c].instance \in {0, 1} /\ conn[c].life \in Nat
                         /\ edge[c] \in SUBSET {"in", "out"}
    BY DEF TypeOK, Conn
  <2> QED BY <2>1 DEF EntryOf, Entry
<1>2. ListenEvent \in Current
  <2>1. Listener \in Conns BY PoolAssumption DEF Listener, Conns
  <2>2. conn[Listener].instance \in {0, 1} /\ conn[Listener].life \in Nat
    BY <2>1 DEF TypeOK, Conn
  <2> QED BY <2>1, <2>2 DEF ListenEvent, Entry
<1>3. IsFiniteSet(Range(entryOf))
  <2>1. IsFiniteSet(Conns) BY FS_Interval, PoolAssumption DEF Conns
  <2>2. entryOf \in Surjection(Conns, Range(entryOf))
    BY DEF Surjection, Range
  <2> QED BY <2>1, <2>2, FS_Surjection
<1>4. news \in SUBSET Range(entryOf) BY DEF Range
<1>5. IsFiniteSet(news) BY <1>3, <1>4, FS_Subset
<1>6. PICK S \in {news, news \cup {ListenEvent}} : batch' \in Orderings(S)
  BY DEF EpollWait
<1>7. IsFiniteSet(S) BY <1>5, <1>6, FS_AddElement
<1>8. S \subseteq Current BY <1>1, <1>2, <1>6
<1> HIDE DEF news, Current
<1>9. Cardinality(S) \in Nat BY <1>7, FS_CardinalityType
<1>10. batch' \in [1 .. Cardinality(S) -> S] BY <1>6 DEF Orderings
<1>11. batch' \in Seq(S) BY <1>9, <1>10
<1>12. \A i \in DOMAIN batch' : batch'[i] \in Current BY <1>8, <1>10
<1>13. batch' \in Seq(Entry)
  <2>1. batch' \in Seq(Current) BY <1>8, <1>11, <1>9, <1>10
  <2> QED BY <2>1, SeqMonotonic DEF Current
<1> QED BY <1>12, <1>13 DEF Current, Entry

(* An event that is not stale is of the current life or two lives older, and *)
(* of the current life when events are posted.                              *)
LEMMA NotStale ==
  ASSUME IInv, batch # <<>>, ~Stale(Head(batch))
  PROVE  LET e == Head(batch)
         IN /\ e.c \in Conns /\ e.life \in Nat /\ e.life <= conn[e.c].life
            /\ conn[e.c].life - e.life > 0 => ~post /\ conn[e.c].life - e.life >= 2
<1> DEFINE e == Head(batch)
<1>1. 1 \in DOMAIN batch /\ e = batch[1] BY DEF IInv, TypeOK
<1>2. e.c \in Conns /\ e.life \in Nat BY <1>1, BatchType DEF IInv
<1>3. conn[e.c].life \in Nat BY <1>2 DEF IInv, TypeOK, Conn
<1>4. /\ e.instance = Parity(e.life) /\ e.life <= conn[e.c].life
      /\ post => e.life = conn[e.c].life
  BY <1>1 DEF IInv, LifeInv
<1>5. conn[e.c].instance = Parity(conn[e.c].life) BY <1>2 DEF IInv, LifeInv
<1>6. conn[e.c].instance = e.instance BY DEF Stale
<1>7. Parity(e.life) = Parity(conn[e.c].life) BY <1>4, <1>5, <1>6
<1> HIDE DEF e
<1>8. conn[e.c].life - e.life > 0 => conn[e.c].life - e.life >= 2
  BY <1>2, <1>3, <1>4, <1>7, EvenGap
<1>9. post => conn[e.c].life - e.life = 0 BY <1>2, <1>3, <1>4
<1> QED BY <1>2, <1>4, <1>8, <1>9 DEF e

LEMMA BatchTail ==
  ASSUME IInv, batch # <<>>, batch' = Tail(batch), post' = post,
         pc' \in {"read", "write"}, SameLife, post => Idle'
  PROVE  batch' \in Seq(Entry) /\ LifeInv'
<1>1. /\ batch' \in Seq(Entry)
      /\ \A i \in DOMAIN batch' : i + 1 \in DOMAIN batch /\ batch'[i] = batch[i + 1]
  BY DEF IInv, TypeOK
<1>2. \A i \in DOMAIN batch : batch[i].c \in Conns BY BatchType DEF IInv
<1>3. \A c \in Conns : /\ conn'[c].life = conn[c].life
                       /\ conn'[c].instance = conn[c].instance
  BY DEF SameLife
<1>4. \A i \in DOMAIN batch : /\ batch[i].instance = Parity(batch[i].life)
                              /\ batch[i].life <= conn'[batch[i].c].life
                              /\ post => batch[i].life = conn'[batch[i].c].life
  BY <1>2, <1>3 DEF IInv, LifeInv
<1>5. \A c \in Conns : conn'[c].instance = Parity(conn'[c].life)
  BY <1>3 DEF IInv, LifeInv
<1>6. ASSUME NEW i \in DOMAIN batch'
      PROVE  /\ batch'[i].instance = Parity(batch'[i].life)
             /\ batch'[i].life <= conn'[batch'[i].c].life
             /\ post' => batch'[i].life = conn'[batch'[i].c].life
  <2>1. PICK k \in DOMAIN batch : batch'[i] = batch[k] BY <1>1
  <2>2. /\ batch[k].instance = Parity(batch[k].life)
        /\ batch[k].life <= conn'[batch[k].c].life
        /\ post => batch[k].life = conn'[batch[k].c].life
    BY <1>4, Zenon
  <2> QED BY <2>1, <2>2, Zenon
<1>7. post' => Idle' BY Zenon
<1>8. LifeInv' BY <1>5, <1>6, <1>7 DEF LifeInv
<1> QED BY <1>1, <1>8

LEMMA LoopInv ==
  ASSUME IInv, LoopStep \/ Timer
  PROVE  IInv'
<1> USE DEF IInv
<1>1. ASSUME conn' = conn PROVE SameLife
  BY <1>1 DEF SameLife, TypeOK
<1>2. \A i \in DOMAIN batch : batch[i].c \in Conns BY BatchType
<1>3. ASSUME SameLife, batch' = batch, post' = post,
             pc' \notin {"read", "write"}, pc \notin {"read", "write"}
      PROVE  LifeInv'
  <2>1. batch = <<>> BY <1>3 DEF LifeInv
  <2> QED BY <1>2, <1>3, <2>1, SameLives DEF SameLife
<1>4. CASE StartIteration
  <2>1. batch' = <<>> BY <1>4 DEF StartIteration, LifeInv
  <2>2. LifeInv' BY <1>4, <2>1 DEF StartIteration, LifeInv, pool
  <2>3. TypeOK' /\ Counted'
    BY <1>4 DEF StartIteration, TypeOK, Counted, pool, kernel, mode, queues
  <2> QED BY <2>2, <2>3
<1>5. CASE EpollWait
  <2> DEFINE Arm(b) == [conn EXCEPT ![Listener].ractive = b]
  <2>1. PICK b \in BOOLEAN \cup {conn[Listener].ractive} : conn' = Arm(b)
    BY <1>5, Zenon DEF EpollWait
  <2>2. SameLife
    <3>1. Listener \in Conns BY PoolAssumption DEF Listener, Conns
    <3>2. conn[Listener] \in Conn BY <3>1 DEF TypeOK
    <3>3. b \in BOOLEAN BY <3>2 DEF Conn
    <3>4. Kept(Listener, [conn[Listener] EXCEPT !.ractive = b])
      BY <3>2, <3>3, FieldsKept DEF Kept
    <3> QED BY <2>1, <3>1, <3>4, KeptSame
  <2>3. /\ batch' \in Seq(Entry)
        /\ \A i \in DOMAIN batch' :
             /\ batch'[i].c \in Conns /\ batch'[i].life = conn[batch'[i].c].life
             /\ batch'[i].instance = conn[batch'[i].c].instance
    BY <1>5, BatchFilled
  <2>4. LifeInv'
    <3>1. \A c \in Conns : /\ conn'[c].life \in Nat /\ conn'[c].life = conn[c].life
                           /\ conn'[c].instance = Parity(conn'[c].life)
                           /\ conn'[c].instance = conn[c].instance
      BY <2>2 DEF SameLife, LifeInv, TypeOK, Conn
    <3>2. ASSUME NEW i \in DOMAIN batch'
          PROVE  /\ batch'[i].instance = Parity(batch'[i].life)
                 /\ batch'[i].life = conn'[batch'[i].c].life
                 /\ batch'[i].life <= conn'[batch'[i].c].life
      <4> DEFINE c == batch'[i].c
      <4>1. c \in Conns /\ batch'[i].life = conn[c].life /\ batch'[i].instance = conn[c].instance
        BY <2>3
      <4> HIDE DEF c
      <4>2. batch'[i].life = conn'[c].life /\ conn'[c].life \in Nat BY <3>1, <4>1
      <4>3. batch'[i].instance = Parity(conn'[c].life) BY <3>1, <4>1
      <4> QED BY <4>2, <4>3 DEF c
    <3>3. pc' = "read" /\ Idle' BY <1>5 DEF EpollWait, Idle
    <3> QED BY <3>1, <3>2, <3>3 DEF LifeInv
  <2>5. TypeOK' /\ Counted'
    BY <1>5, <2>2, <2>3 DEF EpollWait, TypeOK, Counted, SameLife, mode, queues
  <2> QED BY <2>4, <2>5
<1>6. CASE StaleEvent
  <2>1. /\ batch # <<>> /\ batch' = Tail(batch) /\ post' = post /\ pc' = "read"
        /\ conn' = conn /\ Idle'
    BY <1>6 DEF StaleEvent, NextEntry, pool, Idle
  <2>2. batch' \in Seq(Entry) /\ LifeInv' BY <1>1, <2>1, BatchTail
  <2>3. TypeOK' /\ Counted'
    BY <1>6, <2>2 DEF StaleEvent, NextEntry, TypeOK, Counted, pool, kernel, mode, queues
  <2> QED BY <2>2, <2>3
<1>7. CASE ReadEvent
  <2> DEFINE e == Head(batch)
             reads == "in" \in e.ev /\ conn[e.c].ractive
  <2>1. /\ pc = "read" /\ pc' = "write" /\ batch' = batch /\ post' = post /\ Idle
        /\ batch # <<>> /\ ~Stale(e) /\ draining' = draining
    BY <1>7 DEF ReadEvent
  <2>2. e.c \in Conns /\ e.life \in Nat /\ e.life <= conn[e.c].life
    BY <2>1, NotStale
  <2>3. conn' = [conn EXCEPT ![e.c].rready = @ \/ reads]
    BY <1>7 DEF ReadEvent
  <2>4. \/ run' = run
        \/ Call(e.c, e.life) /\ ~post
    BY <1>7 DEF ReadEvent
  <2>5. pAccept' \in Seq(Events) /\ posted' \in Seq(Events)
    <3>1. <<e.c, "read">> \in Events BY <2>2 DEF Events
    <3>2. /\ pAccept' \in {pAccept, Posted(pAccept, <<e.c, "read">>)}
          /\ posted' \in {posted, Posted(posted, <<e.c, "read">>)}
      BY <1>7 DEF ReadEvent
    <3>3. pAccept \in Seq(Events) /\ posted \in Seq(Events) BY DEF TypeOK
    <3>4. /\ Posted(pAccept, <<e.c, "read">>) \in Seq(Events)
          /\ Posted(posted, <<e.c, "read">>) \in Seq(Events)
      BY <3>1, <3>3, PostedMembers
    <3> QED BY <3>2, <3>3, <3>4
  <2>6. SameLife
    <3>1. conn[e.c] \in Conn BY <2>2 DEF TypeOK
    <3>2. (conn[e.c].rready \/ reads) \in BOOLEAN OBVIOUS
    <3>3. Kept(e.c, [conn[e.c] EXCEPT !.rready = conn[e.c].rready \/ reads])
      BY <3>1, <3>2, FieldsKept DEF Kept
    <3> QED BY <2>2, <2>3, <3>3, KeptSame
  <2>7. run' \in [c : Conns \cup {None}, late : Nat]
    BY <2>2, <2>4, CallType DEF TypeOK
  <2>8. LifeInv'
    <3>1. post => Idle' BY <2>1, <2>4 DEF Idle
    <3> QED BY <1>2, <2>1, <2>6, <3>1, SameLives DEF SameLife
  <2>9. TypeOK' /\ Counted'
    BY <1>7, <2>5, <2>6, <2>7 DEF ReadEvent, TypeOK, Counted, SameLife, kernel, mode
  <2> QED BY <2>8, <2>9
<1>8. CASE WriteEvent
  <2> DEFINE e == Head(batch)
             writes == "out" \in e.ev /\ conn[e.c].wactive
  <2>1. /\ pc' = "read" /\ batch # <<>> /\ batch' = Tail(batch) /\ post' = post /\ Idle
        /\ conn' = conn /\ draining' = draining
    BY <1>8 DEF WriteEvent, NextEntry, pool
  <2>2. /\ posted' = IF writes /\ post THEN Posted(posted, <<e.c, "write">>) ELSE posted
        /\ \/ run' = run
           \/ Call(e.c, e.life) /\ ~post /\ ~Stale(e)
    BY <1>8 DEF WriteEvent
  <2>3. 1 \in DOMAIN batch /\ e = batch[1] BY <2>1 DEF TypeOK
  <2>4. e.c \in Conns /\ e.life \in Nat BY <2>3, BatchType
  <2>5. posted' \in Seq(Events)
    <3>1. <<e.c, "write">> \in Events BY <2>4 DEF Events
    <3>2. posted' = posted \/ posted' = Posted(posted, <<e.c, "write">>) BY <2>2
    <3>3. posted \in Seq(Events) BY DEF TypeOK
    <3>4. Posted(posted, <<e.c, "write">>) \in Seq(Events)
      BY <3>1, <3>3, PostedMembers
    <3> QED BY <3>2, <3>3, <3>4
  <2>6. run' \in [c : Conns \cup {None}, late : Nat]
    <3>1. ~Stale(e) => e.life <= conn[e.c].life BY <2>1, NotStale
    <3> QED BY <2>2, <2>4, <3>1, CallType DEF TypeOK
  <2>7. post => Idle' BY <2>1, <2>2 DEF Idle
  <2>8. batch' \in Seq(Entry) /\ LifeInv' BY <1>1, <2>1, <2>7, BatchTail
  <2>9. TypeOK' /\ Counted'
    BY <1>8, <2>5, <2>6, <2>8
       DEF WriteEvent, NextEntry, TypeOK, Counted, pool, kernel, mode
  <2> QED BY <2>8, <2>9
<1>9. CASE BatchDone
  <2>1. SameLife BY <1>1, <1>9 DEF BatchDone, pool
  <2>2. LifeInv' BY <1>2, <1>9, <2>1, SameLives DEF BatchDone, SameLife
  <2>3. TypeOK' /\ Counted'
    BY <1>9 DEF BatchDone, TypeOK, Counted, pool, kernel, mode, queues
  <2> QED BY <2>2, <2>3
<1>10. CASE PostedAccept
  <2>1. SameLife BY <1>1, <1>10 DEF PostedAccept, pool
  <2>2. LifeInv' BY <1>3, <1>10, <2>1 DEF PostedAccept
  <2>3. /\ pAccept' \in Seq(Events)
        /\ run' \in [c : Conns \cup {None}, late : Nat]
    <3>1. CASE pAccept = <<>> BY <1>10, <3>1 DEF PostedAccept, TypeOK
    <3>2. CASE pAccept # <<>>
      <4>1. Head(pAccept) \in Events /\ Tail(pAccept) \in Seq(Events)
        BY <3>2, TailMembers DEF TypeOK
      <4>2. Head(pAccept)[1] \in Conns BY <4>1 DEF Events
      <4>3. Call(Head(pAccept)[1], conn[Head(pAccept)[1]].life) /\ pAccept' = Tail(pAccept)
        BY <1>10, <3>2 DEF PostedAccept
      <4>4. conn[Head(pAccept)[1]].life \in Nat BY <4>2 DEF TypeOK, Conn
      <4> QED BY <4>1, <4>2, <4>3, <4>4, CallType
    <3> QED BY <3>1, <3>2
  <2>4. TypeOK' /\ Counted'
    BY <1>10, <2>3 DEF PostedAccept, TypeOK, Counted, pool, kernel, mode
  <2> QED BY <2>2, <2>4
<1>11. CASE TimersDone
  <2>1. SameLife BY <1>1, <1>11 DEF TimersDone, pool
  <2>2. LifeInv' BY <1>3, <1>11, <2>1 DEF TimersDone
  <2>3. TypeOK' /\ Counted'
    BY <1>11 DEF TimersDone, TypeOK, Counted, pool, kernel, mode, queues
  <2> QED BY <2>2, <2>3
<1>12. CASE PostedEvent
  <2>1. SameLife BY <1>1, <1>12 DEF PostedEvent, pool
  <2>2. LifeInv' BY <1>3, <1>12, <2>1 DEF PostedEvent, loop
  <2>3. Head(posted) \in Events /\ Tail(posted) \in Seq(Events)
    BY <1>12, TailMembers DEF PostedEvent, TypeOK
  <2>4. Head(posted)[1] \in Conns BY <2>3 DEF Events
  <2>5. Call(Head(posted)[1], conn[Head(posted)[1]].life) /\ posted' = Tail(posted)
    BY <1>12 DEF PostedEvent
  <2>6. conn[Head(posted)[1]].life \in Nat BY <2>4 DEF TypeOK, Conn
  <2>7. run' \in [c : Conns \cup {None}, late : Nat] BY <2>4, <2>5, <2>6, CallType
  <2>8. TypeOK' /\ Counted'
    BY <1>12, <2>3, <2>5, <2>7 DEF PostedEvent, TypeOK, Counted, pool, kernel, loop, mode
  <2> QED BY <2>2, <2>8
<1>13. ASSUME NEW c \in Conns, CloseIdle(c) PROVE IInv'
  <2>1. SameLife BY <1>13, ClosedKept, KeptSame DEF CloseIdle
  <2>2. LifeInv' BY <1>3, <1>13, <2>1 DEF CloseIdle, loop
  <2>3. TypeOK' /\ Counted'
    BY <1>13, <2>1, CloseType DEF CloseIdle, TypeOK, SameLife, loop, mode
  <2> QED BY <2>2, <2>3
<1>14. ASSUME NEW quit \in BOOLEAN, IterationDone(quit) PROVE IInv'
  <2>1. Listener \in Conns BY PoolAssumption DEF Listener, Conns
  <2>2. CASE quit /\ ~exiting
    <3>1. /\ Release(Listener) /\ mutex' = FALSE /\ exiting' = TRUE
          /\ conn' = [conn EXCEPT ![Listener] = AsClosed(Listener)]
      BY <1>14, <2>2 DEF IterationDone, ListenerClosed
    <3>2. SameLife BY <2>1, <3>1, ClosedKept, KeptSame
    <3>3. LifeInv' BY <1>3, <1>14, <3>2 DEF IterationDone
    <3>4. TypeOK' /\ Counted'
      BY <1>14, <2>1, <3>1, <3>2, ReleaseType DEF IterationDone, TypeOK, SameLife, queues
    <3> QED BY <3>3, <3>4
  <2>3. CASE ~(quit /\ ~exiting)
    <3>1. UNCHANGED <<conn, free, freeN, input, edge, mode>>
      BY <1>14, <2>3 DEF IterationDone
    <3>2. SameLife BY <1>1, <3>1
    <3>3. LifeInv' BY <1>3, <1>14, <3>2 DEF IterationDone
    <3>4. TypeOK' /\ Counted'
      BY <1>14, <3>1 DEF IterationDone, TypeOK, Counted, mode, queues
    <3> QED BY <3>3, <3>4
  <2> QED BY <2>2, <2>3
<1>15. ASSUME NEW c \in Conns, TimerExpires(c) PROVE IInv'
  <2>1. CloseConnection(c) BY <1>15 DEF TimerExpires
  <2>2. \/ UNCHANGED run /\ conn' = [conn EXCEPT ![c] = AsClosed(c)]
        \/ Call(c, conn[c].life) /\ conn' = Unmated(c)
    BY <1>15 DEF TimerExpires
  <2>3. SameLife BY <2>2, ClosedKept, KeptSame, UnmatedSame
  <2>4. LifeInv' BY <1>3, <1>15, <2>3 DEF TimerExpires, loop
  <2>5. conn[c].life \in Nat BY DEF TypeOK, Conn
  <2>6. run' \in [c : Conns \cup {None}, late : Nat] BY <2>2, <2>5, CallType DEF TypeOK
  <2>7. TypeOK' /\ Counted'
    BY <1>15, <2>1, <2>3, <2>6, CloseType DEF TimerExpires, TypeOK, SameLife, loop, mode
  <2> QED BY <2>4, <2>7
<1> QED
  BY <1>4, <1>5, <1>6, <1>7, <1>8, <1>9, <1>10, <1>11, <1>12, <1>13, <1>14, <1>15
     DEF LoopStep, Timer

(* Clients and peers.                                                       *)
LEMMA WorldInv ==
  ASSUME IInv, World
  PROVE  IInv'
<1> USE DEF IInv
<1>1. /\ conn' = conn /\ UNCHANGED <<free, freeN, reusable, draining, run, lives>>
      /\ UNCHANGED <<batch, pc, post, mutex, exiting, pAccept, posted>>
      /\ stimuli' = stimuli + 1
  BY DEF World, ClientConnects, ClientSends, PeerReady, Stimulus, pool, loop, mode, queues
<1>2. LifeInv' BY <1>1 DEF LifeInv, Idle
<1>3. /\ backlog' \in Nat /\ input' \in [Conns -> Nat]
      /\ edge' \in [Conns -> SUBSET {"in", "out"}]
  <2>1. CASE ClientConnects BY <2>1 DEF ClientConnects, TypeOK
  <2>2. ASSUME NEW c \in Conns, ClientSends(c)
        PROVE  /\ backlog' \in Nat /\ input' \in [Conns -> Nat]
               /\ edge' \in [Conns -> SUBSET {"in", "out"}]
    BY <2>2 DEF ClientSends, TypeOK
  <2>3. ASSUME NEW c \in Conns, PeerReady(c)
        PROVE  /\ backlog' \in Nat /\ input' \in [Conns -> Nat]
               /\ edge' \in [Conns -> SUBSET {"in", "out"}]
    BY <2>3 DEF PeerReady, TypeOK
  <2> QED BY <2>1, <2>2, <2>3 DEF World
<1>4. TypeOK' /\ Counted' BY <1>1, <1>3 DEF TypeOK, Counted
<1> QED BY <1>2, <1>4

LEMMA StutterInv == IInv /\ UNCHANGED vars => IInv'
BY DEF IInv, TypeOK, Counted, LifeInv, Idle, vars, pool, kernel, loop, mode, queues

LEMMA NextInv == IInv /\ [Next]_vars => IInv'
BY HandlerInv, LoopInv, WorldInv, StutterInv DEF Next, Worker

LEMMA Invariant == Spec => []IInv
<1>1. Init => IInv BY InitInv DEF IInv
<1>2. IInv /\ [Next]_vars => IInv' BY NextInv
<1> QED BY <1>1, <1>2, PTL DEF Spec

(***************************************************************************)
(* The structures, lists and queues of a worker have their types           *)
(* (core/ngx_connection.c, event/), for any number of connections.         *)
(***************************************************************************)
THEOREM TypeCorrect == Spec => []TypeOK
<1>1. IInv => TypeOK BY DEF IInv
<1> QED BY <1>1, Invariant, PTL

(***************************************************************************)
(* What a handler runs for stays what it was called for.                   *)
(***************************************************************************)
LEMMA HandlerLate ==
  ASSUME HandlerStep
  PROVE  UNCHANGED <<pc, post>> /\ (run' = run \/ run'.late = 0)
<1>1. NoRun.late = 0 BY DEF NoRun
<1>2. ASSUME NEW c \in Conns,
             \/ ReceivesNothing(c) \/ Receives(c) \/ CloseClient(c) \/ SetKeepalive(c)
             \/ ConnectPeer(c) \/ ClosePeer(c) \/ AwaitPeer(c)
      PROVE  UNCHANGED <<pc, post>> /\ (run' = run \/ run'.late = 0)
  BY <1>1, <1>2 DEF ReceivesNothing, Receives, CloseClient, SetKeepalive, ConnectPeer,
                    ClosePeer, AwaitPeer, Return, loop
<1>3. CASE DrainStart \/ DrainStep
  BY <1>3 DEF DrainStart, DrainStep, loop
<1>4. CASE AcceptFails \/ AcceptedCloses
  BY <1>1, <1>4 DEF AcceptFails, AcceptedCloses, Return, loop
<1>5. ASSUME NEW deferred \in BOOLEAN, Accepted(deferred)
      PROVE  UNCHANGED <<pc, post>> /\ run'.late = 0
  BY <1>1, <1>5 DEF Accepted, loop
<1> QED BY <1>2, <1>3, <1>4, <1>5 DEF HandlerStep

LEMMA LoopLate ==
  ASSUME IInv, LoopStep \/ Timer
  PROVE  LateOnlyAfterTwoLives'
<1>1. NoRun.late = 0 BY DEF NoRun
<1>2. run = NoRun
  BY DEF LoopStep, Timer, Idle, StartIteration, EpollWait, StaleEvent, ReadEvent, WriteEvent,
         BatchDone, PostedAccept, TimersDone, PostedEvent, CloseIdle, IterationDone,
         TimerExpires
<1>3. ASSUME run'.late = 0 PROVE LateOnlyAfterTwoLives'
  BY <1>3 DEF LateOnlyAfterTwoLives
<1>4. ASSUME NEW c \in Conns, Call(c, conn[c].life) PROVE run'.late = 0
  <2>1. conn[c].life \in Nat BY DEF IInv, TypeOK, Conn
  <2> QED BY <1>4, <2>1 DEF Call
<1>5. ASSUME NEW pc1 \in {"read", "write"}, pc' = pc1, post' = post, batch # <<>>,
             \/ run' = run
             \/ Call(Head(batch).c, Head(batch).life) /\ ~post /\ ~Stale(Head(batch))
      PROVE  LateOnlyAfterTwoLives'
  <2>1. CASE run' = run BY <1>1, <1>2, <1>3, <2>1
  <2>2. CASE /\ Call(Head(batch).c, Head(batch).life)
             /\ ~post /\ ~Stale(Head(batch))
    <3> DEFINE gap == conn[Head(batch).c].life - Head(batch).life
    <3>1. gap > 0 => gap >= 2 BY <1>5, <2>2, NotStale
    <3>2. run'.late = gap BY <2>2 DEF Call
    <3> HIDE DEF gap
    <3> QED BY <1>5, <2>2, <3>1, <3>2 DEF LateOnlyAfterTwoLives
  <2> QED BY <1>5, <2>1, <2>2
<1>6. CASE ReadEvent \/ WriteEvent
  <2>1. /\ pc' \in {"read", "write"} /\ post' = post /\ batch # <<>>
        /\ \/ run' = run
           \/ Call(Head(batch).c, Head(batch).life) /\ ~post /\ ~Stale(Head(batch))
    BY <1>6 DEF ReadEvent, WriteEvent, NextEntry
  <2> QED BY <1>5, <2>1
<1>7. CASE PostedAccept \/ PostedEvent
  <2>1. CASE run' = run BY <1>1, <1>2, <1>3, <2>1
  <2>2. CASE run' # run
    <3>1. PICK s \in {pAccept, posted} : s # <<>> /\ Call(Head(s)[1], conn[Head(s)[1]].life)
      BY <1>7, <2>2 DEF PostedAccept, PostedEvent
    <3>2. Head(s) \in Events BY <3>1, TailMembers DEF IInv, TypeOK
    <3>3. Head(s)[1] \in Conns BY <3>2 DEF Events
    <3> QED BY <1>3, <1>4, <3>1, <3>3
  <2> QED BY <2>1, <2>2
<1>8. CASE Timer
  BY <1>1, <1>2, <1>3, <1>4, <1>8 DEF Timer, TimerExpires
<1>9. CASE StartIteration \/ EpollWait \/ StaleEvent \/ BatchDone \/ TimersDone
  BY <1>1, <1>2, <1>3, <1>9
     DEF StartIteration, EpollWait, StaleEvent, BatchDone, TimersDone
<1>10. CASE (\E c \in Conns : CloseIdle(c)) \/ \E quit \in BOOLEAN : IterationDone(quit)
  BY <1>1, <1>2, <1>3, <1>10 DEF CloseIdle, IterationDone
<1> QED BY <1>6, <1>7, <1>8, <1>9, <1>10 DEF LoopStep

(***************************************************************************)
(* The instance bit (ngx_epoll_process_events, ngx_get_connection): no     *)
(* handler is called for an event of an earlier connection, unless events  *)
(* are not posted and the structure was taken at least twice since the     *)
(* batch was fetched.  The bit is the parity of the number of lives, and   *)
(* no structure is taken while a batch waits to be posted.                 *)
(***************************************************************************)
THEOREM LateEvents == Spec => []LateOnlyAfterTwoLives
<1>1. Init => LateOnlyAfterTwoLives BY DEF Init, NoRun, LateOnlyAfterTwoLives
<1>2. ASSUME IInv, LateOnlyAfterTwoLives, [Next]_vars PROVE LateOnlyAfterTwoLives'
  <2>1. CASE HandlerStep
    BY <1>2, <2>1, HandlerLate DEF LateOnlyAfterTwoLives
  <2>2. CASE LoopStep \/ Timer BY <1>2, <2>2, LoopLate
  <2>3. CASE World
    BY <1>2, <2>3 DEF World, ClientConnects, ClientSends, PeerReady, loop,
                      LateOnlyAfterTwoLives
  <2>4. CASE UNCHANGED vars
    BY <1>2, <2>4 DEF vars, loop, LateOnlyAfterTwoLives
  <2> QED BY <1>2, <2>1, <2>2, <2>3, <2>4 DEF Next, Worker
<1>3. IInv /\ LateOnlyAfterTwoLives /\ [Next]_vars => LateOnlyAfterTwoLives'
  BY <1>2
<1> QED BY <1>1, <1>3, Invariant, PTL DEF Spec

-----------------------------------------------------------------------------
(* Who is on which list.  RoleInv adds to the checked invariants what their *)
(* preservation needs: the listening socket is the first structure until a  *)
(* QUIT, only peers report writes, accept events wait only in their part of *)
(* an iteration, and a handler runs for a client or the listening socket.   *)

RoleInv ==
  /\ \A c \in Conns : conn[c].role = "listen" <=> (c = Listener /\ ~exiting)
  /\ \A c \in Conns : conn[c].role = "peer" => conn[c].mate # None
  /\ \A c \in Conns : conn[c].wactive => conn[c].role = "peer"
  /\ pAccept # <<>> => pc \in {"read", "write", "accept"}
  /\ run # NoRun => run.c \in Conns /\ conn[run.c].role \in Client \cup {"listen"}

StructInv == PoolExact /\ ReusableExact /\ PostedLive /\ MatesAgree /\ RoleInv

(* The step changes the role of c, and of no other structure.               *)
Turns(c, role) ==
  \A d \in Conns : conn'[d].role = IF d = c THEN role ELSE conn[d].role

LEMMA InitStruct ==
  ASSUME Init
  PROVE  StructInv
<1> USE PoolAssumption
<1>1. \A c \in Conns : /\ conn[c].role = IF c = Listener THEN "listen" ELSE "closed"
                       /\ conn[c].mate = None /\ conn[c].wactive = FALSE
  BY DEF Init, Fresh
<1>2. /\ DOMAIN free = 1 .. ConnectionN - 1 /\ Len(free) = ConnectionN - 1
      /\ \A i \in 1 .. ConnectionN - 1 : free[i] = i + 1
  BY DEF Init
<1>3. PoolExact
  <2>1. NoRepeat(free) BY <1>2 DEF NoRepeat
  <2>2. freeN = Len(free) BY <1>2 DEF Init
  <2>3. ASSUME NEW c \in Conns PROVE c \in Members(free) <=> Closed(c)
    <3>1. Closed(c) <=> c # Listener BY <1>1 DEF Closed
    <3>2. c # Listener <=> c - 1 \in 1 .. ConnectionN - 1 BY DEF Conns, Listener
    <3>3. c - 1 \in 1 .. ConnectionN - 1 => c \in Members(free)
      <4> SUFFICES ASSUME c - 1 \in 1 .. ConnectionN - 1 PROVE c \in Members(free)
        OBVIOUS
      <4>1. free[c - 1] = c BY <1>2 DEF Conns
      <4> QED BY <1>2, <4>1 DEF Members
    <3>4. c \in Members(free) => c - 1 \in 1 .. ConnectionN - 1
      BY <1>2 DEF Members
    <3> QED BY <3>1, <3>2, <3>3, <3>4
  <2> QED BY <2>1, <2>2, <2>3 DEF PoolExact
<1>4. Members(<<>>) = {} /\ NoRepeat(<<>>) BY DEF Members, NoRepeat
<1>5. ReusableExact
  BY <1>1, <1>4 DEF Init, ReusableExact, NoRun
<1>6. PostedLive BY <1>4 DEF Init, PostedLive
<1>7. MatesAgree BY <1>1 DEF MatesAgree
<1>8. RoleInv BY <1>1 DEF Init, RoleInv
<1> QED BY <1>3, <1>5, <1>6, <1>7, <1>8 DEF StructInv

(* Closing an open connection keeps every list exact.                       *)
LEMMA CloseLists ==
  ASSUME TypeOK, StructInv, NEW c \in Conns, conn[c].role \in Client \cup {"peer"},
         CloseConnection(c), Turns(c, "closed"), pAccept' = pAccept
  PROVE  /\ PoolExact' /\ PostedLive' /\ NoRepeat(reusable')
         /\ Members(reusable') \subseteq Members(reusable)
         /\ \A d \in Conns : d \in Members(reusable') <=> conn'[d].role = "idle"
<1> USE DEF StructInv
<1>1. conn[c].role # "closed" /\ conn[c].role # "listen" BY DEF Client
<1>2. PoolExact'
  <2>1. c \notin Members(free) BY <1>1 DEF PoolExact, Closed
  <2>2. free' = <<c>> \o free /\ freeN' = freeN + 1 BY DEF CloseConnection, Release
  <2>3. /\ Len(<<c>> \o free) = Len(free) + 1 /\ Members(<<c>> \o free) = Members(free) \cup {c}
        /\ NoRepeat(<<c>> \o free)
    BY <2>1, PushedMembers DEF TypeOK, PoolExact
  <2>4. NoRepeat(free') /\ freeN' = Len(free') /\ Members(free') = Members(free) \cup {c}
    BY <2>2, <2>3 DEF PoolExact
  <2>5. \A d \in Conns : d \in Members(free') <=> conn'[d].role = "closed"
    BY <2>4 DEF Turns, PoolExact, Closed
  <2> QED BY <2>4, <2>5 DEF PoolExact, Closed
<1>3. /\ NoRepeat(reusable') /\ Members(reusable') \subseteq Members(reusable)
      /\ \A d \in Conns : d \in Members(reusable') <=> conn'[d].role = "idle"
  <2>1. reusable' = Unlink(reusable, c) BY DEF CloseConnection, Reused
  <2>2. NoRepeat(reusable') /\ Members(reusable') = Members(reusable) \ {c}
    BY <2>1, UnlinkMembers DEF TypeOK, ReusableExact
  <2>3. \A d \in Conns : d \in Members(reusable') <=> conn'[d].role = "idle"
    BY <2>2 DEF Turns, ReusableExact
  <2> QED BY <2>2, <2>3
<1>4. PostedLive'
  <2> DEFINE r == <<c, "read">>
             w == <<c, "write">>
             half == Unlink(posted, r)
  <2>1. posted' = Unlink(half, w) BY DEF CloseConnection, Unposted
  <2>2. half \in Seq(Events) /\ NoRepeat(half) /\ Members(half) = Members(posted) \ {r}
    <3>1. posted \in Seq(Events) /\ NoRepeat(posted) BY DEF TypeOK, PostedLive
    <3> HIDE DEF r
    <3> QED BY <3>1, UnlinkMembers
  <2> HIDE DEF half
  <2>3. NoRepeat(posted') /\ Members(posted') = Members(half) \ {w}
    BY <2>1, <2>2, UnlinkMembers
  <2>4. \A e \in Members(posted) : e \in Events BY MembersOfSeq DEF TypeOK
  <2>5. \A e \in Members(pAccept) : e \in Events BY MembersOfSeq DEF TypeOK
  <2>6. ASSUME NEW e \in Members(posted') PROVE conn'[e[1]].role \in Client \cup {"peer"}
    <3>1. e \in Members(posted) /\ e # r /\ e # w BY <2>2, <2>3
    <3>2. e \in Events BY <2>4, <3>1
    <3>3. e[1] \in Conns /\ e[1] # c BY <3>1, <3>2 DEF Events
    <3>4. conn[e[1]].role \in Client \cup {"peer"} BY <3>1 DEF PostedLive
    <3> QED BY <3>3, <3>4 DEF Turns
  <2>7. ASSUME NEW e \in Members(pAccept) PROVE conn'[e[1]].role = "listen"
    <3>1. e[1] \in Conns BY <2>5 DEF Events
    <3>2. conn[e[1]].role = "listen" BY DEF PostedLive
    <3> QED BY <1>1, <3>1, <3>2 DEF Turns
  <2>8. NoRepeat(pAccept') BY DEF PostedLive
  <2> QED BY <2>3, <2>6, <2>7, <2>8 DEF PostedLive
<1> QED BY <1>2, <1>3, <1>4

(* Taking a structure from the pool keeps the free list exact.              *)
LEMMA TakePool ==
  ASSUME TypeOK, StructInv, Take, NEW role, role # "closed", Turns(Head(free), role)
  PROVE  PoolExact' /\ Head(free) \in Conns /\ conn[Head(free)].role = "closed"
<1> DEFINE c == Head(free)
<1>1. /\ c \in Conns /\ c \in Members(free) /\ NoRepeat(Tail(free))
      /\ Len(Tail(free)) = Len(free) - 1 /\ Members(Tail(free)) = Members(free) \ {c}
  BY TailMembers DEF TypeOK, Take, StructInv, PoolExact
<1>2. free' = Tail(free) /\ freeN' = freeN - 1 BY DEF Take
<1>3. conn[c].role = "closed" BY <1>1 DEF StructInv, PoolExact, Closed
<1> HIDE DEF c
<1>4. Turns(c, role) BY DEF c
<1>5. \A d \in Conns : d \in Members(free') <=> conn'[d].role = "closed"
  BY <1>1, <1>2, <1>4 DEF Turns, StructInv, PoolExact, Closed
<1>6. NoRepeat(free') /\ freeN' = Len(free')
  BY <1>1, <1>2 DEF StructInv, PoolExact
<1>7. PoolExact' BY <1>5, <1>6 DEF PoolExact, Closed
<1> QED BY <1>1, <1>3, <1>7 DEF c

(* A step that changes neither mates nor the role of one that has a mate.   *)
LEMMA MatesSame ==
  ASSUME TypeOK, MatesAgree,
         \A d \in Conns : /\ conn'[d].mate = conn[d].mate
                          /\ conn[d].mate # None => conn'[d].role = conn[d].role
  PROVE  MatesAgree'
<1> SUFFICES ASSUME NEW c \in Conns, conn'[c].mate # None
             PROVE  LET m == conn'[c].mate
                    IN conn'[m].mate = c /\ {conn'[c].role, conn'[m].role} = {"request", "peer"}
  BY DEF MatesAgree
<1> DEFINE m == conn[c].mate
<1>1. conn'[c].mate = m /\ m # None OBVIOUS
<1>2. m \in Conns BY <1>1 DEF TypeOK, Conn
<1>3. conn[m].mate = c /\ {conn[c].role, conn[m].role} = {"request", "peer"}
  BY <1>1 DEF MatesAgree
<1>4. c # None BY DEF Conns, None
<1>5. conn'[m].mate = c /\ conn'[m].role = conn[m].role BY <1>2, <1>3, <1>4
<1>6. conn'[c].role = conn[c].role BY <1>1
<1> QED BY <1>1, <1>3, <1>5, <1>6

LEMMA UnmatedRoles ==
  ASSUME TypeOK, StructInv, NEW u \in Conns, conn[u].mate # None, conn' = Unmated(u)
  PROVE  /\ Turns(u, "closed") /\ MatesAgree'
         /\ \A d \in Conns : conn'[d].mate = IF d \in {u, conn[u].mate} THEN None ELSE conn[d].mate
         /\ \A d \in Conns : conn'[d].wactive => conn[d].wactive /\ d # u
         /\ conn[u].mate \in Conns /\ conn[u].mate # u
<1> DEFINE m == conn[u].mate
           half == [conn EXCEPT ![u] = AsClosed(u)]
<1>1. m \in Conns BY DEF TypeOK, Conn
<1>2. conn[m].mate = u /\ {conn[u].role, conn[m].role} = {"request", "peer"}
  BY DEF StructInv, MatesAgree
<1>3. m # u BY <1>2
<1>4. conn[u] \in Conn /\ conn[m] \in Conn /\ conn \in [Conns -> Conn]
  BY <1>1 DEF TypeOK
<1>5. conn' = [half EXCEPT ![m] = [half[m] EXCEPT !.mate = None]]
  BY <1>3 DEF Unmated
<1>6. half[m] = conn[m] /\ half[u] = AsClosed(u) BY <1>1, <1>3, <1>4
<1>7. /\ conn'[u] = AsClosed(u) /\ conn'[m] = [conn[m] EXCEPT !.mate = None]
      /\ \A d \in Conns \ {u, m} : conn'[d] = conn[d]
  BY <1>1, <1>3, <1>4, <1>5, <1>6
<1> HIDE DEF m
<1>8. /\ conn'[u].role = "closed" /\ conn'[u].mate = None /\ conn'[u].wactive = FALSE
      /\ conn'[m].role = conn[m].role /\ conn'[m].mate = None
      /\ conn'[m].wactive = conn[m].wactive
  BY <1>4, <1>7 DEF AsClosed, Conn
<1>9. Turns(u, "closed") BY <1>3, <1>7, <1>8 DEF Turns
<1>10. \A d \in Conns : conn'[d].mate = IF d \in {u, m} THEN None ELSE conn[d].mate
  BY <1>7, <1>8
<1>11. \A d \in Conns : conn'[d].wactive => conn[d].wactive /\ d # u
  BY <1>7, <1>8
<1>12. MatesAgree'
  <2> SUFFICES ASSUME NEW c \in Conns, conn'[c].mate # None
               PROVE  LET k == conn'[c].mate
                      IN conn'[k].mate = c /\ {conn'[c].role, conn'[k].role} = {"request", "peer"}
    BY DEF MatesAgree
  <2> DEFINE k == conn[c].mate
  <2>1. c \notin {u, m} /\ conn'[c] = conn[c] /\ k # None BY <1>7, <1>10
  <2>2. k \in Conns BY <2>1 DEF TypeOK, Conn
  <2>3. conn[k].mate = c /\ {conn[c].role, conn[k].role} = {"request", "peer"}
    BY <2>1 DEF StructInv, MatesAgree
  <2>4. k \notin {u, m} BY <1>2, <2>1, <2>3 DEF m
  <2>5. conn'[k] = conn[k] BY <1>7, <2>2, <2>4
  <2> QED BY <2>1, <2>3, <2>5
<1> QED BY <1>1, <1>3, <1>9, <1>10, <1>11, <1>12 DEF m

(* Closing a connection that has no mate.                                   *)
LEMMA ClosedRoles ==
  ASSUME TypeOK, StructInv, NEW c \in Conns, conn[c].mate = None,
         conn' = [conn EXCEPT ![c] = AsClosed(c)]
  PROVE  /\ Turns(c, "closed") /\ MatesAgree'
         /\ \A d \in Conns : conn'[d].mate = conn[d].mate
         /\ \A d \in Conns : conn'[d].wactive => conn[d].wactive /\ d # c
<1>1. conn[c] \in Conn /\ conn \in [Conns -> Conn] BY DEF TypeOK
<1>2. conn'[c] = AsClosed(c) /\ \A d \in Conns \ {c} : conn'[d] = conn[d]
  BY <1>1
<1>3. conn'[c].role = "closed" /\ conn'[c].mate = None /\ conn'[c].wactive = FALSE
  BY <1>1, <1>2 DEF AsClosed, Conn
<1>4. Turns(c, "closed") BY <1>2, <1>3 DEF Turns
<1>5. \A d \in Conns : conn'[d].mate = conn[d].mate BY <1>2, <1>3
<1>6. \A d \in Conns : conn'[d].wactive => conn[d].wactive /\ d # c BY <1>2, <1>3
<1>7. \A d \in Conns : conn[d].mate # None => conn'[d].role = conn[d].role
  BY <1>2
<1>8. MatesAgree' BY <1>5, <1>7, MatesSame DEF StructInv
<1> QED BY <1>4, <1>5, <1>6, <1>8

(* The handler called for an event runs for a client or the listening       *)
(* socket.                                                                  *)
LEMMA CallRole ==
  ASSUME TypeOK, StructInv, NEW c \in Conns, NEW life, conn[c].role # "closed", Call(c, life)
  PROVE  /\ run'.c \in Conns /\ conn[run'.c].role \in Client \cup {"listen"}
         /\ conn[c].role = "peer" => run'.c = conn[c].mate
<1>1. conn[c].role \in Client \cup {"listen", "peer"} BY DEF TypeOK, Conn
<1>2. run'.c = Owner(c) BY DEF Call
<1>3. CASE conn[c].role # "peer" BY <1>1, <1>2, <1>3 DEF Owner
<1>4. CASE conn[c].role = "peer"
  <2>1. conn[c].mate # None /\ Owner(c) = conn[c].mate
    BY <1>4 DEF StructInv, RoleInv, Owner
  <2>2. conn[c].mate \in Conns BY <2>1 DEF TypeOK, Conn
  <2>3. {conn[c].role, conn[conn[c].mate].role} = {"request", "peer"}
    BY <2>1 DEF StructInv, MatesAgree
  <2> QED BY <1>2, <1>4, <2>1, <2>2, <2>3 DEF Client
<1> QED BY <1>3, <1>4

(* A step of a handler that moves no structure between the lists.           *)
LEMMA SameLists ==
  ASSUME TypeOK, StructInv, UNCHANGED <<free, freeN, reusable, posted, pAccept, exiting, pc>>,
         \A d \in Conns : /\ conn'[d].role = conn[d].role /\ conn'[d].mate = conn[d].mate
                          /\ conn'[d].wactive => conn[d].wactive,
         draining' > 0 => run'.c \notin Members(reusable),
         run' # NoRun => run'.c \in Conns /\ conn[run'.c].role \in Client \cup {"listen"}
  PROVE  StructInv'
<1> USE DEF StructInv
<1>1. PoolExact' BY DEF PoolExact, Closed
<1>2. ReusableExact' BY DEF ReusableExact
<1>3. PostedLive'
  <2>1. \A e \in Members(posted) \cup Members(pAccept) : e[1] \in Conns
    BY MembersOfSeq DEF TypeOK, Events
  <2> QED BY <2>1 DEF PostedLive
<1>4. MatesAgree' BY MatesSame
<1>5. RoleInv' BY DEF RoleInv
<1> QED BY <1>1, <1>2, <1>3, <1>4, <1>5

LEMMA HandlerStruct ==
  ASSUME IInv, StructInv, HandlerStep
  PROVE  StructInv'
<1> USE DEF IInv
<1>1. \A c \in Conns : conn[c] \in Conn BY DEF TypeOK
<1>2. /\ run # NoRun => run.c \in Conns /\ conn[run.c].role \in Client \cup {"listen"}
      /\ NoRun.c = None /\ None \notin Conns
  BY DEF StructInv, RoleInv, NoRun, Conns, None
<1>3. \A c \in Members(reusable) : c \in Conns /\ conn[c].role = "idle"
  BY MembersOfSeq DEF TypeOK, StructInv, ReusableExact
<1>4. \A c \in Conns : conn[c].mate # None => conn[c].role \in {"request", "peer"}
  BY DEF StructInv, MatesAgree
<1>5. CASE DrainStart
  <2>1. run.c \notin Members(reusable)
    BY <1>3, <1>5 DEF DrainStart, WantsConnection
  <2> QED
    BY <1>2, <1>5, <2>1, SameLists DEF DrainStart, pool, loop, mode, queues
<1>6. CASE DrainStep
  <2>1. CASE reusable = <<>>
    <3>1. draining' = 0 /\ UNCHANGED <<pool, queues, loop, mode, run>>
      BY <1>6, <2>1 DEF DrainStep
    <3> QED BY <1>2, <3>1, SameLists DEF pool, loop, mode, queues
  <2>2. CASE reusable # <<>>
    <3> DEFINE c == reusable[Len(reusable)]
    <3>1. c \in Members(reusable) BY <2>2 DEF TypeOK, Members
    <3>2. /\ CloseConnection(c) /\ conn' = [conn EXCEPT ![c] = AsClosed(c)]
          /\ pAccept' = pAccept /\ UNCHANGED <<run, pc, exiting>> /\ draining > 0
      BY <1>6, <2>2 DEF DrainStep, loop, mode
    <3> HIDE DEF c
    <3>3. c \in Conns /\ conn[c].role = "idle" /\ conn[c].mate = None
      BY <1>3, <1>4, <3>1
    <3>4. /\ Turns(c, "closed") /\ MatesAgree'
          /\ \A d \in Conns : conn'[d].mate = conn[d].mate
          /\ \A d \in Conns : conn'[d].wactive => conn[d].wactive /\ d # c
      BY <3>2, <3>3, ClosedRoles
    <3>5. /\ PoolExact' /\ PostedLive' /\ NoRepeat(reusable')
          /\ Members(reusable') \subseteq Members(reusable)
          /\ \A d \in Conns : d \in Members(reusable') <=> conn'[d].role = "idle"
      BY <3>2, <3>3, <3>4, CloseLists DEF Client
    <3>6. run.c \notin Members(reusable) BY <3>2 DEF StructInv, ReusableExact
    <3>7. ReusableExact' BY <3>2, <3>5, <3>6 DEF ReusableExact
    <3>8. RoleInv'
      <4>1. run.c # c BY <3>1, <3>6
      <4> QED BY <3>2, <3>3, <3>4, <4>1 DEF Turns, StructInv, RoleInv
    <3> QED BY <3>4, <3>5, <3>7, <3>8 DEF StructInv
  <2> QED BY <2>1, <2>2
<1>7. CASE AcceptFails
  <2>1. /\ UNCHANGED <<pool, queues, loop, mode>> /\ run' = NoRun /\ draining' = 0
    BY <1>7 DEF AcceptFails, Running, Return
  <2> QED BY <1>2, <2>1, SameLists DEF pool, loop, mode, queues
<1>8. CASE AcceptedCloses
  <2> DEFINE c == Head(free)
  <2>1. c \in Conns /\ conn[c].role = "closed"
    BY <1>8, TailMembers DEF AcceptedCloses, TypeOK, StructInv, PoolExact, Closed
  <2>2. conn' = [conn EXCEPT ![c] = Taken(c, "closed")] BY <1>8 DEF AcceptedCloses
  <2> HIDE DEF c
  <2>3. conn[c].mate = None BY <1>4, <2>1
  <2>4. /\ conn'[c].role = "closed" /\ conn'[c].mate = None /\ conn'[c].wactive = FALSE
        /\ \A d \in Conns \ {c} : conn'[d] = conn[d]
    BY <2>1, <2>2 DEF Taken, Fresh, TypeOK
  <2>5. \A d \in Conns : /\ conn'[d].role = conn[d].role /\ conn'[d].mate = conn[d].mate
                         /\ conn'[d].wactive => conn[d].wactive
    BY <2>1, <2>3, <2>4
  <2>6. /\ UNCHANGED <<free, freeN, reusable, posted, pAccept, exiting, pc>>
        /\ run' = NoRun /\ draining' = 0
    BY <1>8 DEF AcceptedCloses, Running, Return, queues, mode, loop
  <2> QED BY <2>5, <2>6, SameLists
<1>9. ASSUME NEW deferred \in BOOLEAN, Accepted(deferred) PROVE StructInv'
  <2> DEFINE c == Head(free)
             t == Taken(c, "reading")
             r == IF deferred THEN [t EXCEPT !.rready = TRUE] ELSE HandleRead(t)
  <2>1. /\ Take /\ draining = 0 /\ UNCHANGED <<reusable, pAccept, exiting, pc, draining>>
        /\ conn' = [conn EXCEPT ![c] = r]
        /\ posted' = IF deferred /\ mutex THEN Posted(posted, <<c, "read">>) ELSE posted
        /\ run' = IF deferred /\ ~mutex THEN [c |-> c, late |-> 0] ELSE NoRun
    BY <1>9 DEF Accepted, Running, mode, loop
  <2>2. c \in Conns /\ conn[c].role = "closed" /\ conn[c].mate = None
    BY <1>4, <2>1, TailMembers DEF Take, TypeOK, StructInv, PoolExact, Closed
  <2>3. r.role = "reading" /\ r.mate = None /\ r.wactive = FALSE
    <3>1. /\ DOMAIN t = {"role", "instance", "life", "ractive", "rready", "wactive", "mate", "buffered"}
          /\ t.role = "reading" /\ t.mate = None /\ t.wactive = FALSE
      BY DEF Taken, Fresh
    <3>2. t \in Conn BY <2>2, TakenType DEF Role, Client
    <3> HIDE DEF t
    <3> QED BY <3>1, <3>2 DEF HandleRead, Conn
  <2> HIDE DEF r
  <2>4. conn'[c] = r /\ \A d \in Conns \ {c} : conn'[d] = conn[d]
    BY <2>1, <2>2 DEF TypeOK
  <2>5. Turns(c, "reading") BY <2>3, <2>4 DEF Turns
  <2>6. PoolExact' BY <2>1, <2>5, TakePool
  <2> HIDE DEF c
  <2>7. ReusableExact'
    <3>1. \A d \in Conns : d \in Members(reusable) <=> conn'[d].role = "idle"
      BY <2>2, <2>5 DEF Turns, StructInv, ReusableExact
    <3> QED BY <2>1, <3>1 DEF StructInv, ReusableExact
  <2>8. PostedLive'
    <3>1. <<c, "read">> \in Events /\ posted \in Seq(Events) /\ pAccept \in Seq(Events)
      BY <2>2 DEF Events, TypeOK
    <3>2. NoRepeat(posted') /\ Members(posted') \subseteq Members(posted) \cup {<<c, "read">>}
      <4> DEFINE q == <<c, "read">>
      <4>1. NoRepeat(posted) BY DEF StructInv, PostedLive
      <4>2. posted' \in {posted, Posted(posted, q)} BY <2>1
      <4>3. q \in Events /\ posted \in Seq(Events) BY <3>1
      <4> HIDE DEF q
      <4>4. /\ Members(Posted(posted, q)) = Members(posted) \cup {q}
            /\ NoRepeat(Posted(posted, q))
        BY <4>1, <4>3, PostedMembers
      <4>5. NoRepeat(posted') /\ Members(posted') \subseteq Members(posted) \cup {q}
        BY <4>1, <4>2, <4>4
      <4> QED BY <4>5 DEF q
    <3>3. \A e \in Members(posted) \cup Members(pAccept) : e[1] \in Conns
      BY <3>1, MembersOfSeq DEF Events
    <3>4. \A e \in Members(posted) \cup Members(pAccept) :
            e[1] # c /\ conn'[e[1]].role = conn[e[1]].role
      BY <2>2, <2>5, <3>3 DEF Turns, StructInv, PostedLive, Client
    <3>5. conn'[<<c, "read">>[1]].role = "reading" BY <2>3, <2>4
    <3>6. \A e \in Members(posted') : conn'[e[1]].role \in Client \cup {"peer"}
      BY <3>2, <3>4, <3>5 DEF StructInv, PostedLive, Client
    <3>7. \A e \in Members(pAccept') : conn'[e[1]].role = "listen"
      BY <2>1, <3>4 DEF StructInv, PostedLive
    <3> QED BY <2>1, <3>2, <3>6, <3>7 DEF StructInv, PostedLive
  <2>9. MatesAgree'
    <3>1. \A d \in Conns : /\ conn'[d].mate = conn[d].mate
                           /\ conn[d].mate # None => conn'[d].role = conn[d].role
      BY <2>2, <2>3, <2>4
    <3> QED BY <3>1, MatesSame DEF StructInv
  <2>10. RoleInv'
    <3>1. run' # NoRun => run'.c = c BY <2>1
    <3> QED BY <2>1, <2>2, <2>3, <2>4, <3>1 DEF StructInv, RoleInv, Client
  <2> QED BY <2>6, <2>7, <2>8, <2>9, <2>10 DEF StructInv
<1>10. ASSUME NEW c \in Conns, ReceivesNothing(c) PROVE StructInv'
  <2> DEFINE r == HandleRead(NoLongerReady(conn[c]))
  <2>1. /\ conn' = [conn EXCEPT ![c] = r] /\ run' = NoRun /\ draining' = 0
        /\ UNCHANGED <<free, freeN, reusable, posted, pAccept, exiting, pc>>
    BY <1>10 DEF ReceivesNothing, Return, queues, mode, loop
  <2>2. r.role = conn[c].role /\ r.mate = conn[c].mate /\ r.wactive = conn[c].wactive
    BY <1>1 DEF HandleRead, NoLongerReady, Conn
  <2> HIDE DEF r
  <2>3. \A d \in Conns : /\ conn'[d].role = conn[d].role /\ conn'[d].mate = conn[d].mate
                         /\ conn'[d].wactive => conn[d].wactive
    BY <2>1, <2>2 DEF TypeOK
  <2> QED BY <2>1, <2>3, SameLists
<1>11. ASSUME NEW c \in Conns, Receives(c) PROVE StructInv'
  <2>1. /\ draining = 0 /\ draining' = 0 /\ run.c = c /\ conn[c].role \in {"reading", "idle"}
        /\ reusable' = Unlink(reusable, c)
        /\ UNCHANGED <<free, freeN, posted, pAccept, exiting, pc, run>>
    BY <1>11 DEF Receives, Reused, queues, mode, loop
  <2>2. \E n : conn' = [conn EXCEPT ![c].role = "request", ![c].buffered = n]
    BY <1>11 DEF Receives
  <2>3. /\ conn'[c].role = "request" /\ conn'[c].mate = conn[c].mate
        /\ conn'[c].wactive = conn[c].wactive
        /\ \A d \in Conns \ {c} : conn'[d] = conn[d]
    BY <1>1, <2>2 DEF TypeOK, Conn
  <2>4. conn[c].mate = None BY <1>4, <2>1
  <2>5. PoolExact' BY <2>1, <2>3 DEF StructInv, PoolExact, Closed
  <2>6. ReusableExact'
    <3>1. NoRepeat(reusable') /\ Members(reusable') = Members(reusable) \ {c}
      BY <2>1, UnlinkMembers DEF TypeOK, StructInv, ReusableExact
    <3>2. \A d \in Conns : d \in Members(reusable') <=> conn'[d].role = "idle"
      BY <2>3, <3>1 DEF StructInv, ReusableExact
    <3> QED BY <2>1, <3>1, <3>2 DEF ReusableExact
  <2>7. PostedLive'
    <3>1. \A e \in Members(posted) \cup Members(pAccept) : e[1] \in Conns
      BY MembersOfSeq DEF TypeOK, Events
    <3> QED BY <2>1, <2>3, <3>1 DEF StructInv, PostedLive, Client
  <2>8. MatesAgree'
    <3>1. \A d \in Conns : /\ conn'[d].mate = conn[d].mate
                           /\ conn[d].mate # None => conn'[d].role = conn[d].role
      BY <2>3, <2>4
    <3> QED BY <3>1, MatesSame DEF StructInv
  <2>9. RoleInv' BY <1>2, <2>1, <2>3 DEF StructInv, RoleInv, Client
  <2> QED BY <2>5, <2>6, <2>7, <2>8, <2>9 DEF StructInv
<1>12. ASSUME NEW c \in Conns, CloseClient(c) PROVE StructInv'
  <2>1. /\ CloseConnection(c) /\ conn' = [conn EXCEPT ![c] = AsClosed(c)] /\ run' = NoRun
        /\ conn[c].role \in Client /\ conn[c].mate = None /\ draining' = 0
        /\ UNCHANGED <<pAccept, exiting, pc>>
    BY <1>12 DEF CloseClient, IsClient, Return, mode, loop
  <2>2. /\ Turns(c, "closed") /\ MatesAgree'
        /\ \A d \in Conns : conn'[d].mate = conn[d].mate
        /\ \A d \in Conns : conn'[d].wactive => conn[d].wactive /\ d # c
    BY <2>1, ClosedRoles
  <2>3. /\ PoolExact' /\ PostedLive' /\ NoRepeat(reusable')
        /\ \A d \in Conns : d \in Members(reusable') <=> conn'[d].role = "idle"
    BY <2>1, <2>2, CloseLists
  <2>4. ReusableExact' BY <2>1, <2>3 DEF ReusableExact
  <2>5. RoleInv'
    BY <2>1, <2>2 DEF Turns, StructInv, RoleInv, Client
  <2> QED BY <2>2, <2>3, <2>4, <2>5 DEF StructInv
<1>13. ASSUME NEW c \in Conns, SetKeepalive(c) PROVE StructInv'
  <2> DEFINE r == HandleRead(conn[c])
             role == IF r.buffered > 0 THEN "reading" ELSE "idle"
             q == <<c, "read">>
  <2>1. /\ conn[c].role = "request" /\ conn[c].mate = None /\ run' = NoRun /\ draining' = 0
        /\ conn' = [conn EXCEPT ![c] = [r EXCEPT !.role = role]]
        /\ reusable' = IF r.buffered > 0 THEN reusable ELSE <<c>> \o reusable
        /\ posted' \in {posted, Posted(posted, q)}
        /\ UNCHANGED <<free, freeN, pAccept, exiting, pc>>
    BY <1>13 DEF SetKeepalive, Running, Return, mode, loop
  <2>2. r.mate = None /\ r.wactive = conn[c].wactive /\ r \in Conn
    BY <1>1, <2>1, HandleReadType DEF HandleRead, Conn
  <2>3. role \in {"reading", "idle"} /\ (role = "idle" <=> ~(r.buffered > 0)) OBVIOUS
  <2> HIDE DEF r, role
  <2>4. /\ conn'[c].role = role /\ conn'[c].mate = None
        /\ conn'[c].wactive = conn[c].wactive
        /\ \A d \in Conns \ {c} : conn'[d] = conn[d]
    BY <2>1, <2>2 DEF TypeOK, Conn
  <2>5. PoolExact' BY <2>1, <2>3, <2>4 DEF StructInv, PoolExact, Closed
  <2>6. ReusableExact'
    <3>1. c \notin Members(reusable) BY <1>3, <2>1
    <3>2. /\ NoRepeat(<<c>> \o reusable)
          /\ Members(<<c>> \o reusable) = Members(reusable) \cup {c}
      BY <3>1, PushedMembers DEF TypeOK, StructInv, ReusableExact
    <3>3. NoRepeat(reusable) BY DEF StructInv, ReusableExact
    <3>4. \A d \in Conns : d \in Members(reusable') <=> conn'[d].role = "idle"
      BY <2>1, <2>3, <2>4, <3>1, <3>2 DEF StructInv, ReusableExact
    <3> QED BY <2>1, <3>2, <3>3, <3>4 DEF ReusableExact
  <2>7. PostedLive'
    <3>1. NoRepeat(posted) BY DEF StructInv, PostedLive
    <3>2. q \in Events /\ posted \in Seq(Events) /\ q[1] = c BY DEF Events, TypeOK
    <3>3. \A e \in Members(posted) \cup Members(pAccept) : e[1] \in Conns
      BY MembersOfSeq DEF TypeOK, Events
    <3> HIDE DEF q
    <3>4. /\ Members(Posted(posted, q)) = Members(posted) \cup {q}
          /\ NoRepeat(Posted(posted, q))
      BY <3>1, <3>2, PostedMembers
    <3>5. NoRepeat(posted') /\ Members(posted') \subseteq Members(posted) \cup {q}
      BY <2>1, <3>1, <3>4
    <3>6. \A e \in Members(posted') : conn'[e[1]].role \in Client \cup {"peer"}
      BY <2>3, <2>4, <3>2, <3>3, <3>5 DEF StructInv, PostedLive, Client
    <3>7. \A e \in Members(pAccept') : conn'[e[1]].role = "listen"
      BY <2>1, <2>4, <3>3 DEF StructInv, PostedLive
    <3> QED BY <2>1, <3>5, <3>6, <3>7 DEF StructInv, PostedLive
  <2>8. MatesAgree'
    <3>1. \A d \in Conns : /\ conn'[d].mate = conn[d].mate
                           /\ conn[d].mate # None => conn'[d].role = conn[d].role
      BY <2>1, <2>4
    <3> QED BY <3>1, MatesSame DEF StructInv
  <2>9. RoleInv'
    BY <2>1, <2>3, <2>4 DEF StructInv, RoleInv, Client
  <2> QED BY <2>5, <2>6, <2>7, <2>8, <2>9 DEF StructInv
<1>14. ASSUME NEW c \in Conns, ConnectPeer(c) PROVE StructInv'
  <2> DEFINE u == Head(free)
             r == [Taken(u, "peer") EXCEPT !.ractive = TRUE, !.wactive = TRUE, !.mate = c]
  <2>1. /\ conn[c].role = "request" /\ conn[c].mate = None /\ run.c = c /\ draining = 0
        /\ Take /\ UNCHANGED <<reusable, posted, pAccept, exiting, pc, run, draining>>
        /\ conn' = [conn EXCEPT ![u] = r, ![c].mate = u]
    BY <1>14 DEF ConnectPeer, Running, queues, mode, loop
  <2>2. u \in Conns /\ conn[u].role = "closed" /\ conn[u].mate = None
    BY <1>4, <2>1, TailMembers DEF Take, TypeOK, StructInv, PoolExact, Closed
  <2>3. r.role = "peer" /\ r.mate = c
    BY DEF Taken, Fresh
  <2> HIDE DEF r
  <2>4. /\ u # c /\ conn'[u] = r /\ conn'[c].role = "request" /\ conn'[c].mate = u
        /\ conn'[c].wactive = conn[c].wactive
        /\ \A d \in Conns \ {u, c} : conn'[d] = conn[d]
    BY <1>1, <2>1, <2>2 DEF TypeOK, Conn
  <2> HIDE DEF u
  <2>5. Turns(u, "peer")
    <3>1. conn'[u].role = "peer" /\ u # c BY <2>3, <2>4
    <3>2. conn'[c].role = conn[c].role BY <2>1, <2>4
    <3>3. \A d \in Conns \ {u, c} : conn'[d].role = conn[d].role BY <2>4
    <3> QED BY <3>1, <3>2, <3>3 DEF Turns
  <2>6. PoolExact' BY <2>1, <2>5, TakePool DEF u
  <2>7. ReusableExact'
    <3>1. \A d \in Conns : d \in Members(reusable) <=> conn'[d].role = "idle"
      BY <2>2, <2>5 DEF Turns, StructInv, ReusableExact
    <3> QED BY <2>1, <3>1 DEF StructInv, ReusableExact
  <2>8. PostedLive'
    <3>1. \A e \in Members(posted) \cup Members(pAccept) : e[1] \in Conns
      BY MembersOfSeq DEF TypeOK, Events
    <3>2. \A e \in Members(posted) \cup Members(pAccept) :
            conn'[e[1]].role = conn[e[1]].role
      BY <2>2, <2>5, <3>1 DEF Turns, StructInv, PostedLive, Client
    <3> QED BY <2>1, <3>2 DEF StructInv, PostedLive
  <2>9. MatesAgree'
    <3> SUFFICES ASSUME NEW d \in Conns, conn'[d].mate # None
                 PROVE  LET m == conn'[d].mate
                        IN conn'[m].mate = d /\ {conn'[d].role, conn'[m].role} = {"request", "peer"}
      BY DEF MatesAgree
    <3>1. CASE d = u BY <2>3, <2>4, <3>1
    <3>2. CASE d = c BY <2>3, <2>4, <3>2
    <3>3. CASE d \notin {u, c}
      <4> DEFINE m == conn[d].mate
      <4>1. conn'[d] = conn[d] /\ m # None BY <2>4, <3>3
      <4>2. m \in Conns BY <1>1, <4>1 DEF Conn
      <4>3. conn[m].mate = d /\ {conn[d].role, conn[m].role} = {"request", "peer"}
        BY <4>1 DEF StructInv, MatesAgree
      <4>4. m \notin {u, c} BY <2>1, <2>2, <4>3, <1>2
      <4>5. conn'[m] = conn[m] BY <2>4, <4>2, <4>4
      <4> QED BY <4>1, <4>3, <4>5
    <3> QED BY <3>1, <3>2, <3>3
  <2>10. RoleInv'
    <3>1. c # None /\ u # None BY <1>2, <2>2
    <3>2. \A d \in Conns : conn'[d].role = "listen" <=> (d = Listener /\ ~exiting')
      <4>1. \A d \in Conns : conn'[d].role = "listen" <=> conn[d].role = "listen"
        BY <2>1, <2>2, <2>3, <2>4
      <4> QED BY <2>1, <4>1 DEF StructInv, RoleInv
    <3>3. \A d \in Conns : conn'[d].role = "peer" => conn'[d].mate # None
      BY <2>3, <2>4, <3>1 DEF StructInv, RoleInv
    <3>4. \A d \in Conns : conn'[d].wactive => conn'[d].role = "peer"
      BY <2>1, <2>3, <2>4 DEF StructInv, RoleInv
    <3>5. run' # NoRun => run'.c \in Conns /\ conn'[run'.c].role \in Client \cup {"listen"}
      BY <2>1, <2>4 DEF Client
    <3> QED BY <2>1, <3>2, <3>3, <3>4, <3>5 DEF StructInv, RoleInv
  <2> QED BY <2>6, <2>7, <2>8, <2>9, <2>10 DEF StructInv
<1>15. ASSUME NEW c \in Conns, ClosePeer(c) PROVE StructInv'
  <2> DEFINE u == conn[c].mate
  <2>1. /\ conn[c].role = "request" /\ u # None /\ run.c = c /\ draining = 0
        /\ CloseConnection(u) /\ conn' = Unmated(u)
        /\ UNCHANGED <<pAccept, exiting, pc, run, draining>>
    BY <1>15 DEF ClosePeer, Running, mode, loop
  <2>2. u \in Conns /\ conn[u].mate = c /\ conn[u].role = "peer"
    BY <1>1, <2>1 DEF Conn, StructInv, MatesAgree
  <2> HIDE DEF u
  <2>3. /\ Turns(u, "closed") /\ MatesAgree'
        /\ \A d \in Conns : conn'[d].mate = IF d \in {u, c} THEN None ELSE conn[d].mate
        /\ \A d \in Conns : conn'[d].wactive => conn[d].wactive /\ d # u
    BY <1>2, <2>1, <2>2, UnmatedRoles
  <2>4. /\ PoolExact' /\ PostedLive' /\ NoRepeat(reusable')
        /\ \A d \in Conns : d \in Members(reusable') <=> conn'[d].role = "idle"
    BY <2>1, <2>2, <2>3, CloseLists
  <2>5. ReusableExact' BY <2>1, <2>4 DEF ReusableExact
  <2>6. RoleInv'
    BY <2>1, <2>2, <2>3 DEF Turns, StructInv, RoleInv, Client
  <2> QED BY <2>3, <2>4, <2>5, <2>6 DEF StructInv
<1>16. ASSUME NEW c \in Conns, AwaitPeer(c) PROVE StructInv'
  <2>1. /\ UNCHANGED <<pool, queues, loop, mode>> /\ run' = NoRun /\ draining' = 0
    BY <1>16 DEF AwaitPeer, Running, Return
  <2> QED BY <1>2, <2>1, SameLists DEF pool, loop, mode, queues
<1> QED
  BY <1>5, <1>6, <1>7, <1>8, <1>9, <1>10, <1>11, <1>12, <1>13, <1>14, <1>15, <1>16
     DEF HandlerStep

LEMMA LoopStruct ==
  ASSUME IInv, StructInv, LoopStep \/ Timer
  PROVE  StructInv'
<1> USE DEF IInv
<1>1. /\ \A c \in Conns : conn[c] \in Conn
      /\ Listener \in Conns /\ NoRun.c = None /\ None \notin Conns
  BY PoolAssumption DEF TypeOK, NoRun, Conns, None, Listener
<1>2. run = NoRun /\ draining = 0
  BY DEF LoopStep, Timer, Idle, StartIteration, EpollWait, StaleEvent, ReadEvent, WriteEvent,
         BatchDone, PostedAccept, TimersDone, PostedEvent, CloseIdle, IterationDone,
         TimerExpires
<1>3. \A c \in Conns : conn[c].mate # None => conn[c].role \in {"request", "peer"}
  BY DEF StructInv, MatesAgree
<1>4. ASSUME \A d \in Conns : /\ conn'[d].role = conn[d].role /\ conn'[d].mate = conn[d].mate
                              /\ conn'[d].wactive => conn[d].wactive,
             UNCHANGED <<free, freeN, reusable, exiting, draining>>
      PROVE  PoolExact' /\ ReusableExact' /\ MatesAgree'
  <2>1. PoolExact' BY <1>4 DEF StructInv, PoolExact, Closed
  <2>2. ReusableExact' BY <1>2, <1>4 DEF StructInv, ReusableExact
  <2>3. MatesAgree' BY <1>4, MatesSame DEF StructInv
  <2> QED BY <2>1, <2>2, <2>3
<1>5. ASSUME UNCHANGED <<pool, draining, exiting>>,
             posted' = posted \/ (posted # <<>> /\ posted' = Tail(posted)),
             pAccept' = pAccept \/ (pAccept # <<>> /\ pAccept' = Tail(pAccept)),
             pAccept' # <<>> => pc' \in {"read", "write", "accept"},
             run' # NoRun => run'.c \in Conns /\ conn[run'.c].role \in Client \cup {"listen"}
      PROVE  StructInv'
  <2>1. PoolExact' /\ ReusableExact' /\ MatesAgree' BY <1>4, <1>5 DEF pool
  <2>2. /\ NoRepeat(posted') /\ Members(posted') \subseteq Members(posted)
        /\ NoRepeat(pAccept') /\ Members(pAccept') \subseteq Members(pAccept)
    <3>1. /\ posted \in Seq(Events) /\ NoRepeat(posted)
          /\ pAccept \in Seq(Events) /\ NoRepeat(pAccept)
      BY DEF TypeOK, StructInv, PostedLive
    <3>2. posted # <<>> => /\ NoRepeat(Tail(posted))
                           /\ Members(Tail(posted)) \subseteq Members(posted)
      BY <3>1, TailMembers
    <3>3. pAccept # <<>> => /\ NoRepeat(Tail(pAccept))
                            /\ Members(Tail(pAccept)) \subseteq Members(pAccept)
      BY <3>1, TailMembers
    <3> QED BY <1>5, <3>1, <3>2, <3>3
  <2>3. PostedLive' BY <1>5, <2>2 DEF pool, StructInv, PostedLive
  <2>4. RoleInv' BY <1>5 DEF pool, StructInv, RoleInv
  <2> QED BY <2>1, <2>3, <2>4 DEF StructInv
<1>6. ASSUME NEW c \in Conns, conn[c].role # "closed", NEW life, Call(c, life)
      PROVE  run'.c \in Conns /\ conn[run'.c].role \in Client \cup {"listen"}
  BY <1>6, CallRole
<1>7. CASE StartIteration \/ StaleEvent \/ BatchDone \/ TimersDone
  <2>1. /\ UNCHANGED <<pool, draining, exiting, posted, pAccept, run>>
        /\ \/ pc = "top" /\ pc' = "wait"
           \/ pc' \in {"read", "accept"}
           \/ pc = "timers" /\ pc' = "posted"
    BY <1>7 DEF StartIteration, StaleEvent, NextEntry, BatchDone, TimersDone, mode, queues
  <2>2. pAccept' # <<>> => pc' \in {"read", "write", "accept"}
    BY <2>1 DEF StructInv, RoleInv
  <2> QED BY <1>2, <1>5, <2>1, <2>2
<1>8. CASE EpollWait
  <2>1. \E b : conn' = [conn EXCEPT ![Listener].ractive = b]
    BY <1>8, Zenon DEF EpollWait
  <2>2. \A d \in Conns : /\ conn'[d].role = conn[d].role /\ conn'[d].mate = conn[d].mate
                         /\ conn'[d].wactive => conn[d].wactive
    BY <1>1, <2>1 DEF TypeOK, Conn
  <2>3. /\ UNCHANGED <<free, freeN, reusable, exiting, draining, posted, pAccept, run>>
        /\ pc' = "read"
    BY <1>8 DEF EpollWait, mode, queues
  <2>4. PoolExact' /\ ReusableExact' /\ MatesAgree' BY <1>4, <2>2, <2>3
  <2>5. PostedLive'
    <3>1. \A e \in Members(posted) \cup Members(pAccept) : e[1] \in Conns
      BY MembersOfSeq DEF TypeOK, Events
    <3> QED BY <2>2, <2>3, <3>1 DEF StructInv, PostedLive
  <2>6. RoleInv' BY <1>2, <2>2, <2>3 DEF StructInv, RoleInv
  <2> QED BY <2>4, <2>5, <2>6 DEF StructInv
<1>9. CASE ReadEvent
  <2> DEFINE e == Head(batch)
             c == e.c
             reads == "in" \in e.ev /\ conn[c].ractive
             q == <<c, "read">>
             accepts == conn[c].role = "listen"
  <2>1. /\ batch # <<>> /\ ~Stale(e) /\ pc = "read" /\ pc' = "write"
        /\ conn' = [conn EXCEPT ![c].rready = @ \/ reads]
        /\ pAccept' = IF reads /\ post /\ accepts THEN Posted(pAccept, q) ELSE pAccept
        /\ posted' = IF reads /\ post /\ ~accepts THEN Posted(posted, q) ELSE posted
        /\ run' = run \/ Call(c, e.life)
        /\ UNCHANGED <<free, freeN, reusable, exiting, draining>>
    BY <1>9 DEF ReadEvent, mode
  <2>2. c \in Conns BY <2>1, NotStale
  <2>3. conn[c].role # "closed" BY <2>1 DEF Stale, Closed
  <2>4. accepts <=> conn[c].role = "listen" OBVIOUS
  <2>5. q \in Events /\ q[1] = c BY <2>2 DEF Events
  <2> HIDE DEF c, reads, q, accepts, e
  <2>6. \A d \in Conns : /\ conn'[d].role = conn[d].role /\ conn'[d].mate = conn[d].mate
                         /\ conn'[d].wactive => conn[d].wactive
    BY <1>1, <2>1 DEF TypeOK, Conn
  <2>7. PoolExact' /\ ReusableExact' /\ MatesAgree' BY <1>4, <2>1, <2>6
  <2>8. PostedLive'
    <3>1. /\ posted \in Seq(Events) /\ pAccept \in Seq(Events)
          /\ NoRepeat(posted) /\ NoRepeat(pAccept)
      BY DEF TypeOK, StructInv, PostedLive
    <3>2. /\ Members(Posted(posted, q)) = Members(posted) \cup {q}
          /\ NoRepeat(Posted(posted, q))
      BY <2>5, <3>1, PostedMembers
    <3>3. /\ Members(Posted(pAccept, q)) = Members(pAccept) \cup {q}
          /\ NoRepeat(Posted(pAccept, q))
      BY <2>5, <3>1, PostedMembers
    <3>4. \A x \in Members(posted) \cup Members(pAccept) : x[1] \in Conns
      BY <3>1, MembersOfSeq DEF Events
    <3>5. conn[c].role \in Client \cup {"listen", "peer"}
      BY <1>1, <2>2, <2>3 DEF Conn
    <3>6. /\ NoRepeat(posted')
          /\ \A x \in Members(posted') : conn'[x[1]].role \in Client \cup {"peer"}
      <4>1. CASE posted' = posted BY <2>6, <3>1, <3>4, <4>1 DEF StructInv, PostedLive
      <4>2. CASE posted' = Posted(posted, q) /\ ~accepts
        <5>1. conn'[q[1]].role \in Client \cup {"peer"} BY <2>2, <2>4, <2>5, <2>6, <3>5, <4>2
        <5>2. \A x \in Members(posted) : conn'[x[1]].role \in Client \cup {"peer"}
          BY <2>6, <3>4 DEF StructInv, PostedLive
        <5> QED BY <3>2, <4>2, <5>1, <5>2
      <4> QED BY <2>1, <4>1, <4>2
    <3>7. /\ NoRepeat(pAccept')
          /\ \A x \in Members(pAccept') : conn'[x[1]].role = "listen"
      <4>1. CASE pAccept' = pAccept BY <2>6, <3>1, <3>4, <4>1 DEF StructInv, PostedLive
      <4>2. CASE pAccept' = Posted(pAccept, q) /\ accepts
        <5>1. conn'[q[1]].role = "listen" BY <2>2, <2>4, <2>5, <2>6, <4>2
        <5>2. \A x \in Members(pAccept) : conn'[x[1]].role = "listen"
          BY <2>6, <3>4 DEF StructInv, PostedLive
        <5> QED BY <3>3, <4>2, <5>1, <5>2
      <4> QED BY <2>1, <4>1, <4>2
    <3> QED BY <3>6, <3>7 DEF PostedLive
  <2>9. RoleInv'
    <3>1. run' # NoRun => run'.c \in Conns /\ conn[run'.c].role \in Client \cup {"listen"}
      BY <1>2, <1>6, <2>1, <2>2, <2>3
    <3> QED BY <2>1, <2>6, <3>1 DEF StructInv, RoleInv
  <2> QED BY <2>7, <2>8, <2>9 DEF StructInv
<1>10. CASE WriteEvent
  <2> DEFINE e == Head(batch)
             c == e.c
             writes == "out" \in e.ev /\ conn[c].wactive
             q == <<c, "write">>
  <2>1. /\ batch # <<>> /\ pc' = "read"
        /\ posted' = IF writes /\ post THEN Posted(posted, q) ELSE posted
        /\ run' = run \/ (Call(c, e.life) /\ writes)
        /\ UNCHANGED <<pool, exiting, draining, pAccept>>
    BY <1>10 DEF WriteEvent, NextEntry, mode
  <2>2. c \in Conns
    <3>1. 1 \in DOMAIN batch /\ e = batch[1] BY <2>1 DEF TypeOK
    <3> QED BY <3>1, BatchType
  <2>3. writes => conn[c].role = "peer" BY <2>2 DEF StructInv, RoleInv
  <2>4. q \in Events /\ q[1] = c BY <2>2 DEF Events
  <2> HIDE DEF c, writes, q, e
  <2>5. PoolExact' /\ ReusableExact' /\ MatesAgree' BY <1>4, <2>1 DEF pool
  <2>6. PostedLive'
    <3>1. posted \in Seq(Events) /\ NoRepeat(posted)
      BY DEF TypeOK, StructInv, PostedLive
    <3>2. /\ Members(Posted(posted, q)) = Members(posted) \cup {q}
          /\ NoRepeat(Posted(posted, q))
      BY <2>4, <3>1, PostedMembers
    <3>3. /\ NoRepeat(posted')
          /\ \A x \in Members(posted') : conn[x[1]].role \in Client \cup {"peer"}
      BY <2>1, <2>3, <2>4, <3>1, <3>2 DEF StructInv, PostedLive
    <3> QED BY <2>1, <3>3 DEF pool, StructInv, PostedLive
  <2>7. RoleInv'
    <3>1. run' # NoRun => run'.c \in Conns /\ conn[run'.c].role \in Client \cup {"listen"}
      BY <1>2, <1>6, <2>1, <2>2, <2>3
    <3> QED BY <2>1, <3>1 DEF pool, StructInv, RoleInv
  <2> QED BY <2>5, <2>6, <2>7 DEF StructInv
<1>11. CASE PostedAccept
  <2>1. /\ UNCHANGED <<pool, draining, exiting, posted>> /\ pc = "accept"
        /\ \/ pAccept = <<>> /\ pAccept' = pAccept /\ run' = run
           \/ /\ pAccept # <<>> /\ pAccept' = Tail(pAccept) /\ pc' = pc
              /\ Call(Head(pAccept)[1], conn[Head(pAccept)[1]].life)
    BY <1>11 DEF PostedAccept, mode
  <2>2. run' # NoRun => run'.c \in Conns /\ conn[run'.c].role \in Client \cup {"listen"}
    <3>1. CASE run' = run BY <1>2, <3>1
    <3>2. CASE pAccept # <<>> /\ Call(Head(pAccept)[1], conn[Head(pAccept)[1]].life)
      <4>1. Head(pAccept) \in Events /\ Head(pAccept) \in Members(pAccept)
        BY <3>2, TailMembers DEF TypeOK
      <4>2. Head(pAccept)[1] \in Conns /\ conn[Head(pAccept)[1]].role = "listen"
        BY <4>1 DEF Events, StructInv, PostedLive
      <4> QED BY <1>6, <3>2, <4>2
    <3> QED BY <2>1, <3>1, <3>2
  <2>3. pAccept' # <<>> => pc' \in {"read", "write", "accept"} BY <2>1
  <2> QED BY <1>5, <2>1, <2>2, <2>3
<1>12. CASE PostedEvent
  <2>1. /\ UNCHANGED <<pool, draining, exiting, pAccept, pc>>
        /\ posted # <<>> /\ posted' = Tail(posted)
        /\ Call(Head(posted)[1], conn[Head(posted)[1]].life)
    BY <1>12 DEF PostedEvent, loop, mode
  <2>2. Head(posted) \in Events /\ Head(posted) \in Members(posted)
    BY <2>1, TailMembers DEF TypeOK
  <2>3. Head(posted)[1] \in Conns /\ conn[Head(posted)[1]].role # "closed"
    BY <2>2 DEF Events, StructInv, PostedLive, Client
  <2>4. run'.c \in Conns /\ conn[run'.c].role \in Client \cup {"listen"}
    BY <1>6, <2>1, <2>3
  <2>5. pAccept' # <<>> => pc' \in {"read", "write", "accept"}
    BY <2>1 DEF StructInv, RoleInv
  <2> QED BY <1>5, <2>1, <2>4, <2>5
<1>13. ASSUME NEW c \in Conns, CloseConnection(c), conn[c].role \in Client, conn[c].mate = None,
              conn' = [conn EXCEPT ![c] = AsClosed(c)],
              UNCHANGED <<run, draining, exiting, pc, pAccept>>
       PROVE  StructInv'
  <2>1. /\ Turns(c, "closed") /\ MatesAgree'
        /\ \A d \in Conns : conn'[d].mate = conn[d].mate
        /\ \A d \in Conns : conn'[d].wactive => conn[d].wactive /\ d # c
    BY <1>13, ClosedRoles
  <2>2. /\ PoolExact' /\ PostedLive' /\ NoRepeat(reusable')
        /\ \A d \in Conns : d \in Members(reusable') <=> conn'[d].role = "idle"
    BY <1>13, <2>1, CloseLists
  <2>3. ReusableExact' BY <1>2, <1>13, <2>2 DEF ReusableExact
  <2>4. RoleInv' BY <1>2, <1>13, <2>1 DEF Turns, StructInv, RoleInv, Client
  <2> QED BY <2>1, <2>2, <2>3, <2>4 DEF StructInv
<1>14. ASSUME NEW c \in Conns, CloseIdle(c) PROVE StructInv'
  <2>1. conn[c].role = "idle" /\ conn[c].mate = None BY <1>3, <1>14 DEF CloseIdle
  <2> QED BY <1>13, <1>14, <2>1 DEF CloseIdle, Client, loop, mode
<1>15. ASSUME NEW quit \in BOOLEAN, IterationDone(quit) PROVE StructInv'
  <2>1. CASE quit /\ ~exiting
    <3>1. /\ free' = <<Listener>> \o free /\ freeN' = freeN + 1 /\ exiting' = TRUE
          /\ conn' = [conn EXCEPT ![Listener] = AsClosed(Listener)]
          /\ pc = "posted" /\ pc' = "top"
          /\ UNCHANGED <<reusable, draining, posted, pAccept, run>>
      BY <1>15, <2>1 DEF IterationDone, Release, ListenerClosed, queues
    <3>2. conn[Listener].role = "listen" BY <1>1, <2>1 DEF StructInv, RoleInv
    <3>3. conn[Listener].mate = None BY <1>1, <1>3, <3>2
    <3>4. /\ Turns(Listener, "closed") /\ MatesAgree'
          /\ \A d \in Conns : conn'[d].mate = conn[d].mate
          /\ \A d \in Conns : conn'[d].wactive => conn[d].wactive /\ d # Listener
      BY <1>1, <3>1, <3>3, ClosedRoles
    <3>5. PoolExact'
      <4>1. Listener \notin Members(free)
        BY <1>1, <3>2 DEF StructInv, PoolExact, Closed
      <4>2. /\ Len(<<Listener>> \o free) = Len(free) + 1
            /\ Members(<<Listener>> \o free) = Members(free) \cup {Listener}
            /\ NoRepeat(<<Listener>> \o free)
        BY <1>1, <4>1, PushedMembers DEF TypeOK, StructInv, PoolExact
      <4>3. NoRepeat(free') /\ freeN' = Len(free') /\ Members(free') = Members(free) \cup {Listener}
        BY <3>1, <4>2 DEF StructInv, PoolExact
      <4>4. \A d \in Conns : d \in Members(free') <=> conn'[d].role = "closed"
        BY <3>4, <4>3 DEF Turns, StructInv, PoolExact, Closed
      <4> QED BY <4>3, <4>4 DEF PoolExact, Closed
    <3>6. ReusableExact'
      BY <1>2, <3>1, <3>2, <3>4 DEF Turns, StructInv, ReusableExact
    <3>7. pAccept = <<>> BY <3>1 DEF StructInv, RoleInv
    <3>8. PostedLive'
      <4>1. \A e \in Members(posted) : e[1] \in Conns /\ e[1] # Listener
        <5>1. \A e \in Members(posted) : e[1] \in Conns
          BY MembersOfSeq DEF TypeOK, Events
        <5>2. \A e \in Members(posted) : conn[e[1]].role # "listen"
          BY DEF StructInv, PostedLive, Client
        <5> QED BY <3>2, <5>1, <5>2
      <4>2. Members(pAccept) = {} BY <3>7 DEF Members
      <4> QED BY <3>1, <3>4, <4>1, <4>2 DEF Turns, StructInv, PostedLive
    <3>9. RoleInv'
      BY <1>2, <3>1, <3>2, <3>4, <3>7 DEF Turns, StructInv, RoleInv
    <3> QED BY <3>4, <3>5, <3>6, <3>8, <3>9 DEF StructInv
  <2>2. CASE ~(quit /\ ~exiting)
    <3>1. /\ UNCHANGED <<pool, draining, exiting, posted, pAccept, run>> /\ pc = "posted"
      BY <1>15, <2>2 DEF IterationDone, pool, mode, queues
    <3>2. pAccept' = <<>> BY <3>1 DEF StructInv, RoleInv
    <3> QED BY <1>2, <1>5, <3>1, <3>2
  <2> QED BY <2>1, <2>2
<1>16. ASSUME NEW c \in Conns, TimerExpires(c) PROVE StructInv'
  <2>1. CASE /\ conn[c].role \in {"reading", "idle"} /\ UNCHANGED run
             /\ conn' = [conn EXCEPT ![c] = AsClosed(c)]
    <3>1. conn[c].mate = None /\ conn[c].role \in Client BY <1>3, <2>1 DEF Client
    <3> QED BY <1>13, <1>16, <2>1, <3>1 DEF TimerExpires, loop, mode
  <2>2. CASE conn[c].role = "peer" /\ Call(c, conn[c].life) /\ conn' = Unmated(c)
    <3>1. conn[c].mate # None BY <2>2 DEF StructInv, RoleInv
    <3>2. /\ Turns(c, "closed") /\ MatesAgree'
          /\ \A d \in Conns : conn'[d].mate = IF d \in {c, conn[c].mate} THEN None ELSE conn[d].mate
          /\ \A d \in Conns : conn'[d].wactive => conn[d].wactive /\ d # c
          /\ conn[c].mate \in Conns /\ conn[c].mate # c
      BY <2>2, <3>1, UnmatedRoles
    <3>3. /\ CloseConnection(c) /\ UNCHANGED <<draining, exiting, pc, pAccept>>
      BY <1>16 DEF TimerExpires, loop, mode
    <3>4. /\ PoolExact' /\ PostedLive' /\ NoRepeat(reusable')
          /\ \A d \in Conns : d \in Members(reusable') <=> conn'[d].role = "idle"
      BY <2>2, <3>2, <3>3, CloseLists
    <3>5. ReusableExact' BY <1>2, <3>3, <3>4 DEF ReusableExact
    <3>6. /\ run'.c = conn[c].mate /\ run'.c \in Conns
          /\ conn[run'.c].role \in Client \cup {"listen"}
      BY <2>2, CallRole
    <3>7. conn[conn[c].mate].role = "request"
      BY <2>2, <3>1 DEF StructInv, MatesAgree
    <3>8. RoleInv'
      <4>1. conn'[run'.c].role = "request" BY <3>2, <3>6, <3>7 DEF Turns
      <4>2. \A d \in Conns : conn'[d].role = "peer" => conn'[d].mate # None
        BY <3>2, <3>7 DEF Turns, StructInv, RoleInv
      <4>3. \A d \in Conns : conn'[d].wactive => conn'[d].role = "peer"
        BY <3>2 DEF Turns, StructInv, RoleInv
      <4>4. \A d \in Conns : conn'[d].role = "listen" <=> (d = Listener /\ ~exiting')
        BY <2>2, <3>2, <3>3 DEF Turns, StructInv, RoleInv
      <4> QED BY <3>3, <3>6, <4>1, <4>2, <4>3, <4>4 DEF StructInv, RoleInv, Client
    <3> QED BY <3>2, <3>4, <3>5, <3>8 DEF StructInv
  <2> QED BY <1>16, <2>1, <2>2 DEF TimerExpires
<1> QED
  BY <1>7, <1>8, <1>9, <1>10, <1>11, <1>12, <1>14, <1>15, <1>16 DEF LoopStep, Timer

LEMMA WorldStruct ==
  ASSUME StructInv, World \/ UNCHANGED vars
  PROVE  StructInv'
<1>1. UNCHANGED <<pool, draining, queues, run, pc, exiting>>
  BY DEF World, ClientConnects, ClientSends, PeerReady, vars, loop, mode
<1> QED
  BY <1>1 DEF StructInv, PoolExact, Closed, ReusableExact, PostedLive, MatesAgree, RoleInv,
              pool, queues

LEMMA StructInvariant == Spec => []StructInv
<1>1. Init => StructInv BY InitStruct
<1>2. IInv /\ StructInv /\ [Next]_vars => StructInv'
  BY HandlerStruct, LoopStruct, WorldStruct DEF Next, Worker
<1> QED BY <1>1, <1>2, Invariant, PTL DEF Spec

(***************************************************************************)
(* The free list holds exactly the closed connections and                  *)
(* free_connection_n counts it (ngx_get_connection, ngx_free_connection).  *)
(***************************************************************************)
THEOREM FreeListExact == Spec => []PoolExact
<1>1. StructInv => PoolExact BY DEF StructInv
<1> QED BY <1>1, StructInvariant, PTL

(***************************************************************************)
(* The reusable queue holds exactly the idle connections, so that          *)
(* ngx_drain_connections closes no connection that is in use, whichever    *)
(* handler called it.                                                      *)
(***************************************************************************)
THEOREM DrainsOnlyIdle == Spec => []ReusableExact
<1>1. StructInv => ReusableExact BY DEF StructInv
<1> QED BY <1>1, StructInvariant, PTL

(***************************************************************************)
(* No posted event outlives its connection (ngx_close_connection,          *)
(* ngx_close_listening_sockets).                                           *)
(***************************************************************************)
THEOREM PostedEventsLive == Spec => []PostedLive
<1>1. StructInv => PostedLive BY DEF StructInv
<1> QED BY <1>1, StructInvariant, PTL

(***************************************************************************)
(* A request and its upstream peer always know each other, until the peer  *)
(* is closed (ngx_http_upstream_next, ngx_http_upstream_finalize_request). *)
(***************************************************************************)
THEOREM PeersMatch == Spec => []MatesAgree
<1>1. StructInv => MatesAgree BY DEF StructInv
<1> QED BY <1>1, StructInvariant, PTL

-----------------------------------------------------------------------------
(* Input that waits for its handler.                                        *)

(* The rest of the batch reports input of this life of c.                   *)
InBatch(c) ==
  \E i \in DOMAIN batch : /\ batch[i].c = c /\ batch[i].life = conn[c].life
                          /\ "in" \in batch[i].ev /\ (i = 1 => pc = "read")

(* A client's read event is in epoll or known to be ready, then the handler *)
(* runs or is posted; what epoll was to report is in the batch.             *)
AwaitInv(c) ==
  /\ IsClient(c) => conn[c].ractive \/ conn[c].rready
  /\ conn[c].role \in {"reading", "idle"} /\ conn[c].rready /\ run.c # c =>
       <<c, "read">> \in Members(posted)
  /\ IsClient(c) /\ conn[c].ractive /\ ~conn[c].rready /\ input[c] > 0 =>
       "in" \in edge[c] \/ InBatch(c)

(* The step leaves what epoll knows of d alone.                             *)
Same(d) ==
  /\ conn'[d].role = conn[d].role /\ conn'[d].life = conn[d].life
  /\ conn'[d].ractive = conn[d].ractive /\ conn'[d].rready = conn[d].rready

LEMMA BatchKept ==
  ASSUME NEW c \in Conns, batch' = batch, conn'[c].life = conn[c].life,
         pc' = pc \/ batch = <<>>
  PROVE  InBatch(c) => InBatch(c)'
<1>1. CASE pc' = pc BY <1>1 DEF InBatch
<1>2. CASE batch = <<>> BY <1>2 DEF InBatch
<1> QED BY <1>1, <1>2

LEMMA AwaitKept ==
  ASSUME NEW c \in Conns, AwaitInv(c), Same(c), input'[c] = input[c],
         "in" \in edge[c] => "in" \in edge'[c] \/ InBatch(c)',
         InBatch(c) => InBatch(c)',
         run'.c # c => run.c # c \/ conn[c].role \notin {"reading", "idle"},
         <<c, "read">> \in Members(posted) => run'.c = c \/ <<c, "read">> \in Members(posted')
  PROVE  AwaitInv(c)'
BY DEF AwaitInv, Same, IsClient

(* Closing a connection loses no input of another one.                      *)
LEMMA CloseAwait ==
  ASSUME IInv, StructInv, NEW c \in Conns, AwaitInv(c), NEW u \in Conns,
         CloseConnection(u), conn'[u].role = "closed", c # u => Same(c),
         batch' = batch, pc' = pc, c # u /\ run'.c # c => run.c # c
  PROVE  AwaitInv(c)'
<1>1. CASE c = u BY <1>1 DEF AwaitInv, IsClient, Client
<1>2. CASE c # u
  <2>1. InBatch(c) => InBatch(c)' BY <1>2, BatchKept DEF Same
  <2>2. input'[c] = input[c] /\ edge'[c] = edge[c]
    BY <1>2 DEF CloseConnection, Release, IInv, TypeOK
  <2>3. <<c, "read">> \in Members(posted) => <<c, "read">> \in Members(posted')
    <3> DEFINE r == <<u, "read">>
               w == <<u, "write">>
               half == Unlink(posted, r)
    <3>1. posted' = Unlink(half, w) BY DEF CloseConnection, Unposted
    <3>2. posted \in Seq(Events) /\ NoRepeat(posted)
      BY DEF IInv, TypeOK, StructInv, PostedLive
    <3>3. <<c, "read">> # r /\ <<c, "read">> # w BY <1>2
    <3> HIDE DEF r, w
    <3>4. half \in Seq(Events) /\ NoRepeat(half) /\ Members(half) = Members(posted) \ {r}
      BY <3>2, UnlinkMembers
    <3> HIDE DEF half
    <3>5. Members(posted') = Members(half) \ {w} BY <3>1, <3>4, UnlinkMembers
    <3> QED BY <3>3, <3>4, <3>5
  <2> QED BY <1>2, <2>1, <2>2, <2>3, AwaitKept
<1> QED BY <1>1, <1>2

LEMMA ClosedSame ==
  ASSUME TypeOK, NEW u \in Conns, conn' = [conn EXCEPT ![u] = AsClosed(u)],
         NEW d \in Conns
  PROVE  conn'[u].role = "closed" /\ (d # u => Same(d))
<1>1. conn[u] \in Conn /\ conn \in [Conns -> Conn] BY DEF TypeOK
<1>2. conn'[u] = AsClosed(u) /\ (d # u => conn'[d] = conn[d]) BY <1>1
<1>3. AsClosed(u).role = "closed" BY <1>1 DEF AsClosed, Conn
<1> QED BY <1>2, <1>3 DEF Same

LEMMA UnmatedSameRest ==
  ASSUME TypeOK, StructInv, NEW u \in Conns, conn[u].mate # None, conn' = Unmated(u),
         NEW d \in Conns
  PROVE  conn'[u].role = "closed" /\ (d # u => Same(d))
<1> DEFINE m == conn[u].mate
           half == [conn EXCEPT ![u] = AsClosed(u)]
<1>1. m \in Conns BY DEF TypeOK, Conn
<1>2. m # u BY DEF StructInv, MatesAgree
<1>3. conn[u] \in Conn /\ conn[m] \in Conn /\ conn \in [Conns -> Conn]
  BY <1>1 DEF TypeOK
<1>4. conn' = [half EXCEPT ![m] = [half[m] EXCEPT !.mate = None]]
  BY <1>2 DEF Unmated
<1>5. half[m] = conn[m] /\ half[u] = AsClosed(u) BY <1>1, <1>2, <1>3
<1>6. /\ conn'[u] = AsClosed(u) /\ conn'[m] = [conn[m] EXCEPT !.mate = None]
      /\ \A x \in Conns \ {u, m} : conn'[x] = conn[x]
  BY <1>1, <1>2, <1>3, <1>4, <1>5
<1> HIDE DEF m
<1>7. conn'[u].role = "closed" BY <1>3, <1>6 DEF AsClosed, Conn
<1>8. Same(m) BY <1>3, <1>6 DEF Same, Conn
<1>9. d \notin {u, m} => Same(d) BY <1>6 DEF Same
<1> QED BY <1>7, <1>8, <1>9

LEMMA HandlerAwait ==
  ASSUME IInv, StructInv, NEW c \in Conns, AwaitInv(c), HandlerStep
  PROVE  AwaitInv(c)'
<1>1. TypeOK BY DEF IInv
<1>2. \A d \in Conns : conn[d] \in Conn BY <1>1 DEF TypeOK
<1>3. NoRun.c = None /\ c # None BY DEF NoRun, Conns, None
<1>4. ASSUME conn' = conn, UNCHANGED <<input, edge, loop, posted>>,
             run' = run \/ (run' = NoRun /\ conn[run.c].role \notin {"reading", "idle"})
      PROVE  AwaitInv(c)'
  <2>1. Same(c) BY <1>4 DEF Same
  <2>2. InBatch(c) => InBatch(c)' BY <1>4, BatchKept DEF loop
  <2> QED BY <1>4, <2>1, <2>2, AwaitKept
<1>5. CASE DrainStart
  BY <1>4, <1>5 DEF DrainStart, pool, kernel, queues
<1>6. CASE DrainStep
  <2>1. CASE reusable = <<>>
    BY <1>4, <1>6, <2>1 DEF DrainStep, pool, kernel, queues
  <2>2. CASE reusable # <<>>
    <3> DEFINE u == reusable[Len(reusable)]
    <3>1. u \in Conns BY <1>1, <2>2 DEF TypeOK
    <3>2. /\ CloseConnection(u) /\ conn' = [conn EXCEPT ![u] = AsClosed(u)]
          /\ UNCHANGED <<run, pc, batch>>
      BY <1>6, <2>2 DEF DrainStep, loop
    <3> HIDE DEF u
    <3>3. conn'[u].role = "closed" /\ (c # u => Same(c))
      BY <1>1, <3>1, <3>2, ClosedSame
    <3> QED BY <3>1, <3>2, <3>3, CloseAwait
  <2> QED BY <2>1, <2>2
<1>7. CASE AcceptFails
  BY <1>4, <1>7 DEF AcceptFails, Running, Return, pool, queues
<1>8. CASE AcceptedCloses
  <2> DEFINE u == Head(free)
  <2>1. u \in Conns /\ conn[u].role = "closed"
    BY <1>1, <1>8, TailMembers DEF AcceptedCloses, TypeOK, StructInv, PoolExact, Closed
  <2>2. /\ conn' = [conn EXCEPT ![u] = Taken(u, "closed")] /\ run' = NoRun
        /\ conn[run.c].role = "listen" /\ UNCHANGED <<input, edge, loop, posted>>
    BY <1>8 DEF AcceptedCloses, Running, Return, queues
  <2> HIDE DEF u
  <2>3. conn'[u].role = "closed" /\ (c # u => conn'[c] = conn[c])
    BY <1>1, <2>1, <2>2 DEF Taken, Fresh, TypeOK
  <2>4. CASE c = u BY <2>3, <2>4 DEF AwaitInv, IsClient, Client
  <2>5. CASE c # u
    <3>1. Same(c) BY <2>3, <2>5 DEF Same
    <3>2. InBatch(c) => InBatch(c)' BY <2>2, <3>1, BatchKept DEF loop, Same
    <3> QED BY <2>2, <3>1, <3>2, AwaitKept
  <2> QED BY <2>4, <2>5
<1>9. ASSUME NEW deferred \in BOOLEAN, Accepted(deferred) PROVE AwaitInv(c)'
  <2> DEFINE u == Head(free)
             t == Taken(u, "reading")
             r == IF deferred THEN [t EXCEPT !.rready = TRUE] ELSE HandleRead(t)
             q == <<u, "read">>
  <2>1. /\ Take /\ UNCHANGED <<edge, loop>> /\ conn[run.c].role = "listen"
        /\ conn' = [conn EXCEPT ![u] = r]
        /\ input' = [input EXCEPT ![u] = IF deferred THEN 1 ELSE 0]
        /\ posted' = IF deferred /\ mutex THEN Posted(posted, q) ELSE posted
        /\ run' = IF deferred /\ ~mutex THEN [c |-> u, late |-> 0] ELSE NoRun
    BY <1>9 DEF Accepted, Running
  <2>2. u \in Conns
    BY <1>1, <2>1, TailMembers DEF Take, TypeOK
  <2>3. /\ r.role = "reading"
        /\ deferred => r.rready
        /\ ~deferred => r.ractive /\ ~r.rready
    <3>1. t \in Conn /\ t.role = "reading" /\ t.ractive = FALSE /\ t.rready = FALSE
      BY <1>1, <2>2, TakenType DEF Taken, Fresh, Role, Client
    <3> HIDE DEF t
    <3> QED BY <3>1 DEF HandleRead, Conn
  <2>4. /\ Members(Posted(posted, q)) = Members(posted) \cup {q}
        /\ q = <<u, "read">>
    <3>1. q \in Events /\ posted \in Seq(Events) BY <1>1, <2>2 DEF Events, TypeOK
    <3> HIDE DEF q
    <3>2. Members(Posted(posted, q)) = Members(posted) \cup {q} BY <3>1, PostedMembers
    <3> QED BY <3>2 DEF q
  <2> HIDE DEF u, r, q
  <2>5. conn'[u] = r /\ (c # u => conn'[c] = conn[c])
        /\ input'[u] = (IF deferred THEN 1 ELSE 0) /\ (c # u => input'[c] = input[c])
    BY <1>1, <2>1, <2>2 DEF TypeOK
  <2>6. CASE c = u
    <3>1. CASE deferred
      <4>1. conn'[c].rready /\ IsClient(c)' BY <2>3, <2>5, <2>6, <3>1 DEF IsClient, Client
      <4>2. run'.c # c => mutex BY <2>1, <2>6, <3>1
      <4>3. run'.c # c => <<c, "read">> \in Members(posted')
        BY <2>1, <2>4, <2>6, <3>1, <4>2
      <4> QED BY <4>1, <4>3 DEF AwaitInv
    <3>2. CASE ~deferred
      BY <2>3, <2>5, <2>6, <3>2 DEF AwaitInv
    <3> QED BY <3>1, <3>2
  <2>7. CASE c # u
    <3>1. Same(c) BY <2>5, <2>7 DEF Same
    <3>2. InBatch(c) => InBatch(c)' BY <2>1, <3>1, BatchKept DEF loop, Same
    <3>3. Members(posted) \subseteq Members(posted') BY <2>1, <2>4
    <3>4. run.c # c \/ conn[c].role \notin {"reading", "idle"} BY <2>1
    <3> QED BY <2>1, <2>5, <2>7, <3>1, <3>2, <3>3, <3>4, AwaitKept
  <2> QED BY <2>6, <2>7
<1>10. ASSUME NEW u \in Conns, ReceivesNothing(u) PROVE AwaitInv(c)'
  <2> DEFINE r == HandleRead(NoLongerReady(conn[u]))
  <2>1. /\ conn' = [conn EXCEPT ![u] = r] /\ run.c = u /\ run' = NoRun
        /\ edge' = [edge EXCEPT ![u] = Armed(u, r)]
        /\ conn[u].role \in {"reading", "idle"} /\ NoInput(u)
        /\ UNCHANGED <<input, loop, posted>>
    BY <1>10 DEF ReceivesNothing, Return, queues
  <2>2. /\ r.role = conn[u].role /\ r.life = conn[u].life
        /\ r.ractive = TRUE /\ r.rready = FALSE
    BY <1>2 DEF HandleRead, NoLongerReady, Conn
  <2> HIDE DEF r
  <2>3. /\ conn'[u] = r /\ (c # u => conn'[c] = conn[c])
        /\ edge'[u] = Armed(u, r) /\ (c # u => edge'[c] = edge[c])
    BY <1>1, <2>1 DEF TypeOK
  <2>4. InBatch(c) => InBatch(c)'
    BY <2>1, <2>2, <2>3, BatchKept DEF loop
  <2>5. CASE c = u
    <3>1. CASE input[c] = 0 BY <2>1, <2>2, <2>3, <2>5, <3>1 DEF AwaitInv
    <3>2. CASE input[c] # 0
      <4>1. conn[c].role = "reading" /\ ~conn[c].rready BY <2>1, <2>5, <3>2 DEF NoInput
      <4>2. input[c] > 0 BY <1>1, <3>2 DEF TypeOK
      <4>3. CASE conn[c].ractive
        <5>1. "in" \in edge[c] \/ InBatch(c)
          BY <4>1, <4>2, <4>3 DEF AwaitInv, IsClient, Client
        <5>2. edge'[c] = edge[c] BY <2>3, <2>5, <4>3 DEF Armed
        <5> QED BY <2>2, <2>3, <2>4, <2>5, <5>1, <5>2 DEF AwaitInv
      <4>4. CASE ~conn[c].ractive
        <5>1. "in" \in edge'[c] BY <2>2, <2>3, <2>5, <4>2, <4>4 DEF Armed
        <5> QED BY <2>2, <2>3, <2>5, <5>1 DEF AwaitInv
      <4> QED BY <4>3, <4>4
    <3> QED BY <3>1, <3>2
  <2>6. CASE c # u
    <3>1. Same(c) BY <2>3, <2>6 DEF Same
    <3> QED BY <2>1, <2>3, <2>4, <2>6, <3>1, AwaitKept
  <2> QED BY <2>5, <2>6
<1>11. ASSUME NEW u \in Conns, Receives(u) PROVE AwaitInv(c)'
  <2>1. /\ \E n : conn' = [conn EXCEPT ![u].role = "request", ![u].buffered = n]
        /\ \/ UNCHANGED input
           \/ \E n \in 1 .. input[u] : input' = [input EXCEPT ![u] = @ - n]
        /\ run.c = u /\ run' = run /\ conn[u].role \in {"reading", "idle"}
        /\ UNCHANGED <<edge, loop, posted>>
    BY <1>11 DEF Receives, queues
  <2>2. /\ conn'[u].role = "request" /\ conn'[u].ractive = conn[u].ractive
        /\ conn'[u].rready = conn[u].rready /\ conn'[u].life = conn[u].life
        /\ c # u => conn'[c] = conn[c]
    BY <1>2, <1>1, <2>1 DEF TypeOK, Conn
  <2>3. /\ c # u => input'[c] = input[c]
        /\ input'[u] > 0 => input[u] > 0
    <3>1. input \in [Conns -> Nat] BY <1>1 DEF TypeOK
    <3> QED BY <2>1, <3>1
  <2>4. InBatch(c) => InBatch(c)' BY <2>1, <2>2, BatchKept DEF loop
  <2>5. CASE c = u
    BY <2>1, <2>2, <2>3, <2>4, <2>5 DEF AwaitInv, IsClient, Client
  <2>6. CASE c # u
    <3>1. Same(c) BY <2>2, <2>6 DEF Same
    <3> QED BY <2>1, <2>3, <2>4, <2>6, <3>1, AwaitKept
  <2> QED BY <2>5, <2>6
<1>12. ASSUME NEW u \in Conns, CloseClient(u) PROVE AwaitInv(c)'
  <2>1. /\ CloseConnection(u) /\ conn' = [conn EXCEPT ![u] = AsClosed(u)]
        /\ run.c = u /\ UNCHANGED <<batch, pc>>
    BY <1>12 DEF CloseClient, loop
  <2>2. conn'[u].role = "closed" /\ (c # u => Same(c)) BY <1>1, <2>1, ClosedSame
  <2> QED BY <2>1, <2>2, CloseAwait
<1>13. ASSUME NEW u \in Conns, SetKeepalive(u) PROVE AwaitInv(c)'
  <2> DEFINE r == HandleRead(conn[u])
             role == IF r.buffered > 0 THEN "reading" ELSE "idle"
             q == <<u, "read">>
  <2>1. /\ conn[u].role = "request" /\ run.c = u /\ run' = NoRun
        /\ conn' = [conn EXCEPT ![u] = [r EXCEPT !.role = role]]
        /\ edge' = [edge EXCEPT ![u] = Armed(u, r)]
        /\ posted' = IF PostsAgain(r) THEN Posted(posted, q) ELSE posted
        /\ UNCHANGED <<input, loop>>
    BY <1>13 DEF SetKeepalive, Running, Return
  <2>2. /\ r.rready = conn[u].rready /\ r.life = conn[u].life /\ r \in Conn
        /\ (r.ractive <=> conn[u].ractive \/ ~conn[u].rready)
    <3>1. conn[u] \in Conn /\ r \in Conn BY <1>2, HandleReadType
    <3> QED BY <3>1 DEF HandleRead, Conn
  <2>3. role \in {"reading", "idle"} OBVIOUS
  <2>4. Members(Posted(posted, q)) = Members(posted) \cup {q} /\ q = <<u, "read">>
    <3>1. q \in Events /\ posted \in Seq(Events) BY <1>1 DEF Events, TypeOK
    <3> HIDE DEF q
    <3>2. Members(Posted(posted, q)) = Members(posted) \cup {q} BY <3>1, PostedMembers
    <3> QED BY <3>2 DEF q
  <2> HIDE DEF r, role, q
  <2>5. /\ conn'[u].role = role /\ conn'[u].rready = r.rready /\ conn'[u].ractive = r.ractive
        /\ conn'[u].life = conn[u].life /\ (c # u => conn'[c] = conn[c])
        /\ edge'[u] = Armed(u, r) /\ (c # u => edge'[c] = edge[c])
    BY <1>1, <2>1, <2>2 DEF TypeOK, Conn
  <2>6. InBatch(c) => InBatch(c)' BY <2>1, <2>5, BatchKept DEF loop
  <2>7. CASE c = u
    <3>1. conn'[c].ractive \/ conn'[c].rready
      BY <2>2, <2>5, <2>7
    <3>2. conn'[c].rready => <<c, "read">> \in Members(posted')
      BY <2>1, <2>4, <2>5, <2>7 DEF PostsAgain
    <3>3. conn'[c].ractive /\ ~conn'[c].rready /\ input'[c] > 0 => "in" \in edge'[c] \/ InBatch(c)'
      <4> SUFFICES ASSUME conn'[c].ractive, ~conn'[c].rready, input'[c] > 0
                   PROVE  "in" \in edge'[c] \/ InBatch(c)'
        OBVIOUS
      <4>1. input[c] > 0 /\ ~conn[c].rready /\ r.ractive BY <2>1, <2>2, <2>5, <2>7
      <4>2. CASE conn[c].ractive
        <5>1. "in" \in edge[c] \/ InBatch(c)
          BY <2>1, <2>7, <4>1, <4>2 DEF AwaitInv, IsClient, Client
        <5>2. edge'[c] = edge[c] BY <2>5, <2>7, <4>2 DEF Armed
        <5> QED BY <2>6, <5>1, <5>2
      <4>3. CASE ~conn[c].ractive
        BY <2>5, <2>7, <4>1, <4>3 DEF Armed
      <4> QED BY <4>2, <4>3
    <3> QED BY <3>1, <3>2, <3>3 DEF AwaitInv
  <2>8. CASE c # u
    <3>1. Same(c) BY <2>5, <2>8 DEF Same
    <3>2. Members(posted) \subseteq Members(posted') BY <2>1, <2>4
    <3> QED BY <2>1, <2>5, <2>6, <2>8, <3>1, <3>2, AwaitKept
  <2> QED BY <2>7, <2>8
<1>14. ASSUME NEW d \in Conns, ConnectPeer(d) PROVE AwaitInv(c)'
  <2> DEFINE u == Head(free)
             r == [Taken(u, "peer") EXCEPT !.ractive = TRUE, !.wactive = TRUE, !.mate = d]
  <2>1. /\ conn[d].role = "request" /\ Take /\ run' = run
        /\ UNCHANGED <<input, edge, loop, posted>>
        /\ conn' = [conn EXCEPT ![u] = r, ![d].mate = u]
    BY <1>14 DEF ConnectPeer, Running, queues, kernel
  <2>2. u \in Conns /\ conn[u].role = "closed"
    BY <1>1, <2>1, TailMembers DEF Take, TypeOK, StructInv, PoolExact, Closed
  <2>3. r.role = "peer" BY DEF Taken, Fresh
  <2> HIDE DEF r
  <2>4. /\ u # d /\ conn'[u] = r
        /\ \A x \in Conns \ {u} : Same(x)
    BY <1>1, <1>2, <2>1, <2>2 DEF TypeOK, Conn, Same
  <2> HIDE DEF u
  <2>5. CASE c = u BY <2>3, <2>4, <2>5 DEF AwaitInv, IsClient, Client
  <2>6. CASE c # u
    <3>1. InBatch(c) => InBatch(c)' BY <2>1, <2>4, <2>6, BatchKept DEF loop, Same
    <3> QED BY <2>1, <2>4, <2>6, <3>1, AwaitKept
  <2> QED BY <2>5, <2>6
<1>15. ASSUME NEW d \in Conns, ClosePeer(d) PROVE AwaitInv(c)'
  <2> DEFINE u == conn[d].mate
  <2>1. /\ u # None /\ CloseConnection(u) /\ conn' = Unmated(u) /\ UNCHANGED <<run, batch, pc>>
    BY <1>15 DEF ClosePeer, loop
  <2>2. u \in Conns /\ conn[u].mate # None
    <3>1. u \in Conns /\ conn[u].mate = d BY <1>2, <2>1 DEF Conn, StructInv, MatesAgree
    <3> QED BY <3>1 DEF Conns, None
  <2> HIDE DEF u
  <2>3. conn'[u].role = "closed" /\ (c # u => Same(c))
    BY <1>1, <2>1, <2>2, UnmatedSameRest
  <2> QED BY <2>1, <2>2, <2>3, CloseAwait
<1>16. ASSUME NEW d \in Conns, AwaitPeer(d) PROVE AwaitInv(c)'
  BY <1>4, <1>16 DEF AwaitPeer, Running, Return, pool, kernel, queues
<1> QED
  BY <1>5, <1>6, <1>7, <1>8, <1>9, <1>10, <1>11, <1>12, <1>13, <1>14, <1>15, <1>16
     DEF HandlerStep

(* epoll_wait reports every socket with news.                               *)
LEMMA NewsInBatch ==
  ASSUME EpollWait, NEW c \in Conns, edge[c] # {}
  PROVE  \E i \in DOMAIN batch' : batch'[i] = EntryOf(c)
<1> DEFINE news == {EntryOf(d) : d \in {x \in Conns : edge[x] # {}}}
<1>1. EntryOf(c) \in news OBVIOUS
<1>2. PICK S \in {news, news \cup {ListenEvent}} : batch' \in Orderings(S)
  BY DEF EpollWait
<1>3. EntryOf(c) \in S BY <1>1, <1>2
<1>4. Members(batch') = S BY <1>2 DEF Orderings
<1> QED BY <1>3, <1>4 DEF Members

(* The entry that is worked off is not of c, or is done with.               *)
LEMMA TailInBatch ==
  ASSUME IInv, NEW c \in Conns, batch # <<>>, batch' = Tail(batch), pc' = "read",
         conn'[c].life = conn[c].life, InBatch(c),
         pc = "write" \/ Head(batch).c # c \/ Head(batch).life # conn[c].life
  PROVE  InBatch(c)'
<1>1. PICK i \in DOMAIN batch : /\ batch[i].c = c /\ batch[i].life = conn[c].life
                                /\ "in" \in batch[i].ev /\ (i = 1 => pc = "read")
  BY DEF InBatch
<1>2. batch[1] = Head(batch) /\ batch \in Seq(Entry) BY DEF IInv, TypeOK
<1>3. i # 1 BY <1>1, <1>2
<1>4. i - 1 \in DOMAIN Tail(batch) /\ Tail(batch)[i - 1] = batch[i]
  BY <1>2, <1>3
<1> QED BY <1>1, <1>4 DEF InBatch

LEMMA LoopAwait ==
  ASSUME IInv, StructInv, NEW c \in Conns, AwaitInv(c), LoopStep \/ Timer
  PROVE  AwaitInv(c)'
<1>1. TypeOK BY DEF IInv
<1>2. \A d \in Conns : conn[d] \in Conn BY <1>1 DEF TypeOK
<1>3. run = NoRun /\ run.c # c
  <2>1. run = NoRun
    BY DEF LoopStep, Timer, Idle, StartIteration, EpollWait, StaleEvent, ReadEvent, WriteEvent,
           BatchDone, PostedAccept, TimersDone, PostedEvent, CloseIdle, IterationDone,
           TimerExpires
  <2>2. NoRun.c # c BY DEF NoRun, Conns, None
  <2> QED BY <2>1, <2>2
<1>4. pc \notin {"read", "write"} => batch = <<>> BY DEF IInv, LifeInv
<1>5. Same(c) <=> /\ conn'[c].role = conn[c].role /\ conn'[c].life = conn[c].life
                  /\ conn'[c].ractive = conn[c].ractive /\ conn'[c].rready = conn[c].rready
  BY DEF Same
<1>6. CASE StartIteration \/ BatchDone \/ PostedAccept \/ TimersDone
  <2>1. UNCHANGED <<conn, input, edge, batch, posted>> /\ batch = <<>>
    BY <1>4, <1>6 DEF StartIteration, BatchDone, PostedAccept, TimersDone, pool, kernel, queues
  <2>2. InBatch(c) => InBatch(c)' BY <2>1, BatchKept
  <2> QED BY <1>3, <1>5, <2>1, <2>2, AwaitKept
<1>7. CASE EpollWait
  <2>1. \E b : conn' = [conn EXCEPT ![Listener].ractive =
                          IF conn[Listener].role = "listen" THEN b ELSE @]
    BY <1>7, Zenon DEF EpollWait
  <2>2. /\ UNCHANGED <<input, run, posted>> /\ pc' = "read" /\ batch = <<>>
    BY <1>4, <1>7 DEF EpollWait, queues
  <2>3. /\ conn'[c].role = conn[c].role /\ conn'[c].life = conn[c].life
        /\ conn'[c].rready = conn[c].rready
        /\ IsClient(c) => conn'[c].ractive = conn[c].ractive
    <3>1. PICK b : conn' = [conn EXCEPT ![Listener].ractive = b]
      BY <2>1
    <3>2. c # Listener => conn'[c] = conn[c] BY <1>1, <3>1 DEF TypeOK
    <3>3. c = Listener => conn'[c] = [conn[c] EXCEPT !.ractive = b]
      BY <1>1, <3>1 DEF TypeOK
    <3>4. c = Listener /\ IsClient(c) => conn' = conn
      BY <1>1, <1>2, <2>1 DEF TypeOK, Conn, IsClient, Client
    <3> QED BY <1>2, <3>2, <3>3, <3>4 DEF Conn
  <2>4. ~InBatch(c) BY <2>2 DEF InBatch
  <2>5. "in" \in edge[c] => InBatch(c)'
    <3> SUFFICES ASSUME "in" \in edge[c] PROVE InBatch(c)'
      OBVIOUS
    <3>1. PICK i \in DOMAIN batch' : batch'[i] = EntryOf(c) BY <1>7, NewsInBatch
    <3> QED BY <2>2, <2>3, <3>1 DEF InBatch, EntryOf
  <2> QED BY <1>3, <2>2, <2>3, <2>4, <2>5 DEF AwaitInv, IsClient
<1>8. CASE StaleEvent
  <2>1. /\ batch # <<>> /\ Stale(Head(batch)) /\ batch' = Tail(batch) /\ pc' = "read"
        /\ UNCHANGED <<conn, input, edge, run, posted>>
    BY <1>8 DEF StaleEvent, NextEntry, pool, kernel, queues
  <2>2. CASE IsClient(c)
    <3>1. ~Closed(c) BY <2>2 DEF IsClient, Closed, Client
    <3>2. 1 \in DOMAIN batch /\ batch[1] = Head(batch) BY <1>1, <2>1 DEF TypeOK
    <3>3. Head(batch).instance = Parity(Head(batch).life)
      BY <3>2 DEF IInv, LifeInv
    <3>4. conn[c].instance = Parity(conn[c].life) BY DEF IInv, LifeInv
    <3>5. Head(batch).c # c \/ Head(batch).life # conn[c].life
      BY <2>1, <3>1, <3>3, <3>4 DEF Stale
    <3>6. InBatch(c) => InBatch(c)' BY <2>1, <3>5, TailInBatch
    <3> QED BY <1>5, <2>1, <3>6, AwaitKept
  <2>3. CASE ~IsClient(c)
    BY <2>1, <2>3 DEF AwaitInv, IsClient, Client
  <2> QED BY <2>2, <2>3
<1>9. CASE ReadEvent
  <2> DEFINE e == Head(batch)
             u == e.c
             reads == "in" \in e.ev /\ conn[u].ractive
             q == <<u, "read">>
             accepts == conn[u].role = "listen"
  <2>1. /\ batch # <<>> /\ ~Stale(e) /\ pc = "read" /\ pc' = "write" /\ batch' = batch
        /\ conn' = [conn EXCEPT ![u].rready = @ \/ reads]
        /\ posted' = IF reads /\ post /\ ~accepts THEN Posted(posted, q) ELSE posted
        /\ IF reads /\ ~post THEN Call(u, e.life) ELSE run' = run
        /\ UNCHANGED <<input, edge>>
    BY <1>9 DEF ReadEvent, kernel
  <2>2. u \in Conns BY <2>1, NotStale
  <2>3. batch[1] = e /\ 1 \in DOMAIN batch BY <1>1, <2>1 DEF TypeOK
  <2>4. Members(Posted(posted, q)) = Members(posted) \cup {q} /\ q = <<u, "read">>
    <3>1. q \in Events /\ posted \in Seq(Events) BY <1>1, <2>2 DEF Events, TypeOK
    <3> HIDE DEF q
    <3>2. Members(Posted(posted, q)) = Members(posted) \cup {q} BY <3>1, PostedMembers
    <3> QED BY <3>2 DEF q
  <2>5. /\ reads <=> "in" \in e.ev /\ conn[u].ractive
        /\ accepts <=> conn[u].role = "listen"
        /\ u = e.c
    OBVIOUS
  <2> HIDE DEF u, reads, q, accepts, e
  <2>6. /\ conn'[u].role = conn[u].role /\ conn'[u].life = conn[u].life
        /\ conn'[u].ractive = conn[u].ractive
        /\ conn'[u].rready <=> conn[u].rready \/ reads
        /\ c # u => conn'[c] = conn[c]
    BY <1>1, <1>2, <2>1, <2>2 DEF TypeOK, Conn
  <2>7. InBatch(c) /\ ~(c = u /\ "in" \in e.ev) => InBatch(c)'
    <3> SUFFICES ASSUME InBatch(c), ~(c = u /\ "in" \in e.ev) PROVE InBatch(c)'
      OBVIOUS
    <3>1. PICK i \in DOMAIN batch : /\ batch[i].c = c /\ batch[i].life = conn[c].life
                                    /\ "in" \in batch[i].ev
      BY DEF InBatch
    <3>2. i # 1 BY <2>3, <2>5, <3>1
    <3>3. conn'[c].life = conn[c].life BY <2>6
    <3> QED BY <2>1, <3>1, <3>2, <3>3 DEF InBatch
  <2>8. Members(posted) \subseteq Members(posted') BY <2>1, <2>4
  <2>9. CASE c = u /\ reads
    <3>1. CASE IsClient(c)
      <4>1. conn'[c].rready BY <2>6, <2>9
      <4>2. ~accepts BY <2>5, <2>9, <3>1 DEF IsClient, Client
      <4>3. CASE post
        <5>1. <<c, "read">> \in Members(posted') BY <2>1, <2>4, <2>9, <4>2, <4>3
        <5> QED BY <4>1, <5>1 DEF AwaitInv
      <4>4. CASE ~post
        <5>1. run'.c = c
          BY <2>1, <2>9, <3>1, <4>4 DEF Call, Owner, IsClient, Client
        <5> QED BY <4>1, <5>1 DEF AwaitInv
      <4> QED BY <4>3, <4>4
    <3>2. CASE ~IsClient(c)
      BY <2>6, <2>9, <3>2 DEF AwaitInv, IsClient, Client
    <3> QED BY <3>1, <3>2
  <2>10. CASE c = u /\ ~reads
    <3>1. conn'[c].rready <=> conn[c].rready BY <2>6, <2>10
    <3>2. conn[c].ractive => (InBatch(c) => InBatch(c)') BY <2>5, <2>7, <2>10
    <3> QED BY <1>3, <2>1, <2>6, <2>8, <2>10, <3>1, <3>2 DEF AwaitInv, IsClient
  <2>11. CASE c # u
    <3>1. Same(c) BY <2>6, <2>11 DEF Same
    <3> QED BY <1>3, <2>1, <2>7, <2>8, <2>11, <3>1, AwaitKept
  <2> QED BY <2>9, <2>10, <2>11
<1>10. CASE WriteEvent
  <2> DEFINE q == <<Head(batch).c, "write">>
  <2>1. /\ batch # <<>> /\ pc = "write" /\ batch' = Tail(batch) /\ pc' = "read"
        /\ posted' \in {posted, Posted(posted, q)}
        /\ UNCHANGED <<conn, input, edge>>
    BY <1>10 DEF WriteEvent, NextEntry, pool, kernel
  <2>2. Members(posted) \subseteq Members(posted')
    <3>1. q \in Events
      <4>1. 1 \in DOMAIN batch /\ Head(batch) = batch[1] BY <1>1, <2>1 DEF TypeOK
      <4> QED BY <1>1, <4>1, BatchType DEF Events
    <3> HIDE DEF q
    <3>2. posted \in Seq(Events) BY <1>1 DEF TypeOK
    <3>3. Members(Posted(posted, q)) = Members(posted) \cup {q}
      BY <3>1, <3>2, PostedMembers
    <3> QED BY <2>1, <3>3
  <2>3. InBatch(c) => InBatch(c)' BY <2>1, TailInBatch
  <2> QED BY <1>3, <1>5, <2>1, <2>2, <2>3, AwaitKept
<1>11. CASE PostedEvent
  <2> DEFINE e == Head(posted)
  <2>1. /\ pc = "posted" /\ posted # <<>> /\ posted' = Tail(posted)
        /\ Call(e[1], conn[e[1]].life)
        /\ UNCHANGED <<conn, input, edge, loop>>
    BY <1>11 DEF PostedEvent, pool, kernel
  <2>2. InBatch(c) => InBatch(c)' BY <2>1, BatchKept DEF loop
  <2>3. /\ posted \in Seq(Events) /\ NoRepeat(posted)
    BY <1>1 DEF TypeOK, StructInv, PostedLive
  <2>4. Members(posted') = Members(posted) \ {e}
    BY <2>1, <2>3, TailMembers
  <2> HIDE DEF e
  <2>5. CASE IsClient(c)
    <3>1. CASE e = <<c, "read">>
      <4>1. e[1] = c BY <3>1
      <4>2. run'.c = c BY <2>1, <2>5, <4>1 DEF Call, Owner, IsClient, Client
      <4> QED BY <1>5, <2>1, <2>2, <4>2, AwaitKept
    <3>2. CASE e # <<c, "read">>
      <4>1. <<c, "read">> \in Members(posted) => <<c, "read">> \in Members(posted')
        BY <2>4, <3>2
      <4> QED BY <1>3, <1>5, <2>1, <2>2, <4>1, AwaitKept
    <3> QED BY <3>1, <3>2
  <2>6. CASE ~IsClient(c)
    BY <2>1, <2>6 DEF AwaitInv, IsClient, Client
  <2> QED BY <2>5, <2>6
<1>12. ASSUME NEW u \in Conns, CloseIdle(u) PROVE AwaitInv(c)'
  <2>1. /\ CloseConnection(u) /\ conn' = [conn EXCEPT ![u] = AsClosed(u)]
        /\ UNCHANGED <<run, batch, pc>>
    BY <1>12 DEF CloseIdle, loop
  <2>2. conn'[u].role = "closed" /\ (c # u => Same(c)) BY <1>1, <2>1, ClosedSame
  <2> QED BY <1>3, <2>1, <2>2, CloseAwait
<1>13. ASSUME NEW quit \in BOOLEAN, IterationDone(quit) PROVE AwaitInv(c)'
  <2>1. UNCHANGED <<batch, run, posted>> /\ batch = <<>>
    BY <1>4, <1>13 DEF IterationDone, queues
  <2>2. CASE quit /\ ~exiting
    <3>1. /\ input' = [input EXCEPT ![Listener] = 0]
          /\ edge' = [edge EXCEPT ![Listener] = {}]
          /\ conn' = [conn EXCEPT ![Listener] = AsClosed(Listener)]
      BY <1>13, <2>2 DEF IterationDone, Release, ListenerClosed
    <3>2. Listener \in Conns BY PoolAssumption DEF Conns, Listener
    <3>3. conn'[Listener].role = "closed" /\ (c # Listener => Same(c))
      BY <1>1, <3>1, <3>2, ClosedSame
    <3>4. CASE c = Listener BY <3>3, <3>4 DEF AwaitInv, IsClient, Client
    <3>5. CASE c # Listener
      <4>1. input'[c] = input[c] /\ edge'[c] = edge[c] BY <1>1, <3>1, <3>5 DEF TypeOK
      <4>2. InBatch(c) => InBatch(c)' BY <2>1, <3>3, <3>5, BatchKept DEF Same
      <4> QED BY <1>3, <2>1, <3>3, <3>5, <4>1, <4>2, AwaitKept
    <3> QED BY <3>4, <3>5
  <2>3. CASE ~(quit /\ ~exiting)
    <3>1. UNCHANGED <<conn, input, edge>> BY <1>13, <2>3 DEF IterationDone
    <3>2. InBatch(c) => InBatch(c)' BY <2>1, <3>1, BatchKept
    <3> QED BY <1>3, <1>5, <2>1, <3>1, <3>2, AwaitKept
  <2> QED BY <2>2, <2>3
<1>14. ASSUME NEW u \in Conns, TimerExpires(u) PROVE AwaitInv(c)'
  <2>1. CloseConnection(u) /\ UNCHANGED <<batch, pc>>
    BY <1>14 DEF TimerExpires, loop
  <2>2. conn'[u].role = "closed" /\ (c # u => Same(c))
    <3>1. CASE conn' = [conn EXCEPT ![u] = AsClosed(u)] BY <1>1, <3>1, ClosedSame
    <3>2. CASE conn[u].role = "peer" /\ conn' = Unmated(u)
      <4>1. conn[u].mate # None BY <3>2 DEF StructInv, RoleInv
      <4> QED BY <1>1, <3>2, <4>1, UnmatedSameRest
    <3> QED BY <1>14, <3>1, <3>2 DEF TimerExpires
  <2> QED BY <1>3, <2>1, <2>2, CloseAwait
<1> QED
  BY <1>6, <1>7, <1>8, <1>9, <1>10, <1>11, <1>12, <1>13, <1>14 DEF LoopStep, Timer

LEMMA WorldAwait ==
  ASSUME IInv, NEW c \in Conns, AwaitInv(c), World \/ UNCHANGED vars
  PROVE  AwaitInv(c)'
<1>1. UNCHANGED <<conn, batch, pc, run, posted>>
  BY DEF World, ClientConnects, ClientSends, PeerReady, vars, pool, loop, queues
<1>2. Same(c) /\ (InBatch(c) => InBatch(c)') BY <1>1, BatchKept DEF Same
<1>3. TypeOK BY DEF IInv
<1>4. CASE ClientConnects \/ UNCHANGED vars
  <2>1. UNCHANGED <<input, edge>> BY <1>4 DEF ClientConnects, vars, kernel
  <2> QED BY <1>1, <1>2, <2>1, AwaitKept
<1>5. ASSUME NEW u \in Conns, ClientSends(u) PROVE AwaitInv(c)'
  <2>1. /\ input' = [input EXCEPT ![u] = @ + 1]
        /\ edge' = [edge EXCEPT ![u] = IF conn[u].ractive THEN @ \cup {"in"} ELSE @]
    BY <1>5 DEF ClientSends
  <2>2. CASE c = u /\ conn[c].ractive
    <3>1. "in" \in edge'[c] BY <1>3, <2>1, <2>2 DEF TypeOK
    <3> QED BY <1>1, <3>1 DEF AwaitInv, IsClient
  <2>3. CASE c = u /\ ~conn[c].ractive
    BY <1>1, <2>3 DEF AwaitInv, IsClient
  <2>4. CASE c # u
    <3>1. input'[c] = input[c] /\ edge'[c] = edge[c] BY <1>3, <2>1, <2>4 DEF TypeOK
    <3> QED BY <1>1, <1>2, <3>1, AwaitKept
  <2> QED BY <2>2, <2>3, <2>4
<1>6. ASSUME NEW u \in Conns, PeerReady(u) PROVE AwaitInv(c)'
  <2>1. UNCHANGED input /\ \E ev : edge' = [edge EXCEPT ![u] = @ \cup ev]
    BY <1>6 DEF PeerReady
  <2>2. "in" \in edge[c] => "in" \in edge'[c] BY <1>3, <2>1 DEF TypeOK
  <2> QED BY <1>1, <1>2, <2>1, <2>2, AwaitKept
<1> QED BY <1>4, <1>5, <1>6 DEF World

LEMMA AwaitInvariant == Spec => [](\A c \in Conns : AwaitInv(c))
<1>1. Init => \A c \in Conns : AwaitInv(c)
  <2> SUFFICES ASSUME Init, NEW c \in Conns PROVE AwaitInv(c)
    OBVIOUS
  <2>1. conn[c].role \in {"listen", "closed"} BY DEF Init, Fresh
  <2> QED BY <2>1 DEF AwaitInv, IsClient, Client
<1>2. IInv /\ StructInv /\ (\A c \in Conns : AwaitInv(c)) /\ [Next]_vars
        => (\A c \in Conns : AwaitInv(c))'
  BY HandlerAwait, LoopAwait, WorldAwait DEF Next, Worker
<1> QED BY <1>1, <1>2, Invariant, StructInvariant, PTL DEF Spec

(***************************************************************************)
(* No message of a client is forgotten between epoll's edge-triggered      *)
(* report, the batch, the posted events and the ready flag                 *)
(* (ngx_epoll_process_events, ngx_handle_read_event,                       *)
(* ngx_http_set_keepalive).                                                *)
(***************************************************************************)
THEOREM InputNotLost == Spec => []NoLostInput
<1>1. (\A c \in Conns : AwaitInv(c)) => NoLostInput
  BY DEF AwaitInv, InBatch, NoLostInput, InputAwaited, IsClient, Client
<1> QED BY <1>1, AwaitInvariant, PTL

=============================================================================
