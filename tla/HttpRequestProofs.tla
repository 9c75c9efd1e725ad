-------------------------- MODULE HttpRequestProofs --------------------------
(***************************************************************************)
(* Proofs about the life of a request for any number of subrequests, parts *)
(* of a page and references taken by handlers.  A handler never starts a   *)
(* subrequest behind unsent output of its own (SpawnUnflushed).            *)
(***************************************************************************)
EXTENDS HttpRequest, FiniteSetTheorems, SequenceTheorems, WellFoundedInduction, TLAPS

-----------------------------------------------------------------------------
(* The queue of calls.                                                      *)

Queued(q, x) == \E i \in DOMAIN q : q[i] = x

Twice(q, x) == \E i, j \in DOMAIN q : i # j /\ q[i] = x /\ q[j] = x

(* Some call of x comes after every call of y.                             *)
After(q, x, y) ==
  \E i \in DOMAIN q : q[i] = x /\ \A j \in DOMAIN q : q[j] = y => j < i

(* What is posted is called last.                                          *)
LEMMA Appended ==
  ASSUME NEW S, NEW q \in Seq(S), NEW z \in S
  PROVE  /\ Append(q, z) \in Seq(S)
         /\ \A x : Queued(Append(q, z), x) <=> Queued(q, x) \/ x = z
         /\ \A x : Twice(Append(q, z), x) <=> Twice(q, x) \/ (x = z /\ Queued(q, x))
         /\ \A y : y # z => After(Append(q, z), z, y)
         /\ \A x : x # z => ~After(Append(q, z), x, z)
         /\ \A x, y : x # z /\ y # z => (After(Append(q, z), x, y) <=> After(q, x, y))
<1> DEFINE Q == Append(q, z)
           n == Len(q)
<1>1. /\ Q \in Seq(S) /\ n \in Nat /\ DOMAIN q = 1 .. n /\ DOMAIN Q = 1 .. n + 1
      /\ Q[n + 1] = z /\ \A i \in 1 .. n : Q[i] = q[i] /\ i \in 1 .. n + 1
  OBVIOUS
<1>2. n + 1 \in 1 .. n + 1 /\ \A i \in 1 .. n + 1 : i # n + 1 => i \in 1 .. n
  BY <1>1
<1> HIDE DEF Q, n
<1>3. ASSUME NEW x PROVE Queued(Q, x) <=> Queued(q, x) \/ x = z
  BY <1>1, <1>2 DEF Queued
<1>4. ASSUME NEW x PROVE Twice(Q, x) <=> Twice(q, x) \/ (x = z /\ Queued(q, x))
  <2>1. ASSUME Twice(Q, x) PROVE Twice(q, x) \/ (x = z /\ Queued(q, x))
    <3>1. PICK i \in 1 .. n + 1, j \in 1 .. n + 1 : i # j /\ Q[i] = x /\ Q[j] = x
      BY <1>1, <2>1 DEF Twice
    <3>2. CASE i = n + 1
      BY <1>1, <1>2, <3>1, <3>2 DEF Queued
    <3>3. CASE j = n + 1
      BY <1>1, <1>2, <3>1, <3>3 DEF Queued
    <3>4. CASE i # n + 1 /\ j # n + 1
      BY <1>1, <1>2, <3>1, <3>4 DEF Twice
    <3> QED BY <3>2, <3>3, <3>4
  <2>2. ASSUME Twice(q, x) PROVE Twice(Q, x)
    BY <1>1, <2>2 DEF Twice
  <2>3. ASSUME x = z, Queued(q, x) PROVE Twice(Q, x)
    <3>1. PICK i \in 1 .. n : q[i] = x BY <1>1, <2>3 DEF Queued
    <3>2. i # n + 1 /\ i \in 1 .. n + 1 /\ Q[i] = x /\ Q[n + 1] = x
      BY <1>1, <2>3, <3>1
    <3> QED BY <1>1, <1>2, <3>2 DEF Twice
  <2> QED BY <2>1, <2>2, <2>3
<1>5. ASSUME NEW y, y # z PROVE After(Q, z, y)
  <2>1. \A j \in 1 .. n + 1 : Q[j] = y => j < n + 1 BY <1>1, <1>5
  <2> QED BY <1>1, <1>2, <2>1 DEF After
<1>6. ASSUME NEW x, x # z PROVE ~After(Q, x, z)
  <2> SUFFICES ASSUME NEW i \in 1 .. n + 1, \A j \in 1 .. n + 1 : Q[j] = z => j < i
               PROVE  FALSE
    BY <1>1 DEF After
  <2> QED BY <1>1, <1>2
<1>7. ASSUME NEW x, NEW y, x # z, y # z PROVE After(Q, x, y) <=> After(q, x, y)
  <2>1. ASSUME After(Q, x, y) PROVE After(q, x, y)
    <3>1. PICK i \in 1 .. n + 1 : Q[i] = x /\ \A j \in 1 .. n + 1 : Q[j] = y => j < i
      BY <1>1, <2>1 DEF After
    <3>2. i \in 1 .. n BY <1>1, <1>2, <1>7, <3>1
    <3> QED BY <1>1, <3>1, <3>2 DEF After
  <2>2. ASSUME After(q, x, y) PROVE After(Q, x, y)
    <3>1. PICK i \in 1 .. n : q[i] = x /\ \A j \in 1 .. n : q[j] = y => j < i
      BY <1>1, <2>2 DEF After
    <3>2. \A j \in 1 .. n + 1 : Q[j] = y => j < i BY <1>1, <1>2, <1>7, <3>1
    <3> QED BY <1>1, <3>1, <3>2 DEF After
  <2> QED BY <2>1, <2>2
<1> QED BY <1>1, <1>3, <1>4, <1>5, <1>6, <1>7 DEF Q

(* The first call is taken out of the queue.                                *)
LEMMA Popped ==
  ASSUME NEW S, NEW q \in Seq(S), q # <<>>
  PROVE  /\ Tail(q) \in Seq(S) /\ Head(q) \in S /\ Queued(q, Head(q))
         /\ \A x : Queued(Tail(q), x) => Queued(q, x)
         /\ \A x : x # Head(q) => (Queued(Tail(q), x) <=> Queued(q, x))
         /\ Queued(Tail(q), Head(q)) => Twice(q, Head(q))
         /\ \A x : Twice(Tail(q), x) => Twice(q, x)
         /\ \A x, y : x # y /\ After(Tail(q), x, y) => After(q, x, y)
         /\ \A x, y : x # y /\ y # Head(q) /\ Queued(q, y) /\ After(q, x, y)
                        => After(Tail(q), x, y)
         /\ \A x : x # Head(q) => ~After(q, Head(q), x) \/ Queued(Tail(q), Head(q))
                                    \/ ~Queued(q, x)
<1> DEFINE Q == Tail(q)
           n == Len(q)
           h == Head(q)
<1>1. /\ n \in Nat /\ n > 0 /\ Q \in Seq(S) /\ DOMAIN q = 1 .. n
      /\ DOMAIN Q = 1 .. n - 1 /\ h = q[1] /\ h \in S
      /\ \A i \in 1 .. n - 1 : Q[i] = q[i + 1] /\ i + 1 \in 1 .. n
  OBVIOUS
<1>2. 1 \in 1 .. n /\ \A i \in 1 .. n : i # 1 => i - 1 \in 1 .. n - 1 /\ (i - 1) + 1 = i
  BY <1>1
<1> HIDE DEF Q, n, h
<1>3. Queued(q, h) BY <1>1, <1>2 DEF Queued
<1>4. ASSUME NEW x, Queued(Q, x) PROVE Queued(q, x)
  BY <1>1, <1>4 DEF Queued
<1>5. ASSUME NEW x, x # h, Queued(q, x) PROVE Queued(Q, x)
  <2>1. PICK i \in 1 .. n : q[i] = x BY <1>1, <1>5 DEF Queued
  <2>2. i - 1 \in 1 .. n - 1 /\ Q[i - 1] = x BY <1>1, <1>2, <1>5, <2>1
  <2> QED BY <1>1, <2>2 DEF Queued
<1>6. ASSUME Queued(Q, h) PROVE Twice(q, h)
  <2>1. PICK i \in 1 .. n - 1 : q[i + 1] = h BY <1>1, <1>6 DEF Queued
  <2>2. i + 1 \in 1 .. n /\ i + 1 # 1 BY <1>1
  <2> QED BY <1>1, <1>2, <2>1, <2>2 DEF Twice
<1>7. ASSUME NEW x, Twice(Q, x) PROVE Twice(q, x)
  <2>1. PICK i \in 1 .. n - 1, j \in 1 .. n - 1 : i # j /\ Q[i] = x /\ Q[j] = x
    BY <1>1, <1>7 DEF Twice
  <2>2. i + 1 # j + 1 /\ q[i + 1] = x /\ q[j + 1] = x BY <1>1, <2>1
  <2> QED BY <1>1, <2>2 DEF Twice
<1>8. ASSUME NEW x, NEW y, x # y, After(Q, x, y) PROVE After(q, x, y)
  <2>1. PICK i \in 1 .. n - 1 : Q[i] = x /\ \A j \in 1 .. n - 1 : Q[j] = y => j < i
    BY <1>1, <1>8 DEF After
  <2>2. \A j \in 1 .. n : q[j] = y => j < i + 1
    <3> SUFFICES ASSUME NEW j \in 1 .. n, q[j] = y PROVE j < i + 1
      OBVIOUS
    <3>1. CASE j = 1 BY <1>1, <3>1
    <3>2. CASE j # 1
      <4>1. j - 1 \in 1 .. n - 1 /\ Q[j - 1] = y BY <1>1, <1>2, <3>2
      <4>2. j - 1 < i BY <2>1, <4>1
      <4> QED BY <1>1, <4>2
    <3> QED BY <3>1, <3>2
  <2> QED BY <1>1, <2>1, <2>2 DEF After
<1>9. ASSUME NEW x, NEW y, x # y, y # h, Queued(q, y), After(q, x, y)
      PROVE  After(Q, x, y)
  <2>1. PICK i \in 1 .. n : q[i] = x /\ \A j \in 1 .. n : q[j] = y => j < i
    BY <1>1, <1>9 DEF After
  <2>2. PICK k \in 1 .. n : q[k] = y BY <1>1, <1>9 DEF Queued
  <2>3. k < i BY <2>1, <2>2
  <2>4. i # 1 /\ i - 1 \in 1 .. n - 1 /\ Q[i - 1] = x BY <1>1, <1>2, <2>1, <2>3
  <2>5. ASSUME NEW j \in 1 .. n - 1, Q[j] = y PROVE j < i - 1
    <3>1. j + 1 \in 1 .. n /\ q[j + 1] = y BY <1>1, <2>5
    <3>2. j + 1 < i BY <2>1, <3>1
    <3> QED BY <3>2
  <2> QED BY <1>1, <2>4, <2>5 DEF After
<1>10. ASSUME NEW x, x # h, After(q, h, x), Queued(q, x) PROVE Queued(Q, h)
  <2>1. PICK i \in 1 .. n : q[i] = h /\ \A j \in 1 .. n : q[j] = x => j < i
    BY <1>1, <1>10 DEF After
  <2>2. PICK k \in 1 .. n : q[k] = x BY <1>1, <1>10 DEF Queued
  <2>3. k < i BY <2>1, <2>2
  <2>4. i # 1 /\ i - 1 \in 1 .. n - 1 /\ Q[i - 1] = h BY <1>1, <1>2, <2>1, <2>3
  <2> QED BY <1>1, <2>4 DEF Queued
<1> QED BY <1>1, <1>3, <1>4, <1>5, <1>6, <1>7, <1>8, <1>9, <1>10 DEF Q, h

-----------------------------------------------------------------------------
(* Postponed output.                                                        *)

HasPlace(q, x) == \E i \in DOMAIN q : q[i] = <<x, 0>>

Ascending(q) ==
  \A i, j \in DOMAIN q : i < j /\ IsSub(q[i]) /\ IsSub(q[j]) => q[i][1] < q[j][1]

HeadOnly(q, x) == \A i \in DOMAIN q : q[i] = <<x, 0>> => i = 1

EndsInBuffer(q) == q = <<>> \/ ~IsSub(q[Len(q)])

LEMMA ItemIs ==
  /\ \A e \in Items : e[1] \in Reqs /\ e[2] \in 0 .. MaxParts /\ e = <<e[1], e[2]>>
  /\ \A x \in Reqs : <<x, 0>> \in Items /\ IsSub(<<x, 0>>) /\ <<x, 0>>[1] = x
  /\ \A e \in Items : IsSub(e) => e = <<e[1], 0>>
BY BoundAssumption DEF Items, Reqs, IsSub

(* A buffer is put behind what is postponed.                                *)
LEMMA BufferAdded ==
  ASSUME NEW q \in Seq(Items), NEW e \in Items, ~IsSub(e)
  PROVE  /\ q \o <<e>> \in Seq(Items) /\ q \o <<e>> # <<>>
         /\ Ascending(q) => Ascending(q \o <<e>>)
         /\ \A x : HasPlace(q \o <<e>>, x) <=> HasPlace(q, x)
         /\ \A x : HeadOnly(q, x) => HeadOnly(q \o <<e>>, x)
         /\ EndsInBuffer(q \o <<e>>)
<1> DEFINE Q == q \o <<e>>
           n == Len(q)
<1>1. /\ Q \in Seq(Items) /\ n \in Nat /\ DOMAIN q = 1 .. n /\ Len(Q) = n + 1
      /\ DOMAIN Q = 1 .. n + 1 /\ Q[n + 1] = e
      /\ \A i \in 1 .. n : Q[i] = q[i] /\ i \in 1 .. n + 1
  OBVIOUS
<1>2. n + 1 \in 1 .. n + 1 /\ \A i \in 1 .. n + 1 : i # n + 1 => i \in 1 .. n
  BY <1>1
<1> HIDE DEF Q, n
<1>3. Q # <<>> BY <1>1
<1>4. ASSUME Ascending(q) PROVE Ascending(Q)
  <2> SUFFICES ASSUME NEW i \in 1 .. n + 1, NEW j \in 1 .. n + 1, i < j,
                      IsSub(Q[i]), IsSub(Q[j])
               PROVE  Q[i][1] < Q[j][1]
    BY <1>1 DEF Ascending
  <2>1. j \in 1 .. n /\ i \in 1 .. n BY <1>1, <1>2
  <2>2. Q[i] = q[i] /\ Q[j] = q[j] BY <1>1, <2>1
  <2> QED BY <1>1, <1>4, <2>1, <2>2 DEF Ascending
<1>5. ASSUME NEW x PROVE HasPlace(Q, x) <=> HasPlace(q, x)
  <2>1. e # <<x, 0>> BY DEF IsSub
  <2> QED BY <1>1, <1>2, <2>1 DEF HasPlace
<1>6. ASSUME NEW x, HeadOnly(q, x) PROVE HeadOnly(Q, x)
  <2>1. e # <<x, 0>> BY DEF IsSub
  <2> QED BY <1>1, <1>2, <1>6, <2>1 DEF HeadOnly
<1>7. EndsInBuffer(Q) BY <1>1 DEF EndsInBuffer
<1> QED BY <1>1, <1>3, <1>4, <1>5, <1>6, <1>7 DEF Q

(* A new subrequest takes its place behind what is postponed.               *)
LEMMA PlaceAdded ==
  ASSUME NEW q \in Seq(Items), NEW s \in Reqs,
         \A x \in Reqs : HasPlace(q, x) => x < s
  PROVE  /\ Append(q, <<s, 0>>) \in Seq(Items) /\ Append(q, <<s, 0>>) # <<>>
         /\ Ascending(q) => Ascending(Append(q, <<s, 0>>))
         /\ \A x : HasPlace(Append(q, <<s, 0>>), x) <=> HasPlace(q, x) \/ x = s
         /\ \A x : x # s /\ HeadOnly(q, x) => HeadOnly(Append(q, <<s, 0>>), x)
         /\ q = <<>> => HeadOnly(Append(q, <<s, 0>>), s)
<1> DEFINE Q == Append(q, <<s, 0>>)
           n == Len(q)
<1>1. <<s, 0>> \in Items BY ItemIs
<1>2. /\ Q \in Seq(Items) /\ n \in Nat /\ DOMAIN q = 1 .. n /\ Len(Q) = n + 1
      /\ DOMAIN Q = 1 .. n + 1 /\ Q[n + 1] = <<s, 0>>
      /\ \A i \in 1 .. n : Q[i] = q[i] /\ i \in 1 .. n + 1 /\ q[i] \in Items
      /\ q = <<>> <=> n = 0
  BY <1>1
<1>3. n + 1 \in 1 .. n + 1 /\ \A i \in 1 .. n + 1 : i # n + 1 => i \in 1 .. n
  BY <1>2
<1> HIDE DEF Q, n
<1>4. Q # <<>> BY <1>2
<1>5. ASSUME Ascending(q) PROVE Ascending(Q)
  <2> SUFFICES ASSUME NEW i \in 1 .. n + 1, NEW j \in 1 .. n + 1, i < j,
                      IsSub(Q[i]), IsSub(Q[j])
               PROVE  Q[i][1] < Q[j][1]
    BY <1>2 DEF Ascending
  <2>1. i \in 1 .. n /\ Q[i] = q[i] /\ q[i] \in Items BY <1>2, <1>3
  <2>2. CASE j = n + 1
    <3>1. q[i] = <<q[i][1], 0>> /\ q[i][1] \in Reqs BY <2>1, ItemIs
    <3>2. q[i][1] < s BY <1>2, <2>1, <3>1 DEF HasPlace
    <3> QED BY <1>2, <2>1, <2>2, <3>2
  <2>3. CASE j # n + 1
    <3>1. j \in 1 .. n /\ Q[j] = q[j] BY <1>2, <1>3, <2>3
    <3> QED BY <1>2, <1>5, <2>1, <3>1 DEF Ascending
  <2> QED BY <2>2, <2>3
<1>6. ASSUME NEW x PROVE HasPlace(Q, x) <=> HasPlace(q, x) \/ x = s
  <2>1. ASSUME HasPlace(Q, x) PROVE HasPlace(q, x) \/ x = s
    <3>1. PICK i \in 1 .. n + 1 : Q[i] = <<x, 0>> BY <1>2, <2>1 DEF HasPlace
    <3>2. CASE i = n + 1 BY <1>2, <3>1, <3>2
    <3>3. CASE i # n + 1 BY <1>2, <1>3, <3>1, <3>3 DEF HasPlace
    <3> QED BY <3>2, <3>3
  <2>2. ASSUME HasPlace(q, x) PROVE HasPlace(Q, x)
    BY <1>2, <2>2 DEF HasPlace
  <2>3. HasPlace(Q, s)
    BY <1>2, <1>3 DEF HasPlace
  <2> QED BY <2>1, <2>2, <2>3
<1>7. ASSUME NEW x, x # s, HeadOnly(q, x) PROVE HeadOnly(Q, x)
  BY <1>2, <1>3, <1>7 DEF HeadOnly
<1>8. ASSUME q = <<>> PROVE HeadOnly(Q, s)
  BY <1>2, <1>8 DEF HeadOnly
<1> QED BY <1>2, <1>4, <1>5, <1>6, <1>7, <1>8 DEF Q

(* ngx_http_finalize_request takes the place of a subrequest out.           *)
LEMMA PlaceRemoved ==
  ASSUME NEW q \in Seq(Items), NEW r \in Reqs, Ascending(q), HeadOnly(q, r),
         NEW Q, q # <<>> /\ q[1] = <<r, 0>> => Q = Tail(q),
         ~(q # <<>> /\ q[1] = <<r, 0>>) => Q = q
  PROVE  /\ Q \in Seq(Items) /\ Ascending(Q)
         /\ \A x : HasPlace(Q, x) <=> HasPlace(q, x) /\ x # r
         /\ EndsInBuffer(q) => EndsInBuffer(Q)
         /\ q = <<>> => Q = <<>>
<1>1. CASE q # <<>> /\ q[1] = <<r, 0>>
  <2> DEFINE n == Len(q)
  <2>1. Q = Tail(q) BY <1>1
  <2>2. /\ n \in Nat /\ n > 0 /\ Q \in Seq(Items) /\ DOMAIN q = 1 .. n
        /\ DOMAIN Q = 1 .. n - 1 /\ Len(Q) = n - 1
        /\ \A i \in 1 .. n - 1 : Q[i] = q[i + 1] /\ i + 1 \in 1 .. n
        /\ (Q = <<>>) <=> (n - 1 = 0)
    <3>1. n \in Nat /\ n > 0 /\ DOMAIN q = 1 .. n
      BY <1>1
    <3>2. /\ Q \in Seq(Items) /\ DOMAIN Q = 1 .. n - 1 /\ Len(Q) = n - 1
          /\ \A i \in 1 .. n - 1 : Q[i] = q[i + 1] /\ i + 1 \in 1 .. n
      BY <1>1, <2>1
    <3>3. (Q = <<>>) <=> (Len(Q) = 0) BY <3>2, EmptySeq
    <3> QED BY <3>1, <3>2, <3>3
  <2> HIDE DEF n
  <2>3. \A i \in 1 .. n : i # 1 => i - 1 \in 1 .. n - 1 /\ (i - 1) + 1 = i
    BY <2>2
  <2>4. Ascending(Q)
    <3> SUFFICES ASSUME NEW i \in 1 .. n - 1, NEW j \in 1 .. n - 1, i < j,
                        IsSub(Q[i]), IsSub(Q[j])
                 PROVE  Q[i][1] < Q[j][1]
      BY <2>2 DEF Ascending
    <3>1. /\ i + 1 \in 1 .. n /\ j + 1 \in 1 .. n /\ i + 1 < j + 1
          /\ Q[i] = q[i + 1] /\ Q[j] = q[j + 1]
      BY <2>2
    <3> QED BY <2>2, <3>1 DEF Ascending
  <2>5. ASSUME NEW x PROVE HasPlace(Q, x) <=> HasPlace(q, x) /\ x # r
    <3>1. ASSUME HasPlace(Q, x) PROVE HasPlace(q, x) /\ x # r
      <4>1. PICK i \in 1 .. n - 1 : q[i + 1] = <<x, 0>> BY <2>2, <3>1 DEF HasPlace
      <4>2. i + 1 \in 1 .. n /\ i + 1 # 1 BY <2>2
      <4>3. <<x, 0>> # <<r, 0>> BY <2>2, <4>1, <4>2 DEF HeadOnly
      <4> QED BY <2>2, <4>1, <4>2, <4>3 DEF HasPlace
    <3>2. ASSUME HasPlace(q, x), x # r PROVE HasPlace(Q, x)
      <4>1. PICK i \in 1 .. n : q[i] = <<x, 0>> BY <2>2, <3>2 DEF HasPlace
      <4>2. i # 1 BY <1>1, <3>2, <4>1
      <4>3. i - 1 \in 1 .. n - 1 /\ Q[i - 1] = q[i] BY <2>2, <2>3, <4>2
      <4> QED BY <2>2, <4>1, <4>3 DEF HasPlace
    <3> QED BY <3>1, <3>2
  <2>6. EndsInBuffer(q) => EndsInBuffer(Q)
    BY <1>1, <2>2 DEF EndsInBuffer
  <2> QED BY <1>1, <2>2, <2>4, <2>5, <2>6
<1>2. CASE ~(q # <<>> /\ q[1] = <<r, 0>>)
  <2>1. Q = q BY <1>2
  <2>2. ~HasPlace(q, r)
    <3> SUFFICES ASSUME NEW i \in DOMAIN q, q[i] = <<r, 0>> PROVE FALSE
      BY DEF HasPlace
    <3>1. i = 1 BY DEF HeadOnly
    <3> QED BY <1>2, <3>1
  <2> QED BY <2>1, <2>2
<1> QED BY <1>1, <1>2

(* What the filter sends before it comes to a subrequest, and what it      *)
(* leaves behind that subrequest.                                          *)
LEMMA LeastNat ==
  ASSUME NEW S, S \subseteq Nat, S # {}
  PROVE  \E n \in S : \A m \in S : n <= m
<1>1. PICK n \in S : \A m \in S : ~(<<m, n>> \in OpToRel(<, Nat))
  BY NatLessThanWellFounded, WFMin
<1>2. \A m \in S : ~(m < n)
  BY <1>1 DEF OpToRel
<1> QED BY <1>2

LEMMA LeadingIs ==
  ASSUME NEW q \in Seq(Items)
  PROVE  \E n \in 0 .. Len(q) :
           /\ Leading(q) = SubSeq(q, 1, n) /\ Leading(q) \in Seq(Items)
           /\ Len(Leading(q)) = n
           /\ \A i \in 1 .. n : ~IsSub(q[i])
           /\ n < Len(q) => IsSub(q[n + 1])
<1> DEFINE I == {i \in 1 .. Len(q) : IsSub(q[i])}
           k == SelectInSeq(q, IsSub)
           n == IF k = 0 THEN Len(q) ELSE k - 1
<1>0. Len(q) \in Nat /\ \A i \in 1 .. Len(q) : q[i] \in Items
  OBVIOUS
<1>1. k = IF I # {} THEN Min(I) ELSE 0
  BY DEF SelectInSeq
<1>2. Leading(q) = SubSeq(q, 1, n)
  BY DEF Leading
<1>3. /\ n \in 0 .. Len(q)
      /\ \A i \in 1 .. n : ~IsSub(q[i])
      /\ n < Len(q) => IsSub(q[n + 1])
  <2>1. CASE I = {}
    <3>1. k = 0 BY <1>1, <2>1
    <3>2. n = Len(q) BY <3>1
    <3>3. \A i \in 1 .. Len(q) : ~IsSub(q[i]) BY <2>1
    <3> HIDE DEF n, I, k
    <3> QED BY <1>0, <3>2, <3>3
  <2>2. CASE I # {}
    <3>0. I \subseteq Nat BY <1>0
    <3>1. \E m \in I : \A j \in I : m <= j BY <2>2, <3>0, LeastNat
    <3>2. Min(I) \in I /\ \A j \in I : Min(I) <= j
      BY <3>1 DEF Min
    <3>3. k \in I /\ \A j \in I : k <= j BY <1>1, <2>2, <3>2
    <3>4. k \in 1 .. Len(q) /\ IsSub(q[k]) /\ \A j \in 1 .. Len(q) : IsSub(q[j]) => k <= j
      BY <3>3
    <3> HIDE DEF I, k
    <3>5. n = k - 1 BY <3>4
    <3> HIDE DEF n
    <3> QED BY <1>0, <3>4, <3>5
  <2> QED BY <2>1, <2>2
<1> HIDE DEF n
<1>4. \A i \in 1 .. n : q[i] \in Items BY <1>0, <1>3
<1>5. SubSeq(q, 1, n) \in Seq(Items) /\ Len(SubSeq(q, 1, n)) = n
  BY <1>3, <1>4, SubSeqProperties
<1> QED BY <1>2, <1>3, <1>5

(* All of the output is sent.                                               *)
LEMMA AllSent ==
  ASSUME NEW q \in Seq(Items), Len(Leading(q)) = Len(q)
  PROVE  /\ \A x : ~HasPlace(q, x)
         /\ q # <<>> => Leading(q) # <<>>
<1>1. \A i \in DOMAIN q : ~IsSub(q[i])
  <2>1. PICK n \in 0 .. Len(q) : Len(Leading(q)) = n /\ \A i \in 1 .. n : ~IsSub(q[i])
    BY LeadingIs
  <2>2. DOMAIN q = 1 .. Len(q) OBVIOUS
  <2> QED BY <2>1, <2>2
<1>2. \A x : ~HasPlace(q, x) BY <1>1 DEF HasPlace, IsSub
<1>3. ASSUME q # <<>> PROVE Leading(q) # <<>>
  <2>1. Len(q) # 0 BY <1>3
  <2> QED BY <2>1
<1> QED BY <1>2, <1>3

(* The output up to the first subrequest is sent.                           *)
LEMMA Drained ==
  ASSUME NEW q \in Seq(Items), Ascending(q), NEW n, n = Len(Leading(q)), n < Len(q)
  PROVE  LET z == q[n + 1][1]
             Q == SubSeq(q, n + 2, Len(q)) IN
         /\ z \in Reqs /\ HasPlace(q, z) /\ Q \in Seq(Items) /\ Ascending(Q)
         /\ \A x : HasPlace(Q, x) <=> HasPlace(q, x) /\ x # z
         /\ \A x \in Reqs : HasPlace(q, x) => z <= x
         /\ EndsInBuffer(q) => Q # <<>> /\ EndsInBuffer(Q)
         /\ \A x : HeadOnly(q, x) => ~HasPlace(Q, x)
<1> DEFINE z == q[n + 1][1]
           Q == SubSeq(q, n + 2, Len(q))
           m == Len(q)
<1>1. /\ n \in 0 .. m /\ \A i \in 1 .. n : ~IsSub(q[i])
      /\ IsSub(q[n + 1]) /\ n + 1 \in 1 .. m /\ m \in Nat /\ DOMAIN q = 1 .. m
      /\ \A i \in 1 .. m : q[i] \in Items
  <2>1. \E k \in 0 .. m : k = n /\ (\A i \in 1 .. k : ~IsSub(q[i])) /\ IsSub(q[k + 1])
    BY LeadingIs
  <2>2. m \in Nat /\ DOMAIN q = 1 .. m /\ \A i \in 1 .. m : q[i] \in Items
    OBVIOUS
  <2> QED BY <2>1, <2>2
<1>2. /\ Q \in Seq(Items) /\ Len(Q) = m - (n + 1) /\ DOMAIN Q = 1 .. m - (n + 1)
      /\ \A i \in 1 .. m - (n + 1) : Q[i] = q[i + (n + 1)] /\ i + (n + 1) \in 1 .. m
  <2>1. /\ n + 2 \in Int /\ m \in Int
        /\ \A i \in n + 2 .. m : q[i] \in Items
    BY <1>1
  <2>2. /\ Q \in Seq(Items)
        /\ Len(Q) = IF n + 2 <= m THEN m - (n + 2) + 1 ELSE 0
        /\ \A i \in 1 .. m - (n + 2) + 1 : Q[i] = q[(n + 2) + i - 1]
    BY <2>1, SubSeqProperties
  <2> HIDE DEF Q, m
  <2>3. Len(Q) = m - (n + 1)
    BY <1>1, <2>2
  <2>4. ASSUME NEW i \in 1 .. m - (n + 1)
        PROVE  Q[i] = q[i + (n + 1)] /\ i + (n + 1) \in 1 .. m
    <3>1. i \in 1 .. m - (n + 2) + 1 /\ (n + 2) + i - 1 = i + (n + 1) BY <1>1
    <3>2. i + (n + 1) \in 1 .. m BY <1>1
    <3> QED BY <2>2, <3>1, <3>2
  <2>5. DOMAIN Q = 1 .. m - (n + 1) BY <2>2, <2>3
  <2> QED BY <2>2, <2>3, <2>4, <2>5
<1>3. z \in Reqs /\ q[n + 1] = <<z, 0>> BY <1>1, ItemIs
<1>4. \A i \in 1 .. m : i > n + 1 => i - (n + 1) \in 1 .. m - (n + 1)
                                    /\ (i - (n + 1)) + (n + 1) = i
  BY <1>1
<1> HIDE DEF z, Q, m
<1>5. HasPlace(q, z) BY <1>1, <1>3 DEF HasPlace
<1>6. Ascending(Q)
  <2> SUFFICES ASSUME NEW i \in 1 .. m - (n + 1), NEW j \in 1 .. m - (n + 1), i < j,
                      IsSub(Q[i]), IsSub(Q[j])
               PROVE  Q[i][1] < Q[j][1]
    BY <1>2 DEF Ascending
  <2>1. i + (n + 1) < j + (n + 1) BY <1>1
  <2>2. /\ i + (n + 1) \in DOMAIN q /\ j + (n + 1) \in DOMAIN q
        /\ Q[i] = q[i + (n + 1)] /\ Q[j] = q[j + (n + 1)]
    BY <1>1, <1>2
  <2> QED BY <2>1, <2>2 DEF Ascending
<1>7. \A x \in Reqs : HasPlace(q, x) => z <= x
  <2> SUFFICES ASSUME NEW x \in Reqs, NEW i \in 1 .. m, q[i] = <<x, 0>> PROVE z <= x
    BY <1>1 DEF HasPlace
  <2>1. IsSub(q[i]) /\ q[i][1] = x BY ItemIs
  <2>2. CASE i <= n BY <1>1, <2>1, <2>2
  <2>3. CASE i = n + 1 BY <1>3, <2>1, <2>3 DEF Reqs
  <2>4. CASE i > n + 1
    <3>1. q[n + 1][1] < x BY <1>1, <2>1, <2>4 DEF Ascending
    <3> QED BY <1>3, <3>1 DEF z, Reqs
  <2> QED BY <1>1, <2>2, <2>3, <2>4
<1>8. ASSUME NEW x PROVE HasPlace(Q, x) <=> HasPlace(q, x) /\ x # z
  <2>1. ASSUME HasPlace(Q, x) PROVE HasPlace(q, x) /\ x # z
    <3>1. PICK i \in 1 .. m - (n + 1) : Q[i] = <<x, 0>> BY <1>2, <2>1 DEF HasPlace
    <3>2. /\ i + (n + 1) \in 1 .. m /\ q[i + (n + 1)] = <<x, 0>> /\ n + 1 < i + (n + 1)
      BY <1>1, <1>2, <3>1
    <3>3. HasPlace(q, x) BY <1>1, <3>2 DEF HasPlace
    <3>4. IsSub(q[i + (n + 1)]) /\ q[i + (n + 1)][1] = x BY <3>2 DEF IsSub
    <3>5. q[n + 1][1] < q[i + (n + 1)][1] BY <1>1, <3>2, <3>4 DEF Ascending
    <3>6. z < x BY <3>4, <3>5 DEF z
    <3> QED BY <1>3, <3>3, <3>6 DEF Reqs
  <2>2. ASSUME HasPlace(q, x), x # z PROVE HasPlace(Q, x)
    <3>1. PICK i \in 1 .. m : q[i] = <<x, 0>> BY <1>1, <2>2 DEF HasPlace
    <3>2. IsSub(q[i]) BY <3>1 DEF IsSub
    <3>3. i # n + 1
      <4> SUFFICES ASSUME i = n + 1 PROVE FALSE
        OBVIOUS
      <4>1. <<x, 0>> = <<z, 0>> BY <1>3, <3>1
      <4> QED BY <2>2, <4>1
    <3>4. i > n + 1
      <4>1. ~(i \in 1 .. n) BY <1>1, <3>2
      <4> QED BY <1>1, <3>3, <4>1
    <3>5. i - (n + 1) \in 1 .. m - (n + 1) /\ Q[i - (n + 1)] = <<x, 0>>
      BY <1>2, <1>4, <3>1, <3>4
    <3> QED BY <1>2, <3>5 DEF HasPlace
  <2> QED BY <2>1, <2>2
<1>9. ASSUME EndsInBuffer(q) PROVE Q # <<>> /\ EndsInBuffer(Q)
  <2>1. m > 0 BY <1>1
  <2>2. q # <<>> BY <1>1, <2>1 DEF m
  <2>3. ~IsSub(q[m]) BY <1>9, <2>2 DEF EndsInBuffer, m
  <2>4. m # n + 1 BY <1>1, <2>3
  <2>5. m - (n + 1) \in 1 .. m - (n + 1) /\ (m - (n + 1)) + (n + 1) = m BY <1>1, <2>4
  <2>6. Q[m - (n + 1)] = q[m] BY <1>2, <2>5
  <2>7. Q # <<>> BY <1>2, <2>5
  <2> QED BY <1>2, <2>3, <2>6, <2>7 DEF EndsInBuffer
<1>10. ASSUME NEW x, HeadOnly(q, x) PROVE ~HasPlace(Q, x)
  <2> SUFFICES ASSUME NEW i \in 1 .. m - (n + 1), Q[i] = <<x, 0>> PROVE FALSE
    BY <1>2 DEF HasPlace
  <2>1. i + (n + 1) \in 1 .. m /\ q[i + (n + 1)] = Q[i]
    BY <1>2
  <2>2. i + (n + 1) # 1
    BY <1>1
  <2> QED BY <1>1, <1>10, <2>1, <2>2 DEF HeadOnly
<1> QED BY <1>2, <1>3, <1>5, <1>6, <1>7, <1>8, <1>9, <1>10 DEF z, Q, m

-----------------------------------------------------------------------------
(* The inductive invariant.                                                 *)

Subs == 1 .. made

(* A handler is running; what unwinds has nothing to do but to finalize.   *)
Called == run.step \notin {"none", "unwind"}

(* A subrequest whose handler was never called.                            *)
Fresh(x) == x \in Subs /\ ~done[x] /\ weh[x] = "run" /\ run.r # x

(* A subrequest of r that was called and is not yet active.                *)
Old(r, C) == \E y \in Subs \ C : ~done[y] /\ parent[y] = r /\ ~Fresh(y)

(* C is the active request and the requests it is a subrequest of.         *)
Chain(C) ==
  /\ C \subseteq Live /\ Main \in C /\ data \in C
  /\ \A x \in C \ {Main} : parent[x] \in C /\ parent[x] # data
  /\ \A x, y \in C \ {Main} : parent[x] = parent[y] => x = y

Tree == \A x \in Subs : parent[x] < x /\ (~done[x] => ~done[parent[x]])

(* What is not yet active has its place in the output of its parent.       *)
Places(C) ==
  /\ \A r \in Reqs : Ascending(postponed[r])
  /\ \A r, x \in Reqs : HasPlace(postponed[r], x) =>
       x \in Subs /\ ~done[x] /\ parent[x] = r /\ (x \in C => HeadOnly(postponed[r], x))
  /\ \A x \in Subs \ C : ~done[x] => HasPlace(postponed[parent[x]], x)

(* Subrequests are called for the first time in the order they were made.  *)
FreshOrder ==
  /\ \A x, y \in Subs : Fresh(x) /\ x < y /\ ~done[y] => Fresh(y)
  /\ \A x \in Subs : Fresh(x) => Queued(posted, x) /\ ~Twice(posted, x)
  /\ \A x, y \in Subs : Fresh(x) => parent[y] # x
  /\ \A x, y \in Subs : Fresh(x) /\ Fresh(y) /\ x < y => After(posted, y, x)

(* A request is woken beyond its turn only by a subrequest that was called *)
(* and still waits for its own.                                            *)
Calls(C) ==
  /\ \A r \in Reqs : Queued(posted, r) => r \in Live
  /\ \A r \in Live \ C : Queued(posted, r) /\ ~Fresh(r) => Old(r, C)
  /\ data # Main /\ After(posted, parent[data], data) => Old(parent[data], C)
  /\ Twice(posted, data) => Old(data, C)
  /\ Called /\ run.r = data /\ Queued(posted, data) => Old(data, C)
  /\ \A x \in Subs : Fresh(x) /\ parent[x] = data => After(posted, data, x)

(* The handler of r has produced all of its output.                        *)
Over(r) == weh[r] \in {"writer", "finalizer"}
           \/ (run.r = r /\ run.step = "final" /\ ~cerror)

Outputs(C) ==
  /\ \A r \in Live : Over(r) => EndsInBuffer(postponed[r])
  /\ \A r \in C \ {data} : Over(r) => postponed[r] # <<>>
  /\ \A r \in C \ {data} : \E x \in C \ {Main} : parent[x] = r
  /\ \A r \in Live : weh[r] = "finalizer" => r # Main /\ postponed[r] = <<>>
  /\ Called /\ run.r = data /\ (run.step = "wrote" \/ (run.step = "final" /\ ~cerror))
       => postponed[data] = <<>> /\ (data = Main /\ buffered => ~ready)

(* What was produced so far.                                               *)
Produced ==
  /\ \A r \in Reqs : content[r] = <<>> => postponed[r] = <<>>
  /\ \A x \in Subs : content[parent[x]] # <<>>
  /\ content[Main] = <<>> => ~buffered /\ made = 0

Awaited ==
  \/ Queued(posted, data)
  \/ Called /\ run.r = data
  \/ up[data]
  \/ weh[data] = "writer" /\ ~ready

(* The handlers of the requests and the one that runs.                     *)
Handled ==
  /\ Called => run.r \in Live
  /\ run.step = "unwind" => run.r \in Reqs /\ (~done[run.r] => weh[run.r] # "run")
  /\ \A r \in Reqs : up[r] => r \in Live /\ weh[r] = "upstream"
  /\ \A r \in Reqs : weh[r] # "terminate"
  /\ \A r \in Live : weh[r] = "empty" => Called /\ run.r = r
  /\ \A r \in Live : weh[r] = "upstream" =>
       up[r] \/ (run.r = r /\ run.step \in {"gen", "closing", "final"})
  /\ \A r \in Reqs : r > made => ~done[r] /\ weh[r] = "run"

RunInv ==
  /\ run.step = "none" => run = NoRun
  /\ run.step \in {"gen", "closing"} => weh[run.r] \in {"run", "empty", "upstream"}
  /\ run.step \in {"flush", "wrote", "failed"} => weh[run.r] = "writer" /\ run.owed = 0
  /\ run.step \in {"closing", "final", "flush", "wrote", "failed"} => ~up[run.r]
  /\ run.step = "gen" /\ up[run.r] => run.owed = 0
  /\ run.step = "unwind" => run.owed > 0

Shape(C) == Chain(C) /\ Places(C) /\ Calls(C) /\ Outputs(C)

(* The request is served.                                                  *)
Going ==
  /\ count = Cardinality(Live) + run.owed
  /\ Handled /\ Tree /\ FreshOrder /\ Produced /\ Awaited
  /\ \E C \in SUBSET Reqs : Shape(C)

(* It is answered, or cut off, and frames of the stack return into it.     *)
Ended ==
  /\ Live = {} /\ Upstreams = {} /\ run.step \in {"none", "unwind"}
  /\ count = run.owed

Killed ==
  /\ Upstreams = {} /\ run.step \in {"none", "unwind"}
  /\ weh[Main] = "terminate" /\ posted = <<Main>>
  /\ count >= 1 + run.owed

IInv ==
  /\ TypeOK /\ RunInv
  /\ freed => run = NoRun /\ Upstreams = {}
  /\ freed /\ ~killed => Live = {} /\ count = 0
  /\ ~freed /\ killed => Killed
  /\ ~freed /\ ~killed /\ done[Main] => Ended /\ count > 0
  /\ ~freed /\ ~killed /\ ~done[Main] => Going

-----------------------------------------------------------------------------
(* The unfinished requests.                                                 *)

LEMMA LiveIs ==
  TypeOK => /\ Live \subseteq Reqs /\ IsFiniteSet(Live) /\ Cardinality(Live) \in Nat
            /\ \A r : r \in Live <=> r \in Reqs /\ r <= made /\ ~done[r]
            /\ Subs \subseteq Reqs /\ made \in Nat
            /\ \A r : r \in Live /\ r # Main <=> r \in Subs /\ ~done[r]
<1> SUFFICES ASSUME TypeOK PROVE
      /\ Live \subseteq Reqs /\ IsFiniteSet(Live) /\ Cardinality(Live) \in Nat
      /\ \A r : r \in Live <=> r \in Reqs /\ r <= made /\ ~done[r]
      /\ Subs \subseteq Reqs /\ made \in Nat
      /\ \A r : r \in Live /\ r # Main <=> r \in Subs /\ ~done[r]
  OBVIOUS
<1>1. made \in Nat /\ made <= MaxSub /\ MaxSub \in Nat
  BY BoundAssumption DEF TypeOK, Reqs
<1>2. 0 .. made \subseteq Reqs /\ Subs \subseteq Reqs
  BY <1>1 DEF Reqs, Subs
<1>3. Live \subseteq 0 .. made
  BY DEF Live
<1>4. IsFiniteSet(0 .. made)
  BY <1>1, FS_Interval
<1>5. IsFiniteSet(Live) /\ Cardinality(Live) \in Nat
  BY <1>3, <1>4, FS_Subset, FS_CardinalityType
<1>6. \A r : r \in Live <=> r \in Reqs /\ r <= made /\ ~done[r]
  BY <1>1 DEF Live, Reqs
<1>7. \A r : r \in Live /\ r # Main <=> r \in Subs /\ ~done[r]
  BY <1>1 DEF Live, Main, Subs
<1> QED BY <1>1, <1>2, <1>3, <1>5, <1>6, <1>7

LEMMA LiveNext ==
  (TypeOK => /\ Live \subseteq Reqs /\ IsFiniteSet(Live) /\ Cardinality(Live) \in Nat
             /\ \A r : r \in Live <=> r \in Reqs /\ r <= made /\ ~done[r]
             /\ Subs \subseteq Reqs /\ made \in Nat
             /\ \A r : r \in Live /\ r # Main <=> r \in Subs /\ ~done[r])'
BY LiveIs, PTL

LEMMA UpstreamsAre ==
  /\ \A r : r \in Upstreams <=> r \in Reqs /\ up[r]
  /\ \A r : r \in Upstreams' <=> r \in Reqs /\ up'[r]
BY DEF Upstreams

(* A request follows its parent.                                            *)
LEMMA ParentIs ==
  ASSUME TypeOK, Tree, NEW x \in Subs
  PROVE  /\ x \in Reqs /\ parent[x] \in Reqs /\ parent[x] < x /\ parent[x] # x
         /\ x # Main /\ parent[x] <= made
         /\ ~done[x] => parent[x] \in Live /\ x \in Live
<1>1. x \in Reqs /\ x \in 1 .. made /\ made \in Nat BY LiveIs DEF Subs
<1>2. parent[x] \in Reqs BY <1>1 DEF TypeOK
<1>3. parent[x] < x /\ (~done[x] => ~done[parent[x]]) BY DEF Tree
<1>4. parent[x] <= made /\ parent[x] # x /\ x # Main BY <1>1, <1>2, <1>3 DEF Reqs, Main
<1> QED BY <1>1, <1>2, <1>3, <1>4, LiveIs

(* The request is served: what most steps start from and lead to.          *)
Served ==
  /\ TypeOK /\ RunInv /\ Going
  /\ ~freed /\ ~killed /\ ~done[Main]

-----------------------------------------------------------------------------
(* Steps that leave the queue of calls, the output and the tree alone.     *)

LEMMA SameShape ==
  ASSUME NEW C \in SUBSET Reqs, Chain(C), Tree, Places(C), FreshOrder, Calls(C),
         UNCHANGED <<made, parent, done, data, posted>>,
         \A x : Fresh(x)' <=> Fresh(x),
         Called' /\ run'.r = data /\ Queued(posted, data) => Called /\ run.r = data
  PROVE  /\ Chain(C)' /\ Tree' /\ FreshOrder' /\ Calls(C)'
         /\ postponed' = postponed => Places(C)'
<1>1. Live' = Live /\ Subs' = Subs
  BY DEF Live, Subs
<1>2. Chain(C)' BY <1>1 DEF Chain
<1>3. Tree' BY <1>1 DEF Tree
<1>4. postponed' = postponed => Places(C)' BY <1>1 DEF Places
<1>5. FreshOrder' BY <1>1 DEF FreshOrder
<1>6. \A r : Old(r, C)' <=> Old(r, C)
  BY <1>1 DEF Old
<1>7. Calls(C)' BY <1>1, <1>6 DEF Calls
<1> QED BY <1>2, <1>3, <1>4, <1>5, <1>7

LEMMA Quiet ==
  ASSUME Served, NEW C \in SUBSET Reqs, Shape(C),
         UNCHANGED <<made, parent, done, postponed, data, posted, content,
                     freed, killed>>,
         \A x : Fresh(x)' <=> Fresh(x),
         Called' /\ run'.r = data /\ Queued(posted, data) => Called /\ run.r = data,
         TypeOK', RunInv', Handled', Awaited', Outputs(C)',
         count' = count + run'.owed - run.owed,
         buffered' => buffered
  PROVE  Served'
<1>1. Chain(C)' /\ Tree' /\ Places(C)' /\ FreshOrder' /\ Calls(C)'
  BY SameShape DEF Served, Going, Shape
<1>2. Live' = Live /\ Subs' = Subs
  BY DEF Live, Subs
<1>3. Produced' BY <1>2 DEF Served, Going, Produced
<1>4. count' = Cardinality(Live') + run'.owed
  <2>1. Cardinality(Live) \in Nat /\ run.owed \in Nat /\ run'.owed \in Nat
    BY LiveIs DEF Served, TypeOK
  <2> QED BY <1>2, <2>1 DEF Served, Going
<1>5. Shape(C)' BY <1>1 DEF Shape
<1>6. Going' BY <1>1, <1>3, <1>4, <1>5 DEF Going
<1> QED BY <1>6 DEF Served

(* What is known of the handler that runs.                                 *)
LEMMA Running ==
  ASSUME Served
  PROVE  /\ run \in [r : Reqs \cup {NoReq}, step : Step, owed : Nat]
         /\ Called => run.r \in Live /\ run.r \in Reqs
         /\ ~Called => (run.step = "none" /\ run = NoRun) \/ run.step = "unwind"
         /\ NoReq \notin Reqs /\ Main \in Reqs /\ data \in Live /\ Main \in Live
         /\ run.step = "gen" => weh[run.r] \in {"run", "empty", "upstream"}
<1>1. \E C \in SUBSET Reqs : Shape(C) BY DEF Served, Going
<1>2. data \in Live /\ Main \in Live BY <1>1 DEF Shape, Chain
<1>3. Called => run.r \in Live BY DEF Served, Going, Handled
<1>4. NoReq \notin Reqs BY BoundAssumption DEF NoReq, Reqs
<1> QED BY <1>2, <1>3, <1>4, LiveIs DEF Served, TypeOK, RunInv, Called

LEMMA HoldServed ==
  ASSUME Served, Hold PROVE Served'
<1>1. PICK C \in SUBSET Reqs : Shape(C) BY DEF Served, Going
<1> DEFINE r == run.r
<1>2. /\ run.step \in {"gen", "closing"} /\ ~up[r] /\ r \in Live /\ r \in Reqs
  BY Running DEF Hold, Ending, Called, Served, RunInv
<1>3. run' = [r |-> r, step |-> "gen", owed |-> run.owed + 1]
  BY Running DEF Hold
<1>4. TypeOK'
  <2>1. run' \in [r : Reqs \cup {NoReq}, step : Step, owed : Nat]
    BY <1>2, <1>3, Running DEF Step
  <2>2. count' \in Nat /\ holds' \in 0 .. MaxHolds
    <3>1. count \in Nat /\ holds \in 0 .. MaxHolds BY DEF Served, TypeOK
    <3>2. count' = count + 1 /\ holds' = holds + 1 /\ holds < MaxHolds BY DEF Hold
    <3> QED BY BoundAssumption, <3>1, <3>2
  <2> QED BY <2>1, <2>2 DEF Served, TypeOK, Hold, requests, connection, history
<1>5. \A x : Fresh(x)' <=> Fresh(x)
  BY <1>3 DEF Fresh, Subs, Hold, requests
<1>6. RunInv'
  BY <1>2, <1>3 DEF Served, RunInv, Hold, requests
<1>7. Handled' /\ Awaited'
  BY <1>2, <1>3 DEF Served, Going, Handled, Awaited, Called, Live, Hold, requests, connection
<1>8. Outputs(C)'
  BY <1>1, <1>2, <1>3 DEF Shape, Outputs, Over, Called, Live, Hold, requests, connection
<1>9. Called' /\ run'.r = data => Called /\ run.r = data
  BY <1>2, <1>3 DEF Called
<1>10. count' = count + run'.owed - run.owed /\ UNCHANGED buffered
  <2>1. count \in Nat /\ run.owed \in Nat BY DEF Served, TypeOK
  <2>2. run'.owed = run.owed + 1 BY <1>3
  <2> QED BY <2>1, <2>2 DEF Hold, connection
<1> QED
  BY <1>1, <1>4, <1>5, <1>6, <1>7, <1>8, <1>9, <1>10, Quiet
  DEF Hold, requests, connection, history

LEMMA BareServed ==
  ASSUME Served, Bare PROVE Served'
<1>1. PICK C \in SUBSET Reqs : Shape(C) BY DEF Served, Going
<1> DEFINE r == run.r
<1>2. /\ run.step \in {"gen", "closing"} /\ ~up[r] /\ r \in Live /\ r \in Reqs
      /\ weh[r] \in {"run", "empty", "upstream"}
      /\ content[r] = <<>>
  BY Running DEF Bare, Ending, Called, Served, RunInv
<1>3. run' = [r |-> r, step |-> "final", owed |-> run.owed]
  BY Running DEF Bare
<1>4. TypeOK'
  BY <1>2, <1>3 DEF Served, TypeOK, Bare, requests, connection, history, Step
<1>5. \A x : Fresh(x)' <=> Fresh(x)
  BY <1>2, <1>3 DEF Fresh, Subs, Bare, requests
<1>6. RunInv'
  BY <1>2, <1>3 DEF Served, RunInv, Bare, requests
<1>7. Handled' /\ Awaited'
  BY <1>1, <1>2, <1>3
  DEF Served, Going, Handled, Awaited, Shape, Outputs, Called, Live, Bare, requests, connection
<1>8. Outputs(C)'
  <2>1. postponed[r] = <<>> BY <1>2 DEF Served, Going, Produced
  <2>2. r \notin C \ {data}
    <3> SUFFICES ASSUME r \in C \ {data} PROVE FALSE
      OBVIOUS
    <3>1. PICK x \in C \ {Main} : parent[x] = r
      BY <1>1 DEF Shape, Outputs
    <3>2. x \in Subs BY <1>1, LiveIs DEF Served, Shape, Chain
    <3> QED BY <1>2, <3>1, <3>2 DEF Served, Going, Produced
  <2>3. r = Main => ~buffered
    BY <1>2 DEF Served, Going, Produced
  <2>4. Live' = Live BY DEF Live, Bare, requests
  <2>5. \A x : x # r => (Over(x)' <=> Over(x))
    BY <1>2, <1>3 DEF Over, Bare, requests, connection
  <2>6. EndsInBuffer(postponed[r]) BY <2>1 DEF EndsInBuffer
  <2> QED BY <1>1, <1>2, <1>3, <2>1, <2>2, <2>3, <2>4, <2>5, <2>6
      DEF Shape, Outputs, Called, Bare, requests, connection
<1>9. Called' /\ run'.r = data /\ Queued(posted, data) => Called /\ run.r = data
  BY <1>2, <1>3 DEF Called, Bare, connection
<1>10. count' = count + run'.owed - run.owed /\ (buffered' => buffered)
  BY <1>2, <1>3 DEF Served, TypeOK, Bare, connection, NoRun
<1> QED
  BY <1>1, <1>4, <1>5, <1>6, <1>7, <1>8, <1>9, <1>10, Quiet
  DEF Bare, requests, connection, history

LEMMA ConnectServed ==
  ASSUME Served, Connect PROVE Served'
<1>1. PICK C \in SUBSET Reqs : Shape(C) BY DEF Served, Going
<1> DEFINE r == run.r
<1>2. /\ run.step = "gen" /\ ~up[r] /\ r \in Live /\ r \in Reqs /\ run.owed > 0
      /\ weh[r] \in {"run", "empty", "upstream"}
  BY Running DEF Connect, Called
<1>3. run' = [r |-> r, step |-> "unwind", owed |-> run.owed]
  BY Running DEF Connect
<1>4. TypeOK'
  BY <1>2, <1>3 DEF Served, TypeOK, Connect, requests, connection, history, Step
<1>5. \A x : Fresh(x)' <=> Fresh(x)
  BY <1>2, <1>3 DEF Fresh, Subs, Connect, requests
<1>6. RunInv'
  BY <1>2, <1>3 DEF Served, RunInv, Connect, requests
<1>7. Handled' /\ Awaited'
  <2>1. \A x \in Reqs : /\ up'[x] = IF x = r THEN TRUE ELSE up[x]
                        /\ weh'[x] = IF x = r THEN "upstream" ELSE weh[x]
    BY <1>2 DEF Connect, Served, TypeOK
  <2>2. Live' = Live /\ made' = made /\ done' = done
    BY DEF Live, Connect
  <2>3. Handled'
    <3>1. \A x : x \in Live => x \in Reqs /\ ~(x > made)
      BY LiveIs DEF Served, Reqs
    <3>2. ~Called' /\ run'.step = "unwind" /\ run'.r = r /\ Called
      BY <1>2, <1>3 DEF Called
    <3>3. \A x \in Live : weh'[x] = "empty" => FALSE
      BY <2>1, <3>1 DEF Served, Going, Handled
    <3>4. \A x \in Live : weh'[x] = "upstream" => up'[x]
      BY <2>1, <3>1 DEF Served, Going, Handled
    <3>5. \A x \in Reqs : up'[x] => x \in Live /\ weh'[x] = "upstream"
      <4>1. \A x \in Reqs : up[x] => x \in Live /\ weh[x] = "upstream"
        BY DEF Served, Going, Handled
      <4> QED BY <1>2, <2>1, <4>1
    <3>6. \A x \in Reqs : weh'[x] # "terminate"
      BY <1>2, <2>1 DEF Served, Going, Handled
    <3>7. \A x \in Reqs : x > made => ~done[x] /\ weh'[x] = "run"
      BY <1>2, <2>1, <3>1 DEF Served, Going, Handled
    <3> HIDE DEF r
    <3> QED BY <1>2, <2>1, <2>2, <3>2, <3>3, <3>4, <3>5, <3>6, <3>7 DEF Handled
  <2>4. Awaited'
    <3>1. data \in Reqs /\ data' = data /\ posted' = posted /\ ready' = ready
      BY Running, LiveIs DEF Connect, connection, Served
    <3>2. CASE data = r BY <1>2, <2>1, <3>1, <3>2 DEF Awaited
    <3>3. CASE data # r
      <4>1. Queued(posted, data) \/ up[data] \/ (weh[data] = "writer" /\ ~ready)
        BY <3>3 DEF Served, Going, Awaited
      <4>2. up'[data] = up[data] /\ weh'[data] = weh[data] BY <2>1, <3>1, <3>3
      <4> QED BY <3>1, <4>1, <4>2 DEF Awaited
    <3> QED BY <3>2, <3>3
  <2> QED BY <2>3, <2>4
<1>8. Outputs(C)'
  BY <1>1, <1>2, <1>3 DEF Shape, Outputs, Over, Called, Live, Connect, requests, connection
<1>9. Called' /\ run'.r = data /\ Queued(posted, data) => Called /\ run.r = data
  BY <1>2, <1>3 DEF Called, Connect, connection
<1>10. count' = count + run'.owed - run.owed /\ (buffered' => buffered)
  BY <1>2, <1>3 DEF Served, TypeOK, Connect, connection, NoRun
<1> QED
  BY <1>1, <1>4, <1>5, <1>6, <1>7, <1>8, <1>9, <1>10, Quiet
  DEF Connect, requests, connection, history

LEMMA YieldServed ==
  ASSUME Served, Yield PROVE Served'
<1>1. PICK C \in SUBSET Reqs : Shape(C) BY DEF Served, Going
<1> DEFINE r == run.r
<1>2. /\ run.step = "gen" /\ up[r] /\ r \in Live /\ r \in Reqs /\ run.owed = 0
      /\ weh[r] = "upstream" /\ NoReq \notin Reqs
  BY Running DEF Yield, Called, Served, RunInv, Going, Handled
<1>3. run' = NoRun /\ NoRun = [r |-> NoReq, step |-> "none", owed |-> 0]
  BY DEF Yield, NoRun
<1>4. TypeOK'
  BY <1>2, <1>3 DEF Served, TypeOK, Yield, requests, connection, history, Step
<1>5. \A x : Fresh(x)' <=> Fresh(x)
  <2>1. Subs' = Subs /\ NoReq \notin Subs
    BY <1>2, LiveIs DEF Served, Subs, Yield, requests
  <2> QED BY <1>2, <1>3, <2>1 DEF Fresh, Yield, requests
<1>6. RunInv'
  BY <1>2, <1>3 DEF Served, RunInv, Yield, requests
<1>7. Handled' /\ Awaited'
  BY <1>1, <1>2, <1>3
  DEF Served, Going, Handled, Awaited, Shape, Outputs, Called, Live, Yield, requests, connection
<1>8. Outputs(C)'
  BY <1>1, <1>2, <1>3 DEF Shape, Outputs, Over, Called, Live, Yield, requests, connection
<1>9. Called' /\ run'.r = data /\ Queued(posted, data) => Called /\ run.r = data
  BY <1>2, <1>3 DEF Called, Yield, connection
<1>10. count' = count + run'.owed - run.owed /\ (buffered' => buffered)
  BY <1>2, <1>3 DEF Served, TypeOK, Yield, connection, NoRun
<1> QED
  BY <1>1, <1>4, <1>5, <1>6, <1>7, <1>8, <1>9, <1>10, Quiet
  DEF Yield, requests, connection, history

LEMMA UpCloseServed ==
  ASSUME Served, NEW r \in Reqs, UpClose(r) PROVE Served'
<1>1. PICK C \in SUBSET Reqs : Shape(C) BY DEF Served, Going
<1>2. /\ up[r] /\ r \in Live /\ weh[r] = "upstream" /\ run.owed = 0
      /\ (run.step = "gen" /\ run.r = r) \/ (run = NoRun /\ posted = <<>>)
      /\ NoReq \notin Reqs
  BY Running DEF UpClose, Served, Going, Handled, RunInv, NoRun
<1>3. run' = [r |-> r, step |-> "closing", owed |-> 0]
  BY DEF UpClose
<1>4. TypeOK'
  BY <1>2, <1>3 DEF Served, TypeOK, UpClose, connection, history, Step
<1>5. \A x : Fresh(x)' <=> Fresh(x)
  <2>1. Subs' = Subs /\ NoReq \notin Subs
    BY <1>2, LiveIs DEF Served, Subs, UpClose
  <2>2. run.r = r \/ run.r = NoReq BY <1>2 DEF NoRun
  <2> QED BY <1>2, <1>3, <2>1, <2>2 DEF Fresh, UpClose
<1>6. RunInv'
  BY <1>2, <1>3 DEF Served, TypeOK, RunInv, UpClose
<1>7. \A x \in Reqs : up'[x] = IF x = r THEN FALSE ELSE up[x]
  BY DEF UpClose, Served, TypeOK
<1>8. Handled'
  <2>1. Live' = Live /\ UNCHANGED <<weh, made, done>> BY DEF Live, UpClose
  <2>2. \A x \in Reqs : up'[x] => x \in Live /\ weh[x] = "upstream"
    BY <1>7 DEF Served, Going, Handled
  <2>3. \A x \in Live : weh[x] = "empty" => FALSE
    BY <1>2 DEF Served, Going, Handled, Called, NoRun
  <2>4. \A x \in Live : weh[x] = "upstream" => up'[x] \/ x = r
    <3>1. \A x \in Live : weh[x] = "upstream" => up[x] \/ x = r
      BY <1>2 DEF Served, Going, Handled, NoRun
    <3> QED BY <1>7, <3>1, LiveIs DEF Served
  <2> QED BY <1>2, <1>3, <2>1, <2>2, <2>3, <2>4
      DEF Served, Going, Handled, Called
<1>9. Awaited'
  <2>1. data \in Reqs /\ UNCHANGED <<data, posted, weh, ready>>
    BY Running, LiveIs DEF UpClose, connection, Served
  <2>2. CASE data = r BY <1>3, <2>1, <2>2 DEF Awaited, Called
  <2>3. CASE data # r
    <3>1. ~(Called /\ run.r = data) BY <1>2, <2>3 DEF Called, NoRun
    <3>2. up'[data] = up[data] BY <1>7, <2>1, <2>3
    <3> QED BY <2>1, <3>1, <3>2 DEF Served, Going, Awaited
  <2> QED BY <2>2, <2>3
<1>10. Outputs(C)'
  <2>1. Live' = Live /\ \A x : Over(x)' => Over(x)
    BY <1>3 DEF Live, Over, UpClose, connection
  <2> QED BY <1>1, <1>2, <1>3, <2>1 DEF Shape, Outputs, Called, UpClose, connection
<1>11. Called' /\ run'.r = data /\ Queued(posted, data) => Called /\ run.r = data
  BY <1>2, <1>3 DEF Called, Queued
<1>12. count' = count + run'.owed - run.owed /\ (buffered' => buffered)
  BY <1>2, <1>3 DEF Served, TypeOK, UpClose, connection
<1> QED
  BY <1>1, <1>4, <1>5, <1>6, <1>8, <1>9, <1>10, <1>11, <1>12, Quiet
  DEF UpClose, connection, history

(* What is true when the worker waits for an event.                        *)
LEMMA Idle ==
  ASSUME Served, Waiting
  PROVE  /\ run = NoRun /\ run.r = NoReq /\ run.step = "none" /\ run.owed = 0 /\ ~Called
         /\ NoReq \notin Reqs /\ data \in Reqs /\ data \in Live
         /\ \A x : ~Queued(posted, x) /\ ~Fresh(x)
         /\ \A x \in Subs : x # NoReq /\ (~done[x] => weh[x] # "run")
         /\ up[data] \/ (weh[data] = "writer" /\ ~ready)
<1>1. run = NoRun /\ run.r = NoReq /\ run.step = "none" /\ run.owed = 0 /\ ~Called
  BY DEF Waiting, NoRun, Called
<1>2. \A x : ~Queued(posted, x) BY DEF Waiting, Queued
<1>3. \A x : ~Fresh(x)
  BY <1>2 DEF Served, Going, FreshOrder, Fresh
<1>4. \A x \in Subs : x # NoReq /\ (~done[x] => weh[x] # "run")
  <2>1. NoReq \notin Subs BY Running, LiveIs DEF Served
  <2> QED BY <1>1, <1>3, <2>1 DEF Fresh
<1> QED BY <1>1, <1>2, <1>3, <1>4, Running, LiveIs DEF Served, Going, Awaited

LEMMA UpstreamEventServed ==
  ASSUME Served, NEW r \in Reqs, UpstreamEvent(r) PROVE Served'
<1>1. PICK C \in SUBSET Reqs : Shape(C) BY DEF Served, Going
<1>2. Waiting /\ up[r] /\ r \in Live /\ weh[r] = "upstream"
  BY DEF UpstreamEvent, Served, Going, Handled
<1>3. run' = [r |-> r, step |-> "gen", owed |-> 0]
  BY DEF UpstreamEvent
<1>4. TypeOK'
  BY <1>2, <1>3 DEF Served, TypeOK, UpstreamEvent, requests, connection, history, Step
<1>5. \A x : Fresh(x)' <=> Fresh(x)
  <2>1. \A x : ~Fresh(x) BY <1>2, Idle
  <2>2. \A x : ~Fresh(x)' BY <1>2, Idle DEF Fresh, Subs, UpstreamEvent, requests
  <2> QED BY <2>1, <2>2
<1>6. RunInv'
  BY <1>2, <1>3 DEF RunInv, UpstreamEvent, requests
<1>7. Handled' /\ Awaited'
  BY <1>2, <1>3, Idle
  DEF Served, Going, Handled, Awaited, Called, Live, UpstreamEvent, requests, connection
<1>8. Outputs(C)'
  <2>1. Live' = Live /\ \A x : Over(x)' => Over(x)
    BY <1>3 DEF Live, Over, UpstreamEvent, requests, connection
  <2> QED BY <1>1, <1>3, <2>1 DEF Shape, Outputs, Called, UpstreamEvent, requests, connection
<1>9. Called' /\ run'.r = data /\ Queued(posted, data) => Called /\ run.r = data
  BY <1>2, Idle
<1>10. count' = count + run'.owed - run.owed /\ (buffered' => buffered)
  BY <1>2, <1>3, Idle DEF Served, TypeOK, UpstreamEvent, connection
<1> QED
  BY <1>1, <1>4, <1>5, <1>6, <1>7, <1>8, <1>9, <1>10, Quiet
  DEF UpstreamEvent, requests, connection, history

LEMMA ClientAbortServed ==
  ASSUME Served, ClientAbort PROVE Served'
<1>1. PICK C \in SUBSET Reqs : Shape(C) BY DEF Served, Going
<1>2. Waiting /\ ~cerror /\ cerror' = TRUE
  BY DEF ClientAbort
<1>3. run' = [r |-> data, step |-> "final", owed |-> 0]
  BY DEF ClientAbort
<1>4. TypeOK'
  BY <1>2, <1>3 DEF Served, TypeOK, ClientAbort, history, Step
<1>5. \A x : Fresh(x)' <=> Fresh(x)
  <2>1. \A x : ~Fresh(x) BY <1>2, Idle
  <2>2. \A x : ~Fresh(x)' BY <1>2, Idle DEF Fresh, Subs, ClientAbort
  <2> QED BY <2>1, <2>2
<1>6. \A x \in Reqs : up'[x] = IF x = data THEN FALSE ELSE up[x]
  BY DEF ClientAbort, Served, TypeOK
<1>7. RunInv'
  <2>1. ~up'[data] BY <1>2, <1>6, Idle
  <2> QED BY <1>3, <2>1 DEF RunInv
<1>8. Handled'
  <2>1. Live' = Live /\ UNCHANGED <<weh, made, done>> BY DEF Live, ClientAbort
  <2>2. \A x \in Reqs : up'[x] => x \in Live /\ weh[x] = "upstream"
    BY <1>6 DEF Served, Going, Handled
  <2>3. \A x \in Live : weh[x] = "empty" => FALSE
    BY <1>2, Idle DEF Served, Going, Handled
  <2>4. \A x \in Live : weh[x] = "upstream" => up'[x] \/ x = data
    BY <1>2, <1>6, Idle, LiveIs DEF Served, Going, Handled
  <2> QED BY <1>2, <1>3, <2>1, <2>2, <2>3, <2>4, Idle
      DEF Served, Going, Handled, Called
<1>9. Awaited'
  BY <1>3 DEF Awaited, Called, ClientAbort
<1>10. Outputs(C)'
  <2>1. Live' = Live /\ \A x : Over(x)' => Over(x)
    BY <1>2, <1>3 DEF Live, Over, ClientAbort
  <2> QED BY <1>1, <1>2, <1>3, <2>1 DEF Shape, Outputs, Called, ClientAbort
<1>11. Called' /\ run'.r = data /\ Queued(posted, data) => Called /\ run.r = data
  BY <1>2, Idle
<1>12. count' = count + run'.owed - run.owed /\ (buffered' => buffered)
  BY <1>2, <1>3, Idle DEF Served, TypeOK, ClientAbort
<1> QED
  BY <1>1, <1>4, <1>5, <1>7, <1>8, <1>9, <1>10, <1>11, <1>12, Quiet
  DEF ClientAbort, history

LEMMA UnwindServed ==
  ASSUME Served, Unwind PROVE Served'
<1>1. PICK C \in SUBSET Reqs : Shape(C) BY DEF Served, Going
<1>2. /\ run.step = "unwind" /\ run.owed \in Nat /\ run.owed > 0 /\ ~Called
      /\ run.r \in Reqs /\ (~done[run.r] => weh[run.r] # "run") /\ NoReq \notin Reqs
  BY Running DEF Unwind, Served, RunInv, Called, Going, Handled
<1>3. /\ run' = IF run.owed > 1 THEN [r |-> run.r, step |-> "unwind", owed |-> run.owed - 1]
                ELSE [r |-> NoReq, step |-> "none", owed |-> 0]
      /\ run'.owed = run.owed - 1
  <2>1. run.owed > 1 => [run EXCEPT !.owed = @ - 1]
                        = [r |-> run.r, step |-> "unwind", owed |-> run.owed - 1]
    BY <1>2, Running
  <2> QED BY <1>2, <2>1 DEF Unwind, NoRun
<1>4. count' = count - 1 /\ count \in Nat /\ count > 1 /\ freed' = FALSE
  <2>1. Main \in Live /\ IsFiniteSet(Live) /\ Cardinality(Live) \in Nat
    BY Running, LiveIs DEF Served
  <2>2. Cardinality(Live) # 0 BY <2>1, FS_EmptySet
  <2>3. count = Cardinality(Live) + run.owed BY DEF Served, Going
  <2>4. count' = count - 1 /\ freed' = (count = 1) BY DEF Unwind
  <2>5. count \in Nat /\ count > 1 /\ count # 1 BY <1>2, <2>1, <2>2, <2>3
  <2>6. freed' = FALSE BY <2>4, <2>5, Zenon
  <2> QED BY <2>4, <2>5, <2>6
<1>5. TypeOK'
  <2>1. run' \in [r : Reqs \cup {NoReq}, step : Step, owed : Nat]
    BY <1>2, <1>3 DEF Step
  <2>2. count' \in Nat /\ freed' \in BOOLEAN
    <3>1. count' \in Nat BY <1>4
    <3> QED BY <1>4, <3>1
  <2>3. TypeOK BY DEF Served
  <2>4. UNCHANGED <<requests, connection, history, killed, holds>> BY DEF Unwind
  <2> QED BY <2>1, <2>2, <2>3, <2>4 DEF TypeOK, requests, connection, history
<1>6. \A x : Fresh(x)' <=> Fresh(x)
  <2>1. Subs' = Subs /\ NoReq \notin Subs
    BY <1>2, LiveIs DEF Served, Subs, Unwind, requests
  <2> QED BY <1>2, <1>3, <2>1 DEF Fresh, Unwind, requests
<1>7. RunInv'
  BY <1>2, <1>3 DEF RunInv, NoRun
<1>8. ~Called' BY <1>3 DEF Called
<1>9. Handled' /\ Awaited'
  BY <1>2, <1>3, <1>8
  DEF Served, Going, Handled, Awaited, Live, Unwind, requests, connection
<1>10. Outputs(C)'
  <2>1. Live' = Live /\ \A x : Over(x)' => Over(x)
    BY <1>3 DEF Live, Over, Unwind, requests, connection
  <2> QED BY <1>1, <1>8, <2>1 DEF Shape, Outputs, Unwind, requests, connection
<1>11. count' = count + run'.owed - run.owed
  BY <1>2, <1>3, <1>4
<1>12. /\ UNCHANGED <<made, parent, done, postponed, data, posted, content, killed>>
       /\ freed' = freed /\ buffered' = buffered
  <2>1. freed = FALSE BY DEF Served, TypeOK
  <2> QED BY <1>4, <2>1 DEF Unwind, requests, connection, history
<1> QED
  BY <1>1, <1>5, <1>6, <1>7, <1>8, <1>9, <1>10, <1>11, <1>12, Quiet

LEMMA WroteServed ==
  ASSUME Served, Wrote, run.step = "wrote" PROVE Served'
<1>1. PICK C \in SUBSET Reqs : Shape(C) BY DEF Served, Going
<1> DEFINE r == run.r
           more == postponed[r] # <<>> \/ (r = Main /\ buffered)
<1>2. /\ r \in Live /\ r \in Reqs /\ weh[r] = "writer" /\ ~up[r] /\ run.owed = 0
      /\ NoReq \notin Reqs /\ Called
  BY Running DEF Served, RunInv, Called
<1>3. /\ run' = IF more THEN [r |-> NoReq, step |-> "none", owed |-> 0]
                ELSE [r |-> r, step |-> "final", owed |-> 0]
      /\ weh' = IF more THEN weh ELSE [weh EXCEPT ![r] = "empty"]
      /\ UNCHANGED <<made, parent, done, postponed, reh, up, connection, history,
                     count, freed, killed, holds>>
  <2>1. [run EXCEPT !.step = "final"] = [r |-> r, step |-> "final", owed |-> 0]
    BY <1>2, Running
  <2> QED BY <2>1 DEF Wrote, NoRun
<1>4. UNCHANGED <<data, posted, cerror, buffered, ready, content, sent>>
  BY <1>3 DEF connection, history
<1> HIDE DEF more
<1>5. TypeOK'
  BY <1>2, <1>3, <1>4 DEF Served, TypeOK, Step
<1>6. \A x \in Reqs : weh'[x] = IF ~more /\ x = r THEN "empty" ELSE weh[x]
  BY <1>3 DEF Served, TypeOK
<1>7. \A x : Fresh(x)' <=> Fresh(x)
  <2>1. Subs' = Subs /\ NoReq \notin Subs /\ Subs \subseteq Reqs
    BY <1>2, <1>3, LiveIs DEF Served, Subs
  <2>2. run'.r = r \/ run'.r = NoReq BY <1>3
  <2> QED BY <1>2, <1>3, <1>6, <2>1, <2>2 DEF Fresh
<1>8. RunInv'
  BY <1>2, <1>3 DEF RunInv, NoRun
<1>9. Live' = Live BY <1>3 DEF Live
<1>10. Handled'
  <2>1. \A x \in Live : x \in Reqs BY LiveIs DEF Served
  <2>2. \A x \in Live : weh'[x] = "empty" => ~more /\ x = r
    BY <1>2, <1>6, <2>1 DEF Served, Going, Handled
  <2>3. \A x \in Live : weh'[x] = "upstream" => up[x]
    BY <1>2, <1>6, <2>1 DEF Served, Going, Handled
  <2>4. \A x \in Reqs : up[x] => x \in Live /\ weh'[x] = "upstream"
    BY <1>2, <1>6 DEF Served, Going, Handled
  <2>5. \A x \in Reqs : weh'[x] # "terminate"
    BY <1>6 DEF Served, Going, Handled
  <2>6. \A x \in Reqs : x > made => ~done[x] /\ weh'[x] = "run"
    BY <1>2, <1>6 DEF Served, Going, Handled
  <2>7. CASE more
    <3>1. run'.step = "none" /\ ~Called' BY <1>3, <2>7 DEF Called
    <3> QED BY <1>3, <1>9, <2>2, <2>3, <2>4, <2>5, <2>6, <2>7, <3>1 DEF Handled
  <2>8. CASE ~more
    <3>1. run'.step = "final" /\ run'.r = r /\ Called' BY <1>3, <2>8 DEF Called
    <3> QED BY <1>2, <1>3, <1>9, <2>2, <2>3, <2>4, <2>5, <2>6, <2>8, <3>1 DEF Handled
  <2> QED BY <2>7, <2>8
<1>11. r = data => postponed[r] = <<>> /\ (r = Main /\ buffered => ~ready)
  BY <1>1, <1>2 DEF Shape, Outputs, Wrote
<1>12. Awaited'
  <2>1. CASE r = data
    <3>1. CASE more
      <4>1. weh'[data] = "writer" /\ ~ready
        BY <1>2, <1>3, <1>11, <2>1, <3>1 DEF more
      <4> QED BY <1>4, <4>1 DEF Awaited
    <3>2. CASE ~more
      BY <1>3, <1>4, <2>1, <3>2 DEF Awaited, Called
    <3> QED BY <3>1, <3>2
  <2>2. CASE r # data
    <3>1. data \in Reqs BY Running, LiveIs DEF Served
    <3>2. weh'[data] = weh[data] BY <1>6, <2>2, <3>1
    <3> QED BY <1>3, <1>4, <2>2, <3>2 DEF Served, Going, Awaited
  <2> QED BY <2>1, <2>2
<1>13. Outputs(C)'
  <2>0. \A x \in Live : x \in Reqs BY LiveIs DEF Served
  <2>1. \A x \in Live : Over(x)' => Over(x)
    BY <1>2, <1>3, <1>4, <1>6, <2>0 DEF Over
  <2>2. \A x \in Live : weh'[x] = "finalizer" => weh[x] = "finalizer"
    BY <1>6, <2>0
  <2>3. C \subseteq Live BY <1>1 DEF Shape, Chain
  <2>4. /\ Called' /\ run'.r = data' /\ (run'.step = "wrote" \/ (run'.step = "final" /\ ~cerror'))
           => r = data
    BY <1>2, <1>3, <1>4, Running DEF Called
  <2> QED BY <1>1, <1>3, <1>4, <1>9, <1>11, <2>1, <2>2, <2>3, <2>4 DEF Shape, Outputs
<1>14. Called' /\ run'.r = data => Called /\ run.r = data
  BY <1>2, <1>3 DEF Called
<1>15. count' = count + run'.owed - run.owed
  <2>1. run'.owed = 0 BY <1>3
  <2> QED BY <1>2, <1>3, <2>1 DEF Served, TypeOK
<1> QED
  BY <1>1, <1>3, <1>4, <1>5, <1>7, <1>8, <1>10, <1>12, <1>13, <1>14, <1>15, Quiet

LEMMA RearmServed ==
  ASSUME Served, Finalize, ~cerror, Return, UNCHANGED <<history, killed, holds>>,
         Rearm(run.r), postponed[run.r] # <<>> \/ (run.r = Main /\ buffered)
  PROVE  Served'
<1>1. PICK C \in SUBSET Reqs : Shape(C) BY DEF Served, Going
<1> DEFINE r == run.r
<1>2. /\ r \in Live /\ r \in Reqs /\ ~up[r] /\ run.step = "final" /\ run.owed \in Nat
      /\ NoReq \notin Reqs /\ Called
  BY Running DEF Served, RunInv, Called, Finalize
<1>3. /\ run' = IF run.owed > 0 THEN [r |-> r, step |-> "unwind", owed |-> run.owed]
                ELSE [r |-> NoReq, step |-> "none", owed |-> 0]
      /\ weh' = [weh EXCEPT ![r] = "writer"] /\ reh' = [reh EXCEPT ![r] = "test"]
      /\ UNCHANGED <<made, parent, done, postponed, up, connection, history,
                     count, freed, killed, holds>>
  <2>1. [run EXCEPT !.step = "unwind"] = [r |-> r, step |-> "unwind", owed |-> run.owed]
    BY <1>2, Running
  <2> QED BY <2>1 DEF Return, Rearm, NoRun
<1>4. UNCHANGED <<data, posted, cerror, buffered, ready, content, sent>>
  BY <1>3 DEF connection, history
<1>5. TypeOK'
  <2>1. run' \in [r : Reqs \cup {NoReq}, step : Step, owed : Nat]
    BY <1>2, <1>3 DEF Step
  <2> QED BY <1>2, <1>3, <1>4, <2>1 DEF Served, TypeOK
<1>6. \A x \in Reqs : weh'[x] = IF x = r THEN "writer" ELSE weh[x]
  BY <1>3 DEF Served, TypeOK
<1>7. \A x : Fresh(x)' <=> Fresh(x)
  <2>1. Subs' = Subs /\ NoReq \notin Subs /\ Subs \subseteq Reqs
    BY <1>2, <1>3, LiveIs DEF Served, Subs
  <2>2. run'.r = r \/ run'.r = NoReq BY <1>3
  <2> QED BY <1>2, <1>3, <1>6, <2>1, <2>2 DEF Fresh
<1>8. RunInv'
  BY <1>2, <1>3 DEF RunInv, NoRun
<1>9. Live' = Live /\ ~Called' /\ run'.owed = run.owed
  BY <1>2, <1>3 DEF Live, Called
<1>10. Handled'
  <2>1. \A x \in Live : x \in Reqs BY LiveIs DEF Served
  <2>2. \A x \in Live : weh'[x] # "empty"
    BY <1>2, <1>6, <2>1 DEF Served, Going, Handled
  <2>3. \A x \in Live : weh'[x] = "upstream" => up[x]
    BY <1>2, <1>6, <2>1 DEF Served, Going, Handled
  <2>4. \A x \in Reqs : up[x] => x \in Live /\ weh'[x] = "upstream"
    BY <1>2, <1>6 DEF Served, Going, Handled
  <2>5. \A x \in Reqs : weh'[x] # "terminate"
    BY <1>6 DEF Served, Going, Handled
  <2>6. \A x \in Reqs : x > made => ~done[x] /\ weh'[x] = "run"
    BY <1>2, <1>6, LiveIs DEF Served, Going, Handled, Reqs
  <2>7. run'.step = "unwind" => run'.r = r /\ weh'[r] = "writer"
    BY <1>2, <1>3, <1>6
  <2> QED BY <1>2, <1>3, <1>9, <2>2, <2>3, <2>4, <2>5, <2>6, <2>7 DEF Handled
<1>11. r = data => postponed[r] = <<>> /\ (r = Main /\ buffered => ~ready)
  BY <1>1, <1>2 DEF Shape, Outputs
<1>12. Awaited'
  <2>1. CASE r = data
    BY <1>4, <1>6, <1>11, <1>2, <2>1 DEF Awaited
  <2>2. CASE r # data
    <3>1. data \in Reqs BY Running, LiveIs DEF Served
    <3>2. weh'[data] = weh[data] BY <1>6, <2>2, <3>1
    <3> QED BY <1>3, <1>4, <2>2, <3>2 DEF Served, Going, Awaited
  <2> QED BY <2>1, <2>2
<1>13. Outputs(C)'
  <2>0. \A x \in Live : x \in Reqs BY LiveIs DEF Served
  <2>1. \A x \in Live : Over(x)' => Over(x)
    BY <1>2, <1>3, <1>4, <1>6, <2>0 DEF Over
  <2>2. \A x \in Live : weh'[x] = "finalizer" => weh[x] = "finalizer"
    BY <1>6, <2>0
  <2>3. C \subseteq Live BY <1>1 DEF Shape, Chain
  <2> QED BY <1>1, <1>3, <1>4, <1>9, <2>1, <2>2, <2>3 DEF Shape, Outputs
<1>14. count' = count + run'.owed - run.owed
  BY <1>2, <1>3, <1>9 DEF Served, TypeOK
<1> QED
  BY <1>1, <1>3, <1>4, <1>5, <1>7, <1>8, <1>9, <1>10, <1>12, <1>13, <1>14, Quiet

-----------------------------------------------------------------------------
(* A handler is called.                                                     *)

LEMMA CallIs ==
  ASSUME Served, run = NoRun, NEW h \in Live, CallWriteHandler(h),
         UNCHANGED <<made, done, up, reh>>
  PROVE  /\ Called' /\ run'.r = h /\ run'.owed = 0
         /\ run' \in [r : Reqs \cup {NoReq}, step : Step, owed : Nat]
         /\ \/ run'.step = "gen" /\ weh[h] \in {"run", "upstream"}
            \/ run'.step = "flush" /\ weh[h] = "writer"
            \/ run'.step = "final" /\ weh[h] = "finalizer"
         /\ weh' \in [Reqs -> {"run", "upstream", "empty", "writer",
                               "finalizer", "terminate"}]
         /\ \A x \in Reqs : weh'[x] = weh[x]
                            \/ (x = h /\ weh[h] = "run" /\ weh'[h] = "empty")
         /\ UNCHANGED <<count, freed>>
         /\ RunInv' /\ Handled'
<1>0. h \in Reqs /\ \A x \in Live : x \in Reqs BY LiveIs DEF Served
<1>1. NoReq \notin Reqs /\ ~Called /\ run.r = NoReq /\ run.step = "none"
  BY Running DEF NoRun, Called
<1>2. weh[h] \notin {"terminate", "empty"} /\ (weh[h] = "upstream" => up[h])
  BY <1>0, <1>1 DEF Served, Going, Handled
<1>3. /\ \/ run' = [r |-> h, step |-> "gen", owed |-> 0] /\ weh[h] \in {"run", "upstream"}
         \/ run' = [r |-> h, step |-> "flush", owed |-> 0] /\ weh[h] = "writer"
         \/ run' = [r |-> h, step |-> "final", owed |-> 0] /\ weh[h] = "finalizer"
      /\ weh' = weh \/ (weh[h] = "run" /\ weh' = [weh EXCEPT ![h] = "empty"])
      /\ UNCHANGED <<count, freed>>
  <2>1. CASE weh[h] = "run" BY <2>1 DEF CallWriteHandler
  <2>2. CASE weh[h] = "upstream" BY <1>2, <2>2 DEF CallWriteHandler
  <2>3. CASE weh[h] = "writer" BY <2>3 DEF CallWriteHandler
  <2>4. CASE weh[h] = "finalizer" BY <2>4 DEF CallWriteHandler
  <2>5. weh[h] \in {"run", "upstream", "writer", "finalizer"}
    BY <1>0, <1>2 DEF Served, TypeOK
  <2> QED BY <2>1, <2>2, <2>3, <2>4, <2>5
<1>4. /\ weh' \in [Reqs -> {"run", "upstream", "empty", "writer", "finalizer", "terminate"}]
      /\ \A x \in Reqs : weh'[x] = weh[x]
                         \/ (x = h /\ weh[h] = "run" /\ weh'[h] = "empty")
  <2>0. weh \in [Reqs -> {"run", "upstream", "empty", "writer", "finalizer", "terminate"}]
    BY DEF Served, TypeOK
  <2>1. CASE weh' = weh BY <2>0, <2>1
  <2>2. CASE weh[h] = "run" /\ weh' = [weh EXCEPT ![h] = "empty"]
    BY <1>0, <2>0, <2>2
  <2> QED BY <1>3, <2>1, <2>2
<1>5. run' \in [r : Reqs \cup {NoReq}, step : Step, owed : Nat]
  BY <1>0, <1>3 DEF Step
<1>6. /\ run'.r = h /\ run'.owed = 0 /\ Called'
      /\ \/ run'.step = "gen" /\ weh[h] \in {"run", "upstream"}
         \/ run'.step = "flush" /\ weh[h] = "writer"
         \/ run'.step = "final" /\ weh[h] = "finalizer"
  BY <1>3 DEF Called
<1>7. up[h] => weh[h] = "upstream" BY <1>0 DEF Served, Going, Handled
<1>8. RunInv'
  BY <1>0, <1>4, <1>6, <1>7 DEF RunInv
<1>9. Live' = Live BY DEF Live
<1>10. Handled'
  <2>1. \A x \in Live : weh'[x] = "empty" => x = h
    BY <1>0, <1>1, <1>4 DEF Served, Going, Handled
  <2>2. \A x \in Live : weh'[x] = "upstream" => up[x]
    BY <1>0, <1>1, <1>4 DEF Served, Going, Handled
  <2>3. \A x \in Reqs : up[x] => x \in Live /\ weh'[x] = "upstream"
    BY <1>0, <1>4 DEF Served, Going, Handled
  <2>4. \A x \in Reqs : weh'[x] # "terminate"
    BY <1>4 DEF Served, Going, Handled
  <2>5. \A x \in Reqs : x > made => ~done[x] /\ weh'[x] = "run"
    <3>1. \A x \in Reqs : x > made => x # h BY LiveIs DEF Served, Reqs
    <3> QED BY <1>4, <3>1 DEF Served, Going, Handled
  <2> QED BY <1>6, <1>9, <2>1, <2>2, <2>3, <2>4, <2>5 DEF Handled
<1> QED BY <1>3, <1>4, <1>5, <1>6, <1>8, <1>10

LEMMA ClientWritableServed ==
  ASSUME Served, ClientWritable PROVE Served'
<1>1. PICK C \in SUBSET Reqs : Shape(C) BY DEF Served, Going
<1>2. Waiting /\ run = NoRun /\ data \in Live /\ CallWriteHandler(data)
  BY Idle DEF ClientWritable, Waiting
<1>3. UNCHANGED <<made, parent, done, postponed, reh, up, data, posted, cerror,
                  buffered, content, sent, killed, holds>>
  BY DEF ClientWritable, history
<1>4. /\ Called' /\ run'.r = data /\ run'.owed = 0
      /\ run' \in [r : Reqs \cup {NoReq}, step : Step, owed : Nat]
      /\ \/ run'.step = "gen" /\ weh[data] \in {"run", "upstream"}
         \/ run'.step = "flush" /\ weh[data] = "writer"
         \/ run'.step = "final" /\ weh[data] = "finalizer"
      /\ weh' \in [Reqs -> {"run", "upstream", "empty", "writer",
                            "finalizer", "terminate"}]
      /\ \A x \in Reqs : weh'[x] = weh[x]
                         \/ (x = data /\ weh[data] = "run" /\ weh'[data] = "empty")
      /\ UNCHANGED <<count, freed>>
      /\ RunInv' /\ Handled'
  BY <1>2, <1>3, CallIs
<1>5. weh[data] \in {"upstream", "writer"} /\ data \in Reqs
  BY <1>2, Idle DEF Served, Going, Handled
<1>6. \A x \in Reqs : weh'[x] = weh[x] BY <1>4, <1>5
<1>7. TypeOK'
  <2>1. ready' \in BOOLEAN BY DEF ClientWritable
  <2> QED BY <1>3, <1>4, <2>1 DEF Served, TypeOK
<1>8. \A x : Fresh(x)' <=> Fresh(x)
  <2>1. \A x : ~Fresh(x) BY <1>2, Idle
  <2>2. Subs' = Subs /\ Subs \subseteq Reqs BY <1>3, LiveIs DEF Served, Subs
  <2>3. \A x \in Subs : ~done[x] => weh[x] # "run" BY <1>2, Idle
  <2>4. \A x : ~Fresh(x)' BY <1>3, <1>6, <2>2, <2>3 DEF Fresh
  <2> QED BY <2>1, <2>4
<1>9. Awaited' BY <1>3, <1>4 DEF Awaited
<1>10. Outputs(C)'
  <2>1. Live' = Live BY <1>3 DEF Live
  <2>2. \A x \in Live : x \in Reqs BY LiveIs DEF Served
  <2>3. \A x \in Live : Over(x)' => Over(x)
    BY <1>3, <1>4, <1>5, <1>6, <2>2 DEF Over
  <2>4. C \subseteq Live BY <1>1 DEF Shape, Chain
  <2>5. run'.step \notin {"wrote", "final"} BY <1>4, <1>5
  <2> QED BY <1>1, <1>3, <1>6, <2>1, <2>2, <2>3, <2>4, <2>5 DEF Shape, Outputs
<1>11. ~Queued(posted, data) BY <1>2, Idle
<1>12. count' = count + run'.owed - run.owed
  BY <1>2, <1>4, Idle DEF Served, TypeOK
<1> QED
  BY <1>1, <1>3, <1>4, <1>7, <1>8, <1>9, <1>10, <1>11, <1>12, Quiet

LEMMA RunPostedServed ==
  ASSUME Served, RunPosted PROVE Served'
<1>1. PICK C \in SUBSET Reqs : Shape(C) BY DEF Served, Going
<1> DEFINE h == Head(posted)
<1>2. run = NoRun /\ posted # <<>> /\ posted' = Tail(posted) /\ CallWriteHandler(h)
  BY DEF RunPosted
<1>3. UNCHANGED <<made, parent, done, postponed, reh, up, data, cerror, buffered,
                  ready, content, sent, killed, holds>>
  BY DEF RunPosted, history
<1>4. posted \in Seq(Reqs) BY DEF Served, TypeOK
<1>5. /\ posted' \in Seq(Reqs) /\ h \in Reqs /\ Queued(posted, h)
      /\ \A x : Queued(posted', x) => Queued(posted, x)
      /\ \A x : x # h => (Queued(posted', x) <=> Queued(posted, x))
      /\ Queued(posted', h) => Twice(posted, h)
      /\ \A x : Twice(posted', x) => Twice(posted, x)
      /\ \A x, y : x # y /\ After(posted', x, y) => After(posted, x, y)
      /\ \A x, y : x # y /\ y # h /\ Queued(posted, y) /\ After(posted, x, y)
                     => After(posted', x, y)
      /\ \A x : x # h => ~After(posted, h, x) \/ Queued(posted', h) \/ ~Queued(posted, x)
  BY <1>2, <1>4, Popped
<1>6. h \in Live BY <1>1, <1>5 DEF Shape, Calls
<1>7. /\ Called' /\ run'.r = h /\ run'.owed = 0
      /\ run' \in [r : Reqs \cup {NoReq}, step : Step, owed : Nat]
      /\ \/ run'.step = "gen" /\ weh[h] \in {"run", "upstream"}
         \/ run'.step = "flush" /\ weh[h] = "writer"
         \/ run'.step = "final" /\ weh[h] = "finalizer"
      /\ weh' \in [Reqs -> {"run", "upstream", "empty", "writer",
                            "finalizer", "terminate"}]
      /\ \A x \in Reqs : weh'[x] = weh[x]
                         \/ (x = h /\ weh[h] = "run" /\ weh'[h] = "empty")
      /\ UNCHANGED <<count, freed>>
      /\ RunInv' /\ Handled'
  BY <1>2, <1>3, <1>6, CallIs
<1> HIDE DEF h
<1>8. TypeOK' BY <1>3, <1>5, <1>7 DEF Served, TypeOK
<1>9. /\ Live' = Live /\ Subs' = Subs /\ Subs \subseteq Reqs /\ Live \subseteq Reqs
      /\ NoReq \notin Reqs /\ run.r = NoReq /\ ~Called /\ run.owed = 0
  BY <1>2, <1>3, LiveIs, Running DEF Served, Live, Subs, NoRun, Called
<1>10. \A x : Fresh(x)' <=> Fresh(x) /\ x # h
  BY <1>3, <1>7, <1>9 DEF Fresh
<1>11. Chain(C)' /\ Places(C)' /\ Tree'
  BY <1>1, <1>3, <1>9 DEF Shape, Chain, Places, Served, Going, Tree
<1>12. \A r : Old(r, C) => Old(r, C)'
  BY <1>3, <1>9, <1>10 DEF Old
<1> USE DEF Subs
<1>13. FreshOrder'
  <2>1. ASSUME NEW x \in Subs, NEW y \in Subs, Fresh(x), x # h, x < y, ~done[y]
        PROVE  Fresh(y) /\ y # h
    <3>1. Fresh(y) BY <2>1 DEF Served, Going, FreshOrder
    <3>2. ASSUME y = h PROVE FALSE
      <4>1. After(posted, h, x) /\ Queued(posted, x) /\ ~Twice(posted, h)
        BY <2>1, <3>1, <3>2 DEF Served, Going, FreshOrder
      <4> QED BY <1>5, <2>1, <4>1
    <3> QED BY <3>1, <3>2
  <2>2. ASSUME NEW x \in Subs, Fresh(x), x # h
        PROVE  Queued(posted', x) /\ ~Twice(posted', x) /\ \A y \in Subs : parent[y] # x
    BY <1>5, <2>2 DEF Served, Going, FreshOrder
  <2>3. ASSUME NEW x \in Subs, NEW y \in Subs, Fresh(x), x # h, Fresh(y), x < y
        PROVE  After(posted', y, x)
    <3>1. After(posted, y, x) /\ Queued(posted, x) /\ x # y
      BY <1>9, <2>3 DEF Served, Going, FreshOrder, Reqs
    <3> QED BY <1>5, <2>3, <3>1
  <2> HIDE DEF Subs
  <2> QED BY <1>3, <1>9, <1>10, <2>1, <2>2, <2>3 DEF FreshOrder
<1> HIDE DEF Subs
<1>14. ~Fresh(h) \/ ~Queued(posted', h)
  BY <1>5 DEF Served, Going, FreshOrder, Fresh
<1>15. Calls(C)'
  <2>1. \A r \in Reqs : Queued(posted', r) => r \in Live
    BY <1>1, <1>5 DEF Shape, Calls
  <2>2. ASSUME NEW r \in Live \ C, Queued(posted', r), ~Fresh(r)' PROVE Old(r, C)'
    <3>1. ~Fresh(r) BY <1>10, <1>14, <2>2
    <3> QED BY <1>1, <1>5, <1>12, <2>2, <3>1 DEF Shape, Calls
  <2>3. ASSUME data # Main, After(posted', parent[data], data) PROVE Old(parent[data], C)'
    <3>1. data \in Subs BY <2>3, Running, LiveIs DEF Served
    <3>2. parent[data] # data BY <3>1, ParentIs DEF Served, Going
    <3>3. After(posted, parent[data], data) BY <1>5, <2>3, <3>2
    <3>4. Old(parent[data], C) BY <1>1, <2>3, <3>3 DEF Shape, Calls
    <3> QED BY <1>3, <1>12, <3>4
  <2>4. ASSUME Twice(posted', data) PROVE Old(data, C)'
    <3>1. Old(data, C) BY <1>1, <1>5, <2>4 DEF Shape, Calls
    <3> QED BY <1>3, <1>12, <3>1
  <2>5. ASSUME h = data, Queued(posted', data) PROVE Old(data, C)'
    <3>1. Twice(posted, data) BY <1>5, <2>5
    <3>2. Old(data, C) BY <1>1, <3>1 DEF Shape, Calls
    <3> QED BY <1>3, <1>12, <3>2
  <2>6. ASSUME NEW x \in Subs, Fresh(x), x # h, parent[x] = data PROVE After(posted', data, x)
    <3>1. After(posted, data, x) /\ Queued(posted, x)
      BY <1>1, <2>6 DEF Shape, Calls, Served, Going, FreshOrder
    <3>2. data # x BY <2>6, ParentIs DEF Served, Going
    <3> QED BY <1>5, <2>6, <3>1, <3>2
  <2> QED BY <1>3, <1>7, <1>9, <1>10, <2>1, <2>2, <2>3, <2>4, <2>5, <2>6 DEF Calls
<1>16. Outputs(C)'
  <2>1. \A x \in Live : Over(x)' => Over(x)
    BY <1>3, <1>7, <1>9 DEF Over
  <2>2. C \subseteq Live BY <1>1 DEF Shape, Chain
  <2>3. \A x \in Live : weh'[x] = "finalizer" => weh[x] = "finalizer"
    BY <1>7, <1>9
  <2>4. run'.step # "wrote" /\ (run'.step = "final" => weh[h] = "finalizer")
    BY <1>7
  <2>5. weh[h] = "finalizer" => postponed[h] = <<>> /\ h # Main
    BY <1>1, <1>6 DEF Shape, Outputs
  <2> QED BY <1>1, <1>3, <1>7, <1>9, <2>1, <2>2, <2>3, <2>4, <2>5 DEF Shape, Outputs
<1>17. Produced' BY <1>3, <1>9 DEF Served, Going, Produced
<1>18. Awaited'
  <2>1. CASE h = data BY <1>3, <1>7, <2>1 DEF Awaited
  <2>2. CASE h # data
    <3>1. data \in Reqs BY Running, <1>9
    <3>2. weh'[data] = weh[data] BY <1>7, <2>2, <3>1
    <3> QED BY <1>3, <1>5, <1>9, <2>2, <3>2 DEF Served, Going, Awaited
  <2> QED BY <2>1, <2>2
<1>19. count' = Cardinality(Live') + run'.owed
  BY <1>7, <1>9 DEF Served, Going
<1>20. Shape(C)' BY <1>11, <1>15, <1>16 DEF Shape
<1>21. Going' BY <1>7, <1>11, <1>13, <1>17, <1>18, <1>19, <1>20 DEF Going
<1> QED BY <1>3, <1>7, <1>8, <1>21 DEF Served

-----------------------------------------------------------------------------
(* The end of the request.                                                  *)

(* The running handler goes back to those that called it.                   *)
LEMMA Returns ==
  ASSUME Served, Return
  PROVE  /\ run' \in [r : Reqs \cup {NoReq}, step : Step, owed : Nat]
         /\ ~Called' /\ run'.owed = run.owed /\ RunInv'
         /\ run' = NoRun \/ (run'.step = "unwind" /\ run'.r = run.r /\ run.owed > 0)
<1>1. run \in [r : Reqs \cup {NoReq}, step : Step, owed : Nat]
  BY Running
<1>2. CASE run.owed > 0
  <2>1. run' = [r |-> run.r, step |-> "unwind", owed |-> run.owed]
    BY <1>1, <1>2 DEF Return
  <2> QED BY <1>1, <1>2, <2>1 DEF RunInv, Called, Step
<1>3. CASE ~(run.owed > 0)
  <2>1. run' = [r |-> NoReq, step |-> "none", owed |-> 0] /\ run' = NoRun
    BY <1>3 DEF Return, NoRun
  <2>2. run.owed = 0 BY <1>1, <1>3
  <2> QED BY <2>1, <2>2 DEF RunInv, Called, Step
<1> QED BY <1>2, <1>3

(* Each upstream gives a reference back, one more than these is left.       *)
LEMMA TerminateKills ==
  ASSUME Served, Terminate, NEW z \in Live, ~up[z]
  PROVE  IInv'
<1> DEFINE k == Cardinality(Upstreams)
<1>1. /\ run' \in [r : Reqs \cup {NoReq}, step : Step, owed : Nat]
      /\ ~Called' /\ run'.owed = run.owed /\ RunInv'
  BY Returns DEF Terminate
<1>2. k \in Nat /\ k <= Cardinality(Live) - 1 /\ Cardinality(Live) \in Nat
  <2>1. IsFiniteSet(Live) /\ Cardinality(Live) \in Nat BY LiveIs DEF Served
  <2>2. Upstreams \subseteq Live \ {z}
    BY UpstreamsAre DEF Served, Going, Handled
  <2>3. IsFiniteSet(Live \ {z}) /\ Cardinality(Live \ {z}) = Cardinality(Live) - 1
    BY <2>1, FS_RemoveElement
  <2>4. IsFiniteSet(Upstreams) /\ Cardinality(Upstreams) <= Cardinality(Live \ {z})
    BY <2>2, <2>3, FS_Subset
  <2>5. Cardinality(Upstreams) \in Nat BY <2>4, FS_CardinalityType
  <2> QED BY <2>1, <2>3, <2>4, <2>5
<1>3. count' = count - k /\ freed' = (k >= count)
  BY DEF Terminate
<1> HIDE DEF k
<1>4. run.owed \in Nat /\ count = Cardinality(Live) + run.owed
  BY DEF Served, TypeOK, Going
<1>5. count' \in Nat /\ count' >= 1 + run'.owed /\ freed' = FALSE
  <2>1. count - k \in Nat /\ count - k >= 1 + run.owed /\ ~(k >= count)
    BY <1>2, <1>4
  <2>2. (k >= count) = FALSE BY <2>1
  <2> QED BY <1>1, <1>3, <2>1, <2>2
<1>6. /\ up' = [r \in Reqs |-> FALSE] /\ posted' = <<Main>> /\ killed' = TRUE
      /\ weh' = [weh EXCEPT ![Main] = "terminate"]
      /\ UNCHANGED <<made, parent, done, postponed, reh, data, cerror, buffered,
                     ready, content, sent, holds>>
  BY DEF Terminate, history
<1>7. Main \in Reqs BY Running
<1>8. TypeOK'
  <2>1. posted' \in Seq(Reqs) BY <1>6, <1>7
  <2>2. weh' \in [Reqs -> {"run", "upstream", "empty", "writer", "finalizer", "terminate"}]
    BY <1>6 DEF Served, TypeOK
  <2>3. up' \in [Reqs -> BOOLEAN] BY <1>6
  <2> QED BY <1>1, <1>5, <1>6, <2>1, <2>2, <2>3 DEF Served, TypeOK
<1>9. Upstreams' = {} BY <1>6, UpstreamsAre
<1>10. weh'[Main] = "terminate" BY <1>6, <1>7 DEF Served, TypeOK
<1>11. Killed' BY <1>1, <1>5, <1>6, <1>9, <1>10 DEF Killed, Called
<1> QED BY <1>1, <1>5, <1>6, <1>8, <1>11 DEF IInv

(* When the main request ends nothing is left of its subrequests.          *)
LEMMA EndMainEnds ==
  ASSUME Served, Finalize, ~cerror, Return, UNCHANGED <<history, killed, holds>>,
         EndMain, run.r = Main, data = Main, postponed[Main] = <<>>
  PROVE  IInv'
<1>1. PICK C \in SUBSET Reqs : Shape(C) BY DEF Served, Going
<1>2. run.step = "final" /\ ~up[Main] /\ Main \in Reqs /\ Main \in Live
  BY Running DEF Finalize, Served, RunInv
<1>3. \A x : x \notin Live \ {Main}
  <2> SUFFICES ASSUME Live \ {Main} # {} PROVE FALSE
    OBVIOUS
  <2>1. Live \ {Main} \subseteq Nat BY LiveIs DEF Served, Reqs
  <2>2. PICK b \in Live \ {Main} : \A x \in Live \ {Main} : b <= x
    BY <2>1, LeastNat
  <2>3. b \in Subs /\ ~done[b] BY <2>2, LiveIs DEF Served
  <2>4. parent[b] \in Live /\ parent[b] \in Reqs /\ parent[b] < b /\ b \in Reqs
    BY <2>3, ParentIs DEF Served, Going
  <2>5. parent[b] = Main
    <3> SUFFICES ASSUME parent[b] # Main PROVE FALSE
      OBVIOUS
    <3>1. b <= parent[b] BY <2>2, <2>4
    <3> QED BY <2>4, <3>1 DEF Reqs
  <2>6. b \notin C BY <1>1, <2>2, <2>5 DEF Shape, Chain
  <2>7. HasPlace(postponed[Main], b) BY <1>1, <2>3, <2>5, <2>6 DEF Shape, Places
  <2> QED BY <2>7 DEF HasPlace
<1>4. Live = {Main} BY <1>2, <1>3
<1>5. Cardinality(Live) = 1 BY <1>4, FS_Singleton
<1>6. /\ run' \in [r : Reqs \cup {NoReq}, step : Step, owed : Nat]
      /\ ~Called' /\ run'.owed = run.owed /\ RunInv'
      /\ run' = NoRun \/ (run'.step = "unwind" /\ run'.r = run.r /\ run.owed > 0)
  BY Returns
<1>7. /\ done' = [done EXCEPT ![Main] = TRUE] /\ weh' = [weh EXCEPT ![Main] = "empty"]
      /\ count' = count - 1 /\ freed' = (count = 1)
      /\ UNCHANGED <<made, parent, postponed, reh, up, data, posted, cerror, buffered,
                     ready, content, sent, killed, holds>>
  BY DEF EndMain, connection, history
<1>8. run.owed \in Nat /\ count = 1 + run.owed
  BY <1>5 DEF Served, TypeOK, Going
<1>9. count' = run'.owed /\ count' \in Nat /\ (freed' <=> run.owed = 0)
  <2>1. count - 1 = run.owed /\ (count = 1 <=> run.owed = 0) BY <1>8
  <2> QED BY <1>6, <1>7, <1>8, <2>1
<1>10. TypeOK'
  <2>1. done' \in [Reqs -> BOOLEAN]
        /\ weh' \in [Reqs -> {"run", "upstream", "empty", "writer", "finalizer", "terminate"}]
    BY <1>7 DEF Served, TypeOK
  <2>2. freed' \in BOOLEAN BY <1>7
  <2> QED BY <1>6, <1>7, <1>9, <2>1, <2>2 DEF Served, TypeOK
<1>11. done'[Main] /\ \A x : x \notin Live'
  <2>1. \A x \in Reqs : done'[x] <=> x = Main \/ done[x]
    BY <1>7 DEF Served, TypeOK
  <2>2. \A x : x \in Live' => x \in Reqs /\ x <= made /\ ~done'[x]
    BY <1>7, <1>10, LiveNext
  <2>3. \A x : x \in Live' => x \in Live /\ x # Main
    BY <2>1, <2>2, LiveIs DEF Served
  <2> QED BY <1>2, <1>3, <2>1, <2>3
<1>12. \A r : r \notin Upstreams'
  <2>1. \A r \in Reqs : up[r] => r \in Live BY DEF Served, Going, Handled
  <2> QED BY <1>2, <1>4, <1>7, <2>1, UpstreamsAre
<1>13. Live' = {} /\ Upstreams' = {} BY <1>11, <1>12
<1>14. Ended' BY <1>6, <1>9, <1>13 DEF Ended, Called
<1>15. freed' => run' = NoRun /\ count' = 0
  BY <1>6, <1>8, <1>9
<1>16. ~freed' => count' > 0 BY <1>6, <1>8, <1>9
<1>17. ~killed' BY <1>7 DEF Served
<1> QED BY <1>6, <1>10, <1>11, <1>13, <1>14, <1>15, <1>16, <1>17 DEF IInv

(* A subrequest ends whose turn has not come.                               *)
LEMMA EndInactiveServed ==
  ASSUME Served, Finalize, ~cerror, Return, UNCHANGED <<history, killed, holds>>,
         EndInactive(run.r), postponed[run.r] = <<>>, run.r # Main, run.r # data
  PROVE  Served'
<1>1. PICK C \in SUBSET Reqs : Shape(C) BY DEF Served, Going
<1>2. PICK r : r = run.r OBVIOUS
<1>3. PICK p : p = parent[r] OBVIOUS
<1>4. /\ r \in Live /\ r \in Reqs /\ ~up[r] /\ run.step = "final" /\ Called /\ Over(r)
      /\ NoReq \notin Reqs
  BY <1>2, Running DEF Served, RunInv, Called, Finalize, Over
<1>5. r \in Subs /\ ~done[r] /\ r # Main /\ r # data /\ postponed[r] = <<>>
  BY <1>2, <1>4, LiveIs DEF Served
<1>6. p \in Reqs /\ p \in Live /\ p # r
  BY <1>3, <1>5, ParentIs DEF Served, Going
<1>7. r \notin C BY <1>1, <1>4, <1>5 DEF Shape, Outputs
<1>8. /\ weh' = [weh EXCEPT ![r] = "finalizer"] /\ posted' = Append(posted, p)
      /\ UNCHANGED <<made, parent, done, postponed, reh, up, data, cerror, buffered,
                     ready, content, sent, count, freed, killed, holds>>
  BY <1>2, <1>3 DEF EndInactive, history
<1>9. /\ run' \in [r : Reqs \cup {NoReq}, step : Step, owed : Nat]
      /\ ~Called' /\ run'.owed = run.owed /\ RunInv'
      /\ run' = NoRun \/ (run'.step = "unwind" /\ run'.r = r)
  BY <1>2, Returns
<1>10. posted \in Seq(Reqs) BY DEF Served, TypeOK
<1>11. /\ posted' \in Seq(Reqs)
       /\ \A x : Queued(posted', x) <=> Queued(posted, x) \/ x = p
       /\ \A x : Twice(posted', x) <=> Twice(posted, x) \/ (x = p /\ Queued(posted, x))
       /\ \A y : y # p => After(posted', p, y)
       /\ \A x : x # p => ~After(posted', x, p)
       /\ \A x, y : x # p /\ y # p => (After(posted', x, y) <=> After(posted, x, y))
  BY <1>6, <1>8, <1>10, Appended
<1>12. \A x \in Reqs : weh'[x] = IF x = r THEN "finalizer" ELSE weh[x]
  BY <1>8 DEF Served, TypeOK
<1>13. TypeOK'
  <2>1. weh' \in [Reqs -> {"run", "upstream", "empty", "writer", "finalizer", "terminate"}]
    BY <1>8 DEF Served, TypeOK
  <2> QED BY <1>8, <1>9, <1>11, <2>1 DEF Served, TypeOK
<1>14. Live' = Live /\ Subs' = Subs /\ Subs \subseteq Reqs /\ Live \subseteq Reqs
  BY <1>8, LiveIs DEF Live, Subs, Served
<1>15. \A x : Fresh(x)' <=> Fresh(x)
  <2>1. run'.r = r \/ run'.r = NoReq BY <1>9 DEF NoRun
  <2> QED BY <1>2, <1>4, <1>8, <1>12, <1>14, <2>1 DEF Fresh
<1>16. ~Fresh(r) /\ ~Fresh(p)
  <2>1. ~Fresh(p) BY <1>3, <1>5 DEF Served, Going, FreshOrder, Fresh
  <2> QED BY <1>2, <2>1 DEF Fresh
<1>17. \A x : Old(x, C)' <=> Old(x, C)
  BY <1>8, <1>14, <1>15 DEF Old
<1>18. Old(p, C)'
  <2>1. Old(p, C) BY <1>3, <1>5, <1>7, <1>16 DEF Old
  <2> QED BY <1>17, <2>1
<1>19. Chain(C)' /\ Places(C)' /\ Tree' /\ Produced'
  BY <1>1, <1>8, <1>14 DEF Shape, Chain, Places, Served, Going, Tree, Produced
<1>20. FreshOrder'
  <2>1. \A x \in Subs : Fresh(x) => Queued(posted', x) /\ ~Twice(posted', x)
    BY <1>11, <1>16 DEF Served, Going, FreshOrder
  <2>2. \A x, y \in Subs : Fresh(x) /\ Fresh(y) /\ x < y => After(posted', y, x)
    BY <1>11, <1>16 DEF Served, Going, FreshOrder
  <2> QED BY <1>8, <1>14, <1>15, <2>1, <2>2 DEF FreshOrder, Served, Going
<1>21. Calls(C)'
  <2>1. \A x \in Reqs : Queued(posted', x) => x \in Live
    BY <1>1, <1>6, <1>11 DEF Shape, Calls
  <2>2. ASSUME NEW x \in Live \ C, Queued(posted', x), ~Fresh(x) PROVE Old(x, C)'
    <3>1. CASE x = p BY <1>18, <3>1
    <3>2. CASE x # p
      <4>1. Old(x, C) BY <1>1, <1>11, <2>2, <3>2 DEF Shape, Calls
      <4> QED BY <1>17, <4>1
    <3> QED BY <3>1, <3>2
  <2>3. ASSUME data # Main, After(posted', parent[data], data) PROVE Old(parent[data], C)'
    <3>1. CASE parent[data] = p BY <1>8, <1>18, <3>1
    <3>2. CASE parent[data] # p
      <4>1. After(posted, parent[data], data) BY <1>11, <2>3, <3>2
      <4>2. Old(parent[data], C) BY <1>1, <2>3, <4>1 DEF Shape, Calls
      <4> QED BY <1>8, <1>17, <4>2
    <3> QED BY <3>1, <3>2
  <2>4. ASSUME Twice(posted', data) PROVE Old(data, C)'
    <3>1. CASE data = p BY <1>8, <1>18, <3>1
    <3>2. CASE data # p
      <4>1. Old(data, C) BY <1>1, <1>11, <2>4, <3>2 DEF Shape, Calls
      <4> QED BY <1>8, <1>17, <4>1
    <3> QED BY <3>1, <3>2
  <2>5. ASSUME NEW x \in Subs, Fresh(x), parent[x] = data PROVE After(posted', data, x)
    <3>1. x # p BY <1>16, <2>5
    <3>2. CASE data = p BY <1>11, <3>1, <3>2
    <3>3. CASE data # p
      <4>1. After(posted, data, x) BY <1>1, <2>5 DEF Shape, Calls
      <4> QED BY <1>11, <3>1, <3>3, <4>1
    <3> QED BY <3>2, <3>3
  <2> QED BY <1>8, <1>9, <1>14, <1>15, <2>1, <2>2, <2>3, <2>4, <2>5 DEF Calls
<1>22. Outputs(C)'
  <2>1. \A x \in Live : Over(x)' => Over(x)
    BY <1>4, <1>8, <1>9, <1>12, <1>14 DEF Over, Called, NoRun
  <2>2. C \subseteq Live BY <1>1 DEF Shape, Chain
  <2>3. \A x \in Live : weh'[x] = "finalizer" => weh[x] = "finalizer" \/ x = r
    BY <1>12, <1>14
  <2> QED BY <1>1, <1>5, <1>8, <1>9, <1>14, <2>1, <2>2, <2>3 DEF Shape, Outputs
<1>23. Awaited'
  <2>1. data \in Reqs BY Running, <1>14
  <2>2. weh'[data] = weh[data] BY <1>5, <1>12, <2>1
  <2> QED BY <1>2, <1>5, <1>8, <1>11, <2>2 DEF Served, Going, Awaited
<1>24. Handled'
  <2>1. \A x \in Live : weh'[x] # "empty"
    BY <1>2, <1>12, <1>14 DEF Served, Going, Handled
  <2>2. \A x \in Live : weh'[x] = "upstream" => up[x]
    BY <1>2, <1>12, <1>14 DEF Served, Going, Handled
  <2>3. \A x \in Reqs : up[x] => x \in Live /\ weh'[x] = "upstream"
    BY <1>4, <1>12 DEF Served, Going, Handled
  <2>4. \A x \in Reqs : weh'[x] # "terminate"
    BY <1>12 DEF Served, Going, Handled
  <2>5. \A x \in Reqs : x > made => ~done[x] /\ weh'[x] = "run"
    <3>1. \A x \in Reqs : x > made => x # r BY <1>4, LiveIs DEF Served, Reqs
    <3> QED BY <1>12, <3>1 DEF Served, Going, Handled
  <2>6. run'.step = "unwind" => run'.r = r /\ weh'[r] # "run"
    BY <1>4, <1>9, <1>12 DEF NoRun
  <2> QED BY <1>4, <1>8, <1>9, <1>14, <2>1, <2>2, <2>3, <2>4, <2>5, <2>6 DEF Handled
<1>25. count' = Cardinality(Live') + run'.owed
  BY <1>8, <1>9, <1>14 DEF Served, Going
<1>26. Shape(C)' BY <1>19, <1>21, <1>22 DEF Shape
<1>27. Going' BY <1>19, <1>20, <1>23, <1>24, <1>25, <1>26 DEF Going
<1> QED BY <1>8, <1>9, <1>13, <1>27 DEF Served

(* The active subrequest ends, its parent is active again.                  *)
LEMMA EndActiveServed ==
  ASSUME Served, Finalize, ~cerror, Return, UNCHANGED <<history, killed, holds>>,
         EndActive(run.r), postponed[run.r] = <<>>, run.r # Main, run.r = data
  PROVE  Served'
<1>1. PICK C \in SUBSET Reqs : Shape(C) BY DEF Served, Going
<1>2. PICK c : c = data OBVIOUS
<1>3. PICK p : p = parent[c] OBVIOUS
<1>4. PICK D : D = C \ {c} OBVIOUS
<1>5. /\ c \in Live /\ c \in Reqs /\ ~up[c] /\ run.step = "final" /\ Called
      /\ NoReq \notin Reqs /\ run.r = c /\ postponed[c] = <<>> /\ c # Main
  BY <1>2, Running DEF Served, RunInv, Called, Finalize
<1>6. c \in Subs /\ ~done[c]
  BY <1>5, LiveIs DEF Served
<1>7. p \in Reqs /\ p \in Live /\ p # c
  BY <1>3, <1>6, ParentIs DEF Served, Going
<1>8. /\ c \in C /\ p \in C /\ p \in D /\ Main \in D /\ D \in SUBSET Reqs /\ C \subseteq Live
      /\ \A x \in C : parent[x] = p /\ x # Main => x = c
      /\ \A x \in C : x # Main => parent[x] # c
  BY <1>1, <1>2, <1>3, <1>4, <1>5, <1>7 DEF Shape, Chain
<1>9. PICK Q : Q = IF postponed[p] # <<>> /\ postponed[p][1] = <<c, 0>>
                   THEN Tail(postponed[p]) ELSE postponed[p]
  OBVIOUS
<1>10. /\ count' = count - 1 /\ done' = [done EXCEPT ![c] = TRUE]
       /\ postponed' = [postponed EXCEPT ![p] = Q]
       /\ data' = p /\ posted' = Append(posted, p)
       /\ UNCHANGED <<made, parent, weh, reh, up, cerror, buffered, ready, freed,
                      content, sent, killed, holds>>
  BY <1>2, <1>3, <1>5, <1>9 DEF EndActive, history
<1>11. /\ run' \in [r : Reqs \cup {NoReq}, step : Step, owed : Nat]
       /\ ~Called' /\ run'.owed = run.owed /\ RunInv'
       /\ run' = NoRun \/ (run'.step = "unwind" /\ run'.r = c)
  BY <1>5, Returns
<1>12. posted \in Seq(Reqs) /\ postponed \in [Reqs -> Seq(Items)] /\ done \in [Reqs -> BOOLEAN]
  BY DEF Served, TypeOK
<1>13. /\ posted' \in Seq(Reqs)
       /\ \A x : Queued(posted', x) <=> Queued(posted, x) \/ x = p
       /\ \A x : Twice(posted', x) <=> Twice(posted, x) \/ (x = p /\ Queued(posted, x))
       /\ \A y : y # p => After(posted', p, y)
       /\ \A x : x # p => ~After(posted', x, p)
       /\ \A x, y : x # p /\ y # p => (After(posted', x, y) <=> After(posted, x, y))
  BY <1>7, <1>10, <1>12, Appended
<1>14. /\ Q \in Seq(Items) /\ Ascending(Q)
       /\ \A x : HasPlace(Q, x) <=> HasPlace(postponed[p], x) /\ x # c
       /\ EndsInBuffer(postponed[p]) => EndsInBuffer(Q)
       /\ postponed[p] = <<>> => Q = <<>>
  <2>1. Ascending(postponed[p]) BY <1>1, <1>7 DEF Shape, Places
  <2>2. HeadOnly(postponed[p], c)
    <3>1. CASE HasPlace(postponed[p], c)
      BY <1>1, <1>5, <1>7, <1>8, <3>1 DEF Shape, Places
    <3>2. CASE ~HasPlace(postponed[p], c)
      BY <3>2 DEF HasPlace, HeadOnly
    <3> QED BY <3>1, <3>2
  <2>3. postponed[p] \in Seq(Items) BY <1>7, <1>12
  <2>4. PICK q : q = postponed[p] OBVIOUS
  <2>5. /\ q \in Seq(Items) /\ Ascending(q) /\ HeadOnly(q, c) /\ c \in Reqs
        /\ q # <<>> /\ q[1] = <<c, 0>> => Q = Tail(q)
        /\ ~(q # <<>> /\ q[1] = <<c, 0>>) => Q = q
    BY <1>5, <1>9, <2>1, <2>2, <2>3, <2>4
  <2>6. /\ Q \in Seq(Items) /\ Ascending(Q)
        /\ \A x : HasPlace(Q, x) <=> HasPlace(q, x) /\ x # c
        /\ EndsInBuffer(q) => EndsInBuffer(Q)
        /\ q = <<>> => Q = <<>>
    BY <2>5, PlaceRemoved
  <2> QED BY <2>4, <2>6
<1>15. \A r \in Reqs : postponed'[r] = IF r = p THEN Q ELSE postponed[r]
  BY <1>10, <1>12
<1>16. \A r \in Reqs : done'[r] <=> r = c \/ done[r]
  BY <1>10, <1>12
<1>17. TypeOK'
  <2>1. count' \in Nat
    <3>1. IsFiniteSet(Live) /\ Cardinality(Live) \in Nat BY LiveIs DEF Served
    <3>2. Cardinality(Live) # 0 BY <1>5, <3>1, FS_EmptySet
    <3>3. count = Cardinality(Live) + run.owed /\ run.owed \in Nat
      BY DEF Served, Going, TypeOK
    <3>4. Cardinality(Live) >= 1 BY <3>1, <3>2
    <3> QED BY <1>10, <3>1, <3>3, <3>4
  <2>2. done' \in [Reqs -> BOOLEAN] BY <1>10, <1>12
  <2>3. postponed' \in [Reqs -> Seq(Items)] BY <1>10, <1>12, <1>14
  <2> QED BY <1>7, <1>10, <1>11, <1>13, <2>1, <2>2, <2>3 DEF Served, TypeOK
<1>18. Subs' = Subs /\ Subs \subseteq Reqs /\ Live \subseteq Reqs
  BY <1>10, LiveIs DEF Subs, Served
<1>19. /\ \A x : x \in Live' <=> x \in Live /\ x # c
       /\ Live' = Live \ {c}
  <2>1. \A x : x \in Live' <=> x \in Reqs /\ x <= made /\ ~done'[x]
    BY <1>10, <1>17, LiveNext
  <2>2. \A x : x \in Live <=> x \in Reqs /\ x <= made /\ ~done[x]
    BY LiveIs DEF Served
  <2>3. \A x : x \in Live' <=> x \in Live /\ x # c
    BY <1>16, <2>1, <2>2
  <2> QED BY <2>3
(* The subrequests of c are done.                                           *)
<1>20. \A x \in Subs : ~done[x] => parent[x] # c
  <2> SUFFICES ASSUME NEW x \in Subs, ~done[x], parent[x] = c PROVE FALSE
    OBVIOUS
  <2>1. x \notin C
    <3>1. x # Main BY ParentIs DEF Served, Going
    <3> QED BY <1>8, <3>1
  <2>2. HasPlace(postponed[c], x) BY <1>1, <2>1 DEF Shape, Places
  <2> QED BY <1>5, <2>2 DEF HasPlace
<1>21. ~Queued(posted, c)
  <2> SUFFICES ASSUME Queued(posted, c) PROVE FALSE
    OBVIOUS
  <2>1. Old(c, C) BY <1>1, <1>2, <1>5 DEF Shape, Calls
  <2> QED BY <1>20, <2>1 DEF Old
<1>22. \A x : Fresh(x)' <=> Fresh(x)
  <2>1. run'.r = c \/ run'.r = NoReq BY <1>11 DEF NoRun
  <2> QED BY <1>5, <1>10, <1>16, <1>18, <2>1 DEF Fresh
<1>23. ~Fresh(c) /\ ~Fresh(p)
  <2>1. ~Fresh(p) BY <1>3, <1>6 DEF Served, Going, FreshOrder, Fresh
  <2> QED BY <1>5, <2>1 DEF Fresh
<1>24. \A x : Old(x, D)' <=> Old(x, C)
  <2> SUFFICES ASSUME NEW x PROVE Old(x, D)' <=> Old(x, C)
    OBVIOUS
  <2>1. \A y \in Subs : y \notin D /\ ~done'[y] <=> y \notin C /\ ~done[y]
    BY <1>4, <1>8, <1>16, <1>18
  <2> QED BY <1>10, <1>18, <1>22, <2>1 DEF Old
<1>25. Chain(D)'
  <2>1. \A x \in D \ {Main} : parent[x] \in D /\ parent[x] # p
    BY <1>1, <1>4, <1>8 DEF Shape, Chain
  <2>2. \A x, y \in D \ {Main} : parent[x] = parent[y] => x = y
    BY <1>1, <1>4 DEF Shape, Chain
  <2>3. D \subseteq Live' BY <1>4, <1>8, <1>19
  <2> QED BY <1>8, <1>10, <2>1, <2>2, <2>3 DEF Chain
<1>26. Tree'
  <2>1. \A x \in Subs : parent[x] \in Reqs /\ x \in Reqs BY ParentIs DEF Served, Going
  <2> QED BY <1>10, <1>16, <1>18, <1>20, <2>1 DEF Served, Going, Tree
<1>27. Places(D)'
  <2>1. \A r \in Reqs : Ascending(postponed'[r])
    BY <1>1, <1>14, <1>15 DEF Shape, Places
  <2>2. ASSUME NEW r \in Reqs, NEW x \in Reqs, HasPlace(postponed'[r], x)
        PROVE  /\ x \in Subs /\ ~done'[x] /\ parent[x] = r
               /\ x \in D => HeadOnly(postponed'[r], x)
    <3>1. HasPlace(postponed[r], x) /\ (r = p => x # c) BY <1>14, <1>15, <2>2
    <3>2. x \in Subs /\ ~done[x] /\ parent[x] = r /\ (x \in C => HeadOnly(postponed[r], x))
      BY <1>1, <3>1 DEF Shape, Places
    <3>3. x # c BY <1>3, <3>1, <3>2
    <3>4. ~done'[x] BY <1>16, <3>2, <3>3
    <3>5. ASSUME x \in D PROVE HeadOnly(postponed'[r], x)
      <4>1. x # Main BY <3>2, ParentIs DEF Served, Going
      <4>2. r # p BY <1>4, <1>8, <3>2, <3>3, <3>5, <4>1
      <4> QED BY <1>4, <1>15, <3>2, <3>5, <4>2
    <3> QED BY <3>2, <3>4, <3>5
  <2>3. ASSUME NEW x \in Subs \ D, ~done'[x] PROVE HasPlace(postponed'[parent[x]], x)
    <3>1. x # c /\ ~done[x] /\ x \notin C BY <1>4, <1>16, <1>18, <2>3
    <3>2. HasPlace(postponed[parent[x]], x) /\ parent[x] \in Reqs
      BY <1>1, <3>1, ParentIs DEF Shape, Places, Served, Going
    <3> QED BY <1>14, <1>15, <3>1, <3>2
  <2> QED BY <1>10, <1>18, <2>1, <2>2, <2>3 DEF Places
<1>28. FreshOrder'
  <2>1. \A x \in Subs : Fresh(x) => Queued(posted', x) /\ ~Twice(posted', x)
    BY <1>13, <1>23 DEF Served, Going, FreshOrder
  <2>2. \A x, y \in Subs : Fresh(x) /\ Fresh(y) /\ x < y => After(posted', y, x)
    BY <1>13, <1>23 DEF Served, Going, FreshOrder
  <2>3. \A x, y \in Subs : Fresh(x) /\ x < y /\ ~done'[y] => Fresh(y)
    BY <1>16, <1>18 DEF Served, Going, FreshOrder
  <2>4. \A x, y \in Subs : Fresh(x) => parent[y] # x
    BY DEF Served, Going, FreshOrder
  <2> QED BY <1>10, <1>18, <1>22, <2>1, <2>2, <2>3, <2>4 DEF FreshOrder
<1>29. Calls(D)'
  <2>1. \A x \in Reqs : Queued(posted', x) => x \in Live'
    BY <1>1, <1>7, <1>13, <1>19, <1>21 DEF Shape, Calls
  <2>2. ASSUME NEW x \in Live' \ D, Queued(posted', x), ~Fresh(x) PROVE Old(x, D)'
    <3>1. x \in Live \ C /\ x # p BY <1>4, <1>8, <1>19, <2>2
    <3>2. Old(x, C) BY <1>1, <1>13, <2>2, <3>1 DEF Shape, Calls
    <3> QED BY <1>24, <3>2
  <2>3. ASSUME p # Main PROVE ~After(posted', parent[p], p)
    <3>1. p \in Subs BY <1>7, <2>3, LiveIs DEF Served
    <3>2. parent[p] # p BY <3>1, ParentIs DEF Served, Going
    <3> QED BY <1>13, <3>2
  <2>4. ASSUME Twice(posted', p) PROVE Old(p, D)'
    <3>1. CASE Twice(posted, p) \/ Queued(posted, p)
      <4>1. Queued(posted, p) BY <3>1 DEF Twice, Queued
      <4>2. After(posted, p, c) BY <1>21, <4>1 DEF After, Queued
      <4>3. Old(p, C) BY <1>1, <1>2, <1>3, <1>5, <4>2 DEF Shape, Calls
      <4> QED BY <1>24, <4>3
    <3> QED BY <1>13, <2>4, <3>1
  <2>5. ASSUME NEW x \in Subs, Fresh(x), parent[x] = p PROVE After(posted', p, x)
    <3>1. x # p BY <1>23, <2>5
    <3> QED BY <1>13, <3>1
  <2>6. (Twice(posted, data) => Old(data, D))'
    BY <1>10, <2>4
  <2> QED BY <1>10, <1>11, <1>18, <1>22, <2>1, <2>2, <2>3, <2>5, <2>6 DEF Calls
<1>30. Outputs(D)'
  <2>1. \A x \in Live' : Over(x)' => Over(x)
    BY <1>10, <1>11 DEF Over, Called, NoRun
  <2>2. \A r \in Live' : Over(r)' => EndsInBuffer(postponed'[r])
    BY <1>1, <1>14, <1>15, <1>18, <1>19, <2>1 DEF Shape, Outputs
  <2>3. \A r \in D \ {p} : r \in C /\ r # c /\ r \in Live' /\ r \in Reqs
    BY <1>4, <1>8, <1>18, <1>19
  <2>4. \A r \in D \ {p} : Over(r)' => postponed'[r] # <<>>
    BY <1>1, <1>2, <1>15, <2>1, <2>3 DEF Shape, Outputs
  <2>5. ASSUME NEW r \in D \ {p} PROVE \E x \in D \ {Main} : parent[x] = r
    <3>1. PICK x \in C \ {Main} : parent[x] = r
      BY <1>1, <1>2, <2>3, <2>5 DEF Shape, Outputs
    <3>2. x # c BY <1>3, <2>5, <3>1
    <3> QED BY <1>4, <3>1, <3>2
  <2>6. \A r \in Live' : weh[r] = "finalizer" => r # Main /\ postponed'[r] = <<>>
    BY <1>1, <1>14, <1>15, <1>18, <1>19 DEF Shape, Outputs
  <2> QED BY <1>10, <1>11, <2>2, <2>4, <2>5, <2>6 DEF Outputs
<1>31. Produced'
  BY <1>10, <1>14, <1>15, <1>18 DEF Served, Going, Produced
<1>32. Awaited' BY <1>10, <1>13 DEF Awaited
<1>33. Handled'
  <2>1. \A x \in Live' : weh[x] # "empty"
    BY <1>5, <1>19 DEF Served, Going, Handled
  <2>2. \A x \in Live' : weh[x] = "upstream" => up[x]
    BY <1>5, <1>19 DEF Served, Going, Handled
  <2>3. \A x \in Reqs : up[x] => x \in Live' /\ weh[x] = "upstream"
    BY <1>5, <1>19 DEF Served, Going, Handled
  <2>4. \A x \in Reqs : weh[x] # "terminate"
    BY DEF Served, Going, Handled
  <2>5. \A x \in Reqs : x > made => ~done'[x] /\ weh[x] = "run"
    <3>1. ~(c > made) BY <1>5, LiveIs DEF Served, Reqs
    <3> QED BY <1>16, <3>1 DEF Served, Going, Handled
  <2>6. run'.step = "unwind" => run'.r = c /\ done'[c]
    BY <1>5, <1>11, <1>16 DEF NoRun
  <2> QED BY <1>5, <1>10, <1>11, <2>1, <2>2, <2>3, <2>4, <2>5, <2>6 DEF Handled
<1>34. count' = Cardinality(Live') + run'.owed
  <2>1. IsFiniteSet(Live) /\ Cardinality(Live) \in Nat BY LiveIs DEF Served
  <2>2. Cardinality(Live') = Cardinality(Live) - 1
    BY <1>5, <1>19, <2>1, FS_RemoveElement
  <2>3. count = Cardinality(Live) + run.owed /\ run.owed \in Nat
    BY DEF Served, Going, TypeOK
  <2> QED BY <1>10, <1>11, <2>1, <2>2, <2>3
<1>35. Shape(D)' BY <1>25, <1>27, <1>29, <1>30 DEF Shape
<1>36. Going' BY <1>8, <1>26, <1>28, <1>31, <1>32, <1>33, <1>34, <1>35 DEF Going
<1>37. ~done'[Main] BY <1>5, <1>16, Running DEF Served
<1> QED BY <1>10, <1>11, <1>17, <1>36, <1>37 DEF Served

-----------------------------------------------------------------------------
(* A subrequest is made.                                                    *)
LEMMA SpawnServed ==
  ASSUME Served, Spawn, ~SpawnUnflushed
  PROVE  Served'
<1>1. PICK C \in SUBSET Reqs : Shape(C) BY DEF Served, Going
<1>2. PICK r : r = run.r OBVIOUS
<1>3. PICK s : s = made + 1 OBVIOUS
<1>4. /\ r \in Live /\ r \in Reqs /\ run.step = "gen" /\ Called /\ run.r = r
      /\ weh[r] \in {"run", "empty", "upstream"}
  BY <1>2, Running DEF Spawn, Called
<1>5. PICK active \in BOOLEAN : active <=> data = r /\ postponed[r] = <<>>
  <2>1. (data = r /\ postponed[r] = <<>>) \in BOOLEAN OBVIOUS
  <2> QED BY <2>1
<1>6. PICK Q : Q = Append(postponed[r], <<s, 0>>) OBVIOUS
<1>7. /\ s \in Reqs /\ made' = s /\ parent' = [parent EXCEPT ![s] = r]
      /\ data' = IF active THEN s ELSE data
      /\ postponed' = [postponed EXCEPT ![r] = Q]
      /\ content' = [content EXCEPT ![r] = Append(@, <<s, 0>>)]
      /\ count' = count + 1 /\ posted' = Append(posted, s)
      /\ UNCHANGED <<done, weh, reh, up, cerror, buffered, ready, sent, run, freed,
                     killed, holds>>
  BY <1>2, <1>3, <1>5, <1>6 DEF Spawn
<1>8. ~active => data # r
  BY <1>2, <1>5 DEF Spawn
<1>9. /\ posted \in Seq(Reqs) /\ postponed \in [Reqs -> Seq(Items)]
      /\ parent \in [Reqs -> Reqs] /\ content \in [Reqs -> Seq(Items)]
      /\ made \in Nat /\ Subs \subseteq Reqs /\ Live \subseteq Reqs
      /\ count \in Nat /\ run.owed \in Nat
  BY LiveIs DEF Served, TypeOK
<1>10. /\ \A x \in Subs : x < s /\ x # s
       /\ \A x \in Live : x # s
       /\ s \notin Subs /\ s \notin Live /\ s > made /\ s # Main /\ s # r
       /\ Subs' = Subs \cup {s} /\ ~done[s] /\ weh[s] = "run" /\ ~up[s]
  <2>1. \A x \in Subs : x < s /\ x # s BY <1>3, <1>9 DEF Subs
  <2>2. \A x \in Live : x # s
    <3>1. \A x \in Live : x <= made /\ x \in Nat BY LiveIs DEF Served, Reqs
    <3> QED BY <1>3, <1>9, <3>1
  <2>3. s > made /\ s # Main BY <1>3, <1>9 DEF Main
  <2>4. Subs' = Subs \cup {s} BY <1>3, <1>7, <1>9 DEF Subs
  <2>5. ~done[s] /\ weh[s] = "run" /\ ~up[s]
    BY <1>7, <2>2, <2>3 DEF Served, Going, Handled
  <2> QED BY <1>4, <2>1, <2>2, <2>3, <2>4, <2>5
<1>11. data \in Live /\ data # s BY <1>10, Running
<1>12. /\ posted' \in Seq(Reqs)
       /\ \A x : Queued(posted', x) <=> Queued(posted, x) \/ x = s
       /\ \A x : Twice(posted', x) <=> Twice(posted, x) \/ (x = s /\ Queued(posted, x))
       /\ \A y : y # s => After(posted', s, y)
       /\ \A x : x # s => ~After(posted', x, s)
       /\ \A x, y : x # s /\ y # s => (After(posted', x, y) <=> After(posted, x, y))
  BY <1>7, <1>9, Appended
<1>13. \A x : Queued(posted, x) => x \in Live
  <2>1. \A x : Queued(posted, x) => x \in Reqs BY <1>9 DEF Queued
  <2> QED BY <1>1, <2>1 DEF Shape, Calls
<1>14. /\ Q \in Seq(Items) /\ Q # <<>> /\ Ascending(Q)
       /\ \A x : HasPlace(Q, x) <=> HasPlace(postponed[r], x) \/ x = s
       /\ \A x : x # s /\ HeadOnly(postponed[r], x) => HeadOnly(Q, x)
       /\ postponed[r] = <<>> => HeadOnly(Q, s)
  <2>1. PICK q : q = postponed[r] OBVIOUS
  <2>2. q \in Seq(Items) BY <1>4, <1>9, <2>1
  <2>3. \A x \in Reqs : HasPlace(q, x) => x < s
    BY <1>1, <1>4, <1>10, <2>1 DEF Shape, Places
  <2>4. Ascending(q) BY <1>1, <1>4, <2>1 DEF Shape, Places
  <2> QED BY <1>6, <1>7, <2>1, <2>2, <2>3, <2>4, PlaceAdded
<1>15. /\ \A x \in Reqs : postponed'[x] = IF x = r THEN Q ELSE postponed[x]
       /\ \A x \in Reqs : parent'[x] = IF x = s THEN r ELSE parent[x]
       /\ \A x \in Reqs : content'[x] = <<>> => content[x] = <<>> /\ x # r
  <2>1. Append(content[r], <<s, 0>>) # <<>>
    <3>1. content[r] \in Seq(Items) /\ <<s, 0>> \in Items BY <1>4, <1>7, <1>9, ItemIs
    <3> QED BY <3>1, AppendProperties
  <2>2. \A x \in Reqs : content'[x] = IF x = r THEN Append(content[r], <<s, 0>>)
                                      ELSE content[x]
    BY <1>7, <1>9
  <2>3. \A x \in Reqs : content'[x] = <<>> => content[x] = <<>> /\ x # r
    BY <2>1, <2>2
  <2> QED BY <1>7, <1>9, <2>3
<1>16. TypeOK'
  <2>1. parent' \in [Reqs -> Reqs] BY <1>4, <1>7, <1>9
  <2>2. postponed' \in [Reqs -> Seq(Items)] BY <1>7, <1>9, <1>14
  <2>3. <<s, 0>> \in Items BY <1>7, ItemIs
  <2>4. content' \in [Reqs -> Seq(Items)] BY <1>4, <1>7, <1>9, <2>3
  <2>5. data' \in Reqs BY <1>7, <1>9, <1>11
  <2>6. count' \in Nat BY <1>7, <1>9
  <2> QED BY <1>7, <1>12, <2>1, <2>2, <2>4, <2>5, <2>6 DEF Served, TypeOK
<1>17. Live' = Live \cup {s}
  <2>1. \A x : x \in Live' <=> x \in Reqs /\ x <= s /\ ~done[x]
    BY <1>7, <1>16, LiveNext
  <2>2. \A x : x \in Live <=> x \in Reqs /\ x <= made /\ ~done[x]
    BY LiveIs DEF Served
  <2>3. \A x \in Reqs : x <= s <=> x <= made \/ x = s
    BY <1>3, <1>9 DEF Reqs
  <2> QED BY <1>7, <1>10, <2>1, <2>2, <2>3
<1>18. \A x : Fresh(x)' <=> Fresh(x) \/ x = s
  BY <1>4, <1>7, <1>10 DEF Fresh
<1>19. ~Fresh(r) /\ ~Fresh(s)
  BY <1>4, <1>10 DEF Fresh
<1>20. \A x \in Subs : parent'[x] = parent[x] /\ parent[x] \in Reqs /\ parent[x] # s
                       /\ parent[x] < x /\ x \in Reqs
  <2>1. \A x \in Subs : parent[x] \in Reqs /\ parent[x] < x /\ parent[x] <= made /\ x \in Reqs
    BY ParentIs DEF Served, Going
  <2>2. \A x \in Reqs : x <= made => x # s BY <1>3, <1>9 DEF Reqs
  <2> QED BY <1>10, <1>15, <2>1, <2>2
<1>21. parent'[s] = r BY <1>7, <1>15
<1>22. Tree'
  <2>1. r < s BY <1>3, <1>4, <1>9, LiveIs DEF Served, Reqs
  <2>2. ~done[r] BY <1>4, LiveIs DEF Served
  <2>3. \A x \in Subs : parent[x] < x /\ (~done[x] => ~done[parent[x]])
    BY DEF Served, Going, Tree
  <2> QED BY <1>7, <1>10, <1>20, <1>21, <2>1, <2>2, <2>3 DEF Tree
<1>23. FreshOrder'
  <2>1. \A x, y \in Subs \cup {s} : (Fresh(x) \/ x = s) /\ x < y /\ ~done[y]
                                    => Fresh(y) \/ y = s
    <3> SUFFICES ASSUME NEW x \in Subs \cup {s}, NEW y \in Subs, Fresh(x) \/ x = s,
                        x < y, ~done[y]
                 PROVE  Fresh(y)
      OBVIOUS
    <3>1. x # s
      <4>1. y < s /\ y \in Nat /\ s \in Nat BY <1>3, <1>9, <1>10 DEF Subs
      <4> QED BY <4>1
    <3> QED BY <3>1 DEF Served, Going, FreshOrder
  <2>2. \A x \in Subs \cup {s} : Fresh(x) \/ x = s
          => Queued(posted', x) /\ ~Twice(posted', x)
    <3>1. ~Queued(posted, s) BY <1>10, <1>13
    <3>2. ~Twice(posted, s) BY <3>1 DEF Twice, Queued
    <3> QED BY <1>10, <1>12, <3>1, <3>2 DEF Served, Going, FreshOrder
  <2>3. \A x, y \in Subs \cup {s} : Fresh(x) \/ x = s => parent'[y] # x
    BY <1>10, <1>19, <1>20, <1>21 DEF Served, Going, FreshOrder
  <2>4. \A x, y \in Subs \cup {s} :
          (Fresh(x) \/ x = s) /\ (Fresh(y) \/ y = s) /\ x < y => After(posted', y, x)
    <3> SUFFICES ASSUME NEW x \in Subs \cup {s}, NEW y \in Subs \cup {s},
                        Fresh(x) \/ x = s, Fresh(y) \/ y = s, x < y
                 PROVE  After(posted', y, x)
      OBVIOUS
    <3>1. x # s /\ Fresh(x) /\ x \in Subs
      <4>1. \A z \in Subs : z < s /\ z \in Nat /\ s \in Nat BY <1>3, <1>9, <1>10 DEF Subs
      <4> QED BY <1>3, <1>9, <4>1
    <3>2. CASE y = s BY <1>12, <3>1, <3>2
    <3>3. CASE y # s
      <4>1. After(posted, y, x) BY <3>1, <3>3 DEF Served, Going, FreshOrder
      <4> QED BY <1>12, <3>1, <3>3, <4>1
    <3> QED BY <3>2, <3>3
  <2> QED BY <1>7, <1>10, <1>18, <2>1, <2>2, <2>3, <2>4 DEF FreshOrder
<1>24. Produced'
  <2>1. \A x \in Reqs : content'[x] = <<>> => postponed'[x] = <<>>
    BY <1>15 DEF Served, Going, Produced
  <2>2. \A x \in Subs \cup {s} : content'[parent'[x]] # <<>>
    BY <1>4, <1>15, <1>20, <1>21 DEF Served, Going, Produced
  <2>3. content'[Main] # <<>>
    <3>1. CASE made = 0
      <4>1. r = Main BY <1>4, <1>9, <3>1, LiveIs DEF Served, Main, Reqs
      <4> QED BY <1>4, <1>15, <4>1
    <3>2. CASE made # 0
      <4>1. content[Main] # <<>> BY <3>2 DEF Served, Going, Produced
      <4> QED BY <1>15, <4>1, Running
    <3> QED BY <3>1, <3>2
  <2> QED BY <1>7, <1>10, <2>1, <2>2, <2>3 DEF Produced
<1>25. Handled'
  <2>1. \A x \in Live' : weh[x] = "empty" => Called /\ run.r = x
    BY <1>10, <1>17 DEF Served, Going, Handled
  <2>2. \A x \in Live' : weh[x] = "upstream" =>
          up[x] \/ (run.r = x /\ run.step \in {"gen", "closing", "final"})
    BY <1>10, <1>17 DEF Served, Going, Handled
  <2>3. \A x \in Reqs : up[x] => x \in Live' /\ weh[x] = "upstream"
    BY <1>17 DEF Served, Going, Handled
  <2>4. \A x \in Reqs : x > s => ~done[x] /\ weh[x] = "run"
    <3>1. \A x \in Reqs : x > s => x > made BY <1>3, <1>9 DEF Reqs
    <3> QED BY <3>1 DEF Served, Going, Handled
  <2>5. Called' <=> Called BY <1>7 DEF Called
  <2>6. run.step # "unwind" BY <1>4
  <2> QED BY <1>4, <1>7, <1>17, <2>1, <2>2, <2>3, <2>4, <2>5, <2>6
      DEF Served, Going, Handled
<1>26. RunInv' BY <1>7 DEF Served, RunInv
<1>27. Awaited'
  <2>1. CASE active BY <1>7, <1>12, <2>1 DEF Awaited
  <2>2. CASE ~active
    <3>1. data' = data /\ (Called' <=> Called) BY <1>7, <2>2 DEF Called
    <3> QED BY <1>7, <1>12, <3>1 DEF Served, Going, Awaited
  <2> QED BY <2>1, <2>2
<1>28. count' = Cardinality(Live') + run'.owed
  <2>1. IsFiniteSet(Live) /\ Cardinality(Live) \in Nat BY LiveIs DEF Served
  <2>2. Cardinality(Live') = Cardinality(Live) + 1
    BY <1>10, <1>17, <2>1, FS_AddElement
  <2>3. count = Cardinality(Live) + run.owed BY DEF Served, Going
  <2>4. count' = count + 1 /\ run'.owed = run.owed BY <1>7
  <2>5. count + 1 = (Cardinality(Live) + 1) + run.owed
    <3>1. \A i, j, k \in Nat : i = j + k => i + 1 = (j + 1) + k OBVIOUS
    <3>2. count \in Nat /\ run.owed \in Nat /\ Cardinality(Live) \in Nat BY <1>9, <2>1
    <3> QED BY <2>3, <3>1, <3>2
  <2> QED BY <2>2, <2>4, <2>5
<1>29. PICK D : D = IF active THEN C \cup {s} ELSE C OBVIOUS
<1>30. /\ C \subseteq Live /\ Main \in C /\ data \in C /\ s \notin C /\ D \in SUBSET Reqs
       /\ (active => D = C \cup {s} /\ r \in C) /\ (~active => D = C)
       /\ \A x \in C \ {Main} : x \in Subs /\ parent[x] \in C /\ parent[x] # data
       /\ \A x, y \in C \ {Main} : parent[x] = parent[y] => x = y
  <2>1. C \subseteq Live /\ Main \in C /\ data \in C BY <1>1 DEF Shape, Chain
  <2>2. s \notin C BY <1>10, <2>1
  <2>3. \A x \in C \ {Main} : x \in Subs BY <2>1, LiveIs DEF Served
  <2> QED BY <1>1, <1>5, <1>7, <1>29, <2>1, <2>2, <2>3 DEF Shape, Chain
<1>31. /\ \A x \in D : x # s => x \in C
       /\ \A x : x \in Subs \ D <=> x \in Subs \ C
       /\ \A x : x \in Live' \ D /\ x # s <=> x \in Live \ C
       /\ s \in D <=> active
  BY <1>10, <1>17, <1>30
<1>32. \A x : Old(x, D)' <=> Old(x, C)
  <2> SUFFICES ASSUME NEW x PROVE Old(x, D)' <=> Old(x, C)
    OBVIOUS
  <2>1. ASSUME Old(x, D)' PROVE Old(x, C)
    <3>1. PICK y \in Subs' \ D : ~done'[y] /\ parent'[y] = x /\ ~Fresh(y)'
      BY <2>1 DEF Old
    <3>2. y # s /\ y \in Subs \ C /\ ~Fresh(y) BY <1>10, <1>18, <1>31, <3>1
    <3> QED BY <1>7, <1>20, <3>1, <3>2 DEF Old
  <2>2. ASSUME Old(x, C) PROVE Old(x, D)'
    <3>1. PICK y \in Subs \ C : ~done[y] /\ parent[y] = x /\ ~Fresh(y)
      BY <2>2 DEF Old
    <3>2. y \in Subs' \ D /\ y # s /\ ~Fresh(y)' BY <1>10, <1>18, <1>31, <3>1
    <3> QED BY <1>7, <1>20, <3>1, <3>2 DEF Old
  <2> QED BY <2>1, <2>2
<1>33. Chain(D)'
  <2>1. \A x \in C \ {Main} : parent'[x] = parent[x] /\ parent[x] # s
    BY <1>20, <1>30
  <2>2. \A x \in C \ {Main} : active => parent[x] # r
    BY <1>5, <1>30
  <2>3. \A x \in D \ {Main} : parent'[x] \in D /\ parent'[x] # data'
    BY <1>7, <1>10, <1>21, <1>30, <1>31, <2>1
  <2>4. \A x, y \in D \ {Main} : parent'[x] = parent'[y] => x = y
    BY <1>21, <1>30, <1>31, <2>1, <2>2
  <2>5. D \subseteq Live' /\ Main \in D /\ data' \in D
    BY <1>7, <1>17, <1>30
  <2> QED BY <2>3, <2>4, <2>5 DEF Chain
<1>34. Places(D)'
  <2>1. \A x \in Reqs : Ascending(postponed'[x])
    BY <1>1, <1>14, <1>15 DEF Shape, Places
  <2>2. ASSUME NEW y \in Reqs, NEW x \in Reqs, HasPlace(postponed'[y], x)
        PROVE  /\ x \in Subs' /\ ~done[x] /\ parent'[x] = y
               /\ x \in D => HeadOnly(postponed'[y], x)
    <3>1. CASE x = s
      <4>1. ~HasPlace(postponed[y], s) BY <1>1, <1>7, <1>10 DEF Shape, Places
      <4>2. y = r BY <1>15, <2>2, <3>1, <4>1
      <4>3. active => HeadOnly(Q, s) BY <1>5, <1>14
      <4> QED BY <1>10, <1>15, <1>21, <1>31, <3>1, <4>2, <4>3
    <3>2. CASE x # s
      <4>1. HasPlace(postponed[y], x) BY <1>14, <1>15, <2>2, <3>2
      <4>2. x \in Subs /\ ~done[x] /\ parent[x] = y /\ (x \in C => HeadOnly(postponed[y], x))
        BY <1>1, <4>1 DEF Shape, Places
      <4>3. x \in C => HeadOnly(postponed'[y], x) BY <1>14, <1>15, <3>2, <4>2
      <4> QED BY <1>10, <1>20, <1>31, <3>2, <4>2, <4>3
    <3> QED BY <3>1, <3>2
  <2>3. ASSUME NEW x \in Subs' \ D, ~done[x] PROVE HasPlace(postponed'[parent'[x]], x)
    <3>1. CASE x = s BY <1>4, <1>14, <1>15, <1>21, <3>1
    <3>2. CASE x # s
      <4>1. x \in Subs \ C BY <1>10, <1>31, <2>3, <3>2
      <4>2. HasPlace(postponed[parent[x]], x) BY <1>1, <2>3, <4>1 DEF Shape, Places
      <4> QED BY <1>14, <1>15, <1>20, <4>1, <4>2
    <3> QED BY <3>1, <3>2
  <2> QED BY <1>7, <2>1, <2>2, <2>3 DEF Places
<1>35. Calls(D)'
  <2>1. \A x \in Reqs : Queued(posted', x) => x \in Live'
    BY <1>12, <1>13, <1>17
  <2>2. ASSUME NEW x \in Live' \ D, Queued(posted', x), ~Fresh(x)' PROVE Old(x, D)'
    <3>1. x # s /\ x \in Live \ C /\ ~Fresh(x) BY <1>18, <1>31, <2>2
    <3>2. Old(x, C) BY <1>1, <1>12, <2>2, <3>1 DEF Shape, Calls
    <3> QED BY <1>32, <3>2
  <2>3. CASE active
    <3>1. data' = s BY <1>7, <2>3
    <3>2. ~After(posted', parent'[s], s) BY <1>10, <1>12, <1>21
    <3>3. ~Twice(posted', s)
      <4>1. ~Queued(posted, s) BY <1>10, <1>13
      <4>2. ~Twice(posted, s) BY <4>1 DEF Twice, Queued
      <4> QED BY <1>12, <4>1, <4>2
    <3>4. run'.r # s BY <1>4, <1>7, <1>10
    <3>5. \A x \in Subs' : parent'[x] # s BY <1>10, <1>20, <1>21
    <3> QED BY <2>1, <2>2, <3>1, <3>2, <3>3, <3>4, <3>5 DEF Calls
  <2>4. CASE ~active
    <3>1. data' = data /\ data # r /\ data # s /\ (Called' <=> Called)
      BY <1>7, <1>8, <1>11, <2>4 DEF Called
    <3>2. PICK q : q = parent[data] OBVIOUS
    <3>10. ASSUME data # Main, After(posted', q, data) PROVE Old(q, D)'
      <4>1. q # s BY <1>20, <1>30, <3>2, <3>10
      <4>2. After(posted, q, data) BY <1>12, <3>1, <3>10, <4>1
      <4>3. Old(q, C) BY <1>1, <3>2, <3>10, <4>2 DEF Shape, Calls
      <4> QED BY <1>32, <4>3
    <3>11. data # Main => parent'[data] = q
      BY <1>20, <1>30, <3>2
    <3>3. (Queued(posted', data) => Queued(posted, data))
          /\ (Twice(posted', data) => Twice(posted, data))
      BY <1>12, <3>1
    <3>4. (Twice(posted, data) => Old(data, C))
          /\ (Called /\ run.r = data /\ Queued(posted, data) => Old(data, C))
      BY <1>1 DEF Shape, Calls
    <3>5. ASSUME NEW x \in Subs', Fresh(x)', parent'[x] = data PROVE After(posted', data, x)
      <4>1. x # s BY <1>21, <3>1, <3>5
      <4>2. x \in Subs /\ Fresh(x) /\ parent[x] = data BY <1>10, <1>18, <1>20, <3>5, <4>1
      <4>3. After(posted, data, x) BY <1>1, <4>2 DEF Shape, Calls
      <4> QED BY <1>12, <3>1, <4>1, <4>3
    <3>6. (Twice(posted, data) => Old(data, D))'
      BY <1>32, <3>1, <3>3, <3>4
    <3>7. (Called /\ run.r = data /\ Queued(posted, data) => Old(data, D))'
      BY <1>7, <1>32, <3>1, <3>3, <3>4
    <3>8. (data # Main /\ After(posted, parent[data], data) => Old(parent[data], D))'
      BY <3>1, <3>10, <3>11
    <3>9. (\A x \in Subs : Fresh(x) /\ parent[x] = data => After(posted, data, x))'
      BY <3>1, <3>5
    <3> QED BY <2>1, <2>2, <3>6, <3>7, <3>8, <3>9 DEF Calls
  <2> QED BY <2>3, <2>4
<1>36. Outputs(D)'
  <2>1. \A x \in Live' : Over(x)' => Over(x) /\ x \in Live /\ x # r
    BY <1>4, <1>7, <1>10, <1>17 DEF Over
  <2>2. \A x \in Live' : Over(x)' => EndsInBuffer(postponed'[x])
    BY <1>1, <1>9, <1>15, <2>1 DEF Shape, Outputs
  <2>3. \A x \in D \ {data'} : x \in C /\ (x # data \/ (active /\ x = r)) /\ x \in Live' /\ x \in Reqs
    BY <1>5, <1>7, <1>9, <1>17, <1>30, <1>31
  <2>4. \A x \in D \ {data'} : Over(x)' => postponed'[x] # <<>>
    BY <1>1, <1>15, <2>1, <2>3 DEF Shape, Outputs
  <2>5. ASSUME NEW x \in D \ {data'} PROVE \E y \in D \ {Main} : parent'[y] = x
    <3>1. CASE active /\ x = r BY <1>10, <1>21, <1>31, <3>1
    <3>2. CASE x # data
      <4>1. PICK y \in C \ {Main} : parent[y] = x
        BY <1>1, <2>3, <2>5, <3>2 DEF Shape, Outputs
      <4> QED BY <1>20, <1>30, <4>1
    <3> QED BY <2>3, <3>1, <3>2
  <2>6. \A x \in Live' : weh[x] = "finalizer" => x # Main /\ postponed'[x] = <<>>
    BY <1>1, <1>4, <1>9, <1>10, <1>15, <1>17 DEF Shape, Outputs
  <2>7. run'.step \notin {"wrote", "final"} BY <1>4, <1>7
  <2> QED BY <1>7, <2>2, <2>4, <2>5, <2>6, <2>7 DEF Outputs
<1>37. Shape(D)' BY <1>33, <1>34, <1>35, <1>36 DEF Shape
<1>38. Going' BY <1>22, <1>23, <1>24, <1>25, <1>27, <1>28, <1>30, <1>37 DEF Going
<1> QED BY <1>7, <1>16, <1>26, <1>38 DEF Served

-----------------------------------------------------------------------------
(* Output.                                                                  *)

(* Something is given to the write filter.                                  *)
Writes(r, in) == \/ in # <<>>
                 \/ IF postponed[r] = <<>> THEN buffered ELSE Leading(postponed[r]) # <<>>

(* The output of r that stays behind is Q.                                  *)
Stays(r, in, Q) ==
  /\ data' = data /\ posted' = posted
  /\ \A x : HasPlace(Q, x) <=> HasPlace(postponed[r], x)
  /\ \A x : HeadOnly(postponed[r], x) => HeadOnly(Q, x)
  /\ EndsInBuffer(postponed[r]) \/ in # <<>> => EndsInBuffer(Q)
  /\ r # data => /\ UNCHANGED <<cerror, buffered, ready>>
                 /\ (postponed[r] # <<>> \/ in # <<>> => Q # <<>>)
  /\ r = data => (Q = <<>> /\ (buffered' => ~ready')) \/ (cerror' /\ Writes(r, in))

(* ... and it is the turn of the subrequest b.                              *)
Moves(r, in, Q, b) ==
  /\ r = data /\ data' = b /\ posted' = Append(posted, b)
  /\ HasPlace(postponed[r], b)
  /\ \A x \in Reqs : HasPlace(postponed[r], x) => b <= x
  /\ \A x : HasPlace(Q, x) <=> HasPlace(postponed[r], x) /\ x # b
  /\ EndsInBuffer(postponed[r]) \/ in # <<>> => EndsInBuffer(Q) /\ Q # <<>>

LEMMA FilterIs ==
  ASSUME NEW out \in Seq(Items), TypeOK, NextFilter(out)
  PROVE  /\ cerror' \in BOOLEAN /\ buffered' \in BOOLEAN /\ ready' \in BOOLEAN
         /\ sent' \in Seq(Items) /\ (cerror => cerror')
         /\ cerror' \/ (buffered' => ~ready')
<1>1. sent \o out \in Seq(Items) /\ sent \in Seq(Items)
  BY DEF TypeOK
<1> QED BY <1>1 DEF NextFilter, TypeOK

LEMMA PostponeIs ==
  ASSUME TypeOK, NEW r \in Reqs, NEW in,
         in = <<>> \/ \E e \in Items : ~IsSub(e) /\ in = <<e>>,
         Ascending(postponed[r]), PostponeFilter(r, in)
  PROVE  /\ cerror' \in BOOLEAN /\ buffered' \in BOOLEAN /\ ready' \in BOOLEAN
         /\ sent' \in Seq(Items) /\ (cerror => cerror')
         /\ \E Q \in Seq(Items) :
              /\ Ascending(Q) /\ postponed' = [postponed EXCEPT ![r] = Q]
              /\ in = <<>> /\ postponed[r] = <<>> => Q = <<>> /\ (buffered' => buffered)
              /\ Stays(r, in, Q) \/ \E b \in Reqs : Moves(r, in, Q, b)
<1> DEFINE p == postponed[r]
           q == p \o in
           Types == /\ cerror' \in BOOLEAN /\ buffered' \in BOOLEAN /\ ready' \in BOOLEAN
                    /\ sent' \in Seq(Items) /\ (cerror => cerror')
<1>1. /\ p \in Seq(Items) /\ postponed = [postponed EXCEPT ![r] = p]
      /\ cerror \in BOOLEAN /\ buffered \in BOOLEAN /\ ready \in BOOLEAN
      /\ sent \in Seq(Items) /\ in \in Seq(Items)
  <2>1. in \in Seq(Items)
    <3>1. CASE in = <<>> BY <3>1
    <3>2. CASE \E e \in Items : in = <<e>> BY <3>2
    <3> QED BY <3>1, <3>2
  <2>2. postponed \in [Reqs -> Seq(Items)] BY DEF TypeOK
  <2>3. p \in Seq(Items) /\ postponed = [postponed EXCEPT ![r] = p] BY <2>2
  <2> QED BY <2>1, <2>3 DEF TypeOK
<1>2. /\ q \in Seq(Items) /\ Ascending(q)
      /\ \A x : HasPlace(q, x) <=> HasPlace(p, x)
      /\ \A x : HeadOnly(p, x) => HeadOnly(q, x)
      /\ EndsInBuffer(p) \/ in # <<>> => EndsInBuffer(q)
      /\ p # <<>> \/ in # <<>> => q # <<>>
      /\ in = <<>> => q = p
  <2>1. CASE in = <<>>
    <3>1. q = p BY <1>1, <2>1
    <3> QED BY <1>1, <2>1, <3>1
  <2>2. CASE in # <<>>
    <3>1. PICK e \in Items : ~IsSub(e) /\ in = <<e>> BY <2>2
    <3> HIDE DEF p
    <3> QED BY <1>1, <2>2, <3>1, BufferAdded DEF p
  <2> QED BY <2>1, <2>2
<1>3. NoOutput => Types /\ UNCHANGED <<cerror, buffered, ready>>
  BY <1>1 DEF NoOutput
<1>4. CASE r # data /\ NoOutput /\ postponed' = [postponed EXCEPT ![r] = q]
           /\ UNCHANGED <<data, posted>>
  <2>1. Stays(r, in, q) BY <1>2, <1>3, <1>4 DEF Stays
  <2>2. in = <<>> /\ p = <<>> => q = <<>> /\ (buffered' => buffered)
    BY <1>2, <1>3, <1>4
  <2> HIDE DEF q, p
  <2> QED BY <1>2, <1>3, <1>4, <2>1, <2>2 DEF p
<1>5. CASE /\ r = data /\ p = <<>> /\ UNCHANGED <<postponed, data, posted>>
           /\ IF in # <<>> \/ buffered THEN NextFilter(in) ELSE NoOutput
  <2>1. Types /\ (NoOutput \/ cerror' \/ (buffered' => ~ready'))
    BY <1>1, <1>3, <1>5, FilterIs
  <2>2. (buffered' => ~ready') \/ (cerror' /\ Writes(r, in))
    <3>1. CASE in # <<>> \/ buffered
      <4>1. Writes(r, in) BY <1>5, <3>1 DEF Writes
      <4>2. cerror' \/ (buffered' => ~ready') BY <1>1, <1>5, <3>1, FilterIs
      <4> QED BY <4>1, <4>2
    <3>2. CASE ~(in # <<>> \/ buffered)
      BY <1>3, <1>5, <3>2
    <3> QED BY <3>1, <3>2
  <2>3. Ascending(p) /\ EndsInBuffer(p) BY <1>5 DEF EndsInBuffer
  <2>4. Stays(r, in, p) BY <1>5, <2>2, <2>3 DEF Stays
  <2>5. in = <<>> /\ p = <<>> => p = <<>> /\ (buffered' => buffered)
    BY <1>3, <1>5, <1>1
  <2> HIDE DEF p
  <2> QED BY <1>1, <1>5, <2>1, <2>3, <2>4, <2>5 DEF p
<1>6. CASE r = data /\ p # <<>> /\ Drain(r, q)
  <2> DEFINE out == Leading(q)
             n == Len(out)
  <2>1. out \in Seq(Items) /\ n \in Nat /\ n <= Len(q) /\ Len(q) \in Nat
    <3> HIDE DEF q
    <3>1. Len(q) \in Nat BY <1>2
    <3>2. PICK i \in 0 .. Len(q) : Leading(q) \in Seq(Items) /\ Len(Leading(q)) = i
      BY <1>2, LeadingIs
    <3> QED BY <3>1, <3>2
  <2>2. q # <<>> BY <1>2, <1>6
  <2>3. /\ IF out = <<>> THEN NoOutput ELSE NextFilter(out)
        /\ \/ /\ out # <<>> /\ cerror'
              /\ postponed' = [postponed EXCEPT ![r] = q]
              /\ UNCHANGED <<data, posted>>
           \/ /\ ~(out # <<>> /\ cerror') /\ n = Len(q)
              /\ postponed' = [postponed EXCEPT ![r] = <<>>]
              /\ UNCHANGED <<data, posted>>
           \/ /\ ~(out # <<>> /\ cerror') /\ n < Len(q)
              /\ postponed' = [postponed EXCEPT ![r] = SubSeq(q, n + 2, Len(q))]
              /\ data' = q[n + 1][1] /\ posted' = Append(posted, q[n + 1][1])
    BY <1>6 DEF Drain
  <2>4. Types BY <1>1, <1>3, <2>1, <2>3, FilterIs
  <2>5. out # <<>> => cerror' \/ (buffered' => ~ready')
    BY <1>1, <2>1, <2>3, FilterIs
  <2>6. CASE /\ out # <<>> /\ cerror'
             /\ postponed' = [postponed EXCEPT ![r] = q]
             /\ UNCHANGED <<data, posted>>
    <3>1. Writes(r, in)
      <4>1. CASE in # <<>> BY <4>1 DEF Writes
      <4>2. CASE in = <<>> BY <1>2, <1>6, <2>6, <4>2 DEF Writes
      <4> QED BY <4>1, <4>2
    <3>2. Stays(r, in, q) BY <1>2, <2>6, <3>1, <1>6, <2>2 DEF Stays
    <3> HIDE DEF q, p, out
    <3> QED BY <1>2, <1>6, <2>4, <2>6, <3>2 DEF p
  <2>7. CASE /\ ~(out # <<>> /\ cerror') /\ n = Len(q)
             /\ postponed' = [postponed EXCEPT ![r] = <<>>]
             /\ UNCHANGED <<data, posted>>
    <3>1. out # <<>> /\ \A x : ~HasPlace(q, x)
      <4> HIDE DEF q
      <4> QED BY <1>2, <2>2, <2>7, AllSent
    <3>2. /\ <<>> \in Seq(Items) /\ Ascending(<<>>) /\ EndsInBuffer(<<>>)
          /\ \A x : ~HasPlace(<<>>, x) /\ HeadOnly(<<>>, x)
      BY DEF Ascending, EndsInBuffer, HasPlace, HeadOnly
    <3>3. Stays(r, in, <<>>)
      BY <1>2, <1>6, <2>5, <2>7, <3>1, <3>2 DEF Stays
    <3> HIDE DEF q, p, out
    <3> QED BY <1>6, <2>4, <2>7, <3>2, <3>3 DEF p
  <2>8. CASE /\ ~(out # <<>> /\ cerror') /\ n < Len(q)
             /\ postponed' = [postponed EXCEPT ![r] = SubSeq(q, n + 2, Len(q))]
             /\ data' = q[n + 1][1] /\ posted' = Append(posted, q[n + 1][1])
    <3> DEFINE z == q[n + 1][1]
               Q == SubSeq(q, n + 2, Len(q))
    <3>1. /\ z \in Reqs /\ HasPlace(q, z) /\ Q \in Seq(Items) /\ Ascending(Q)
          /\ \A x : HasPlace(Q, x) <=> HasPlace(q, x) /\ x # z
          /\ \A x \in Reqs : HasPlace(q, x) => z <= x
          /\ EndsInBuffer(q) => Q # <<>> /\ EndsInBuffer(Q)
      <4> HIDE DEF q
      <4> QED BY <1>2, <2>8, Drained
    <3> HIDE DEF Q, z, n
    <3>2. postponed' = [postponed EXCEPT ![r] = Q] /\ data' = z /\ posted' = Append(posted, z)
      BY <2>8 DEF Q, z
    <3> HIDE DEF q, out
    <3>3. Moves(r, in, Q, z)
      BY <1>2, <1>6, <3>1, <3>2 DEF Moves
    <3> HIDE DEF p
    <3> QED BY <1>6, <2>4, <3>1, <3>2, <3>3 DEF p
  <2> QED BY <2>3, <2>6, <2>7, <2>8
<1> QED BY <1>4, <1>5, <1>6 DEF PostponeFilter

(* A step of the handler r that gives `in' to the postpone filter.          *)
Output(r, in) ==
  /\ PostponeFilter(r, in)
  /\ UNCHANGED <<made, parent, done, weh, reh, up, count, freed, killed, holds>>
  /\ Called /\ run.r = r /\ run.step \in {"gen", "closing", "flush"}
  /\ Called' /\ run' \in [r : Reqs \cup {NoReq}, step : Step, owed : Nat]
  /\ run'.r = r /\ run'.owed = run.owed /\ RunInv'
  /\ content' \in [Reqs -> Seq(Items)]
  /\ \A x \in Reqs : content'[x] = <<>> => content[x] = <<>>
  /\ in # <<>> => content'[r] # <<>>
  /\ weh[r] = "upstream" => run'.step \in {"gen", "final"}
  /\ Over(r)' => Over(r) \/ in # <<>>
  /\ r = data /\ run'.step = "wrote" => ~(cerror' /\ Writes(r, in))

(* What both cases have in common.                                          *)
LEMMA OutputIs ==
  ASSUME Served, NEW r, NEW in, Output(r, in), NEW Q \in Seq(Items),
         postponed' = [postponed EXCEPT ![r] = Q],
         in = <<>> /\ postponed[r] = <<>> => Q = <<>> /\ (buffered' => buffered),
         cerror => cerror'
  PROVE  /\ r \in Live /\ r \in Reqs /\ weh[r] # "finalizer"
         /\ Live' = Live /\ Subs' = Subs /\ Subs \subseteq Reqs /\ Live \subseteq Reqs
         /\ \A x : Fresh(x)' <=> Fresh(x)
         /\ \A x \in Reqs : postponed'[x] = IF x = r THEN Q ELSE postponed[x]
         /\ \A x : Over(x)' => Over(x) \/ (x = r /\ in # <<>>)
         /\ Handled' /\ Produced'
         /\ count' = Cardinality(Live') + run'.owed
<1>1. UNCHANGED <<made, parent, done, weh, reh, up, count, freed, killed, holds>>
      /\ run.r = r /\ run'.r = r /\ Called /\ Called'
  BY DEF Output
<1>2. r \in Live /\ r \in Reqs BY <1>1, Running
<1>3. weh[r] # "finalizer"
  BY <1>1 DEF Output, Served, RunInv
<1>4. Live' = Live /\ Subs' = Subs /\ Subs \subseteq Reqs /\ Live \subseteq Reqs
  BY <1>1, LiveIs DEF Live, Subs, Served
<1>5. \A x : Fresh(x)' <=> Fresh(x)
  BY <1>1, <1>4 DEF Fresh
<1>6. \A x \in Reqs : postponed'[x] = IF x = r THEN Q ELSE postponed[x]
  BY DEF Served, TypeOK
<1>7. \A x : Over(x)' => Over(x) \/ (x = r /\ in # <<>>)
  <2> SUFFICES ASSUME NEW x, Over(x)' PROVE Over(x) \/ (x = r /\ in # <<>>)
    OBVIOUS
  <2>1. CASE x = r BY <2>1 DEF Output
  <2>2. CASE x # r BY <1>1, <2>2 DEF Over
  <2> QED BY <2>1, <2>2
<1>8. Handled'
  <2>1. \A x \in Live : weh[x] = "upstream" => up[x] \/ x = r
    BY <1>1 DEF Served, Going, Handled
  <2>2. weh[r] = "upstream" => run'.step \in {"gen", "final"} BY DEF Output
  <2>3. run'.step # "unwind" BY <1>1 DEF Called
  <2> QED BY <1>1, <1>2, <1>4, <2>1, <2>2, <2>3 DEF Served, Going, Handled
<1>9. Produced'
  <2>1. \A x \in Reqs : content'[x] = <<>> => content[x] = <<>>
    BY DEF Output
  <2>2. in # <<>> => content'[r] # <<>> BY DEF Output
  <2>3. \A x \in Reqs : content'[x] = <<>> => postponed'[x] = <<>>
    BY <1>6, <2>1, <2>2 DEF Served, Going, Produced
  <2>4. \A x \in Subs : parent[x] \in Reqs BY ParentIs DEF Served, Going
  <2>5. \A x \in Subs : content'[parent[x]] # <<>>
    BY <2>1, <2>4 DEF Served, Going, Produced
  <2>6. ASSUME content'[Main] = <<>> PROVE ~buffered' /\ made = 0
    <3>1. content[Main] = <<>> BY <2>1, <2>6, Running
    <3>2. ~buffered /\ made = 0 BY <3>1 DEF Served, Going, Produced
    <3>3. r = Main BY <1>2, <3>2, LiveIs DEF Served, Main, Reqs
    <3>4. in = <<>> /\ postponed[r] = <<>>
      BY <2>2, <2>6, <3>1, <3>3, Running DEF Served, Going, Produced
    <3> QED BY <3>2, <3>4
  <2> QED BY <1>1, <1>4, <2>3, <2>5, <2>6 DEF Produced
<1>10. count' = Cardinality(Live') + run'.owed
  <2>1. run'.owed = run.owed BY DEF Output
  <2> QED BY <1>1, <1>4, <2>1 DEF Served, Going
<1> QED BY <1>2, <1>3, <1>4, <1>5, <1>6, <1>7, <1>8, <1>9, <1>10

LEMMA OutputType ==
  ASSUME TypeOK, NEW r \in Reqs, NEW in, Output(r, in), NEW Q \in Seq(Items),
         postponed' = [postponed EXCEPT ![r] = Q],
         cerror' \in BOOLEAN /\ buffered' \in BOOLEAN /\ ready' \in BOOLEAN,
         sent' \in Seq(Items), data' \in Reqs, posted' \in Seq(Reqs)
  PROVE  TypeOK'
<1>1. postponed' \in [Reqs -> Seq(Items)] BY DEF TypeOK
<1> QED BY <1>1 DEF TypeOK, Output

LEMMA StaysServed ==
  ASSUME Served, NEW r, NEW in, Output(r, in), NEW Q \in Seq(Items), Ascending(Q),
         postponed' = [postponed EXCEPT ![r] = Q],
         in = <<>> /\ postponed[r] = <<>> => Q = <<>> /\ (buffered' => buffered),
         cerror' \in BOOLEAN /\ buffered' \in BOOLEAN /\ ready' \in BOOLEAN,
         sent' \in Seq(Items), cerror => cerror', Stays(r, in, Q)
  PROVE  Served'
<1>1. PICK C \in SUBSET Reqs : Shape(C) BY DEF Served, Going
<1>2. /\ r \in Live /\ r \in Reqs /\ weh[r] # "finalizer"
      /\ Live' = Live /\ Subs' = Subs /\ Subs \subseteq Reqs /\ Live \subseteq Reqs
      /\ \A x : Fresh(x)' <=> Fresh(x)
      /\ \A x \in Reqs : postponed'[x] = IF x = r THEN Q ELSE postponed[x]
      /\ \A x : Over(x)' => Over(x) \/ (x = r /\ in # <<>>)
      /\ Handled' /\ Produced'
      /\ count' = Cardinality(Live') + run'.owed
  BY OutputIs
<1>3. UNCHANGED <<made, parent, done, weh, reh, up, count, freed, killed, holds>>
      /\ run.r = r /\ run'.r = r /\ Called /\ Called' /\ RunInv'
      /\ data' = data /\ posted' = posted
  BY DEF Output, Stays
<1>4. TypeOK'
  <2>1. data' \in Reqs /\ posted' \in Seq(Reqs) BY <1>3 DEF Served, TypeOK
  <2> QED BY <1>2, <2>1, OutputType DEF Served
<1>5. Chain(C)' /\ Tree' /\ FreshOrder' /\ Calls(C)'
  <2>1. Called' /\ run'.r = data /\ Queued(posted, data) => Called /\ run.r = data
    BY <1>3
  <2> QED BY <1>1, <1>2, <1>3, <2>1, SameShape DEF Served, Going, Shape
<1>6. Places(C)'
  <2>1. \A x : HasPlace(Q, x) <=> HasPlace(postponed[r], x)
    BY DEF Stays
  <2>2. \A x : HeadOnly(postponed[r], x) => HeadOnly(Q, x)
    BY DEF Stays
  <2>3. \A x \in Reqs : Ascending(postponed'[x])
    BY <1>1, <1>2 DEF Shape, Places
  <2>4. \A y, x \in Reqs : HasPlace(postponed'[y], x) =>
          x \in Subs /\ ~done[x] /\ parent[x] = y /\ (x \in C => HeadOnly(postponed'[y], x))
    BY <1>1, <1>2, <2>1, <2>2 DEF Shape, Places
  <2>5. \A x \in Subs \ C : ~done[x] => HasPlace(postponed'[parent[x]], x)
    <3>1. \A x \in Subs : parent[x] \in Reqs BY ParentIs DEF Served, Going
    <3> QED BY <1>1, <1>2, <2>1, <3>1 DEF Shape, Places
  <2> QED BY <1>2, <1>3, <2>3, <2>4, <2>5 DEF Places
<1>7. Outputs(C)'
  <2>1. \A x \in Live : Over(x)' => EndsInBuffer(postponed'[x])
    <3>1. Over(r)' => EndsInBuffer(Q)
      BY <1>1, <1>2 DEF Stays, Shape, Outputs
    <3> QED BY <1>1, <1>2, <3>1 DEF Shape, Outputs
  <2>2. C \subseteq Live BY <1>1 DEF Shape, Chain
  <2>3. \A x \in C \ {data} : Over(x)' => postponed'[x] # <<>>
    <3>1. \A x \in C \ {data} : x # r => (Over(x)' => postponed'[x] # <<>>)
      BY <1>1, <1>2, <2>2 DEF Shape, Outputs
    <3>2. r \in C \ {data} /\ Over(r)' => Q # <<>>
      <4>1. r \in C \ {data} /\ Over(r) => Q # <<>>
        BY <1>1 DEF Shape, Outputs, Stays
      <4>2. ASSUME r \in C \ {data}, ~Over(r), in # <<>> PROVE Q # <<>>
        BY <4>2 DEF Stays
      <4> QED BY <1>2, <4>1, <4>2
    <3> QED BY <1>2, <3>1, <3>2
  <2>4. \A x \in C \ {data} : \E y \in C \ {Main} : parent[y] = x
    BY <1>1 DEF Shape, Outputs
  <2>5. \A x \in Live : weh[x] = "finalizer" => x # Main /\ postponed'[x] = <<>>
    BY <1>1, <1>2 DEF Shape, Outputs
  <2>6. r = data /\ (run'.step = "wrote" \/ (run'.step = "final" /\ ~cerror'))
          => Q = <<>> /\ (buffered' => ~ready')
    BY DEF Stays, Output
  <2> QED BY <1>2, <1>3, <2>1, <2>3, <2>4, <2>5, <2>6 DEF Outputs
<1>8. Awaited'
  <2>1. CASE r = data BY <1>3, <2>1 DEF Awaited
  <2>2. CASE r # data
    BY <1>3, <2>2 DEF Served, Going, Awaited, Stays
  <2> QED BY <2>1, <2>2
<1>9. Going'
  <2>1. Shape(C)' BY <1>5, <1>6, <1>7 DEF Shape
  <2> QED BY <1>2, <1>5, <1>8, <2>1 DEF Going
<1> QED BY <1>3, <1>4, <1>9 DEF Served

LEMMA MovesServed ==
  ASSUME Served, NEW r, NEW in, Output(r, in), NEW Q \in Seq(Items), Ascending(Q),
         postponed' = [postponed EXCEPT ![r] = Q],
         in = <<>> /\ postponed[r] = <<>> => Q = <<>> /\ (buffered' => buffered),
         cerror' \in BOOLEAN /\ buffered' \in BOOLEAN /\ ready' \in BOOLEAN,
         sent' \in Seq(Items), cerror => cerror', NEW b \in Reqs, Moves(r, in, Q, b)
  PROVE  Served'
<1>1. PICK C \in SUBSET Reqs : Shape(C) BY DEF Served, Going
<1>2. /\ r \in Live /\ r \in Reqs /\ weh[r] # "finalizer"
      /\ Live' = Live /\ Subs' = Subs /\ Subs \subseteq Reqs /\ Live \subseteq Reqs
      /\ \A x : Fresh(x)' <=> Fresh(x)
      /\ \A x \in Reqs : postponed'[x] = IF x = r THEN Q ELSE postponed[x]
      /\ \A x : Over(x)' => Over(x) \/ (x = r /\ in # <<>>)
      /\ Handled' /\ Produced'
      /\ count' = Cardinality(Live') + run'.owed
  BY OutputIs
<1>3. UNCHANGED <<made, parent, done, weh, reh, up, count, freed, killed, holds>>
      /\ run.r = r /\ run'.r = r /\ Called /\ Called' /\ RunInv'
  BY DEF Output
<1>4. /\ r = data /\ data' = b /\ posted' = Append(posted, b)
      /\ HasPlace(postponed[r], b)
      /\ \A x \in Reqs : HasPlace(postponed[r], x) => b <= x
      /\ \A x : HasPlace(Q, x) <=> HasPlace(postponed[r], x) /\ x # b
      /\ EndsInBuffer(postponed[r]) \/ in # <<>> => EndsInBuffer(Q) /\ Q # <<>>
  BY DEF Moves
<1>5. posted \in Seq(Reqs) BY DEF Served, TypeOK
<1>6. /\ posted' \in Seq(Reqs)
      /\ \A x : Queued(posted', x) <=> Queued(posted, x) \/ x = b
      /\ \A x : Twice(posted', x) <=> Twice(posted, x) \/ (x = b /\ Queued(posted, x))
      /\ \A y : y # b => After(posted', b, y)
      /\ \A x : x # b => ~After(posted', x, b)
      /\ \A x, y : x # b /\ y # b => (After(posted', x, y) <=> After(posted, x, y))
  BY <1>4, <1>5, Appended
<1>7. TypeOK'
  BY <1>2, <1>4, <1>6, OutputType DEF Served
(* The subrequest b was not active, and its parent is.                      *)
<1>8. b \in Subs /\ ~done[b] /\ parent[b] = r /\ b \in Live /\ b # r /\ b # Main
  <2>1. b \in Subs /\ ~done[b] /\ parent[b] = r
    BY <1>1, <1>2, <1>4 DEF Shape, Places
  <2> QED BY <2>1, ParentIs DEF Served, Going
<1>9. b \notin C BY <1>1, <1>4, <1>8 DEF Shape, Chain
(* It was called before.                                                    *)
<1>10. ~Fresh(b)
  <2> SUFFICES ASSUME Fresh(b) PROVE FALSE
    OBVIOUS
  <2>1. CASE Queued(posted, r)
    <3>1. Old(r, C) BY <1>1, <1>3, <1>4, <2>1 DEF Shape, Calls
    <3>2. PICK y \in Subs \ C : ~done[y] /\ parent[y] = r /\ ~Fresh(y)
      BY <3>1 DEF Old
    <3>3. HasPlace(postponed[r], y) BY <1>1, <3>2 DEF Shape, Places
    <3>4. b <= y /\ b # y /\ y \in Reqs BY <1>2, <1>4, <3>2, <3>3
    <3>5. b < y BY <3>4 DEF Reqs
    <3> QED BY <1>8, <3>2, <3>5 DEF Served, Going, FreshOrder
  <2>2. CASE ~Queued(posted, r)
    <3>1. After(posted, r, b) BY <1>1, <1>4, <1>8 DEF Shape, Calls
    <3> QED BY <2>2, <3>1 DEF After, Queued
  <2> QED BY <2>1, <2>2
<1>11. PICK D : D = C \cup {b} OBVIOUS
<1>12. /\ C \subseteq Live /\ Main \in C /\ r \in C /\ D \in SUBSET Reqs
       /\ \A x \in C \ {Main} : parent[x] \in C /\ parent[x] # r /\ x \in Subs
       /\ \A x, y \in C \ {Main} : parent[x] = parent[y] => x = y
       /\ \A x \in D : x # b => x \in C
  <2>1. C \subseteq Live /\ Main \in C /\ r \in C BY <1>1, <1>4 DEF Shape, Chain
  <2>2. \A x \in C \ {Main} : x \in Subs BY <2>1, LiveIs DEF Served
  <2> QED BY <1>1, <1>4, <1>11, <2>1, <2>2 DEF Shape, Chain
<1>13. Chain(D)'
  <2>1. \A x \in D \ {Main} : parent[x] \in D /\ parent[x] # b
    BY <1>8, <1>9, <1>11, <1>12
  <2>2. \A x, y \in D \ {Main} : parent[x] = parent[y] => x = y
    BY <1>8, <1>11, <1>12
  <2>3. D \subseteq Live /\ Main \in D /\ b \in D BY <1>8, <1>11, <1>12
  <2> QED BY <1>2, <1>3, <1>4, <2>1, <2>2, <2>3 DEF Chain
<1>14. Tree' BY <1>2, <1>3 DEF Served, Going, Tree
<1>15. \A x : x # r => (Old(x, C) => Old(x, D)')
  <2> SUFFICES ASSUME NEW x, x # r, Old(x, C) PROVE Old(x, D)'
    OBVIOUS
  <2>1. PICK y \in Subs \ C : ~done[y] /\ parent[y] = x /\ ~Fresh(y)
    BY DEF Old
  <2>2. y # b BY <1>8, <2>1
  <2> QED BY <1>2, <1>3, <1>11, <2>1, <2>2 DEF Old
<1>16. Places(D)'
  <2>1. \A x \in Reqs : Ascending(postponed'[x])
    BY <1>1, <1>2 DEF Shape, Places
  <2>2. ASSUME NEW y \in Reqs, NEW x \in Reqs, HasPlace(postponed'[y], x)
        PROVE  /\ x \in Subs /\ ~done[x] /\ parent[x] = y
               /\ x \in D => HeadOnly(postponed'[y], x)
    <3>1. HasPlace(postponed[y], x) /\ (y = r => x # b) BY <1>2, <1>4, <2>2
    <3>2. x \in Subs /\ ~done[x] /\ parent[x] = y /\ (x \in C => HeadOnly(postponed[y], x))
      BY <1>1, <3>1 DEF Shape, Places
    <3>3. x # b BY <1>8, <3>1, <3>2
    <3>4. ASSUME x \in D PROVE HeadOnly(postponed'[y], x)
      <4>1. x \in C /\ x # Main
        BY <1>12, <3>2, <3>3, <3>4, ParentIs DEF Served, Going
      <4>2. y # r BY <1>12, <3>2, <4>1
      <4> QED BY <1>2, <3>2, <4>1, <4>2
    <3> QED BY <3>2, <3>4
  <2>3. ASSUME NEW x \in Subs \ D, ~done[x] PROVE HasPlace(postponed'[parent[x]], x)
    <3>1. x \notin C /\ x # b BY <1>11, <2>3
    <3>2. HasPlace(postponed[parent[x]], x) /\ parent[x] \in Reqs
      BY <1>1, <2>3, <3>1, ParentIs DEF Shape, Places, Served, Going
    <3> QED BY <1>2, <1>4, <3>1, <3>2
  <2> QED BY <1>2, <1>3, <2>1, <2>2, <2>3 DEF Places
<1>17. FreshOrder'
  <2>1. \A x \in Subs : Fresh(x) => Queued(posted', x) /\ ~Twice(posted', x)
    BY <1>6, <1>10 DEF Served, Going, FreshOrder
  <2>2. \A x, y \in Subs : Fresh(x) /\ Fresh(y) /\ x < y => After(posted', y, x)
    BY <1>6, <1>10 DEF Served, Going, FreshOrder
  <2> QED BY <1>2, <1>3, <2>1, <2>2 DEF FreshOrder, Served, Going
<1>18. Calls(D)'
  <2>1. \A x \in Reqs : Queued(posted', x) => x \in Live
    BY <1>1, <1>6, <1>8 DEF Shape, Calls
  <2>2. ASSUME NEW x \in Live \ D, Queued(posted', x), ~Fresh(x) PROVE Old(x, D)'
    <3>1. x \in Live \ C /\ x # b /\ x # r BY <1>11, <1>12, <2>2
    <3>2. Old(x, C) BY <1>1, <1>6, <2>2, <3>1 DEF Shape, Calls
    <3> QED BY <1>15, <3>1, <3>2
  <2>3. ~After(posted', parent[b], b) BY <1>6, <1>8
  <2>4. ASSUME Twice(posted', b) PROVE Old(b, D)'
    <3>1. Queued(posted, b)
      <4>1. Twice(posted, b) \/ Queued(posted, b) BY <1>6, <2>4
      <4> QED BY <4>1 DEF Twice, Queued
    <3>2. Old(b, C) BY <1>1, <1>8, <1>9, <1>10, <3>1 DEF Shape, Calls
    <3> QED BY <1>8, <1>15, <3>2
  <2>5. \A x \in Subs : Fresh(x) => After(posted', b, x)
    BY <1>6, <1>10
  <2>6. (Twice(posted, data) => Old(data, D))' BY <1>4, <2>4
  <2>7. (data # Main /\ After(posted, parent[data], data) => Old(parent[data], D))'
    BY <1>3, <1>4, <2>3
  <2>8. (Called /\ run.r = data /\ Queued(posted, data) => Old(data, D))'
    BY <1>3, <1>4, <1>8
  <2>9. (\A x \in Subs : Fresh(x) /\ parent[x] = data => After(posted, data, x))'
    BY <1>2, <1>4, <2>5
  <2> QED BY <1>2, <2>1, <2>2, <2>6, <2>7, <2>8, <2>9 DEF Calls
<1>19. Outputs(D)'
  <2>1. \A x \in Live : Over(x)' => EndsInBuffer(postponed'[x])
    <3>1. Over(r)' => EndsInBuffer(Q)
      BY <1>1, <1>2, <1>4 DEF Shape, Outputs
    <3> QED BY <1>1, <1>2, <3>1 DEF Shape, Outputs
  <2>2. ASSUME NEW x \in D \ {b}, Over(x)' PROVE postponed'[x] # <<>>
    <3>1. x \in C /\ x \in Live /\ x \in Reqs BY <1>2, <1>12, <2>2
    <3>2. CASE x = r
      <4>1. EndsInBuffer(postponed[r]) \/ in # <<>>
        BY <1>1, <1>2, <2>2, <3>2 DEF Shape, Outputs
      <4> QED BY <1>2, <1>4, <3>2, <4>1
    <3>3. CASE x # r
      BY <1>1, <1>2, <1>4, <2>2, <3>1, <3>3 DEF Shape, Outputs
    <3> QED BY <3>2, <3>3
  <2>3. ASSUME NEW x \in D \ {b} PROVE \E y \in D \ {Main} : parent[y] = x
    <3>1. CASE x = r BY <1>8, <1>11, <3>1
    <3>2. CASE x # r
      <4>1. x \in C \ {data} BY <1>4, <1>12, <2>3, <3>2
      <4>2. PICK y \in C \ {Main} : parent[y] = x BY <1>1, <4>1 DEF Shape, Outputs
      <4> QED BY <1>11, <4>2
    <3> QED BY <3>1, <3>2
  <2>4. \A x \in Live : weh[x] = "finalizer" => x # Main /\ postponed'[x] = <<>>
    BY <1>1, <1>2 DEF Shape, Outputs
  <2>5. run'.r # data' BY <1>3, <1>4, <1>8
  <2> QED BY <1>2, <1>3, <1>4, <2>1, <2>2, <2>3, <2>4, <2>5 DEF Outputs
<1>20. Awaited' BY <1>4, <1>6 DEF Awaited
<1>21. Going'
  <2>1. Shape(D)' BY <1>13, <1>16, <1>18, <1>19 DEF Shape
  <2> QED BY <1>2, <1>12, <1>14, <1>17, <1>20, <2>1 DEF Going
<1> QED BY <1>3, <1>7, <1>21 DEF Served

LEMMA OutputServed ==
  ASSUME Served, NEW r, NEW in, Output(r, in),
         in = <<>> \/ \E e \in Items : ~IsSub(e) /\ in = <<e>>
  PROVE  Served'
<1>1. PICK C \in SUBSET Reqs : Shape(C) BY DEF Served, Going
<1>2. r \in Reqs BY Running DEF Output
<1>3. Ascending(postponed[r]) BY <1>1, <1>2 DEF Shape, Places
<1>4. /\ cerror' \in BOOLEAN /\ buffered' \in BOOLEAN /\ ready' \in BOOLEAN
      /\ sent' \in Seq(Items) /\ (cerror => cerror')
      /\ \E Q \in Seq(Items) :
           /\ Ascending(Q) /\ postponed' = [postponed EXCEPT ![r] = Q]
           /\ in = <<>> /\ postponed[r] = <<>> => Q = <<>> /\ (buffered' => buffered)
           /\ Stays(r, in, Q) \/ \E b \in Reqs : Moves(r, in, Q, b)
  BY <1>2, <1>3, PostponeIs DEF Served, Output
<1>5. PICK Q \in Seq(Items) :
        /\ Ascending(Q) /\ postponed' = [postponed EXCEPT ![r] = Q]
        /\ in = <<>> /\ postponed[r] = <<>> => Q = <<>> /\ (buffered' => buffered)
        /\ Stays(r, in, Q) \/ \E b \in Reqs : Moves(r, in, Q, b)
  BY <1>4
<1>6. CASE Stays(r, in, Q) BY <1>4, <1>5, <1>6, StaysServed
<1>7. CASE \E b \in Reqs : Moves(r, in, Q, b) BY <1>4, <1>5, <1>7, MovesServed
<1> QED BY <1>5, <1>6, <1>7

(* A buffer of the running handler.                                         *)
LEMMA ProduceIs ==
  ASSUME Served, Called, NEW r, r = run.r, Produce(r),
         run.step \in {"gen", "closing"},
         Called', run' \in [r : Reqs \cup {NoReq}, step : Step, owed : Nat],
         run'.r = r, run'.owed = run.owed, RunInv', run'.step \in {"gen", "final"},
         Len(content[r]) + 1 <= MaxParts
  PROVE  Served'
<1> DEFINE n == Len(content[r]) + 1
           e == <<r, n>>
<1>1. r \in Reqs /\ content \in [Reqs -> Seq(Items)] BY Running DEF Served, TypeOK
<1>2. n \in Nat /\ n # 0 /\ n \in 0 .. MaxParts
  <2>1. Len(content[r]) \in Nat BY <1>1
  <2> QED BY <2>1, BoundAssumption
<1>3. e \in Items /\ ~IsSub(e)
  BY <1>1, <1>2 DEF Items, IsSub
<1>4. /\ content' = [content EXCEPT ![r] = Append(content[r], e)]
      /\ PostponeFilter(r, <<e>>)
      /\ UNCHANGED <<made, parent, done, weh, reh, up, count, freed, killed, holds>>
  BY DEF Produce
<1> HIDE DEF e, n
<1>5. /\ content' \in [Reqs -> Seq(Items)] /\ content'[r] # <<>>
      /\ \A x \in Reqs : content'[x] = <<>> => content[x] = <<>>
  <2>1. Append(content[r], e) \in Seq(Items) /\ Append(content[r], e) # <<>>
    <3>1. content[r] \in Seq(Items) BY <1>1
    <3> QED BY <1>3, <3>1, AppendProperties
  <2>2. \A x \in Reqs : content'[x] = IF x = r THEN Append(content[r], e) ELSE content[x]
    BY <1>1, <1>4
  <2>3. content' \in [Reqs -> Seq(Items)] BY <1>1, <1>4, <2>1
  <2> QED BY <1>1, <2>1, <2>2, <2>3
<1>6. <<e>> # <<>> OBVIOUS
<1>7. Output(r, <<e>>)
  BY <1>4, <1>5, <1>6 DEF Output
<1> QED BY <1>3, <1>7, OutputServed

LEMMA EmitServed ==
  ASSUME Served, Emit PROVE Served'
<1>1. Called /\ run.step = "gen" /\ run.r \in Reqs BY Running DEF Emit, Called
<1>2. run' = run /\ Produce(run.r) BY DEF Emit
<1>3. up' = up /\ weh' = weh BY <1>2 DEF Produce
<1>4. Called' /\ RunInv' BY <1>1, <1>2, <1>3 DEF Called, RunInv, Served
<1>5. Len(content[run.r]) + 1 <= MaxParts
  <2>1. content[run.r] \in Seq(Items) BY <1>1 DEF Served, TypeOK
  <2>2. Len(content[run.r]) \in Nat BY <2>1
  <2> QED BY <2>2, BoundAssumption DEF Emit
<1> QED BY <1>1, <1>2, <1>4, <1>5, ProduceIs DEF Served, TypeOK

LEMMA SendLastServed ==
  ASSUME Served, SendLast PROVE Served'
<1>1. /\ Called /\ run.step \in {"gen", "closing"} /\ ~up[run.r] /\ run.r \in Reqs
      /\ run \in [r : Reqs \cup {NoReq}, step : Step, owed : Nat]
  BY Running DEF SendLast, Ending, Called, Served, RunInv
<1>2. run' = [r |-> run.r, step |-> "final", owed |-> run.owed] /\ Produce(run.r)
  BY <1>1 DEF SendLast
<1>3. up' = up /\ weh' = weh BY <1>2 DEF Produce
<1>4. Called' /\ RunInv' BY <1>1, <1>2, <1>3 DEF Called, RunInv
<1>5. run' \in [r : Reqs \cup {NoReq}, step : Step, owed : Nat]
  BY <1>1, <1>2 DEF Step
<1>6. Len(content[run.r]) + 1 <= MaxParts
  <2>1. content[run.r] \in Seq(Items) BY <1>1 DEF Served, TypeOK
  <2>2. Len(content[run.r]) \in Nat BY <2>1
  <2> QED BY <2>2, BoundAssumption DEF SendLast
<1>7. run'.r = run.r /\ run'.owed = run.owed /\ run'.step = "final" BY <1>2
<1> QED BY <1>1, <1>2, <1>4, <1>5, <1>6, <1>7, ProduceIs

LEMMA FlushServed ==
  ASSUME Served, Flush PROVE Served'
<1> DEFINE r == run.r
<1>1. /\ Called /\ run.step = "flush" /\ ~up[r] /\ r \in Reqs
      /\ weh[r] = "writer" /\ run.owed = 0
      /\ run \in [r : Reqs \cup {NoReq}, step : Step, owed : Nat]
  BY Running DEF Flush, Called, Served, RunInv
<1>2. PICK st \in {"failed", "wrote"} :
        /\ run' = [r |-> r, step |-> st, owed |-> run.owed]
        /\ st = "wrote" => ~(r = data /\ cerror' /\ Writes(r, <<>>))
  <2>1. run' = [run EXCEPT !.step = IF (r = data /\ IF postponed[r] = <<>> THEN buffered
                              ELSE Leading(postponed[r]) # <<>>) /\ cerror'
                         THEN "failed" ELSE "wrote"]
    BY DEF Flush
  <2>2. CASE r = data /\ cerror' /\ Writes(r, <<>>)
    BY <1>1, <2>1, <2>2 DEF Writes
  <2>3. CASE ~(r = data /\ cerror' /\ Writes(r, <<>>))
    BY <1>1, <2>1, <2>3 DEF Writes
  <2> QED BY <2>2, <2>3
<1>3. /\ PostponeFilter(r, <<>>) /\ content' = content
      /\ UNCHANGED <<made, parent, done, weh, reh, up, count, freed, killed, holds>>
  BY DEF Flush
<1>4. /\ Called' /\ RunInv' /\ run'.r = r /\ run'.owed = run.owed
      /\ run' \in [r : Reqs \cup {NoReq}, step : Step, owed : Nat]
  BY <1>1, <1>2, <1>3 DEF Called, RunInv, Step
<1>5. Over(r)' => Over(r)
  BY <1>1, <1>3 DEF Over
<1>6. content' \in [Reqs -> Seq(Items)] BY <1>3 DEF Served, TypeOK
<1>7. Output(r, <<>>)
  BY <1>1, <1>2, <1>3, <1>4, <1>5, <1>6 DEF Output
<1> QED BY <1>7, OutputServed

-----------------------------------------------------------------------------
(* The theorems.                                                            *)

LEMMA InitInv == Init => IInv
<1> SUFFICES ASSUME Init PROVE IInv
  OBVIOUS
<1>1. Main \in Reqs /\ 0 \in Reqs /\ NoReq \notin Reqs
  BY BoundAssumption DEF Main, Reqs, NoReq
<1>2. /\ made = 0 /\ parent = [r \in Reqs |-> Main]
      /\ done = [r \in Reqs |-> FALSE] /\ postponed = [r \in Reqs |-> <<>>]
      /\ weh = [r \in Reqs |-> "run"] /\ reh = [r \in Reqs |-> "empty"]
      /\ up = [r \in Reqs |-> FALSE] /\ count = 1 /\ holds = 0
      /\ data = Main /\ posted = <<Main>>
      /\ cerror = FALSE /\ buffered = FALSE /\ ready = TRUE
      /\ run = [r |-> NoReq, step |-> "none", owed |-> 0] /\ freed = FALSE /\ killed = FALSE
      /\ content = [r \in Reqs |-> <<>>] /\ sent = <<>>
  BY DEF Init, NoRun
<1>3. TypeOK
  <2>1. posted \in Seq(Reqs) BY <1>1, <1>2
  <2>2. <<>> \in Seq(Items) OBVIOUS
  <2>3. run \in [r : Reqs \cup {NoReq}, step : Step, owed : Nat] BY <1>2 DEF Step
  <2>4. holds \in 0 .. MaxHolds BY <1>2, BoundAssumption
  <2> QED BY <1>1, <1>2, <2>1, <2>2, <2>3, <2>4 DEF TypeOK
<1>4. \A r : r \notin Subs
  BY <1>2 DEF Subs
<1>5. Live = {Main}
  <2>1. \A r : r \in Live <=> r \in Reqs /\ r <= 0 /\ ~done[r] BY <1>2, <1>3, LiveIs
  <2>2. \A r \in Reqs : r <= 0 <=> r = Main BY DEF Reqs, Main
  <2> QED BY <1>1, <1>2, <2>1, <2>2
<1>6. Cardinality(Live) = 1 BY <1>5, FS_Singleton
<1>7. ~Called BY <1>2 DEF Called
<1>8. \A x : ~Fresh(x) BY <1>4 DEF Fresh
<1>9. \A x : ~HasPlace(<<>>, x) /\ Ascending(<<>>) /\ EndsInBuffer(<<>>)
  BY DEF HasPlace, Ascending, EndsInBuffer
<1>10. Queued(posted, data) /\ ~Twice(posted, data) /\ \A x : Queued(posted, x) => x = Main
  BY <1>2 DEF Queued, Twice
<1>11. Shape({Main})
  <2>1. Chain({Main}) BY <1>2, <1>5 DEF Chain
  <2>2. Places({Main}) BY <1>2, <1>4, <1>9 DEF Places
  <2>3. Calls({Main}) BY <1>2, <1>4, <1>5, <1>7, <1>10 DEF Calls
  <2>4. Outputs({Main}) BY <1>1, <1>2, <1>5, <1>7 DEF Outputs, Over
  <2> QED BY <2>1, <2>2, <2>3, <2>4 DEF Shape
<1>12. Handled /\ Tree /\ FreshOrder /\ Produced /\ Awaited
  <2>1. Handled BY <1>1, <1>2, <1>5, <1>7 DEF Handled
  <2>2. Tree /\ FreshOrder BY <1>4 DEF Tree, FreshOrder
  <2>3. Produced BY <1>2, <1>4 DEF Produced
  <2>4. Awaited BY <1>10 DEF Awaited
  <2> QED BY <2>1, <2>2, <2>3, <2>4
<1>13. Going
  <2>1. {Main} \in SUBSET Reqs BY <1>1
  <2>2. count = Cardinality(Live) + run.owed BY <1>2, <1>6
  <2> QED BY <1>11, <1>12, <2>1, <2>2 DEF Going
<1>14. RunInv BY <1>2 DEF RunInv, NoRun
<1> QED BY <1>1, <1>2, <1>3, <1>13, <1>14 DEF IInv

(* A step while the request is served.                                      *)
LEMMA FinalizeServed ==
  ASSUME Served, Finalize PROVE Served' \/ IInv'
<1> DEFINE r == run.r
           more == postponed[r] # <<>> \/ (r = Main /\ buffered)
<1>1. PICK C \in SUBSET Reqs : Shape(C) BY DEF Served, Going
<1>2. r \in Live /\ ~up[r] /\ run.step = "final"
  BY Running DEF Finalize, Served, RunInv, Called
<1>3. CASE cerror /\ Terminate BY <1>2, <1>3, TerminateKills
<1>4. CASE ~cerror /\ Return /\ UNCHANGED <<history, killed, holds>>
  <2>1. CASE more /\ Rearm(r) BY <1>4, <2>1, RearmServed
  <2>2. CASE ~more /\ r # Main /\ r = data /\ EndActive(r)
    BY <1>4, <2>2, EndActiveServed
  <2>3. CASE ~more /\ r # Main /\ r # data /\ EndInactive(r)
    BY <1>4, <2>3, EndInactiveServed
  <2>4. CASE ~more /\ r = Main /\ r = data /\ EndMain
    BY <1>4, <2>4, EndMainEnds
(* "http finalize non-active request" is never logged.                      *)
  <2>5. CASE ~more /\ r = Main /\ r # data
    <3>1. r \in C \ {data} BY <1>1, <2>5 DEF Shape, Chain
    <3>2. Over(r) BY <1>2, <1>4 DEF Over
    <3> QED BY <1>1, <2>5, <3>1, <3>2 DEF Shape, Outputs
  <2> HIDE DEF more
  <2> QED BY <1>4, <2>1, <2>2, <2>3, <2>4, <2>5 DEF Finalize, more
<1> QED BY <1>3, <1>4 DEF Finalize

LEMMA ServedNext ==
  ASSUME Served, Next, ~SpawnUnflushed PROVE Served' \/ IInv'
<1>1. CASE Finalize BY <1>1, FinalizeServed
<1>2. CASE Unwind BY <1>2, UnwindServed
<1>3. CASE Emit BY <1>3, EmitServed
<1>4. CASE SendLast BY <1>4, SendLastServed
<1>5. CASE Bare BY <1>5, BareServed
<1>6. CASE Fail
  <2>1. run.r \in Live /\ ~up[run.r]
    BY <1>6, Running DEF Fail, Ending, Served, RunInv, Called
  <2> QED BY <1>6, <2>1, TerminateKills DEF Fail
<1>7. CASE Spawn BY <1>7, SpawnServed
<1>8. CASE Hold BY <1>8, HoldServed
<1>9. CASE Connect BY <1>9, ConnectServed
<1>10. CASE Yield BY <1>10, YieldServed
<1>11. CASE RunPosted BY <1>11, RunPostedServed
<1>12. CASE Flush BY <1>12, FlushServed
<1>13. CASE Wrote
  <2>1. CASE run.step = "wrote" BY <1>13, <2>1, WroteServed
  <2>2. CASE run.step = "failed" /\ Terminate
    <3>1. run.r \in Live /\ ~up[run.r] BY <2>2, Running DEF Served, RunInv, Called
    <3> QED BY <2>2, <3>1, TerminateKills
  <2> QED BY <1>13, <2>1, <2>2 DEF Wrote
<1>14. CASE ClientWritable BY <1>14, ClientWritableServed
<1>15. CASE ClientAbort BY <1>15, ClientAbortServed
<1>16. CASE SendTimeout
  <2>1. data \in Live /\ ~up[data]
    BY <1>16, Idle DEF SendTimeout, Served, Going, Handled
  <2> QED BY <1>16, <2>1, TerminateKills DEF SendTimeout
<1>17. ASSUME NEW r \in Reqs, UpstreamEvent(r) PROVE Served'
  BY <1>17, UpstreamEventServed
<1>18. ASSUME NEW r \in Reqs, UpClose(r) PROVE Served'
  BY <1>18, UpCloseServed
<1> QED
  BY <1>1, <1>2, <1>3, <1>4, <1>5, <1>6, <1>7, <1>8, <1>9, <1>10, <1>11, <1>12, <1>13,
     <1>14, <1>15, <1>16, <1>17, <1>18
  DEF Next, Handlers

(* What can happen when the request is cut off, or answered.                *)
LEMMA OnlyUnwinds ==
  ASSUME TypeOK, RunInv, Upstreams = {}, run.step \in {"none", "unwind"},
         freed => run = NoRun, Next
  PROVE  ~freed /\ (Unwind \/ (run = NoRun /\ posted # <<>> /\ RunPosted)
                    \/ (run = NoRun /\ posted = <<>>))
<1>1. \A r \in Reqs : ~up[r] BY UpstreamsAre
<1>2. run = NoRun \/ run.step = "unwind" BY DEF RunInv
<1>3. NoRun.step = "none" BY DEF NoRun
<1>4. ~Finalize /\ ~Emit /\ ~SendLast /\ ~Bare /\ ~Fail /\ ~Spawn /\ ~Hold /\ ~Connect
      /\ ~Yield /\ ~Flush /\ ~Wrote
  BY DEF Finalize, Emit, SendLast, Bare, Fail, Spawn, Hold, Connect, Yield, Flush,
         Wrote, Ending
<1>5. \A r \in Reqs : ~UpstreamEvent(r) /\ ~UpClose(r)
  BY <1>1 DEF UpstreamEvent, UpClose
<1>6. Unwind => run.step = "unwind" /\ ~freed BY <1>3 DEF Unwind
<1>7. RunPosted => run = NoRun /\ posted # <<>> /\ ~freed BY DEF RunPosted
<1>8. ClientWritable \/ ClientAbort \/ SendTimeout => run = NoRun /\ posted = <<>> /\ ~freed
  BY DEF ClientWritable, ClientAbort, SendTimeout, Waiting
<1> QED BY <1>4, <1>5, <1>6, <1>7, <1>8 DEF Next, Handlers

LEMMA UnwindIs ==
  ASSUME TypeOK, RunInv, Unwind, count >= run.owed
  PROVE  /\ TypeOK' /\ RunInv' /\ Live' = Live /\ Upstreams' = Upstreams
         /\ run'.step \in {"none", "unwind"} /\ run'.owed = run.owed - 1
         /\ count' = count - 1 /\ (freed' <=> count = 1)
         /\ run.owed \in Nat /\ run.owed > 0 /\ count \in Nat
         /\ run'.owed = 0 => run' = NoRun
         /\ UNCHANGED <<requests, connection, history, killed, holds>>
<1>1. /\ run.step = "unwind" /\ run.owed \in Nat /\ run.owed > 0 /\ count \in Nat
      /\ run \in [r : Reqs \cup {NoReq}, step : Step, owed : Nat]
  BY DEF Unwind, RunInv, TypeOK
<1>2. /\ count' = count - 1 /\ freed' = (count = 1)
      /\ UNCHANGED <<requests, connection, history, killed, holds>>
  BY DEF Unwind
<1>3. \/ run.owed > 1 /\ run' = [r |-> run.r, step |-> "unwind", owed |-> run.owed - 1]
      \/ run.owed = 1 /\ run' = [r |-> NoReq, step |-> "none", owed |-> 0] /\ run' = NoRun
  <2>1. [run EXCEPT !.owed = @ - 1] = [r |-> run.r, step |-> "unwind", owed |-> run.owed - 1]
    BY <1>1
  <2> QED BY <1>1, <2>1 DEF Unwind, NoRun
<1>4. /\ run'.step \in {"none", "unwind"} /\ run'.owed = run.owed - 1
      /\ run'.owed = 0 => run' = NoRun
      /\ run' \in [r : Reqs \cup {NoReq}, step : Step, owed : Nat]
      /\ RunInv'
  BY <1>1, <1>3 DEF RunInv, Step
<1>5. TypeOK'
  <2>1. count' \in Nat BY <1>1, <1>2
  <2>2. freed' \in BOOLEAN BY <1>2
  <2> QED BY <1>2, <1>4, <2>1, <2>2 DEF TypeOK, requests, connection, history
<1>6. Live' = Live /\ Upstreams' = Upstreams
  BY <1>2 DEF Live, Upstreams, requests
<1>7. freed' <=> count = 1 BY <1>2
<1> QED BY <1>1, <1>2, <1>4, <1>5, <1>6, <1>7

LEMMA EndedNext ==
  ASSUME TypeOK, RunInv, ~freed, ~killed, done[Main], Ended, count > 0, Next
  PROVE  IInv'
<1>1. run.owed \in Nat /\ run.owed > 0 BY DEF Ended, TypeOK
<1>2. run # NoRun BY <1>1 DEF NoRun
<1>3. Unwind BY <1>2, OnlyUnwinds DEF Ended
<1>4. /\ TypeOK' /\ RunInv' /\ Live' = Live /\ Upstreams' = Upstreams
      /\ run'.step \in {"none", "unwind"} /\ run'.owed = run.owed - 1
      /\ count' = count - 1 /\ (freed' <=> count = 1)
      /\ run'.owed = 0 => run' = NoRun
      /\ UNCHANGED <<requests, connection, history, killed, holds>>
  BY <1>1, <1>3, UnwindIs DEF Ended
<1>5. count' = run'.owed BY <1>4 DEF Ended
<1>6. Ended' BY <1>4, <1>5 DEF Ended
<1>7. freed' => run' = NoRun /\ count' = 0 BY <1>1, <1>4 DEF Ended
<1>8. ~freed' => count' > 0 BY <1>1, <1>4 DEF Ended
<1> QED BY <1>4, <1>6, <1>7, <1>8 DEF IInv, Ended, requests

LEMMA KilledNext ==
  ASSUME TypeOK, RunInv, ~freed, killed, Killed, Next
  PROVE  IInv'
<1>1. CASE Unwind
  <2>1. run.owed \in Nat /\ count \in Nat /\ count >= run.owed
    BY DEF Killed, TypeOK
  <2>2. /\ TypeOK' /\ RunInv' /\ Upstreams' = Upstreams
        /\ run'.step \in {"none", "unwind"} /\ run'.owed = run.owed - 1
        /\ count' = count - 1 /\ (freed' <=> count = 1) /\ run.owed > 0
        /\ UNCHANGED <<requests, connection, history, killed, holds>>
    BY <1>1, <2>1, UnwindIs
  <2>3. ~freed' BY <2>1, <2>2 DEF Killed
  <2>4. count' >= 1 + run'.owed BY <2>1, <2>2 DEF Killed
  <2>5. Killed' BY <2>2, <2>4 DEF Killed, requests, connection
  <2> QED BY <2>2, <2>3, <2>5 DEF IInv
<1>2. CASE run = NoRun /\ posted # <<>> /\ RunPosted
  <2>1. Head(posted) = Main BY DEF Killed
  <2>2. /\ count' = 0 /\ freed' = TRUE /\ UNCHANGED <<weh, run>>
    BY <1>2, <2>1 DEF RunPosted, CallWriteHandler, Killed
  <2>3. posted' = <<>> /\ killed' = killed
        /\ UNCHANGED <<made, parent, done, postponed, reh, up, data, cerror, buffered,
                       ready, content, sent, holds>>
    BY <1>2 DEF RunPosted, Killed, history
  <2>4. TypeOK'
    <3>1. posted' \in Seq(Reqs) BY <2>3
    <3> QED BY <2>2, <2>3, <3>1 DEF TypeOK
  <2>5. RunInv' BY <2>2, <2>3 DEF RunInv
  <2>6. Upstreams' = {} BY <2>3 DEF Upstreams, Killed
  <2> QED BY <1>2, <2>2, <2>3, <2>4, <2>5, <2>6 DEF IInv
<1> QED BY <1>1, <1>2, OnlyUnwinds DEF Killed

LEMMA NextInv == ~SpawnUnflushed /\ IInv /\ [Next]_vars => IInv'
<1> SUFFICES ASSUME ~SpawnUnflushed, IInv, [Next]_vars PROVE IInv'
  OBVIOUS
<1>1. CASE Next
  <2>1. CASE freed
    <3>1. run = NoRun /\ Upstreams = {} /\ run.step = "none"
      BY <2>1 DEF IInv, NoRun
    <3> QED BY <1>1, <2>1, <3>1, OnlyUnwinds DEF IInv
  <2>2. CASE ~freed /\ killed BY <1>1, <2>2, KilledNext DEF IInv
  <2>3. CASE ~freed /\ ~killed /\ done[Main] BY <1>1, <2>3, EndedNext DEF IInv
  <2>4. CASE ~freed /\ ~killed /\ ~done[Main]
    <3>1. Served BY <2>4 DEF Served, IInv
    <3>2. Served' => IInv' BY DEF Served, IInv
    <3> QED BY <1>1, <3>1, <3>2, ServedNext
  <2> QED BY <2>1, <2>2, <2>3, <2>4
<1>2. CASE UNCHANGED vars
  <2>1. UNCHANGED <<made, parent, done, postponed, weh, reh, up, count, data, posted, cerror,
                    buffered, ready, run, freed, content, sent, killed, holds>>
    BY <1>2 DEF vars, requests, connection, history
  <2>2. TypeOK' /\ RunInv' BY <2>1 DEF IInv, TypeOK, RunInv
  <2>3. Live' = Live /\ Upstreams' = Upstreams BY <2>1 DEF Live, Upstreams
  <2>4. Killed => Killed' BY <2>1, <2>3 DEF Killed
  <2>5. Ended => Ended' BY <2>1, <2>3 DEF Ended
  <2>6. ASSUME Served PROVE Served'
    <3>1. PICK C \in SUBSET Reqs : Shape(C) BY <2>6 DEF Served, Going
    <3>2. \A x : Fresh(x)' <=> Fresh(x) BY <2>1 DEF Fresh, Subs
    <3>3. Handled' /\ Awaited'
      BY <2>1, <2>3, <2>6 DEF Served, Going, Handled, Awaited, Called
    <3>4. Outputs(C)'
      BY <2>1, <2>3, <3>1 DEF Shape, Outputs, Over, Called
    <3>5. Called' /\ run'.r = data /\ Queued(posted, data) => Called /\ run.r = data
      BY <2>1 DEF Called
    <3>6. count' = count + run'.owed - run.owed
      BY <2>1, <2>6 DEF Served, TypeOK
    <3> QED BY <2>1, <2>2, <2>6, <3>1, <3>2, <3>3, <3>4, <3>5, <3>6, Quiet
  <2>7. ~freed /\ ~killed /\ ~done[Main] => Served BY DEF Served, IInv
  <2> QED BY <2>1, <2>2, <2>3, <2>4, <2>5, <2>6, <2>7 DEF IInv, Served
<1> QED BY <1>1, <1>2 DEF vars

(* What every reachable state satisfies: until an error cuts it off the    *)
(* request is in one of the shapes that ngx_http_subrequest, the postpone  *)
(* filter and ngx_http_finalize_request leave behind.                      *)
THEOREM Invariant ==
  ASSUME ~SpawnUnflushed
  PROVE  Spec => []IInv
<1>1. IInv /\ [Next]_vars => IInv'
  BY NextInv
<1> QED
  BY <1>1, InitInv, PTL DEF Spec

(* The fields of the request keep their types: nothing is finalized,       *)
(* posted or made active but a request.                                    *)
THEOREM TypeCorrect ==
  ASSUME ~SpawnUnflushed
  PROVE  Spec => []TypeOK
<1>1. IInv => TypeOK
  BY DEF IInv
<1> QED
  BY <1>1, Invariant, PTL

(* r->main->count is the number of unfinished requests and of frames that  *)
(* will finalize with NGX_DONE, for every number of subrequests, in every  *)
(* order in which they end; ngx_http_terminate_request leaves enough of it *)
(* for the frames below it.                                                *)
THEOREM CountsReferences ==
  ASSUME ~SpawnUnflushed
  PROVE  Spec => []CountExact
<1>1. IInv => CountExact
  <2> SUFFICES ASSUME IInv PROVE CountExact
    OBVIOUS
  <2>1. NoRun.owed = 0 BY DEF NoRun
  <2>2. Cardinality({}) = 0 BY FS_EmptySet
  <2>3. run.owed \in Nat /\ count \in Nat BY DEF IInv, TypeOK
  <2>4. CASE killed BY <2>4 DEF IInv, Killed, CountExact
  <2>5. CASE ~killed /\ freed
    BY <2>1, <2>2, <2>5 DEF IInv, CountExact
  <2>6. CASE ~killed /\ ~freed /\ done[Main]
    BY <2>2, <2>3, <2>6 DEF IInv, Ended, CountExact
  <2>7. CASE ~killed /\ ~freed /\ ~done[Main]
    BY <2>7 DEF IInv, Going, CountExact
  <2> QED BY <2>4, <2>5, <2>6, <2>7
<1> QED
  BY <1>1, Invariant, PTL

(* ngx_http_close_request destroys the pool only when no handler is left   *)
(* that returns into the request and no upstream connection points to it.  *)
THEOREM PoolOutlivesHandlers ==
  ASSUME ~SpawnUnflushed
  PROVE  Spec => []NoUseAfterFree
<1>1. IInv => NoUseAfterFree
  BY DEF IInv, NoUseAfterFree
<1> QED
  BY <1>1, Invariant, PTL

(* A page never stands still between events: the active request, the one   *)
(* whose output the client is given, waits for its upstream or for the     *)
(* client's socket.                                                        *)
THEOREM ActiveNeverForgotten ==
  ASSUME ~SpawnUnflushed
  PROVE  Spec => []ActiveIsAwaited
<1>1. IInv => ActiveIsAwaited
  <2> SUFFICES ASSUME IInv, Waiting
               PROVE  up[data] \/ (weh[data] = "writer" /\ ~ready)
    BY DEF ActiveIsAwaited
  <2>1. run = NoRun /\ posted = <<>> /\ ~freed /\ NoRun.owed = 0
    BY DEF Waiting, NoRun
  <2>2. ~killed
    <3>1. <<Main>> # <<>> OBVIOUS
    <3> QED BY <2>1, <3>1 DEF IInv, Killed
  <2>3. ~done[Main] BY <2>1, <2>2 DEF IInv, Ended
  <2>4. Served BY <2>1, <2>2, <2>3 DEF IInv, Served
  <2> QED BY <2>4, Idle
<1> QED
  BY <1>1, Invariant, PTL

=============================================================================
