--------------------------- MODULE ArpCacheProofs ---------------------------
(***************************************************************************)
(* Theorems about the ARP cache of ArpCache, for every set of packets,     *)
(* hosts and slots, every time-out and every number of retries.            *)
(***************************************************************************)
EXTENDS ArpCache, Integers, SequenceTheorems, FiniteSetTheorems, WellFoundedInduction,
        TLAPS

(* < is well-founded on the naturals. *)
LEMMA LeastOfNats ==
    ASSUME NEW S \in SUBSET Nat, S # {}
    PROVE  \E x \in S : \A y \in S : x <= y
<1>1. PICK x \in S : \A y \in S : <<y, x>> \notin OpToRel(<, Nat)
  BY NatLessThanWellFounded, WFMin
<1>2. \A y \in S : y < x => <<y, x>> \in OpToRel(<, Nat)
  BY DEF OpToRel
<1>3. \A y \in S : ~(y < x)
  BY <1>1, <1>2, Zenon
<1>4. QED
  BY <1>3

(* Selected keeps the elements of S, each in its place, and drops the rest. *)
LEMMA SelectedPlaces ==
    ASSUME NEW T, NEW q \in Seq(T), NEW S
    PROVE  /\ Selected(q, S) \in Seq(T)
           /\ \E f \in [1..Len(Selected(q, S)) -> 1..Len(q)] :
                 /\ \A j \in 1..Len(Selected(q, S)) :
                       Selected(q, S)[j] = q[f[j]] /\ q[f[j]] \in S
                 /\ \A i, j \in 1..Len(Selected(q, S)) : f[i] = f[j] => i = j
                 /\ \A k \in 1..Len(q) :
                       q[k] \in S => \E j \in 1..Len(Selected(q, S)) : f[j] = k
<1> DEFINE I == {i \in DOMAIN q : q[i] \in S}
           n == Cardinality(I)
           UpTo(i) == {j \in I : j <= i}
           place == [i \in I |-> Cardinality(UpTo(i))]
           f == [k \in 1..n |-> CHOOSE i \in I : Cardinality(UpTo(i)) = k]
<1>1. /\ Len(q) \in Nat /\ DOMAIN q = 1..Len(q) /\ \A i \in 1..Len(q) : q[i] \in T
      /\ I \subseteq Nat /\ I \subseteq 1..Len(q)
  BY LenProperties, ElementOfSeq
<1>2. Selected(q, S) = [k \in 1..n |-> q[f[k]]]
  BY DEF Selected
<1>3. /\ \A k \in 1..Len(q) : q[k] \in S => k \in I
      /\ \A i \in I : q[i] \in S
  BY <1>1
<1> HIDE DEF I
<1>4. IsFiniteSet(I) /\ n \in Nat
  <2>1. IsFiniteSet(1..Len(q))
    BY <1>1, FS_Interval
  <2>2. IsFiniteSet(I)
    BY <1>1, <2>1, FS_Subset
  <2>3. QED
    BY <2>2, FS_CardinalityType
<1>5. \A i \in I : IsFiniteSet(UpTo(i)) /\ Cardinality(UpTo(i)) \in 1..n
  <2> SUFFICES ASSUME NEW i \in I
               PROVE  IsFiniteSet(UpTo(i)) /\ Cardinality(UpTo(i)) \in 1..n
    OBVIOUS
  <2>1. UpTo(i) \in SUBSET I /\ i \in UpTo(i)
    BY <1>1
  <2> HIDE DEF UpTo
  <2>2. IsFiniteSet(UpTo(i)) /\ Cardinality(UpTo(i)) <= n
    BY <1>4, <2>1, FS_Subset
  <2>3. Cardinality(UpTo(i)) \in Nat /\ Cardinality(UpTo(i)) # 0
    BY <2>1, <2>2, FS_CardinalityType, FS_EmptySet
  <2>4. QED
    BY <1>4, <2>2, <2>3
<1>6. ASSUME NEW i \in I, NEW j \in I, i < j
      PROVE  Cardinality(UpTo(i)) # Cardinality(UpTo(j))
  <2>1. i \in Nat /\ j \in Nat /\ \A k \in I : k \in Nat
    BY <1>1
  <2>2. \A k \in I : k <= i => k <= j
    BY <1>6, <2>1
  <2>3. UpTo(i) \in SUBSET UpTo(j) /\ j \in UpTo(j) /\ j \notin UpTo(i)
    <3>1. UpTo(i) \in SUBSET UpTo(j)
      BY <2>2
    <3>2. j <= j /\ ~(j <= i)
      BY <1>6, <2>1
    <3>3. QED
      BY <3>1, <3>2
  <2> HIDE DEF UpTo
  <2>4. QED
    BY <1>5, <2>3, FS_Subset
<1>7. \A i, j \in I : Cardinality(UpTo(i)) = Cardinality(UpTo(j)) => i = j
  <2>1. \A i, j \in I : i < j \/ j < i \/ i = j
    BY <1>1
  <2> HIDE DEF UpTo
  <2>2. QED
    BY <1>6, <2>1
<1>8. \A k \in 1..n : \E i \in I : Cardinality(UpTo(i)) = k
  <2> HIDE DEF UpTo, n
  <2>1. place \in Injection(I, 1..n)
    BY <1>5, <1>7 DEF Injection, IsInjective
  <2>2. IsFiniteSet(1..n) /\ Cardinality(1..n) = n
    BY <1>4, FS_Interval
  <2>3. place \in Surjection(I, 1..n)
    BY <2>1, <2>2, FS_Injection DEF n
  <2>4. QED
    BY <2>3 DEF Surjection
<1>9. /\ \A k \in 1..n : f[k] \in I /\ Cardinality(UpTo(f[k])) = k
      /\ f \in [1..n -> 1..Len(q)]
  <2> HIDE DEF UpTo, n
  <2>1. \A k \in 1..n : f[k] \in I /\ Cardinality(UpTo(f[k])) = k
    BY <1>8
  <2>2. QED
    BY <1>1, <2>1
<1> HIDE DEF f, UpTo, n
<1>10. \A i, j \in 1..n : f[i] = f[j] => i = j
  BY <1>9
<1>11. \A i \in I : \E k \in 1..n : f[k] = i
  BY <1>5, <1>7, <1>9
<1> DEFINE e(k) == q[f[k]]
           r == Selected(q, S)
<1>12. r \in Seq(T) /\ Len(r) = n /\ \A k \in 1..n : r[k] = q[f[k]]
  <2>1. \A k \in 1..n : e(k) \in T
    BY <1>1, <1>9
  <2>2. r = [k \in 1..n |-> e(k)]
    BY <1>2
  <2> HIDE DEF e, r
  <2>3. r \in Seq(T)
    BY <1>4, <2>1, <2>2, IsASeq
  <2>4. Len(r) = n
    BY <1>4, <2>2
  <2>5. QED
    BY <2>2, <2>3, <2>4 DEF e
<1> HIDE DEF r
<1>13. QED
  BY <1>3, <1>9, <1>10, <1>11, <1>12 DEF r
-----------------------------------------------------------------------------
(* What FlattenSeq computes. *)
Flat(s, n) ==
    CHOOSE f : f = [i \in 1..n |-> IF i = 1 THEN s[i] ELSE f[i - 1] \o s[i]]

LEMMA FlatExists ==
    ASSUME NEW s, NEW n \in Nat
    PROVE  Flat(s, n) =
              [i \in 1..n |-> IF i = 1 THEN s[i] ELSE Flat(s, n)[i - 1] \o s[i]]
<1> DEFINE Body(f, m) == [i \in 1..m |-> IF i = 1 THEN s[i] ELSE f[i - 1] \o s[i]]
           Bad == {m \in Nat : ~ \E f : f = Body(f, m)}
<1>1. ASSUME Bad # {} PROVE FALSE
  <2>1. PICK m \in Bad : \A k \in Bad : m <= k
    <3> HIDE DEF Body
    <3>1. Bad \in SUBSET Nat
      OBVIOUS
    <3> HIDE DEF Bad
    <3>2. QED
      BY <1>1, <3>1, LeastOfNats
  <2>2. m \in Nat /\ ~ \E f : f = Body(f, m)
    <3> HIDE DEF Body
    <3> QED
      OBVIOUS
  <2>3. CASE m = 0
    <3> DEFINE g == [i \in {} |-> <<>>]
    <3>1. g = Body(g, 0)
      OBVIOUS
    <3>2. QED
      BY <2>2, <2>3, <3>1
  <2>4. CASE m # 0
    <3>1. m - 1 \in Nat /\ m - 1 \notin Bad
      <4> HIDE DEF Bad
      <4>1. m - 1 \in Nat /\ ~(m <= m - 1)
        BY <2>2, <2>4
      <4>2. QED
        BY <2>1, <4>1
    <3>2. PICK f : f = Body(f, m - 1)
      <4> HIDE DEF Body
      <4> QED
        BY <3>1
    <3> DEFINE g == [i \in 1..m |-> IF i < m THEN f[i]
                                    ELSE IF i = 1 THEN s[i] ELSE f[i - 1] \o s[i]]
    <3>3. ASSUME NEW i \in 1..m
          PROVE  g[i] = IF i = 1 THEN s[i] ELSE g[i - 1] \o s[i]
      <4>1. CASE i = 1
        BY <2>2, <3>2, <4>1
      <4>2. CASE i # 1 /\ i = m
        <5>1. i - 1 \in 1..m /\ i - 1 < m /\ ~(i < m)
          BY <2>2, <4>2
        <5>2. g[i - 1] = f[i - 1]
          BY <5>1
        <5>3. QED
          BY <4>2, <5>1, <5>2
      <4>3. CASE i # 1 /\ i # m
        <5>1. i \in 1..m - 1 /\ i - 1 \in 1..m /\ i < m /\ i - 1 < m
          BY <2>2, <4>3
        <5>2. g[i] = f[i] /\ g[i - 1] = f[i - 1]
          BY <5>1
        <5>3. f[i] = f[i - 1] \o s[i]
          BY <3>2, <4>3, <5>1
        <5>4. QED
          BY <4>3, <5>2, <5>3
      <4>4. QED
        BY <4>1, <4>2, <4>3
    <3>4. g = Body(g, m)
      BY <3>3
    <3>5. QED
      BY <2>2, <3>4
  <2>5. QED
    BY <2>3, <2>4
<1>2. \E f : f = Body(f, n)
  <2> HIDE DEF Body
  <2> QED
    BY <1>1
<1>3. Flat(s, n) = CHOOSE f : f = Body(f, n)
  BY DEF Flat
<1>4. Flat(s, n) = Body(Flat(s, n), n)
  <2> HIDE DEF Body
  <2> QED
    BY <1>2, <1>3
<1>5. QED
  BY <1>4

(* r has the elements of the first m sequences of s, each once: its n-th is *)
(* the b[n]-th of the a[n]-th.                                              *)
Spread(s, m, r, a, b) ==
    /\ a \in [1..Len(r) -> 1..m] /\ b \in [1..Len(r) -> Nat]
    /\ \A n \in 1..Len(r) : b[n] \in 1..Len(s[a[n]]) /\ r[n] = s[a[n]][b[n]]
    /\ \A n, o \in 1..Len(r) : a[n] = a[o] /\ b[n] = b[o] => n = o
    /\ \A i \in 1..m : \A k \in 1..Len(s[i]) :
           \E n \in 1..Len(r) : a[n] = i /\ b[n] = k

LEMMA SpreadMore ==
    ASSUME NEW T, NEW s \in Seq(Seq(T)), NEW m \in 1..Len(s), NEW r \in Seq(T),
           NEW a, NEW b, Spread(s, m - 1, r, a, b)
    PROVE  \E c, d : Spread(s, m, r \o s[m], c, d)
<1> DEFINE l == Len(r)
           t == s[m]
           j == Len(t)
           u == r \o t
           c == [n \in 1..l + j |-> IF n <= l THEN a[n] ELSE m]
           d == [n \in 1..l + j |-> IF n <= l THEN b[n] ELSE n - l]
<1>1. Len(s) \in Nat /\ m \in Nat /\ m >= 1 /\ t \in Seq(T)
  BY LenProperties, ElementOfSeq
<1>2. l \in Nat /\ j \in Nat
  BY <1>1, LenProperties
<1>3. /\ Len(u) = l + j
      /\ \A n \in 1..l + j : u[n] = IF n <= l THEN r[n] ELSE t[n - l]
  BY <1>1, ConcatProperties
<1> HIDE DEF u, l, j
<1>4. /\ a \in [1..l -> 1..m - 1] /\ b \in [1..l -> Nat]
      /\ \A n \in 1..l : b[n] \in 1..Len(s[a[n]]) /\ r[n] = s[a[n]][b[n]]
      /\ \A n, o \in 1..l : a[n] = a[o] /\ b[n] = b[o] => n = o
      /\ \A i \in 1..m - 1 : \A k \in 1..Len(s[i]) :
             \E n \in 1..l : a[n] = i /\ b[n] = k
  BY DEF Spread, l
<1>5. \A n \in 1..l : a[n] \in 1..m - 1 /\ b[n] \in Nat
  BY <1>4
<1>6. \A n \in 1..l + j :
          \/ n \in 1..l /\ n <= l /\ c[n] = a[n] /\ d[n] = b[n]
          \/ ~(n <= l) /\ n - l \in 1..j /\ c[n] = m /\ d[n] = n - l
  BY <1>2
<1>7. c \in [1..l + j -> 1..m]
  BY <1>1, <1>2, <1>5
<1>8. d \in [1..l + j -> Nat]
  BY <1>2, <1>5
<1> HIDE DEF c, d
<1>9. ASSUME NEW n \in 1..l + j
      PROVE  d[n] \in 1..Len(s[c[n]]) /\ u[n] = s[c[n]][d[n]]
  <2>1. CASE n \in 1..l /\ n <= l /\ c[n] = a[n] /\ d[n] = b[n]
    <3>1. u[n] = r[n]
      BY <1>3, <2>1
    <3>2. b[n] \in 1..Len(s[a[n]]) /\ r[n] = s[a[n]][b[n]]
      BY <1>4, <2>1
    <3>3. QED
      BY <2>1, <3>1, <3>2
  <2>2. CASE ~(n <= l) /\ n - l \in 1..j /\ c[n] = m /\ d[n] = n - l
    <3>1. u[n] = t[n - l]
      BY <1>3, <2>2
    <3>2. QED
      BY <2>2, <3>1 DEF j
  <2>3. QED
    BY <1>6, <2>1, <2>2
<1>10. ASSUME NEW n \in 1..l + j, NEW o \in 1..l + j, c[n] = c[o], d[n] = d[o]
       PROVE  n = o
  <2>1. CASE n \in 1..l /\ o \in 1..l
    <3>1. c[n] = a[n] /\ c[o] = a[o] /\ d[n] = b[n] /\ d[o] = b[o]
      BY <1>2, <1>6, <2>1
    <3>2. a[n] = a[o] /\ b[n] = b[o]
      BY <1>10, <3>1
    <3>3. QED
      BY <1>4, <2>1, <3>2, Zenon
  <2>2. CASE n \in 1..l /\ o \notin 1..l
    BY <1>1, <1>2, <1>5, <1>6, <1>10, <2>2
  <2>3. CASE n \notin 1..l /\ o \in 1..l
    BY <1>1, <1>2, <1>5, <1>6, <1>10, <2>3
  <2>4. CASE n \notin 1..l /\ o \notin 1..l
    BY <1>2, <1>6, <1>10, <2>4
  <2>5. QED
    BY <2>1, <2>2, <2>3, <2>4
<1>11. ASSUME NEW i \in 1..m, NEW k \in 1..Len(s[i])
       PROVE  \E n \in 1..l + j : c[n] = i /\ d[n] = k
  <2>1. CASE i = m
    <3>1. k \in 1..j
      BY <2>1 DEF j
    <3>2. l + k \in 1..l + j /\ ~(l + k <= l) /\ (l + k) - l = k
      BY <1>2, <3>1
    <3>3. QED
      BY <1>6, <2>1, <3>2
  <2>2. CASE i # m
    <3>1. i \in 1..m - 1
      BY <1>1, <2>2
    <3>2. PICK n \in 1..l : a[n] = i /\ b[n] = k
      BY <1>4, <3>1
    <3>3. n \in 1..l + j /\ n <= l
      BY <1>2
    <3>4. QED
      BY <1>6, <3>2, <3>3
  <2>3. QED
    BY <2>1, <2>2
<1>12. Spread(s, m, u, c, d)
  BY <1>3, <1>7, <1>8, <1>9, <1>10, <1>11 DEF Spread
<1>13. QED
  BY <1>12 DEF u

LEMMA Flattened ==
    ASSUME NEW T, NEW s \in Seq(Seq(T))
    PROVE  /\ FlattenSeq(s) \in Seq(T)
           /\ \E a, b : Spread(s, Len(s), FlattenSeq(s), a, b)
<1> DEFINE L == Flat(s, Len(s))
           Good(m) == L[m] \in Seq(T) /\ \E a, b : Spread(s, m, L[m], a, b)
           Bad == {m \in 1..Len(s) : ~Good(m)}
<1>1. Len(s) \in Nat /\ \A i \in 1..Len(s) : s[i] \in Seq(T)
  BY LenProperties, ElementOfSeq
<1>2. L = [i \in 1..Len(s) |-> IF i = 1 THEN s[i] ELSE L[i - 1] \o s[i]]
  BY <1>1, FlatExists
<1> HIDE DEF L
<1>3. \A i \in 1..Len(s) : L[i] = IF i = 1 THEN s[i] ELSE L[i - 1] \o s[i]
  BY <1>2
<1>4. \E a, b : Spread(s, 0, <<>>, a, b)
  <2> DEFINE e == [i \in {} |-> 0]
  <2>1. 1..Len(<<>>) = {} /\ 1..0 = {} /\ e \in [{} -> {}] /\ e \in [{} -> Nat]
    OBVIOUS
  <2>2. Spread(s, 0, <<>>, e, e)
    BY <2>1 DEF Spread
  <2> HIDE DEF e
  <2>3. QED
    BY <2>2
<1>5. ASSUME Bad # {} PROVE FALSE
  <2>1. PICK m \in Bad : \A k \in Bad : m <= k
    <3>1. Bad \in SUBSET Nat
      BY <1>1
    <3> HIDE DEF Bad
    <3>2. QED
      BY <1>5, <3>1, LeastOfNats
  <2>2. m \in 1..Len(s) /\ m \in Nat /\ ~Good(m)
    <3> HIDE DEF Good
    <3> QED
      BY <1>1
  <2>3. \E r \in Seq(T) : L[m] = r \o s[m] /\ \E a, b : Spread(s, m - 1, r, a, b)
    <3>1. CASE m = 1
      <4>1. L[m] = <<>> \o s[m] /\ <<>> \in Seq(T) /\ m - 1 = 0
        BY <1>1, <1>3, <2>2, <3>1, ConcatEmptySeq
      <4>2. QED
        BY <1>4, <4>1
    <3>2. CASE m # 1
      <4>1. m - 1 \in 1..Len(s) /\ ~(m <= m - 1)
        BY <1>1, <2>2, <3>2
      <4>2. Good(m - 1)
        <5> HIDE DEF Good
        <5> QED
          BY <2>1, <4>1
      <4>3. QED
        BY <1>3, <2>2, <3>2, <4>2
    <3>3. QED
      BY <3>1, <3>2
  <2>4. PICK r \in Seq(T) : L[m] = r \o s[m] /\ \E a, b : Spread(s, m - 1, r, a, b)
    BY <2>3
  <2>5. L[m] \in Seq(T)
    BY <1>1, <2>2, <2>4, ConcatProperties
  <2>6. \E a, b : Spread(s, m, L[m], a, b)
    BY <2>2, <2>4, SpreadMore
  <2>7. QED
    BY <2>2, <2>5, <2>6
<1>6. FlattenSeq(s) = IF Len(s) = 0 THEN s ELSE L[Len(s)]
  BY DEF FlattenSeq, L, Flat
<1>7. CASE Len(s) = 0
  <2>1. s = <<>>
    BY <1>7, EmptySeq
  <2>2. QED
    BY <1>4, <1>6, <1>7, <2>1
<1>8. CASE Len(s) # 0
  <2>1. Len(s) \in 1..Len(s)
    BY <1>1, <1>8
  <2>2. Good(Len(s))
    <3> HIDE DEF Good
    <3> QED
      BY <1>5, <2>1
  <2>3. QED
    BY <1>6, <1>8, <2>2
<1>9. QED
  BY <1>7, <1>8
-----------------------------------------------------------------------------
(* The inductive invariant but for the places of packets: the types;        *)
(* addresses apart; the sweeper's list is empty unless it reports; a request*)
(* holds packets for its address; and an entry has a MAC that its host      *)
(* announced.                                                               *)
OneSlot ==
    \A s, t \in Slots :
        Valid(s) /\ Valid(t) /\ entries[s].ip = entries[t].ip => s = t
ListedToReport == sweeper # "reporting" => pkt_list = <<>>
QueuedRight ==
    \A i \in Requests : \A k \in DOMAIN req_list[i].pkts :
        NextHop[req_list[i].pkts[k]] = req_list[i].ip
EntriesTrue == \A s \in Slots : Valid(s) => entries[s].mac \in Owns[entries[s].ip]

CacheInv ==
    /\ TypeOK /\ OneRequest /\ OneSlot /\ ListedToReport
    /\ QueuedRight /\ EntriesTrue /\ RightHost

(* Each packet is in one place. *)
Placed == \A p \in Packets : \E x : Places(p) = {x}
IInv == CacheInv /\ Placed

LEMMA RequestList ==
    ASSUME TypeOK
    PROVE  /\ Len(req_list) \in Nat /\ Requests = 1..Len(req_list)
           /\ \A i \in Requests :
                 /\ req_list[i] \in Request
                 /\ req_list[i].pkts \in Seq(Packets)
                 /\ Len(req_list[i].pkts) \in Nat
                 /\ DOMAIN req_list[i].pkts = 1..Len(req_list[i].pkts)
<1>1. req_list \in Seq(Request)
  BY DEF TypeOK
<1>2. Len(req_list) \in Nat /\ Requests = 1..Len(req_list)
  BY <1>1, LenProperties DEF Requests
<1>3. \A i \in Requests : req_list[i] \in Request
  BY <1>1, <1>2, ElementOfSeq
<1>4. \A i \in Requests : req_list[i].pkts \in Seq(Packets)
  BY <1>3 DEF Request
<1>5. QED
  BY <1>2, <1>3, <1>4, LenProperties

LEMMA FirstOf ==
    ASSUME NEW I \in SUBSET Nat, I # {}
    PROVE  First(I) \in I
<1>1. \E i \in I : \A j \in I : i <= j
  BY LeastOfNats
<1>2. QED
  BY <1>1 DEF First

(* The new requests are some of the old ones: the j-th was the f[j]-th.     *)
Thinned(f) ==
    /\ req_list' \in Seq(Request)
    /\ f \in [1..Len(req_list') -> 1..Len(req_list)]
    /\ \A i, j \in 1..Len(req_list') : f[i] = f[j] => i = j
    /\ \A j \in 1..Len(req_list') :
          /\ req_list'[j].ip = req_list[f[j]].ip
          /\ req_list'[j].pkts = req_list[f[j]].pkts

LEMMA ThinnedInv ==
    ASSUME TypeOK, OneRequest, QueuedRight, NEW f, Thinned(f)
    PROVE  OneRequest' /\ QueuedRight'
<1>1. Requests = 1..Len(req_list) /\ Requests' = 1..Len(req_list')
  BY RequestList, LenProperties DEF Thinned, Requests
<1>2. \A j \in Requests' : /\ f[j] \in Requests
                           /\ req_list'[j].ip = req_list[f[j]].ip
                           /\ req_list'[j].pkts = req_list[f[j]].pkts
  BY <1>1 DEF Thinned
<1>3. OneRequest'
  <2> SUFFICES ASSUME NEW i \in Requests', NEW j \in Requests',
                      req_list'[i].ip = req_list'[j].ip
               PROVE  i = j
    BY DEF OneRequest
  <2>1. f[i] = f[j]
    BY <1>2 DEF OneRequest
  <2>2. QED
    BY <1>1, <2>1 DEF Thinned
<1>4. QueuedRight'
  BY <1>2 DEF QueuedRight
<1>5. QED
  BY <1>3, <1>4

(* The request served is taken out of the list. *)
LEMMA RemovedOne ==
    ASSUME TypeOK, NEW i \in Requests, req_list' = RemoveAt(req_list, i)
    PROVE  /\ Len(req_list') = Len(req_list) - 1
           /\ Thinned([j \in 1..Len(req_list) - 1 |-> IF j < i THEN j ELSE j + 1])
<1> DEFINE q == req_list
           n == Len(q)
           l == SubSeq(q, 1, i - 1)
           r == SubSeq(q, i + 1, n)
           f == [j \in 1..n - 1 |-> IF j < i THEN j ELSE j + 1]
<1>1. q \in Seq(Request) /\ n \in Nat /\ i \in 1..n /\ \A j \in 1..n : q[j] \in Request
  BY RequestList DEF TypeOK
<1>2. l \in Seq(Request) /\ Len(l) = i - 1 /\ \A j \in 1..i - 1 : l[j] = q[j]
  <2>1. 1 \in Int /\ i - 1 \in Int /\ \A j \in 1..i - 1 : q[j] \in Request
    BY <1>1
  <2> HIDE DEF q
  <2>2. /\ l \in Seq(Request) /\ Len(l) = IF 1 <= i - 1 THEN i - 1 - 1 + 1 ELSE 0
        /\ \A j \in 1..i - 1 - 1 + 1 : l[j] = q[1 + j - 1]
    BY <2>1, SubSeqProperties
  <2>3. QED
    BY <1>1, <2>2
<1>3. r \in Seq(Request) /\ Len(r) = n - i /\ \A j \in 1..n - i : r[j] = q[i + j]
  <2>1. i + 1 \in Int /\ n \in Int /\ \A j \in i + 1..n : q[j] \in Request
    BY <1>1
  <2> HIDE DEF q, n
  <2>2. /\ r \in Seq(Request) /\ Len(r) = IF i + 1 <= n THEN n - (i + 1) + 1 ELSE 0
        /\ \A j \in 1..n - (i + 1) + 1 : r[j] = q[(i + 1) + j - 1]
    BY <2>1, SubSeqProperties
  <2>3. QED
    BY <1>1, <2>2
<1>4. req_list' = l \o r
  BY DEF RemoveAt
<1> HIDE DEF l, r
<1>5. /\ req_list' \in Seq(Request) /\ Len(req_list') = n - 1
      /\ \A j \in 1..n - 1 : req_list'[j] = IF j <= i - 1 THEN l[j] ELSE r[j - (i - 1)]
  <2>1. /\ l \o r \in Seq(Request) /\ Len(l \o r) = Len(l) + Len(r)
        /\ \A j \in 1..Len(l) + Len(r) :
              (l \o r)[j] = IF j <= Len(l) THEN l[j] ELSE r[j - Len(l)]
    BY <1>2, <1>3, ConcatProperties
  <2>2. Len(l) + Len(r) = n - 1
    BY <1>1, <1>2, <1>3
  <2>3. QED
    BY <1>2, <1>4, <2>1, <2>2
<1>6. ASSUME NEW j \in 1..n - 1
      PROVE  f[j] \in 1..n /\ req_list'[j] = q[f[j]]
  <2>1. CASE j < i
    <3>1. j \in 1..i - 1 /\ j <= i - 1 /\ f[j] = j
      BY <1>1, <2>1
    <3>2. QED
      BY <1>1, <1>2, <1>5, <3>1
  <2>2. CASE ~(j < i)
    <3>1. j - (i - 1) \in 1..n - i /\ ~(j <= i - 1) /\ f[j] = j + 1 /\ i + (j - (i - 1)) = j + 1
      BY <1>1, <2>2
    <3>2. QED
      BY <1>1, <1>3, <1>5, <3>1
  <2>3. QED
    BY <2>1, <2>2
<1>7. f \in [1..n - 1 -> 1..n]
  BY <1>1
<1>8. \A j, k \in 1..n - 1 : f[j] = f[k] => j = k
  BY <1>1
<1> HIDE DEF f
<1>9. Thinned(f)
  BY <1>5, <1>6, <1>7, <1>8 DEF Thinned
<1>10. QED
  BY <1>5, <1>9 DEF f
-----------------------------------------------------------------------------
(* arpcache_sweep: what becomes of the list of requests. *)

(* The requests not given up stay, and none else. *)
Spared(f) ==
    /\ Thinned(f)
    /\ \A j \in 1..Len(req_list') : ~Due(req_list[f[j]])
    /\ \A i \in Requests : ~Due(req_list[i]) => \E j \in 1..Len(req_list') : f[j] = i

(* The packets of those given up are listed, each once: the n-th was the    *)
(* v[n]-th of the u[n]-th request.                                          *)
Gathered(u, v) ==
    /\ pkt_list' \in Seq(Packets)
    /\ u \in [1..Len(pkt_list') -> 1..Len(req_list)]
    /\ v \in [1..Len(pkt_list') -> Nat]
    /\ \A n \in 1..Len(pkt_list') :
          /\ Due(req_list[u[n]]) /\ v[n] \in DOMAIN req_list[u[n]].pkts
          /\ pkt_list'[n] = req_list[u[n]].pkts[v[n]]
    /\ \A n, o \in 1..Len(pkt_list') : u[n] = u[o] /\ v[n] = v[o] => n = o
    /\ \A i \in Requests : Due(req_list[i]) =>
          \A k \in DOMAIN req_list[i].pkts :
              \E n \in 1..Len(pkt_list') : u[n] = i /\ v[n] = k

LEMMA SweepSpares ==
    ASSUME TypeOK, Sweep
    PROVE  \E f : Spared(f)
<1> DEFINE S == {r \in ToSet(req_list) : ~Due(r)}
<1>1. req_list \in Seq(Request) /\ \A i \in 1..Len(req_list) :
          req_list[i] \in S <=> ~Due(req_list[i])
  BY LenProperties DEF TypeOK, ToSet
<1>2. Kept = Selected(req_list, S)
  BY DEF Kept
<1> HIDE DEF S
<1>3. PICK f \in [1..Len(Kept) -> 1..Len(req_list)] :
          /\ \A j \in 1..Len(Kept) : Kept[j] = req_list[f[j]] /\ req_list[f[j]] \in S
          /\ \A i, j \in 1..Len(Kept) : f[i] = f[j] => i = j
          /\ \A i \in 1..Len(req_list) :
                req_list[i] \in S => \E j \in 1..Len(Kept) : f[j] = i
  BY <1>1, <1>2, SelectedPlaces
<1>4. Len(Kept) \in Nat /\ DOMAIN Kept = 1..Len(Kept)
  BY <1>1, <1>2, SelectedPlaces, LenProperties
<1>5. req_list' = [j \in 1..Len(Kept) |-> Retried(Kept[j])]
  BY <1>4 DEF Sweep
<1>6. ASSUME NEW r \in Request, ~Due(r)
      PROVE  Retried(r) \in Request /\ Retried(r).ip = r.ip /\ Retried(r).pkts = r.pkts
  <2>1. r.age >= 1 => r.retries + 1 \in 1..MaxRetries
    BY <1>6, ConstantsAssumption DEF Due, Request
  <2>2. QED
    BY <2>1 DEF Retried, Request
<1>7. \A j \in 1..Len(Kept) : Kept[j] \in Request /\ ~Due(Kept[j])
  BY <1>1, <1>3, ElementOfSeq
<1>8. req_list' \in [1..Len(Kept) -> Request]
  BY <1>5, <1>6, <1>7
<1>9. req_list' \in Seq(Request) /\ Len(req_list') = Len(Kept)
  <2>1. req_list' \in Seq(Request)
    BY <1>4, <1>8, SeqDef
  <2>2. DOMAIN req_list' = 1..Len(Kept) /\ Len(req_list') \in Nat
        /\ DOMAIN req_list' = 1..Len(req_list')
    BY <1>8, <2>1, LenProperties
  <2>3. QED
    BY <1>4, <2>1, <2>2
<1>10. Thinned(f)
  <2>1. \A j \in 1..Len(Kept) :
            /\ req_list'[j].ip = req_list[f[j]].ip
            /\ req_list'[j].pkts = req_list[f[j]].pkts
    BY <1>3, <1>5, <1>6, <1>7
  <2>2. QED
    BY <1>3, <1>9, <2>1 DEF Thinned
<1>11. Requests = 1..Len(req_list) /\ \A i \in Requests : req_list[i] \in Request
  BY RequestList
<1>12. Spared(f)
  BY <1>1, <1>3, <1>9, <1>10, <1>11 DEF Spared
<1>13. QED
  BY <1>12

LEMMA SweepGathers ==
    ASSUME TypeOK, Sweep
    PROVE  \E u, v : Gathered(u, v)
<1> DEFINE S == {r \in ToSet(req_list) : Due(r)}
           due == Selected(req_list, S)
           s == [i \in DOMAIN due |-> due[i].pkts]
<1>1. req_list \in Seq(Request) /\ \A i \in 1..Len(req_list) :
          req_list[i] \in S <=> Due(req_list[i])
  BY LenProperties DEF TypeOK, ToSet
<1>2. pkt_list' = FlattenSeq(s)
  BY DEF Sweep
<1>3. due = Selected(req_list, S) /\ due \in Seq(Request)
  <2> HIDE DEF S
  <2> QED
    BY <1>1, SelectedPlaces
<1> HIDE DEF S, due
<1>4. PICK f \in [1..Len(due) -> 1..Len(req_list)] :
          /\ \A j \in 1..Len(due) : due[j] = req_list[f[j]] /\ req_list[f[j]] \in S
          /\ \A i, j \in 1..Len(due) : f[i] = f[j] => i = j
          /\ \A i \in 1..Len(req_list) :
                req_list[i] \in S => \E j \in 1..Len(due) : f[j] = i
  BY <1>1, <1>3, SelectedPlaces
<1>5. Len(due) \in Nat /\ DOMAIN due = 1..Len(due)
  BY <1>3, LenProperties
<1>6. s \in Seq(Seq(Packets)) /\ Len(s) = Len(due)
      /\ \A i \in 1..Len(due) : s[i] = due[i].pkts
  <2>1. \A i \in 1..Len(due) : due[i].pkts \in Seq(Packets)
    <3>1. \A i \in 1..Len(due) : due[i] \in Request
      BY <1>3, ElementOfSeq
    <3>2. QED
      BY <3>1 DEF Request
  <2>2. s \in [1..Len(due) -> Seq(Packets)]
    BY <1>5, <2>1
  <2>3. s \in Seq(Seq(Packets))
    BY <1>5, <2>2, SeqDef
  <2>4. DOMAIN s = 1..Len(due) /\ Len(s) \in Nat /\ DOMAIN s = 1..Len(s)
    BY <2>2, <2>3, LenProperties
  <2>5. QED
    BY <1>5, <2>3, <2>4
<1> HIDE DEF s
<1>7. /\ pkt_list' \in Seq(Packets)
      /\ \E a, b : Spread(s, Len(due), pkt_list', a, b)
  BY <1>2, <1>6, Flattened
<1>8. PICK a, b : Spread(s, Len(due), pkt_list', a, b)
  BY <1>7
<1> DEFINE l == Len(pkt_list')
           u == [n \in 1..l |-> f[a[n]]]
<1>9. /\ a \in [1..l -> 1..Len(due)] /\ b \in [1..l -> Nat]
      /\ \A n \in 1..l : b[n] \in 1..Len(s[a[n]]) /\ pkt_list'[n] = s[a[n]][b[n]]
      /\ \A n, o \in 1..l : a[n] = a[o] /\ b[n] = b[o] => n = o
      /\ \A i \in 1..Len(due) : \A k \in 1..Len(s[i]) :
             \E n \in 1..l : a[n] = i /\ b[n] = k
  BY <1>8 DEF Spread
<1> HIDE DEF l
<1>10. /\ Requests = 1..Len(req_list)
       /\ \A i \in Requests : /\ req_list[i] \in Request
                              /\ DOMAIN req_list[i].pkts = 1..Len(req_list[i].pkts)
  BY RequestList
<1>11. ASSUME NEW j \in 1..Len(due)
       PROVE  /\ f[j] \in Requests /\ Due(req_list[f[j]])
              /\ s[j] = req_list[f[j]].pkts
              /\ DOMAIN req_list[f[j]].pkts = 1..Len(s[j])
  <2>1. f[j] \in 1..Len(req_list) /\ due[j] = req_list[f[j]] /\ Due(req_list[f[j]])
    BY <1>1, <1>4
  <2>2. s[j] = due[j].pkts
    BY <1>6
  <2>3. QED
    BY <1>10, <2>1, <2>2
<1>12. u \in [1..l -> 1..Len(req_list)]
  BY <1>9, <1>10, <1>11
<1>13. ASSUME NEW n \in 1..l
       PROVE  /\ Due(req_list[u[n]]) /\ b[n] \in DOMAIN req_list[u[n]].pkts
              /\ pkt_list'[n] = req_list[u[n]].pkts[b[n]]
  <2>1. a[n] \in 1..Len(due) /\ u[n] = f[a[n]]
    BY <1>9
  <2>2. b[n] \in 1..Len(s[a[n]]) /\ pkt_list'[n] = s[a[n]][b[n]]
    BY <1>9
  <2> HIDE DEF u
  <2>3. QED
    BY <1>11, <2>1, <2>2
<1>14. ASSUME NEW n \in 1..l, NEW o \in 1..l, u[n] = u[o], b[n] = b[o]
       PROVE  n = o
  <2>1. a[n] \in 1..Len(due) /\ a[o] \in 1..Len(due) /\ f[a[n]] = f[a[o]]
    BY <1>9, <1>14
  <2>2. a[n] = a[o]
    BY <1>4, <2>1
  <2>3. QED
    BY <1>9, <1>14, <2>2, Zenon
<1>15. ASSUME NEW i \in Requests, Due(req_list[i]), NEW k \in DOMAIN req_list[i].pkts
       PROVE  \E n \in 1..l : u[n] = i /\ b[n] = k
  <2>1. PICK j \in 1..Len(due) : f[j] = i
    BY <1>1, <1>4, <1>10, <1>15
  <2>2. k \in 1..Len(s[j])
    BY <1>11, <2>1
  <2>3. PICK n \in 1..l : a[n] = j /\ b[n] = k
    BY <1>9, <2>2
  <2>4. u[n] = i
    BY <2>1, <2>3
  <2>5. QED
    BY <2>3, <2>4
<1> HIDE DEF u
<1>16. Gathered(u, b)
  BY <1>7, <1>9, <1>12, <1>13, <1>14, <1>15 DEF Gathered, l
<1>17. QED
  BY <1>16
-----------------------------------------------------------------------------
(* CacheInv is kept by every step. *)

LEMMA Parts ==
    ASSUME CacheInv
    PROVE  /\ TypeOK /\ OneRequest /\ OneSlot /\ ListedToReport
           /\ QueuedRight /\ EntriesTrue /\ RightHost
           /\ \A p \in Packets : NextHop[p] \in Ips
BY ConstantsAssumption DEF CacheInv

LEMMA HeldEntry ==
    ASSUME TypeOK, NEW s \in Slots, Valid(s)
    PROVE  entries[s] \in Entry
BY DEF TypeOK, Valid

LEMMA LookupCache ==
    ASSUME CacheInv, NEW p \in Packets, Lookup(p)
    PROVE  CacheInv'
<1>1. /\ TypeOK /\ OneRequest /\ OneSlot /\ ListedToReport
      /\ QueuedRight /\ EntriesTrue /\ RightHost
  BY Parts
<1>2. /\ fresh' = fresh \ {p}
      /\ UNCHANGED <<entries, req_list, pkt_list, reported, sweeper>>
  BY DEF Lookup
<1>3. sent \in Seq(Packets \X Macs)
  BY <1>1 DEF TypeOK
<1>4. /\ sent' \in Seq(Packets \X Macs) /\ missed' \subseteq Packets /\ RightHost'
  <2>1. CASE Holding(NextHop[p]) # {}
    <3>1. PICK s \in Holding(NextHop[p]) : sent' = Append(sent, <<p, entries[s].mac>>)
      BY <2>1 DEF Lookup
    <3>2. s \in Slots /\ Valid(s) /\ entries[s].ip = NextHop[p]
      BY DEF Holding
    <3> DEFINE new == <<p, entries[s].mac>>
    <3>3. entries[s].mac \in Macs /\ entries[s].mac \in Owns[NextHop[p]]
      BY <1>1, <3>2, HeldEntry DEF Entry, EntriesTrue
    <3>4. new \in Packets \X Macs /\ new[2] \in Owns[NextHop[new[1]]]
      BY <3>3
    <3> HIDE DEF new
    <3>5. sent' = Append(sent, new)
      BY <3>1 DEF new
    <3>6. /\ sent' \in Seq(Packets \X Macs) /\ Len(sent') = Len(sent) + 1
          /\ sent'[Len(sent) + 1] = new
          /\ \A k \in 1..Len(sent) : sent'[k] = sent[k]
      BY <1>3, <3>4, <3>5, AppendProperties
    <3>7. /\ DOMAIN sent = 1..Len(sent) /\ Len(sent) \in Nat
          /\ DOMAIN sent' = 1..Len(sent) + 1
      BY <1>3, <3>6, LenProperties
    <3>8. \A k \in DOMAIN sent' : k \in DOMAIN sent \/ k = Len(sent) + 1
      BY <3>7
    <3>9. RightHost'
      BY <1>1, <3>4, <3>6, <3>7, <3>8 DEF RightHost
    <3>10. missed' = missed
      BY <2>1 DEF Lookup
    <3>11. QED
      BY <1>1, <3>6, <3>9, <3>10 DEF TypeOK
  <2>2. CASE Holding(NextHop[p]) = {}
    <3>1. missed' = missed \cup {p} /\ sent' = sent
      BY <2>2 DEF Lookup
    <3>2. QED
      BY <1>1, <1>3, <3>1 DEF TypeOK, RightHost
  <2>3. QED
    BY <2>1, <2>2
<1>5. TypeOK'
  BY <1>1, <1>2, <1>4 DEF TypeOK
<1>6. OneRequest' /\ OneSlot' /\ ListedToReport' /\ QueuedRight' /\ EntriesTrue'
  BY <1>1, <1>2 DEF OneRequest, OneSlot, ListedToReport, QueuedRight, EntriesTrue,
                    Requests, Valid
<1>7. QED
  BY <1>4, <1>5, <1>6 DEF CacheInv

(* A packet joins the request for its address: the i-th, or a new one.      *)
LEMMA Joins ==
    ASSUME TypeOK, NEW p \in Packets, AppendPacket(p), Pending(NextHop[p]) # {}
    PROVE  \E i \in Requests :
              /\ req_list[i].ip = NextHop[p]
              /\ req_list' \in Seq(Request) /\ Len(req_list') = Len(req_list)
              /\ Requests' = Requests
              /\ \A j \in Requests :
                    /\ req_list'[j].ip = req_list[j].ip
                    /\ req_list'[j].pkts = IF j = i THEN Append(req_list[j].pkts, p)
                                                    ELSE req_list[j].pkts
<1> DEFINE i == First(Pending(NextHop[p]))
<1>1. /\ req_list \in Seq(Request) /\ Len(req_list) \in Nat /\ Requests = 1..Len(req_list)
      /\ \A j \in Requests : req_list[j] \in Request /\ req_list[j].pkts \in Seq(Packets)
  BY RequestList DEF TypeOK
<1>2. i \in Pending(NextHop[p])
  <2>1. Pending(NextHop[p]) \in SUBSET Nat
    BY <1>1 DEF Pending, RequestsFor
  <2>2. QED
    BY <2>1, FirstOf
<1>3. req_list' = [req_list EXCEPT ![i].pkts = Append(@, p)]
  BY DEF AppendPacket
<1> HIDE DEF i
<1>4. i \in Requests /\ req_list[i].ip = NextHop[p]
  BY <1>2 DEF Pending, RequestsFor
<1> DEFINE r == [req_list[i] EXCEPT !.pkts = Append(@, p)]
<1>5. r \in Request /\ r.ip = req_list[i].ip /\ r.pkts = Append(req_list[i].pkts, p)
  <2>1. req_list[i] \in Request /\ Append(req_list[i].pkts, p) \in Seq(Packets)
    BY <1>1, <1>4, AppendProperties
  <2>2. QED
    BY <2>1 DEF Request
<1>6. req_list' = [req_list EXCEPT ![i] = r]
  BY <1>3
<1> HIDE DEF r
<1>7. /\ req_list' \in Seq(Request) /\ Len(req_list') = Len(req_list)
      /\ \A j \in 1..Len(req_list) : req_list'[j] = IF j = i THEN r ELSE req_list[j]
  BY <1>1, <1>4, <1>5, <1>6, ExceptSeq
<1>8. Requests' = Requests
  BY <1>1, <1>7, LenProperties DEF Requests
<1>9. \A j \in Requests :
          /\ req_list'[j].ip = req_list[j].ip
          /\ req_list'[j].pkts = IF j = i THEN Append(req_list[j].pkts, p)
                                          ELSE req_list[j].pkts
  BY <1>1, <1>5, <1>7
<1>10. QED
  BY <1>4, <1>7, <1>8, <1>9

LEMMA Opens ==
    ASSUME TypeOK, NEW p \in Packets, NextHop[p] \in Ips,
           AppendPacket(p), Pending(NextHop[p]) = {}
    PROVE  /\ req_list' \in Seq(Request) /\ Len(req_list') = Len(req_list) + 1
           /\ Requests' = 1..Len(req_list) + 1
           /\ req_list'[1].ip = NextHop[p] /\ req_list'[1].pkts = <<p>>
           /\ \A j \in Requests : req_list'[j + 1] = req_list[j]
           /\ \A j \in Requests : req_list[j].ip # NextHop[p]
<1> DEFINE r == [ip |-> NextHop[p], retries |-> 1, age |-> 0, pkts |-> <<p>>]
<1>1. /\ req_list \in Seq(Request) /\ Len(req_list) \in Nat /\ Requests = 1..Len(req_list)
  BY RequestList DEF TypeOK
<1>2. r \in Request
  BY ConstantsAssumption DEF Request
<1>3. req_list' = <<r>> \o req_list
  BY DEF AppendPacket
<1>4. r.ip = NextHop[p] /\ r.pkts = <<p>>
  OBVIOUS
<1> HIDE DEF r
<1>5. <<r>> \in Seq(Request) /\ Len(<<r>>) = 1 /\ <<r>>[1] = r
  BY <1>2
<1>6. /\ req_list' \in Seq(Request) /\ Len(req_list') = 1 + Len(req_list)
      /\ \A j \in 1..1 + Len(req_list) :
            req_list'[j] = IF j <= 1 THEN <<r>>[j] ELSE req_list[j - 1]
  BY <1>1, <1>3, <1>5, ConcatProperties
<1>7. req_list'[1] = r
  BY <1>1, <1>5, <1>6
<1>8. \A j \in Requests : req_list'[j + 1] = req_list[j]
  <2> SUFFICES ASSUME NEW j \in Requests PROVE req_list'[j + 1] = req_list[j]
    OBVIOUS
  <2>1. j + 1 \in 1..1 + Len(req_list) /\ ~(j + 1 <= 1) /\ (j + 1) - 1 = j
    BY <1>1
  <2>2. QED
    BY <1>6, <2>1
<1>9. Requests' = 1..Len(req_list) + 1
  BY <1>1, <1>6, LenProperties DEF Requests
<1>10. \A j \in Requests : req_list[j].ip # NextHop[p]
  BY DEF Pending, RequestsFor
<1>11. QED
  BY <1>1, <1>4, <1>6, <1>7, <1>8, <1>9, <1>10

LEMMA AppendCache ==
    ASSUME CacheInv, NEW p \in Packets, AppendPacket(p)
    PROVE  CacheInv'
<1>1. /\ TypeOK /\ OneRequest /\ OneSlot /\ ListedToReport
      /\ QueuedRight /\ EntriesTrue /\ RightHost /\ NextHop[p] \in Ips
  BY Parts
<1>2. /\ missed' = missed \ {p}
      /\ UNCHANGED <<entries, fresh, pkt_list, sent, reported, sweeper>>
  BY DEF AppendPacket
<1>3. req_list' \in Seq(Request) /\ OneRequest' /\ QueuedRight'
  <2>1. CASE Pending(NextHop[p]) # {}
    <3>1. PICK i \in Requests :
              /\ req_list[i].ip = NextHop[p]
              /\ req_list' \in Seq(Request) /\ Len(req_list') = Len(req_list)
              /\ Requests' = Requests
              /\ \A j \in Requests :
                    /\ req_list'[j].ip = req_list[j].ip
                    /\ req_list'[j].pkts = IF j = i THEN Append(req_list[j].pkts, p)
                                                    ELSE req_list[j].pkts
      BY <1>1, <2>1, Joins
    <3>2. OneRequest'
      BY <1>1, <3>1 DEF OneRequest
    <3>3. ASSUME NEW j \in Requests, NEW k \in DOMAIN req_list'[j].pkts
          PROVE  NextHop[req_list'[j].pkts[k]] = req_list'[j].ip
      <4>1. CASE j # i
        BY <1>1, <3>1, <3>3, <4>1 DEF QueuedRight
      <4>2. CASE j = i
        <5> DEFINE q == req_list[i].pkts
        <5>1. q \in Seq(Packets) /\ Len(q) \in Nat /\ DOMAIN q = 1..Len(q)
          BY <1>1, RequestList
        <5>2. \A n \in 1..Len(q) : NextHop[q[n]] = NextHop[p]
          BY <1>1, <3>1, <5>1 DEF QueuedRight
        <5> HIDE DEF q
        <5>3. /\ Append(q, p) \in Seq(Packets) /\ Len(Append(q, p)) = Len(q) + 1
              /\ \A n \in 1..Len(q) : Append(q, p)[n] = q[n]
              /\ Append(q, p)[Len(q) + 1] = p
          BY <5>1, AppendProperties
        <5>4. req_list'[j].pkts = Append(q, p) /\ req_list'[j].ip = NextHop[p]
          BY <3>1, <4>2 DEF q
        <5>5. k \in 1..Len(q) + 1
          BY <3>3, <5>3, <5>4, LenProperties
        <5>6. k \in 1..Len(q) \/ k = Len(q) + 1
          BY <5>1, <5>5
        <5>7. QED
          BY <5>2, <5>3, <5>4, <5>6
      <4>3. QED
        BY <4>1, <4>2
    <3>4. QED
      BY <3>1, <3>2, <3>3 DEF QueuedRight
  <2>2. CASE Pending(NextHop[p]) = {}
    <3>1. /\ req_list' \in Seq(Request) /\ Len(req_list') = Len(req_list) + 1
          /\ Requests' = 1..Len(req_list) + 1
          /\ req_list'[1].ip = NextHop[p] /\ req_list'[1].pkts = <<p>>
          /\ \A j \in Requests : req_list'[j + 1] = req_list[j]
          /\ \A j \in Requests : req_list[j].ip # NextHop[p]
      BY <1>1, <2>2, Opens
    <3>2. Len(req_list) \in Nat /\ Requests = 1..Len(req_list)
      BY <1>1, RequestList
    <3>3. \A j \in Requests' :
              \/ j = 1
              \/ j - 1 \in Requests /\ req_list'[j] = req_list[j - 1]
      <4> SUFFICES ASSUME NEW j \in Requests', j # 1
                   PROVE  j - 1 \in Requests /\ req_list'[j] = req_list[j - 1]
        OBVIOUS
      <4>1. j - 1 \in Requests /\ (j - 1) + 1 = j
        BY <3>1, <3>2
      <4>2. QED
        BY <3>1, <4>1
    <3>4. OneRequest'
      <4> SUFFICES ASSUME NEW i \in Requests', NEW j \in Requests',
                          req_list'[i].ip = req_list'[j].ip
                   PROVE  i = j
        BY DEF OneRequest
      <4>1. i \in Int /\ j \in Int
        BY <3>1
      <4>2. CASE i = 1 /\ j = 1
        BY <4>2
      <4>3. CASE i # 1 /\ j # 1
        <5>1. i - 1 = j - 1
          BY <1>1, <3>3, <4>3 DEF OneRequest
        <5>2. QED
          BY <4>1, <5>1
      <4>4. CASE i = 1 /\ j # 1
        BY <3>1, <3>3, <4>4
      <4>5. CASE i # 1 /\ j = 1
        BY <3>1, <3>3, <4>5
      <4>6. QED
        BY <4>2, <4>3, <4>4, <4>5
    <3>5. ASSUME NEW j \in Requests', NEW k \in DOMAIN req_list'[j].pkts
          PROVE  NextHop[req_list'[j].pkts[k]] = req_list'[j].ip
      <4>1. CASE j = 1
        <5>1. DOMAIN <<p>> = {1} /\ <<p>>[1] = p
          OBVIOUS
        <5>2. QED
          BY <3>1, <3>5, <4>1, <5>1
      <4>2. CASE j # 1
        BY <1>1, <3>3, <3>5, <4>2 DEF QueuedRight
      <4>3. QED
        BY <4>1, <4>2
    <3>6. QED
      BY <3>1, <3>4, <3>5 DEF QueuedRight
  <2>3. QED
    BY <2>1, <2>2
<1>4. TypeOK'
  BY <1>1, <1>2, <1>3 DEF TypeOK
<1>5. OneSlot' /\ ListedToReport' /\ EntriesTrue' /\ RightHost'
  BY <1>1, <1>2 DEF OneSlot, ListedToReport, EntriesTrue, RightHost, Valid
<1>6. QED
  BY <1>3, <1>4, <1>5 DEF CacheInv

LEMMA EnterSound ==
    ASSUME TypeOK, OneSlot, EntriesTrue, NEW ip \in Ips, NEW mac \in Owns[ip],
           entries' \in Enter([ip |-> ip, mac |-> mac, age |-> 0])
    PROVE  /\ entries' \in [Slots -> Entry \cup {Invalid}]
           /\ OneSlot' /\ EntriesTrue'
<1> DEFINE e == [ip |-> ip, mac |-> mac, age |-> 0]
<1>1. e \in Entry /\ e.ip = ip /\ e.mac = mac
  BY ConstantsAssumption DEF Entry
<1>2. entries' \in Enter(e)
  OBVIOUS
<1> HIDE DEF e
<1>3. entries \in [Slots -> Entry \cup {Invalid}]
  BY DEF TypeOK
<1>4. CASE Holding(ip) # {}
  <2>1. entries' = [s \in Slots |-> IF s \in Holding(ip) THEN e ELSE entries[s]]
    BY <1>1, <1>2, <1>4 DEF Enter
  <2>2. entries' \in [Slots -> Entry \cup {Invalid}]
    BY <1>1, <1>3, <2>1
  <2>3. \A s \in Slots : \/ s \in Holding(ip) /\ entries'[s] = e
                         \/ s \notin Holding(ip) /\ entries'[s] = entries[s]
    BY <2>1
  <2>4. \A s \in Slots : s \in Holding(ip) <=> Valid(s) /\ entries[s].ip = ip
    BY DEF Holding
  <2>5. OneSlot'
    BY <1>1, <2>3, <2>4 DEF OneSlot, Valid
  <2>6. EntriesTrue'
    BY <1>1, <2>3 DEF EntriesTrue, Valid
  <2>7. QED
    BY <2>2, <2>5, <2>6
<1>5. CASE Holding(ip) = {} /\ \E s \in Slots : ~Valid(s)
  <2>1. PICK f \in Slots : entries' = [entries EXCEPT ![f] = e]
    BY <1>1, <1>2, <1>5 DEF Enter
  <2>2. entries' \in [Slots -> Entry \cup {Invalid}]
    BY <1>1, <1>3, <2>1
  <2>3. \A s \in Slots : entries'[s] = IF s = f THEN e ELSE entries[s]
    BY <1>3, <2>1
  <2>4. \A s \in Slots : ~(Valid(s) /\ entries[s].ip = ip)
    BY <1>5 DEF Holding
  <2>5. OneSlot'
    BY <1>1, <2>3, <2>4 DEF OneSlot, Valid
  <2>6. EntriesTrue'
    BY <1>1, <2>3 DEF EntriesTrue, Valid
  <2>7. QED
    BY <2>2, <2>5, <2>6
<1>6. CASE Holding(ip) = {} /\ ~ \E s \in Slots : ~Valid(s)
  <2>1. entries' = entries
    BY <1>1, <1>2, <1>6 DEF Enter
  <2>2. QED
    BY <1>3, <2>1 DEF OneSlot, EntriesTrue, Valid
<1>7. QED
  BY <1>4, <1>5, <1>6

(* The packets of the request answered are sent; it is the i-th. *)
LEMMA Serves ==
    ASSUME TypeOK, NEW ip \in Ips, NEW mac \in Owns[ip], Insert(ip, mac),
           Answered(ip) # {}
    PROVE  \E i \in Requests :
              /\ req_list[i].ip = ip /\ req_list' = RemoveAt(req_list, i)
              /\ sent' \in Seq(Packets \X Macs)
              /\ Len(sent') = Len(sent) + Len(req_list[i].pkts)
              /\ \A k \in 1..Len(sent) : sent'[k] = sent[k]
              /\ \A k \in DOMAIN req_list[i].pkts :
                    sent'[Len(sent) + k] = <<req_list[i].pkts[k], mac>>
<1> DEFINE i == First(Answered(ip))
           pkts == req_list[i].pkts
           new == [k \in DOMAIN pkts |-> <<pkts[k], mac>>]
<1>1. i \in Answered(ip)
  <2>1. Answered(ip) \in SUBSET Nat
    BY RequestList DEF Answered, RequestsFor
  <2>2. QED
    BY <2>1, FirstOf
<1>2. sent' = sent \o new /\ req_list' = RemoveAt(req_list, i)
  BY DEF Insert
<1> HIDE DEF i
<1>3. i \in Requests /\ req_list[i].ip = ip
  BY <1>1 DEF Answered, RequestsFor
<1>4. pkts \in Seq(Packets) /\ Len(pkts) \in Nat /\ DOMAIN pkts = 1..Len(pkts)
  BY <1>3, RequestList
<1>5. mac \in Macs
  BY ConstantsAssumption
<1> HIDE DEF pkts
<1>6. new \in Seq(Packets \X Macs) /\ Len(new) = Len(pkts)
  <2>1. \A k \in 1..Len(pkts) : pkts[k] \in Packets
    BY <1>4, ElementOfSeq
  <2>2. new \in [1..Len(pkts) -> Packets \X Macs]
    BY <1>4, <1>5, <2>1
  <2>3. new \in Seq(Packets \X Macs)
    BY <1>4, <2>2, SeqDef
  <2>4. DOMAIN new = 1..Len(pkts) /\ Len(new) \in Nat /\ DOMAIN new = 1..Len(new)
    BY <2>2, <2>3, LenProperties
  <2>5. QED
    BY <1>4, <2>3, <2>4
<1>7. \A k \in DOMAIN pkts : new[k] = <<pkts[k], mac>>
  OBVIOUS
<1> HIDE DEF new
<1>8. sent \in Seq(Packets \X Macs) /\ Len(sent) \in Nat
  BY LenProperties DEF TypeOK
<1>9. /\ sent' \in Seq(Packets \X Macs) /\ Len(sent') = Len(sent) + Len(pkts)
      /\ \A k \in 1..Len(sent) + Len(pkts) :
            sent'[k] = IF k <= Len(sent) THEN sent[k] ELSE new[k - Len(sent)]
  <2>1. /\ sent \o new \in Seq(Packets \X Macs)
        /\ Len(sent \o new) = Len(sent) + Len(new)
        /\ \A k \in 1..Len(sent) + Len(new) :
              (sent \o new)[k] = IF k <= Len(sent) THEN sent[k] ELSE new[k - Len(sent)]
    BY <1>6, <1>8, ConcatProperties
  <2>2. QED
    BY <1>2, <1>6, <2>1
<1>10. \A k \in 1..Len(sent) : sent'[k] = sent[k]
  BY <1>4, <1>8, <1>9
<1>11. ASSUME NEW k \in DOMAIN pkts PROVE sent'[Len(sent) + k] = <<pkts[k], mac>>
  <2>1. /\ Len(sent) + k \in 1..Len(sent) + Len(pkts) /\ ~(Len(sent) + k <= Len(sent))
        /\ (Len(sent) + k) - Len(sent) = k
    BY <1>4, <1>8
  <2>2. QED
    BY <1>7, <1>9, <2>1
<1>12. QED
  BY <1>2, <1>3, <1>9, <1>10, <1>11 DEF pkts

LEMMA InsertCache ==
    ASSUME CacheInv, NEW ip \in Ips, NEW mac \in Owns[ip], Insert(ip, mac)
    PROVE  CacheInv'
<1>1. /\ TypeOK /\ OneRequest /\ OneSlot /\ ListedToReport
      /\ QueuedRight /\ EntriesTrue /\ RightHost
  BY Parts
<1>2. /\ entries' \in Enter([ip |-> ip, mac |-> mac, age |-> 0])
      /\ UNCHANGED <<fresh, missed, pkt_list, reported, sweeper>>
  BY DEF Insert
<1>3. entries' \in [Slots -> Entry \cup {Invalid}] /\ OneSlot' /\ EntriesTrue'
  BY <1>1, <1>2, EnterSound
<1>4. /\ req_list' \in Seq(Request) /\ sent' \in Seq(Packets \X Macs)
      /\ OneRequest' /\ QueuedRight' /\ RightHost'
  <2>1. CASE Answered(ip) = {}
    <3>1. req_list' = req_list /\ sent' = sent
      BY <2>1 DEF Insert
    <3>2. QED
      BY <1>1, <3>1 DEF TypeOK, OneRequest, QueuedRight, RightHost, Requests
  <2>2. CASE Answered(ip) # {}
    <3>1. PICK i \in Requests :
              /\ req_list[i].ip = ip /\ req_list' = RemoveAt(req_list, i)
              /\ sent' \in Seq(Packets \X Macs)
              /\ Len(sent') = Len(sent) + Len(req_list[i].pkts)
              /\ \A k \in 1..Len(sent) : sent'[k] = sent[k]
              /\ \A k \in DOMAIN req_list[i].pkts :
                    sent'[Len(sent) + k] = <<req_list[i].pkts[k], mac>>
      BY <1>1, <2>2, Serves
    <3>2. Thinned([j \in 1..Len(req_list) - 1 |-> IF j < i THEN j ELSE j + 1])
      BY <1>1, <3>1, RemovedOne
    <3>3. req_list' \in Seq(Request)
      BY <3>2 DEF Thinned
    <3>4. OneRequest' /\ QueuedRight'
      BY <1>1, <3>2, ThinnedInv
    <3>5. /\ DOMAIN sent = 1..Len(sent) /\ Len(sent) \in Nat
          /\ DOMAIN sent' = 1..Len(sent')
      BY <1>1, <3>1, LenProperties DEF TypeOK
    <3>6. DOMAIN req_list[i].pkts = 1..Len(req_list[i].pkts) /\ Len(req_list[i].pkts) \in Nat
      BY <1>1, RequestList
    <3>7. ASSUME NEW k \in DOMAIN sent' PROVE sent'[k][2] \in Owns[NextHop[sent'[k][1]]]
      <4>1. CASE k \in 1..Len(sent)
        BY <1>1, <3>1, <3>5, <4>1 DEF RightHost
      <4>2. CASE k \notin 1..Len(sent)
        <5>1. /\ k - Len(sent) \in DOMAIN req_list[i].pkts
              /\ Len(sent) + (k - Len(sent)) = k
          BY <3>1, <3>5, <3>6, <4>2
        <5>2. sent'[k] = <<req_list[i].pkts[k - Len(sent)], mac>>
          BY <3>1, <5>1
        <5>3. NextHop[req_list[i].pkts[k - Len(sent)]] = ip
          BY <1>1, <3>1, <5>1 DEF QueuedRight
        <5>4. QED
          BY <5>2, <5>3
      <4>3. QED
        BY <4>1, <4>2
    <3>8. QED
      BY <3>1, <3>3, <3>4, <3>7 DEF RightHost
  <2>3. QED
    BY <2>1, <2>2
<1>5. TypeOK'
  BY <1>1, <1>2, <1>3, <1>4 DEF TypeOK
<1>6. ListedToReport'
  BY <1>1, <1>2 DEF ListedToReport
<1>7. QED
  BY <1>3, <1>4, <1>5, <1>6 DEF CacheInv

(* Every entry and every request is a second older. *)
LEMMA TickSteps ==
    ASSUME TypeOK, Tick
    PROVE  /\ entries' \in [Slots -> Entry \cup {Invalid}]
           /\ \A s \in Slots :
                 Valid(s)' => /\ Valid(s) /\ entries'[s].ip = entries[s].ip
                              /\ entries'[s].mac = entries[s].mac
           /\ Len(req_list') = Len(req_list)
           /\ Thinned([j \in 1..Len(req_list) |-> j])
<1>1. \A a \in 0..EntryTimeout : Older(a, EntryTimeout) \in 0..EntryTimeout
  BY ConstantsAssumption DEF Older
<1>2. \A s \in Slots : Valid(s) =>
          /\ [entries[s] EXCEPT !.age = Older(@, EntryTimeout)] \in Entry
          /\ [entries[s] EXCEPT !.age = Older(@, EntryTimeout)].ip = entries[s].ip
          /\ [entries[s] EXCEPT !.age = Older(@, EntryTimeout)].mac = entries[s].mac
  BY <1>1, HeldEntry DEF Entry
<1>3. \A s \in Slots :
          entries'[s] = IF Valid(s) THEN [entries[s] EXCEPT !.age = Older(@, EntryTimeout)]
                                    ELSE Invalid
  BY DEF Tick
<1>4. entries' \in [Slots -> Entry \cup {Invalid}]
  BY <1>2 DEF Tick
<1>5. \A s \in Slots :
          Valid(s)' => /\ Valid(s) /\ entries'[s].ip = entries[s].ip
                       /\ entries'[s].mac = entries[s].mac
  BY <1>2, <1>3 DEF Valid
<1> DEFINE Aged(r) == [r EXCEPT !.age = Older(@, 1)]
<1>6. Len(req_list) \in Nat /\ Requests = 1..Len(req_list)
      /\ \A i \in Requests : req_list[i] \in Request
  BY RequestList
<1>7. req_list' = [i \in 1..Len(req_list) |-> Aged(req_list[i])]
  BY <1>6 DEF Tick
<1>8. ASSUME NEW r \in Request
      PROVE  Aged(r) \in Request /\ Aged(r).ip = r.ip /\ Aged(r).pkts = r.pkts
  <2>1. \A a \in 0..1 : Older(a, 1) \in 0..1
    BY DEF Older
  <2>2. QED
    BY <2>1 DEF Request
<1> HIDE DEF Aged
<1>9. req_list' \in [1..Len(req_list) -> Request]
  BY <1>6, <1>7, <1>8
<1>10. req_list' \in Seq(Request) /\ Len(req_list') = Len(req_list)
  <2>1. req_list' \in Seq(Request)
    BY <1>6, <1>9, SeqDef
  <2>2. /\ DOMAIN req_list' = 1..Len(req_list) /\ Len(req_list') \in Nat
        /\ DOMAIN req_list' = 1..Len(req_list')
    BY <1>9, <2>1, LenProperties
  <2>3. QED
    BY <1>6, <2>1, <2>2
<1> DEFINE f == [j \in 1..Len(req_list) |-> j]
<1>11. /\ f \in [1..Len(req_list) -> 1..Len(req_list)]
       /\ \A j \in 1..Len(req_list) : f[j] = j
  OBVIOUS
<1> HIDE DEF f
<1>12. \A j \in 1..Len(req_list) :
           /\ req_list'[j].ip = req_list[j].ip /\ req_list'[j].pkts = req_list[j].pkts
  BY <1>6, <1>7, <1>8
<1>13. Thinned(f)
  BY <1>10, <1>11, <1>12 DEF Thinned
<1>14. QED
  BY <1>4, <1>5, <1>10, <1>13 DEF f

(* Fewer entries are valid, and those as they were. *)
LEMMA FewerEntries ==
    ASSUME OneSlot, EntriesTrue,
           \A s \in Slots :
              Valid(s)' => /\ Valid(s) /\ entries'[s].ip = entries[s].ip
                           /\ entries'[s].mac = entries[s].mac
    PROVE  OneSlot' /\ EntriesTrue'
<1>1. OneSlot'
  BY DEF OneSlot
<1>2. EntriesTrue'
  BY DEF EntriesTrue
<1>3. QED
  BY <1>1, <1>2

LEMMA TickCache == ASSUME CacheInv, Tick PROVE CacheInv'
<1>1. /\ TypeOK /\ OneRequest /\ OneSlot /\ ListedToReport
      /\ QueuedRight /\ EntriesTrue /\ RightHost
  BY Parts
<1>2. /\ sweeper' = IF sweeper = "asleep" THEN "awake" ELSE sweeper
      /\ UNCHANGED <<fresh, missed, pkt_list, sent, reported>>
  BY DEF Tick
<1>3. OneSlot' /\ EntriesTrue' /\ entries' \in [Slots -> Entry \cup {Invalid}]
  BY <1>1, TickSteps, FewerEntries
<1>4. OneRequest' /\ QueuedRight' /\ req_list' \in Seq(Request)
  BY <1>1, TickSteps, ThinnedInv DEF Thinned
<1>5. TypeOK'
  BY <1>1, <1>2, <1>3, <1>4 DEF TypeOK
<1>6. ListedToReport' /\ RightHost'
  BY <1>1, <1>2 DEF ListedToReport, RightHost
<1>7. QED
  BY <1>3, <1>4, <1>5, <1>6 DEF CacheInv

LEMMA SweepCache == ASSUME CacheInv, Sweep PROVE CacheInv'
<1>1. /\ TypeOK /\ OneRequest /\ OneSlot /\ ListedToReport
      /\ QueuedRight /\ EntriesTrue /\ RightHost
  BY Parts
<1>2. /\ entries' = [s \in Slots |->
                       IF Valid(s) /\ entries[s].age >= EntryTimeout THEN Invalid
                                                                     ELSE entries[s]]
      /\ sweeper' = "reporting"
      /\ UNCHANGED <<fresh, missed, sent, reported>>
  BY DEF Sweep
<1>3. entries' \in [Slots -> Entry \cup {Invalid}]
  BY <1>1, <1>2 DEF TypeOK
<1>4. \A s \in Slots :
          Valid(s)' => /\ Valid(s) /\ entries'[s].ip = entries[s].ip
                       /\ entries'[s].mac = entries[s].mac
  BY <1>2 DEF Valid
<1>5. OneSlot' /\ EntriesTrue'
  BY <1>1, <1>4, FewerEntries
<1>6. PICK f : Spared(f)
  BY <1>1, SweepSpares
<1>7. OneRequest' /\ QueuedRight' /\ req_list' \in Seq(Request)
  BY <1>1, <1>6, ThinnedInv DEF Thinned, Spared
<1>8. pkt_list' \in Seq(Packets)
  BY <1>1, SweepGathers DEF Gathered
<1>9. TypeOK'
  BY <1>1, <1>2, <1>3, <1>7, <1>8 DEF TypeOK
<1>10. ListedToReport' /\ RightHost'
  BY <1>1, <1>2 DEF ListedToReport, RightHost
<1>11. QED
  BY <1>5, <1>7, <1>9, <1>10 DEF CacheInv

(* The first of the list is reported, or the list is done. *)
LEMMA Reports ==
    ASSUME TypeOK, Report, pkt_list # <<>>
    PROVE  /\ reported' \in Seq(Packets) /\ pkt_list' \in Seq(Packets)
           /\ Len(pkt_list') = Len(pkt_list) - 1 /\ Len(pkt_list) \in Nat \ {0}
           /\ \A k \in 1..Len(pkt_list') : pkt_list'[k] = pkt_list[k + 1]
           /\ Len(reported') = Len(reported) + 1
           /\ reported'[Len(reported) + 1] = pkt_list[1]
           /\ \A k \in 1..Len(reported) : reported'[k] = reported[k]
           /\ sweeper' = sweeper
<1>1. /\ reported' = Append(reported, Head(pkt_list)) /\ pkt_list' = Tail(pkt_list)
      /\ sweeper' = sweeper
  BY DEF Report
<1>2. pkt_list \in Seq(Packets) /\ reported \in Seq(Packets)
  BY DEF TypeOK
<1>3. Head(pkt_list) = pkt_list[1] /\ Len(pkt_list) \in Nat \ {0}
  BY <1>2, EmptySeq
<1>4. /\ Head(pkt_list) \in Packets /\ Tail(pkt_list) \in Seq(Packets)
      /\ Len(Tail(pkt_list)) = Len(pkt_list) - 1
      /\ \A k \in 1..Len(Tail(pkt_list)) : Tail(pkt_list)[k] = pkt_list[k + 1]
  BY <1>2, HeadTailProperties
<1>5. QED
  BY <1>1, <1>2, <1>3, <1>4, AppendProperties

LEMMA ReportCache == ASSUME CacheInv, Report PROVE CacheInv'
<1>1. /\ TypeOK /\ OneRequest /\ OneSlot /\ ListedToReport
      /\ QueuedRight /\ EntriesTrue /\ RightHost
  BY Parts
<1>2. sweeper = "reporting" /\ UNCHANGED <<entries, req_list, fresh, missed, sent>>
  BY DEF Report
<1>3. /\ reported' \in Seq(Packets) /\ pkt_list' \in Seq(Packets)
      /\ sweeper' \in {"asleep", "reporting"} /\ ListedToReport'
  <2>1. CASE pkt_list = <<>>
    BY <1>1, <2>1 DEF Report, TypeOK, ListedToReport
  <2>2. CASE pkt_list # <<>>
    BY <1>1, <1>2, <2>2, Reports DEF ListedToReport
  <2>3. QED
    BY <2>1, <2>2
<1>4. TypeOK'
  BY <1>1, <1>2, <1>3 DEF TypeOK
<1>5. OneRequest' /\ OneSlot' /\ QueuedRight' /\ EntriesTrue' /\ RightHost'
  BY <1>1, <1>2 DEF OneRequest, OneSlot, QueuedRight, EntriesTrue, RightHost, Requests, Valid
<1>6. QED
  BY <1>3, <1>4, <1>5 DEF CacheInv
-----------------------------------------------------------------------------
(* Each packet stays in one place. *)

Waits(p, i, k) ==
    i \in Requests /\ k \in DOMAIN req_list[i].pkts /\ req_list[i].pkts[k] = p
Listed(p, k) == k \in DOMAIN pkt_list /\ pkt_list[k] = p
Reported(p, k) == k \in DOMAIN reported /\ reported[k] = p
Sent(p, k) == k \in DOMAIN sent /\ sent[k][1] = p

LEMMA InIs ==
    ASSUME NEW q, NEW i, NEW tag, NEW p, NEW x
    PROVE  x \in In(q, i, tag, p) <=> \E k \in DOMAIN q : q[k] = p /\ x = <<tag, i, k>>
BY DEF In

LEMMA PlacesAre ==
    ASSUME NEW p, NEW x
    PROVE  x \in Places(p) <=> \/ p \in fresh /\ x = <<"fresh", 0, 0>>
                               \/ p \in missed /\ x = <<"missed", 0, 0>>
                               \/ \E i, k : Waits(p, i, k) /\ x = <<"pending", i, k>>
                               \/ \E k : Listed(p, k) /\ x = <<"listed", 0, k>>
                               \/ \E k : Reported(p, k) /\ x = <<"reported", 0, k>>
                               \/ \E k : Sent(p, k) /\ x = <<"sent", 0, k>>
<1> DEFINE to == [k \in DOMAIN sent |-> sent[k][1]]
<1>1. x \in Places(p) <=>
          \/ p \in fresh /\ x = <<"fresh", 0, 0>>
          \/ p \in missed /\ x = <<"missed", 0, 0>>
          \/ \E i \in Requests : x \in In(req_list[i].pkts, i, "pending", p)
          \/ x \in In(pkt_list, 0, "listed", p)
          \/ x \in In(reported, 0, "reported", p)
          \/ x \in In(to, 0, "sent", p)
  BY DEF Places
<1>2. (\E i \in Requests : x \in In(req_list[i].pkts, i, "pending", p))
      <=> \E i, k : Waits(p, i, k) /\ x = <<"pending", i, k>>
  BY InIs DEF Waits
<1>3. x \in In(pkt_list, 0, "listed", p) <=> \E k : Listed(p, k) /\ x = <<"listed", 0, k>>
  BY InIs DEF Listed
<1>4. x \in In(reported, 0, "reported", p)
      <=> \E k : Reported(p, k) /\ x = <<"reported", 0, k>>
  BY InIs DEF Reported
<1>5. x \in In(to, 0, "sent", p) <=> \E k : Sent(p, k) /\ x = <<"sent", 0, k>>
  <2>1. DOMAIN to = DOMAIN sent /\ \A k \in DOMAIN sent : to[k] = sent[k][1]
    OBVIOUS
  <2> HIDE DEF to
  <2>2. QED
    BY <2>1, InIs DEF Sent
<1> HIDE DEF to
<1>6. QED
  BY <1>1, <1>2, <1>3, <1>4, <1>5

LEMMA NewPlacesAre ==
    ASSUME NEW p, NEW x
    PROVE  x \in Places(p)' <=> \/ p \in fresh' /\ x = <<"fresh", 0, 0>>
                                \/ p \in missed' /\ x = <<"missed", 0, 0>>
                                \/ \E i, k : Waits(p, i, k)' /\ x = <<"pending", i, k>>
                                \/ \E k : Listed(p, k)' /\ x = <<"listed", 0, k>>
                                \/ \E k : Reported(p, k)' /\ x = <<"reported", 0, k>>
                                \/ \E k : Sent(p, k)' /\ x = <<"sent", 0, k>>
<1> DEFINE to == [k \in DOMAIN sent' |-> sent'[k][1]]
<1>1. x \in Places(p)' <=>
          \/ p \in fresh' /\ x = <<"fresh", 0, 0>>
          \/ p \in missed' /\ x = <<"missed", 0, 0>>
          \/ \E i \in Requests' : x \in In(req_list'[i].pkts, i, "pending", p)
          \/ x \in In(pkt_list', 0, "listed", p)
          \/ x \in In(reported', 0, "reported", p)
          \/ x \in In(to, 0, "sent", p)
  BY DEF Places
<1>2. (\E i \in Requests' : x \in In(req_list'[i].pkts, i, "pending", p))
      <=> \E i, k : Waits(p, i, k)' /\ x = <<"pending", i, k>>
  BY InIs DEF Waits
<1>3. x \in In(pkt_list', 0, "listed", p) <=> \E k : Listed(p, k)' /\ x = <<"listed", 0, k>>
  BY InIs DEF Listed
<1>4. x \in In(reported', 0, "reported", p)
      <=> \E k : Reported(p, k)' /\ x = <<"reported", 0, k>>
  BY InIs DEF Reported
<1>5. x \in In(to, 0, "sent", p) <=> \E k : Sent(p, k)' /\ x = <<"sent", 0, k>>
  <2>1. DOMAIN to = DOMAIN sent' /\ \A k \in DOMAIN sent' : to[k] = sent'[k][1]
    OBVIOUS
  <2> HIDE DEF to
  <2>2. QED
    BY <2>1, InIs DEF Sent
<1> HIDE DEF to
<1>6. QED
  BY <1>1, <1>2, <1>3, <1>4, <1>5

(* The only place of a packet tells where it is not. *)
LEMMA OnlyPlace ==
    ASSUME NEW p, NEW x, Places(p) = {x}
    PROVE  /\ p \in fresh => x = <<"fresh", 0, 0>>
           /\ p \in missed => x = <<"missed", 0, 0>>
           /\ \A i, k : Waits(p, i, k) => x = <<"pending", i, k>>
           /\ \A k : Listed(p, k) => x = <<"listed", 0, k>>
           /\ \A k : Reported(p, k) => x = <<"reported", 0, k>>
           /\ \A k : Sent(p, k) => x = <<"sent", 0, k>>
<1>1. \A y : y \in Places(p) <=> y = x
  OBVIOUS
<1>2. QED
  BY <1>1, PlacesAre

LEMMA LookupPlaces ==
    ASSUME CacheInv, Placed, NEW q \in Packets, Lookup(q)
    PROVE  Placed'
<1> SUFFICES ASSUME NEW p \in Packets PROVE \E x : Places(p)' = {x}
  BY DEF Placed
<1>1. PICK x : Places(p) = {x}
  BY DEF Placed
<1>2. sent \in Seq(Packets \X Macs) /\ TypeOK
  BY Parts DEF TypeOK
<1>3. /\ q \in fresh /\ fresh' = fresh \ {q}
      /\ UNCHANGED <<req_list, pkt_list, reported>>
  BY DEF Lookup
<1>4. /\ \A i, k : Waits(p, i, k)' <=> Waits(p, i, k)
      /\ \A k : Listed(p, k)' <=> Listed(p, k)
      /\ \A k : Reported(p, k)' <=> Reported(p, k)
  BY <1>3 DEF Waits, Listed, Reported, Requests
<1>5. CASE Holding(NextHop[q]) # {}
  <2>1. missed' = missed
    BY <1>5 DEF Lookup
  <2>2. PICK s \in Holding(NextHop[q]) : sent' = Append(sent, <<q, entries[s].mac>>)
    BY <1>5 DEF Lookup
  <2>3. <<q, entries[s].mac>> \in Packets \X Macs
    <3>1. s \in Slots /\ Valid(s)
      BY DEF Holding
    <3>2. QED
      BY <1>2, <3>1, HeldEntry DEF Entry
  <2> DEFINE n == Len(sent) + 1
  <2>4. \A k : Sent(p, k)' <=> Sent(p, k) \/ (k = n /\ p = q)
    <3> DEFINE new == <<q, entries[s].mac>>
    <3>1. new[1] = q
      OBVIOUS
    <3> HIDE DEF new
    <3>2. /\ sent' \in Seq(Packets \X Macs) /\ Len(sent') = n /\ sent'[n] = new
          /\ \A k \in 1..Len(sent) : sent'[k] = sent[k]
      BY <1>2, <2>2, <2>3, AppendProperties DEF new
    <3>3. DOMAIN sent' = 1..n /\ DOMAIN sent = 1..Len(sent) /\ Len(sent) \in Nat
      BY <1>2, <3>2, LenProperties
    <3>4. \A k : k \in 1..n <=> k \in 1..Len(sent) \/ k = n
      BY <3>3
    <3>5. n \notin 1..Len(sent)
      BY <3>3
    <3> HIDE DEF n
    <3>6. QED
      BY <3>1, <3>2, <3>3, <3>4, <3>5 DEF Sent
  <2> HIDE DEF n
  <2>5. CASE p = q
    <3>1. x = <<"fresh", 0, 0>>
      BY <1>1, <1>3, <2>5, OnlyPlace
    <3>2. \A y : y \in Places(p)' <=> y = <<"sent", 0, n>>
      <4> SUFFICES ASSUME NEW y PROVE y \in Places(p)' <=> y = <<"sent", 0, n>>
        OBVIOUS
      <4>1. /\ p \notin missed
            /\ \A i, k : ~Waits(p, i, k)
            /\ \A k : ~Listed(p, k) /\ ~Reported(p, k) /\ ~Sent(p, k)
        BY <1>1, <3>1, OnlyPlace
      <4>2. p \notin fresh' /\ p \notin missed'
        BY <1>3, <2>1, <2>5, <4>1
      <4>3. QED
        BY <1>4, <2>4, <2>5, <4>1, <4>2, NewPlacesAre
    <3>3. Places(p)' = {<<"sent", 0, n>>}
      BY <3>2
    <3>4. QED
      BY <3>3
  <2>6. CASE p # q
    <3>1. \A y : y \in Places(p)' <=> y \in Places(p)
      BY <1>3, <1>4, <2>1, <2>4, <2>6, PlacesAre, NewPlacesAre
    <3>2. Places(p)' = {x}
      BY <1>1, <3>1
    <3>3. QED
      BY <3>2
  <2>7. QED
    BY <2>5, <2>6
<1>6. CASE Holding(NextHop[q]) = {}
  <2>1. missed' = missed \cup {q} /\ sent' = sent
    BY <1>6 DEF Lookup
  <2>2. \A k : Sent(p, k)' <=> Sent(p, k)
    BY <2>1 DEF Sent
  <2>3. CASE p = q
    <3>1. x = <<"fresh", 0, 0>>
      BY <1>1, <1>3, <2>3, OnlyPlace
    <3>2. \A y : y \in Places(p)' <=> y = <<"missed", 0, 0>>
      <4> SUFFICES ASSUME NEW y PROVE y \in Places(p)' <=> y = <<"missed", 0, 0>>
        OBVIOUS
      <4>1. /\ \A i, k : ~Waits(p, i, k)
            /\ \A k : ~Listed(p, k) /\ ~Reported(p, k) /\ ~Sent(p, k)
        BY <1>1, <3>1, OnlyPlace
      <4>2. p \notin fresh' /\ p \in missed'
        BY <1>3, <2>1, <2>3
      <4>3. QED
        BY <1>4, <2>2, <4>1, <4>2, NewPlacesAre
    <3>3. Places(p)' = {<<"missed", 0, 0>>}
      BY <3>2
    <3>4. QED
      BY <3>3
  <2>4. CASE p # q
    <3>1. \A y : y \in Places(p)' <=> y \in Places(p)
      BY <1>3, <1>4, <2>1, <2>2, <2>4, PlacesAre, NewPlacesAre
    <3>2. Places(p)' = {x}
      BY <1>1, <3>1
    <3>3. QED
      BY <3>2
  <2>5. QED
    BY <2>3, <2>4
<1>7. QED
  BY <1>5, <1>6

(* A packet with a request moves with it; any other stays.                  *)
LEMMA PendingMoves ==
    ASSUME NEW p, NEW x, Places(p) = {x}, NEW g,
           p \in fresh' <=> p \in fresh, p \in missed' <=> p \in missed,
           \A k : Listed(p, k)' <=> Listed(p, k),
           \A k : Reported(p, k)' <=> Reported(p, k),
           \A k : Sent(p, k)' <=> Sent(p, k),
           \A j, k : Waits(p, j, k)' <=> \E i : Waits(p, i, k) /\ j = g[i]
    PROVE  \E y : Places(p)' = {y}
<1>1. CASE \E i, k : Waits(p, i, k)
  <2>1. PICK i, k : Waits(p, i, k)
    BY <1>1
  <2>2. x = <<"pending", i, k>>
    BY <2>1, OnlyPlace
  <2>3. /\ p \notin fresh' /\ p \notin missed'
        /\ \A n : ~Listed(p, n)' /\ ~Reported(p, n)' /\ ~Sent(p, n)'
        /\ \A j, l : Waits(p, j, l) => j = i /\ l = k
    BY <2>2, OnlyPlace
  <2>4. \A j, l : Waits(p, j, l)' <=> j = g[i] /\ l = k
    BY <2>1, <2>3
  <2>5. \A y : y \in Places(p)' <=> y = <<"pending", g[i], k>>
    BY <2>3, <2>4, NewPlacesAre
  <2>6. Places(p)' = {<<"pending", g[i], k>>}
    BY <2>5
  <2>7. QED
    BY <2>6
<1>2. CASE ~ \E i, k : Waits(p, i, k)
  <2>1. \A j, k : ~Waits(p, j, k)'
    BY <1>2
  <2>2. \A y : y \in Places(p)' <=> y \in Places(p)
    BY <1>2, <2>1, PlacesAre, NewPlacesAre
  <2>3. Places(p)' = {x}
    BY <2>2
  <2>4. QED
    BY <2>3
<1>3. QED
  BY <1>1, <1>2

LEMMA ThinnedWaits ==
    ASSUME TypeOK, NEW f, Thinned(f), NEW p, NEW j, NEW k
    PROVE  Waits(p, j, k)' <=> j \in 1..Len(req_list') /\ Waits(p, f[j], k)
<1>1. Requests = 1..Len(req_list) /\ Requests' = 1..Len(req_list')
  BY RequestList, LenProperties DEF Thinned, Requests
<1>2. QED
  BY <1>1 DEF Waits, Thinned

LEMMA AppendPlaces ==
    ASSUME CacheInv, Placed, NEW q \in Packets, AppendPacket(q)
    PROVE  Placed'
<1> SUFFICES ASSUME NEW p \in Packets PROVE \E y : Places(p)' = {y}
  BY DEF Placed
<1>1. PICK x : Places(p) = {x}
  BY DEF Placed
<1>2. TypeOK /\ NextHop[q] \in Ips
  BY Parts
<1>3. /\ q \in missed /\ missed' = missed \ {q}
      /\ UNCHANGED <<fresh, pkt_list, sent, reported>>
  BY DEF AppendPacket
<1>4. /\ \A k : Listed(p, k)' <=> Listed(p, k)
      /\ \A k : Reported(p, k)' <=> Reported(p, k)
      /\ \A k : Sent(p, k)' <=> Sent(p, k)
  BY <1>3 DEF Listed, Reported, Sent
<1>5. ASSUME p = q
      PROVE  /\ p \notin fresh' /\ p \notin missed'
             /\ \A k : ~Listed(p, k)' /\ ~Reported(p, k)' /\ ~Sent(p, k)'
             /\ \A i, k : ~Waits(p, i, k)
  <2>1. x = <<"missed", 0, 0>>
    BY <1>1, <1>3, <1>5, OnlyPlace
  <2>2. QED
    BY <1>1, <1>3, <1>4, <1>5, <2>1, OnlyPlace
<1>6. CASE Pending(NextHop[q]) # {}
  <2>1. PICK i \in Requests :
            /\ req_list[i].ip = NextHop[q]
            /\ req_list' \in Seq(Request) /\ Len(req_list') = Len(req_list)
            /\ Requests' = Requests
            /\ \A j \in Requests :
                  /\ req_list'[j].ip = req_list[j].ip
                  /\ req_list'[j].pkts = IF j = i THEN Append(req_list[j].pkts, q)
                                                  ELSE req_list[j].pkts
    BY <1>2, <1>6, Joins
  <2> DEFINE r == req_list[i].pkts
             n == Len(r) + 1
  <2>2. \A j, k : Waits(p, j, k)' <=> Waits(p, j, k) \/ (p = q /\ j = i /\ k = n)
    <3>1. r \in Seq(Packets) /\ Len(r) \in Nat /\ DOMAIN r = 1..Len(r)
      BY <1>2, RequestList
    <3> HIDE DEF r
    <3>2. /\ Append(r, q) \in Seq(Packets) /\ Len(Append(r, q)) = n
          /\ \A k \in 1..Len(r) : Append(r, q)[k] = r[k]
          /\ Append(r, q)[n] = q
      BY <3>1, AppendProperties
    <3>3. DOMAIN Append(r, q) = 1..n
      BY <3>2, LenProperties
    <3>4. /\ \A k : k \in 1..n <=> k \in 1..Len(r) \/ k = n
          /\ n \notin 1..Len(r)
      BY <3>1
    <3> HIDE DEF n
    <3>5. \A k : k \in DOMAIN Append(r, q) /\ Append(r, q)[k] = p
                 <=> (k \in DOMAIN r /\ r[k] = p) \/ (k = n /\ p = q)
      BY <3>1, <3>2, <3>3, <3>4
    <3>6. \A k : Waits(p, i, k)' <=> Waits(p, i, k) \/ (p = q /\ k = n)
      BY <2>1, <3>5 DEF Waits, r
    <3>7. \A j, k : j # i => (Waits(p, j, k)' <=> Waits(p, j, k))
      BY <2>1 DEF Waits
    <3>8. QED
      BY <3>6, <3>7
  <2> HIDE DEF n
  <2>3. CASE p = q
    <3>1. \A y : y \in Places(p)' <=> y = <<"pending", i, n>>
      BY <1>5, <2>2, <2>3, NewPlacesAre
    <3>2. Places(p)' = {<<"pending", i, n>>}
      BY <3>1
    <3>3. QED
      BY <3>2
  <2>4. CASE p # q
    <3>1. \A y : y \in Places(p)' <=> y \in Places(p)
      BY <1>3, <1>4, <2>2, <2>4, PlacesAre, NewPlacesAre
    <3>2. Places(p)' = {x}
      BY <1>1, <3>1
    <3>3. QED
      BY <3>2
  <2>5. QED
    BY <2>3, <2>4
<1>7. CASE Pending(NextHop[q]) = {}
  <2>1. /\ req_list' \in Seq(Request) /\ Len(req_list') = Len(req_list) + 1
        /\ Requests' = 1..Len(req_list) + 1
        /\ req_list'[1].pkts = <<q>>
        /\ \A j \in Requests : req_list'[j + 1] = req_list[j]
    BY <1>2, <1>7, Opens
  <2>2. Len(req_list) \in Nat /\ Requests = 1..Len(req_list)
    BY <1>2, RequestList
  <2> DEFINE g == [i \in Requests |-> i + 1]
  <2>3. \A i \in Requests : g[i] = i + 1
    OBVIOUS
  <2> HIDE DEF g
  <2>4. \A j, k : Waits(p, j, k)' <=> \/ p = q /\ j = 1 /\ k = 1
                                      \/ \E i : Waits(p, i, k) /\ j = g[i]
    <3> SUFFICES ASSUME NEW j, NEW k
                 PROVE  Waits(p, j, k)' <=> \/ p = q /\ j = 1 /\ k = 1
                                            \/ \E i : Waits(p, i, k) /\ j = g[i]
      OBVIOUS
    <3>1. DOMAIN <<q>> = {1} /\ <<q>>[1] = q
      OBVIOUS
    <3>2. CASE j = 1
      <4>1. 1 \in Requests'
        BY <2>1, <2>2
      <4>2. Waits(p, j, k)' <=> p = q /\ k = 1
        BY <2>1, <3>1, <3>2, <4>1 DEF Waits
      <4>3. \A i \in Requests : j # g[i]
        BY <2>2, <2>3, <3>2
      <4>4. QED
        BY <3>2, <4>2, <4>3 DEF Waits
    <3>3. CASE j # 1 /\ j \in Requests'
      <4>1. j - 1 \in Requests /\ (j - 1) + 1 = j
        BY <2>1, <2>2, <3>3
      <4>2. req_list'[j] = req_list[j - 1]
        BY <2>1, <4>1
      <4>3. Waits(p, j, k)' <=> Waits(p, j - 1, k)
        BY <3>3, <4>1, <4>2 DEF Waits
      <4>4. \A i \in Requests : j = g[i] <=> i = j - 1
        BY <2>2, <2>3, <4>1
      <4>5. QED
        BY <3>3, <4>1, <4>3, <4>4 DEF Waits
    <3>4. CASE j \notin Requests'
      <4>1. 1 \in Requests' /\ \A i \in Requests : i + 1 \in Requests'
        BY <2>1, <2>2
      <4>2. QED
        BY <2>3, <3>4, <4>1 DEF Waits
    <3>5. QED
      BY <3>2, <3>3, <3>4
  <2>5. CASE p = q
    <3>1. \A j, k : Waits(p, j, k)' <=> j = 1 /\ k = 1
      BY <1>5, <2>4, <2>5
    <3>2. \A y : y \in Places(p)' <=> y = <<"pending", 1, 1>>
      BY <1>5, <2>5, <3>1, NewPlacesAre
    <3>3. Places(p)' = {<<"pending", 1, 1>>}
      BY <3>2
    <3>4. QED
      BY <3>3
  <2>6. CASE p # q
    <3>1. \A j, k : Waits(p, j, k)' <=> \E i : Waits(p, i, k) /\ j = g[i]
      BY <2>4, <2>6
    <3>2. (p \in fresh' <=> p \in fresh) /\ (p \in missed' <=> p \in missed)
      BY <1>3, <2>6
    <3>3. QED
      BY <1>1, <1>4, <3>1, <3>2, PendingMoves
  <2>7. QED
    BY <2>5, <2>6
<1>8. QED
  BY <1>6, <1>7

LEMMA InsertPlaces ==
    ASSUME CacheInv, Placed, NEW ip \in Ips, NEW mac \in Owns[ip], Insert(ip, mac)
    PROVE  Placed'
<1> SUFFICES ASSUME NEW p \in Packets PROVE \E y : Places(p)' = {y}
  BY DEF Placed
<1>1. PICK x : Places(p) = {x}
  BY DEF Placed
<1>2. TypeOK
  BY Parts
<1>3. UNCHANGED <<fresh, missed, pkt_list, reported>>
  BY DEF Insert
<1>4. /\ p \in fresh' <=> p \in fresh
      /\ p \in missed' <=> p \in missed
      /\ \A k : Listed(p, k)' <=> Listed(p, k)
      /\ \A k : Reported(p, k)' <=> Reported(p, k)
  BY <1>3 DEF Listed, Reported
<1>5. CASE Answered(ip) = {}
  <2>1. req_list' = req_list /\ sent' = sent
    BY <1>5 DEF Insert
  <2>2. (\A k : Sent(p, k)' <=> Sent(p, k)) /\ (\A i, k : Waits(p, i, k)' <=> Waits(p, i, k))
    BY <2>1 DEF Sent, Waits, Requests
  <2>3. \A y : y \in Places(p)' <=> y \in Places(p)
    BY <1>4, <2>2, PlacesAre, NewPlacesAre
  <2>4. Places(p)' = {x}
    BY <1>1, <2>3
  <2>5. QED
    BY <2>4
<1>6. CASE Answered(ip) # {}
  <2>1. PICK i \in Requests :
            /\ req_list[i].ip = ip /\ req_list' = RemoveAt(req_list, i)
            /\ sent' \in Seq(Packets \X Macs)
            /\ Len(sent') = Len(sent) + Len(req_list[i].pkts)
            /\ \A k \in 1..Len(sent) : sent'[k] = sent[k]
            /\ \A k \in DOMAIN req_list[i].pkts :
                  sent'[Len(sent) + k] = <<req_list[i].pkts[k], mac>>
    BY <1>2, <1>6, Serves
  <2> DEFINE m == Len(req_list) - 1
             f == [j \in 1..m |-> IF j < i THEN j ELSE j + 1]
             g == [j \in Requests |-> IF j < i THEN j ELSE j - 1]
             l == Len(sent)
  <2>2. Len(req_list') = m /\ Thinned(f)
    BY <1>2, <2>1, RemovedOne
  <2>3. Len(req_list) \in Nat /\ Requests = 1..Len(req_list)
    BY <1>2, RequestList
  <2>4. /\ \A j \in 1..m : f[j] \in Requests /\ f[j] # i /\ g[f[j]] = j
        /\ \A j \in Requests : j # i => g[j] \in 1..m /\ f[g[j]] = j
    BY <2>3
  <2> HIDE DEF f, g, m
  <2>5. \A j, k : Waits(p, j, k)' <=> j \in 1..m /\ Waits(p, f[j], k)
    BY <1>2, <2>2, ThinnedWaits
  <2>6. \A j, k : Waits(p, j, k)' <=> \E h : Waits(p, h, k) /\ h # i /\ j = g[h]
    <3> SUFFICES ASSUME NEW j, NEW k
                 PROVE  Waits(p, j, k)' <=> \E h : Waits(p, h, k) /\ h # i /\ j = g[h]
      OBVIOUS
    <3>1. ASSUME Waits(p, j, k)' PROVE \E h : Waits(p, h, k) /\ h # i /\ j = g[h]
      BY <2>4, <2>5, <3>1
    <3>2. ASSUME NEW h, Waits(p, h, k), h # i, j = g[h] PROVE Waits(p, j, k)'
      <4>1. h \in Requests
        BY <3>2 DEF Waits
      <4>2. j \in 1..m /\ f[j] = h
        BY <2>4, <3>2, <4>1
      <4>3. QED
        BY <2>5, <3>2, <4>2
    <3>3. QED
      BY <3>1, <3>2
  <2>7. \A n : Sent(p, n)' <=> Sent(p, n) \/ \E k : Waits(p, i, k) /\ n = l + k
    <3> DEFINE r == req_list[i].pkts
    <3>1. Len(r) \in Nat /\ DOMAIN r = 1..Len(r)
      BY <1>2, RequestList
    <3>2. l \in Nat /\ DOMAIN sent = 1..l /\ DOMAIN sent' = 1..l + Len(r)
      BY <1>2, <2>1, LenProperties DEF TypeOK
    <3>3. \A k \in 1..Len(r) : sent'[l + k][1] = r[k]
      BY <2>1, <3>1
    <3>4. \A k \in 1..l : sent'[k] = sent[k]
      BY <2>1
    <3>5. \A k : Waits(p, i, k) <=> k \in 1..Len(r) /\ r[k] = p
      BY <3>1 DEF Waits
    <3> HIDE DEF r, l
    <3>6. SUFFICES ASSUME NEW n
                   PROVE  Sent(p, n)' <=> Sent(p, n) \/ \E k : Waits(p, i, k) /\ n = l + k
      OBVIOUS
    <3>7. CASE n \in 1..l
      <4>1. n \in 1..l + Len(r) /\ \A k \in 1..Len(r) : n # l + k
        BY <3>1, <3>2, <3>7
      <4>2. QED
        BY <3>2, <3>4, <3>5, <3>7, <4>1 DEF Sent
    <3>8. CASE n \notin 1..l /\ n \in 1..l + Len(r)
      <4>1. n - l \in 1..Len(r) /\ n = l + (n - l) /\ \A k \in 1..Len(r) : n = l + k => k = n - l
        BY <3>1, <3>2, <3>8
      <4>2. Sent(p, n)' <=> r[n - l] = p
        BY <3>2, <3>3, <3>8, <4>1 DEF Sent
      <4>3. ~Sent(p, n)
        BY <3>2, <3>8 DEF Sent
      <4>4. QED
        BY <3>5, <4>1, <4>2, <4>3
    <3>9. CASE n \notin 1..l + Len(r)
      <4>1. n \notin 1..l /\ \A k \in 1..Len(r) : n # l + k
        BY <3>1, <3>2, <3>9
      <4>2. QED
        BY <3>2, <3>5, <3>9, <4>1 DEF Sent
    <3>10. QED
      BY <3>7, <3>8, <3>9
  <2> HIDE DEF l
  <2>8. CASE \E k : Waits(p, i, k)
    <3>1. PICK k : Waits(p, i, k)
      BY <2>8
    <3>2. x = <<"pending", i, k>>
      BY <1>1, <3>1, OnlyPlace
    <3>3. /\ p \notin fresh' /\ p \notin missed'
          /\ \A n : ~Listed(p, n)' /\ ~Reported(p, n)' /\ ~Sent(p, n)
          /\ \A j, n : Waits(p, j, n) => j = i /\ n = k
      BY <1>1, <1>4, <3>2, OnlyPlace
    <3>4. \A j, n : ~Waits(p, j, n)'
      BY <2>6, <3>3
    <3>5. \A n : Sent(p, n)' <=> n = l + k
      BY <2>7, <3>1, <3>3
    <3>6. \A y : y \in Places(p)' <=> y = <<"sent", 0, l + k>>
      BY <3>3, <3>4, <3>5, NewPlacesAre
    <3>7. Places(p)' = {<<"sent", 0, l + k>>}
      BY <3>6
    <3>8. QED
      BY <3>7
  <2>9. CASE ~ \E k : Waits(p, i, k)
    <3>1. \A n : Sent(p, n)' <=> Sent(p, n)
      BY <2>7, <2>9
    <3>2. \A j, k : Waits(p, j, k)' <=> \E h : Waits(p, h, k) /\ j = g[h]
      BY <2>6, <2>9
    <3>3. QED
      BY <1>1, <1>4, <3>1, <3>2, PendingMoves
  <2>10. QED
    BY <2>8, <2>9
<1>7. QED
  BY <1>5, <1>6

LEMMA TickPlaces == ASSUME CacheInv, Placed, Tick PROVE Placed'
<1> SUFFICES ASSUME NEW p \in Packets PROVE \E y : Places(p)' = {y}
  BY DEF Placed
<1>1. PICK x : Places(p) = {x}
  BY DEF Placed
<1>2. TypeOK
  BY Parts
<1>3. UNCHANGED <<fresh, missed, pkt_list, sent, reported>>
  BY DEF Tick
<1> DEFINE f == [j \in 1..Len(req_list) |-> j]
<1>4. Len(req_list') = Len(req_list) /\ Thinned(f)
  BY <1>2, TickSteps
<1>5. \A j \in 1..Len(req_list) : f[j] = j
  OBVIOUS
<1> HIDE DEF f
<1>6. \A j, k : Waits(p, j, k)' <=> j \in 1..Len(req_list) /\ Waits(p, f[j], k)
  BY <1>2, <1>4, ThinnedWaits
<1>7. \A j, k : Waits(p, j, k)' <=> Waits(p, j, k)
  BY <1>2, <1>5, <1>6, RequestList DEF Waits
<1>8. \A y : y \in Places(p)' <=> y \in Places(p)
  BY <1>3, <1>7, PlacesAre, NewPlacesAre DEF Listed, Reported, Sent
<1>9. Places(p)' = {x}
  BY <1>1, <1>8
<1>10. QED
  BY <1>9

LEMMA SweepPlaces == ASSUME CacheInv, Placed, Sweep PROVE Placed'
<1> SUFFICES ASSUME NEW p \in Packets PROVE \E y : Places(p)' = {y}
  BY DEF Placed
<1>1. PICK x : Places(p) = {x}
  BY DEF Placed
<1>2. TypeOK /\ ListedToReport
  BY Parts
<1>3. sweeper = "awake" /\ UNCHANGED <<fresh, missed, sent, reported>>
  BY DEF Sweep
<1>4. /\ p \in fresh' <=> p \in fresh
      /\ p \in missed' <=> p \in missed
      /\ \A k : Reported(p, k)' <=> Reported(p, k)
      /\ \A k : Sent(p, k)' <=> Sent(p, k)
  BY <1>3 DEF Reported, Sent
<1>5. \A k : ~Listed(p, k)
  <2>1. pkt_list = <<>>
    BY <1>2, <1>3 DEF ListedToReport
  <2>2. DOMAIN pkt_list = {}
    BY <2>1
  <2>3. QED
    BY <2>2 DEF Listed
<1>6. PICK f : Spared(f)
  BY <1>2, SweepSpares
<1>7. PICK u, v : Gathered(u, v)
  BY <1>2, SweepGathers
<1>8. Requests = 1..Len(req_list)
  BY <1>2, RequestList
<1>9. Thinned(f)
  BY <1>6 DEF Spared
<1>10. \A j, k : Waits(p, j, k)' <=> j \in 1..Len(req_list') /\ Waits(p, f[j], k)
  BY <1>2, <1>9, ThinnedWaits
<1>11. \A n : Listed(p, n)' <=> n \in 1..Len(pkt_list') /\ Waits(p, u[n], v[n])
  <2>1. DOMAIN pkt_list' = 1..Len(pkt_list')
    BY <1>7, LenProperties DEF Gathered
  <2>2. \A n \in 1..Len(pkt_list') :
            /\ u[n] \in Requests /\ v[n] \in DOMAIN req_list[u[n]].pkts
            /\ pkt_list'[n] = req_list[u[n]].pkts[v[n]]
    BY <1>7, <1>8 DEF Gathered
  <2>3. QED
    BY <2>1, <2>2 DEF Listed, Waits
<1>12. \A n \in 1..Len(pkt_list') : Due(req_list[u[n]])
  BY <1>7 DEF Gathered
<1>13. \A j \in 1..Len(req_list') : ~Due(req_list[f[j]])
  BY <1>6 DEF Spared
<1>14. CASE \E i, k : Waits(p, i, k) /\ Due(req_list[i])
  <2>1. PICK i, k : Waits(p, i, k) /\ Due(req_list[i])
    BY <1>14
  <2>2. x = <<"pending", i, k>>
    BY <1>1, <2>1, OnlyPlace
  <2>3. /\ p \notin fresh' /\ p \notin missed'
        /\ \A n : ~Reported(p, n)' /\ ~Sent(p, n)'
        /\ \A j, n : Waits(p, j, n) => j = i /\ n = k
    BY <1>1, <1>4, <2>2, OnlyPlace
  <2>4. \A j, n : ~Waits(p, j, n)'
    BY <1>10, <1>13, <2>1, <2>3
  <2>5. i \in Requests /\ k \in DOMAIN req_list[i].pkts
    BY <2>1 DEF Waits
  <2>6. PICK n \in 1..Len(pkt_list') : u[n] = i /\ v[n] = k
    BY <1>7, <2>1, <2>5 DEF Gathered
  <2>7. \A o \in 1..Len(pkt_list') : u[o] = i /\ v[o] = k => o = n
    BY <1>7, <2>6 DEF Gathered
  <2>8. \A o : Listed(p, o)' <=> o = n
    BY <1>11, <2>1, <2>3, <2>6, <2>7
  <2>9. \A y : y \in Places(p)' <=> y = <<"listed", 0, n>>
    BY <2>3, <2>4, <2>8, NewPlacesAre
  <2>10. Places(p)' = {<<"listed", 0, n>>}
    BY <2>9
  <2>11. QED
    BY <2>10
<1>15. CASE ~ \E i, k : Waits(p, i, k) /\ Due(req_list[i])
  <2>1. \A k : Listed(p, k)' <=> Listed(p, k)
    BY <1>5, <1>11, <1>12, <1>15
  <2> DEFINE g == [i \in Requests |-> CHOOSE j \in 1..Len(req_list') : f[j] = i]
  <2>2. \A i \in Requests : g[i] = CHOOSE j \in 1..Len(req_list') : f[j] = i
    OBVIOUS
  <2> HIDE DEF g
  <2>3. \A i \in Requests : ~Due(req_list[i]) => g[i] \in 1..Len(req_list') /\ f[g[i]] = i
    BY <1>6, <2>2 DEF Spared
  <2>4. \A i, j \in 1..Len(req_list') : f[i] = f[j] => i = j
    BY <1>9 DEF Thinned
  <2>5. \A j \in 1..Len(req_list') : f[j] \in Requests
    BY <1>8, <1>9 DEF Thinned
  <2>6. \A j \in 1..Len(req_list') : g[f[j]] = j
    BY <1>13, <2>3, <2>4, <2>5
  <2>7. \A j, k : Waits(p, j, k)' <=> \E i : Waits(p, i, k) /\ j = g[i]
    <3> SUFFICES ASSUME NEW j, NEW k
                 PROVE  Waits(p, j, k)' <=> \E i : Waits(p, i, k) /\ j = g[i]
      OBVIOUS
    <3>1. ASSUME Waits(p, j, k)' PROVE \E i : Waits(p, i, k) /\ j = g[i]
      BY <1>10, <2>6, <3>1
    <3>2. ASSUME NEW i, Waits(p, i, k), j = g[i] PROVE Waits(p, j, k)'
      <4>1. i \in Requests /\ ~Due(req_list[i])
        BY <1>15, <3>2 DEF Waits
      <4>2. QED
        BY <1>10, <2>3, <3>2, <4>1
    <3>3. QED
      BY <3>1, <3>2
  <2>8. QED
    BY <1>1, <1>4, <2>1, <2>7, PendingMoves
<1>16. QED
  BY <1>14, <1>15

LEMMA ReportPlaces == ASSUME CacheInv, Placed, Report PROVE Placed'
<1> SUFFICES ASSUME NEW p \in Packets PROVE \E y : Places(p)' = {y}
  BY DEF Placed
<1>1. PICK x : Places(p) = {x}
  BY DEF Placed
<1>2. TypeOK
  BY Parts
<1>3. UNCHANGED <<req_list, fresh, missed, sent>>
  BY DEF Report
<1>4. /\ p \in fresh' <=> p \in fresh
      /\ p \in missed' <=> p \in missed
      /\ \A i, k : Waits(p, i, k)' <=> Waits(p, i, k)
      /\ \A k : Sent(p, k)' <=> Sent(p, k)
  BY <1>3 DEF Waits, Requests, Sent
<1>5. CASE pkt_list = <<>>
  <2>1. pkt_list' = pkt_list /\ reported' = reported
    BY <1>5 DEF Report
  <2>2. (\A k : Listed(p, k)' <=> Listed(p, k)) /\ (\A k : Reported(p, k)' <=> Reported(p, k))
    BY <2>1 DEF Listed, Reported
  <2>3. \A y : y \in Places(p)' <=> y \in Places(p)
    BY <1>4, <2>2, PlacesAre, NewPlacesAre
  <2>4. Places(p)' = {x}
    BY <1>1, <2>3
  <2>5. QED
    BY <2>4
<1>6. CASE pkt_list # <<>>
  <2> DEFINE n == Len(reported) + 1
  <2>1. /\ reported' \in Seq(Packets) /\ pkt_list' \in Seq(Packets)
        /\ Len(pkt_list') = Len(pkt_list) - 1 /\ Len(pkt_list) \in Nat \ {0}
        /\ \A k \in 1..Len(pkt_list') : pkt_list'[k] = pkt_list[k + 1]
        /\ Len(reported') = n
        /\ reported'[n] = pkt_list[1]
        /\ \A k \in 1..Len(reported) : reported'[k] = reported[k]
    BY <1>2, <1>6, Reports
  <2>2. /\ DOMAIN pkt_list = 1..Len(pkt_list) /\ DOMAIN pkt_list' = 1..Len(pkt_list) - 1
        /\ DOMAIN reported = 1..Len(reported) /\ DOMAIN reported' = 1..n
        /\ Len(reported) \in Nat
    BY <1>2, <2>1, LenProperties DEF TypeOK
  <2>3. \A k : k \in 1..n <=> k \in 1..Len(reported) \/ k = n
    BY <2>2
  <2>4. n \notin 1..Len(reported)
    BY <2>2
  <2> HIDE DEF n
  <2>5. \A k : Reported(p, k)' <=> Reported(p, k) \/ (k = n /\ Listed(p, 1))
    <3>1. Listed(p, 1) <=> pkt_list[1] = p
      BY <2>1, <2>2 DEF Listed
    <3>2. QED
      BY <2>1, <2>2, <2>3, <2>4, <3>1 DEF Reported
  <2>6. \A k : Listed(p, k)' <=> \E j \in 1..Len(pkt_list) : Listed(p, j) /\ j # 1 /\ k = j - 1
    <3> SUFFICES ASSUME NEW k
                 PROVE  Listed(p, k)' <=>
                            \E j \in 1..Len(pkt_list) : Listed(p, j) /\ j # 1 /\ k = j - 1
      OBVIOUS
    <3>1. ASSUME Listed(p, k)'
          PROVE  \E j \in 1..Len(pkt_list) : Listed(p, j) /\ j # 1 /\ k = j - 1
      <4>1. k \in 1..Len(pkt_list) - 1 /\ pkt_list'[k] = p
        BY <2>2, <3>1 DEF Listed
      <4>2. k + 1 \in 1..Len(pkt_list) /\ k + 1 # 1 /\ k = (k + 1) - 1
        BY <2>1, <4>1
      <4>3. Listed(p, k + 1)
        BY <2>1, <2>2, <4>1, <4>2 DEF Listed
      <4>4. QED
        BY <4>2, <4>3
    <3>2. ASSUME NEW j \in 1..Len(pkt_list), Listed(p, j), j # 1, k = j - 1
          PROVE  Listed(p, k)'
      <4>1. k \in 1..Len(pkt_list) - 1 /\ k + 1 = j
        BY <2>1, <3>2
      <4>2. QED
        BY <2>1, <2>2, <3>2, <4>1 DEF Listed
    <3>3. QED
      BY <3>1, <3>2
  <2>7. CASE Listed(p, 1)
    <3>1. x = <<"listed", 0, 1>>
      BY <1>1, <2>7, OnlyPlace
    <3>2. /\ p \notin fresh' /\ p \notin missed'
          /\ \A i, k : ~Waits(p, i, k)' 
          /\ \A k : ~Sent(p, k)' /\ ~Reported(p, k) /\ (Listed(p, k) => k = 1)
      BY <1>1, <1>4, <3>1, OnlyPlace
    <3>3. \A k : ~Listed(p, k)' /\ (Reported(p, k)' <=> k = n)
      BY <2>5, <2>6, <2>7, <3>2
    <3>4. \A y : y \in Places(p)' <=> y = <<"reported", 0, n>>
      BY <3>2, <3>3, NewPlacesAre
    <3>5. Places(p)' = {<<"reported", 0, n>>}
      BY <3>4
    <3>6. QED
      BY <3>5
  <2>8. CASE ~Listed(p, 1) /\ \E k : Listed(p, k)
    <3>1. PICK k : Listed(p, k)
      BY <2>8
    <3>2. x = <<"listed", 0, k>> /\ k # 1
      BY <1>1, <2>8, <3>1, OnlyPlace
    <3>3. /\ p \notin fresh' /\ p \notin missed'
          /\ \A i, m : ~Waits(p, i, m)'
          /\ \A m : ~Sent(p, m)' /\ ~Reported(p, m) /\ (Listed(p, m) => m = k)
      BY <1>1, <1>4, <3>2, OnlyPlace
    <3>4. k \in 1..Len(pkt_list)
      BY <2>2, <3>1 DEF Listed
    <3>5. \A m : ~Reported(p, m)' /\ (Listed(p, m)' <=> m = k - 1)
      BY <2>5, <2>6, <2>8, <3>1, <3>2, <3>3, <3>4
    <3>6. \A y : y \in Places(p)' <=> y = <<"listed", 0, k - 1>>
      BY <3>3, <3>5, NewPlacesAre
    <3>7. Places(p)' = {<<"listed", 0, k - 1>>}
      BY <3>6
    <3>8. QED
      BY <3>7
  <2>9. CASE ~ \E k : Listed(p, k)
    <3>1. \A k : ~Listed(p, k)' /\ (Reported(p, k)' <=> Reported(p, k))
      BY <2>5, <2>6, <2>9
    <3>2. \A y : y \in Places(p)' <=> y \in Places(p)
      BY <1>4, <2>9, <3>1, PlacesAre, NewPlacesAre
    <3>3. Places(p)' = {x}
      BY <1>1, <3>2
    <3>4. QED
      BY <3>3
  <2>10. QED
    BY <2>7, <2>8, <2>9
<1>7. QED
  BY <1>5, <1>6
-----------------------------------------------------------------------------
(* At the start no packet has been tried. *)
LEMMA InitIInv == Init => IInv
<1> SUFFICES ASSUME Init PROVE IInv
  OBVIOUS
<1>1. /\ entries = [s \in Slots |-> Invalid] /\ req_list = <<>>
      /\ fresh = Packets /\ missed = {}
      /\ pkt_list = <<>> /\ sent = <<>> /\ reported = <<>> /\ sweeper = "asleep"
  BY DEF Init
<1>2. \A S : <<>> \in Seq(S)
  BY EmptySeq
<1>3. TypeOK
  BY <1>1, <1>2 DEF TypeOK
<1>4. CacheInv
  BY <1>1, <1>3 DEF CacheInv, OneRequest, OneSlot, ListedToReport, QueuedRight,
                    EntriesTrue, RightHost, Requests, Valid
<1>5. ASSUME NEW p \in Packets
      PROVE  Places(p) = {<<"fresh", 0, 0>>}
  <2>1. /\ \A i, k : ~Waits(p, i, k)
        /\ \A k : ~Listed(p, k) /\ ~Reported(p, k) /\ ~Sent(p, k)
    BY <1>1 DEF Waits, Listed, Reported, Sent, Requests
  <2>2. \A y : y \in Places(p) <=> y = <<"fresh", 0, 0>>
    BY <1>1, <2>1, PlacesAre
  <2>3. QED
    BY <2>2
<1>6. Placed
  BY <1>5 DEF Placed
<1>7. QED
  BY <1>4, <1>6 DEF IInv

LEMMA NextStep == ASSUME IInv, [Next]_vars PROVE IInv'
<1>1. CacheInv /\ Placed
  BY DEF IInv
<1>2. ASSUME NEW p \in Packets, Lookup(p) PROVE IInv'
  BY <1>1, <1>2, LookupCache, LookupPlaces DEF IInv
<1>3. ASSUME NEW p \in Packets, AppendPacket(p) PROVE IInv'
  BY <1>1, <1>3, AppendCache, AppendPlaces DEF IInv
<1>4. ASSUME NEW ip \in Ips, NEW mac \in Owns[ip], Insert(ip, mac) PROVE IInv'
  BY <1>1, <1>4, InsertCache, InsertPlaces DEF IInv
<1>5. CASE Tick
  BY <1>1, <1>5, TickCache, TickPlaces DEF IInv
<1>6. CASE Sweep
  BY <1>1, <1>6, SweepCache, SweepPlaces DEF IInv
<1>7. CASE Report
  BY <1>1, <1>7, ReportCache, ReportPlaces DEF IInv
<1>8. CASE UNCHANGED vars
  <2>1. UNCHANGED <<entries, req_list, fresh, missed, pkt_list, sent, reported, sweeper>>
    BY <1>8 DEF vars
  <2>2. CacheInv'
    BY <1>1, <2>1 DEF CacheInv, TypeOK, OneRequest, OneSlot, ListedToReport, QueuedRight,
                      EntriesTrue, RightHost, Requests, Valid
  <2>3. Placed'
    <3> SUFFICES ASSUME NEW p \in Packets PROVE \E x : Places(p)' = {x}
      BY DEF Placed
    <3>1. PICK x : Places(p) = {x}
      BY <1>1 DEF Placed
    <3>2. /\ \A i, k : Waits(p, i, k)' <=> Waits(p, i, k)
          /\ \A k : (Listed(p, k)' <=> Listed(p, k)) /\ (Reported(p, k)' <=> Reported(p, k))
          /\ \A k : Sent(p, k)' <=> Sent(p, k)
      BY <2>1 DEF Waits, Listed, Reported, Sent, Requests
    <3>3. \A y : y \in Places(p)' <=> y \in Places(p)
      BY <2>1, <3>2, PlacesAre, NewPlacesAre
    <3>4. QED
      BY <3>1, <3>3
  <2>4. QED
    BY <2>2, <2>3 DEF IInv
<1>9. QED
  BY <1>2, <1>3, <1>4, <1>5, <1>6, <1>7, <1>8 DEF Next

(* The inductive invariant holds in every state. *)
THEOREM Inductive == Spec => []IInv
<1>1. Init => IInv
  BY InitIInv
<1>2. IInv /\ [Next]_vars => IInv'
  BY NextStep
<1>3. QED
  BY <1>1, <1>2, PTL DEF Spec

LEMMA OneSlotEach ==
    ASSUME OneSlot, NEW ip
    PROVE  Cardinality(Holding(ip)) <= 1
<1>1. CASE Holding(ip) = {}
  BY <1>1, FS_EmptySet
<1>2. CASE Holding(ip) # {}
  <2>1. PICK s \in Holding(ip) : TRUE
    BY <1>2
  <2>2. Holding(ip) = {s}
    BY <2>1 DEF OneSlot, Holding
  <2>3. QED
    BY <2>2, FS_Singleton
<1>3. QED
  BY <1>1, <1>2

(* An address never has two requests, of which arpcache_insert would serve  *)
(* the first only, nor two entries, of which look-ups would find the first  *)
(* only (arpcache.c:22-26, 117).                                            *)
THEOREM OneOfEach == Spec => []ArpInv
<1>1. IInv => ArpInv
  BY OneSlotEach DEF IInv, CacheInv, ArpInv, OneEntry
<1>2. QED
  BY <1>1, Inductive, PTL

(* No packet is lost, sent twice, or both sent and reported, in whatever    *)
(* order senders, answers and the sweeper come.                             *)
THEOREM NeverTwice == Spec => []OnePlace
<1>1. ASSUME IInv PROVE OnePlace
  <2> SUFFICES ASSUME NEW p \in Packets PROVE Cardinality(Places(p)) = 1
    BY DEF OnePlace
  <2>1. PICK x : Places(p) = {x}
    BY <1>1 DEF IInv, Placed
  <2>2. QED
    BY <2>1, FS_Singleton
<1>2. QED
  BY <1>1, Inductive, PTL

(* A packet is sent only to a MAC that a host announced for its next hop.   *)
THEOREM ToNextHop == Spec => []RightHost
<1>1. IInv => RightHost
  BY DEF IInv, CacheInv
<1>2. QED
  BY <1>1, Inductive, PTL
=============================================================================
