---------------------------- MODULE RouterProofs ----------------------------
(***************************************************************************)
(* Theorems about the router of Router, for every routing table whose      *)
(* networks are nested or apart, every set of hosts, slots and packets,    *)
(* every time-out and every number of retries.                             *)
(***************************************************************************)
EXTENDS Router, SequenceTheorems, FiniteSetTheorems, WellFoundedInduction, TLAPS

(* < is well-founded on the naturals. *)
LEMMA LeastOfNats ==
    ASSUME NEW S \in SUBSET Nat, S # {}
    PROVE  \E x \in S : \A y \in S : x <= y
<1>1. PICK x \in S : \A y \in S : <<y, x>> \notin OpToRel(<, Nat)
  BY NatLessThanWellFounded, WFMin
<1>2. \A y \in S : y < x => <<y, x>> \in OpToRel(<, Nat)
  BY DEF OpToRel
<1>3. \A y \in S : ~(y < x)
  BY <1>1, <1>2, Zenon
<1>4. QED
  BY <1>3

(* A bounded set of naturals has a greatest element. *)
LEMMA GreatestOfBounded ==
    ASSUME NEW S \in SUBSET Nat, S # {}, NEW b \in Nat, \A x \in S : x <= b
    PROVE  \E m \in S : \A a \in S : a <= m
<1> DEFINE Gaps == {b - x : x \in S}
<1>1. Gaps \in SUBSET Nat /\ Gaps # {} /\ \A a \in S : b - a \in Gaps
  <2>1. \A x \in S : x \in Nat /\ b - x \in Nat
    OBVIOUS
  <2>2. QED
    BY <2>1
<1>2. PICK g \in Gaps : \A y \in Gaps : g <= y
  BY <1>1, LeastOfNats
<1>3. PICK m \in S : g = b - m
  BY <1>2
<1>4. \A a \in S : a <= m
  BY <1>1, <1>2, <1>3
<1>5. QED
  BY <1>4
-----------------------------------------------------------------------------
(* The routing table. *)

Route == [prefix : SUBSET Addresses, mask : 0..32,
           gw : Addresses \cup {NoAddress}, iface : Own]

LEMMA RouteType ==
    /\ DOMAIN rtable \subseteq Nat
    /\ \A i \in DOMAIN rtable :
        /\ rtable[i].mask \in 0..32 /\ rtable[i].iface \in Own
        /\ rtable[i].gw \in Addresses \cup {NoAddress}
<1>1. rtable \in Seq(Route)
  BY ConstantsAssumption DEF Route
<1>2. DOMAIN rtable \subseteq Nat /\ \A i \in DOMAIN rtable : rtable[i] \in Route
  BY <1>1, LenProperties
<1>3. QED
  BY <1>2 DEF Route

(* longest_prefix_match finds a route of the longest mask there is. *)
LEMMA LpmFound ==
    ASSUME NEW dst, HasRoute(dst)
    PROVE  \E i \in Matching(dst) :
              /\ Lpm(dst) = rtable[i]
              /\ \A j \in Matching(dst) : rtable[i].mask >= rtable[j].mask
<1> DEFINE M == Matching(dst)
           Masks == {rtable[i].mask : i \in M}
<1>1. /\ M # {} /\ M \subseteq Nat
      /\ \A i \in M : rtable[i].mask \in 0..32
  BY RouteType DEF HasRoute, Matching
<1>2. PICK m \in Masks : \A a \in Masks : a <= m
  <2>1. Masks \in SUBSET Nat /\ Masks # {} /\ \A a \in Masks : a <= 32
    BY <1>1
  <2> HIDE DEF Masks
  <2>2. QED
    BY <2>1, GreatestOfBounded
<1> DEFINE Top == {i \in M : rtable[i].mask = m}
<1>3. PICK i \in Top : \A j \in Top : i <= j
  <2>1. Top \in SUBSET Nat /\ Top # {}
    BY <1>1, <1>2
  <2> HIDE DEF Top
  <2>2. QED
    BY <2>1, LeastOfNats
<1>4. \A j \in M : /\ rtable[i].mask >= rtable[j].mask
                   /\ rtable[i].mask = rtable[j].mask => i <= j
  BY <1>1, <1>2, <1>3
<1> HIDE DEF M
<1>5. \E i0 \in M : /\ Lpm(dst) = rtable[i0]
                    /\ \A j \in M : /\ rtable[i0].mask >= rtable[j].mask
                                    /\ rtable[i0].mask = rtable[j].mask => i0 <= j
  BY <1>3, <1>4 DEF Lpm, M
<1>6. QED
  BY <1>5 DEF M

(* The next hop of a packet, and the interface towards it. *)
LEMMA NextHopType ==
    ASSUME NEW p \in Packets, HasRoute(p.dst)
    PROVE  NextHop(p) \in Addresses /\ Lpm(p.dst).iface \in Own
<1>1. PICK i \in DOMAIN rtable : Lpm(p.dst) = rtable[i]
  BY LpmFound DEF Matching
<1>2. rtable[i].gw \in Addresses \cup {NoAddress} /\ rtable[i].iface \in Own
  BY RouteType
<1>3. QED
  BY <1>1, <1>2 DEF NextHop, Packets

(* The ICMP message about a packet. *)
LEMMA IcmpType ==
    ASSUME NEW p \in Packets, HasRoute(p.src)
    PROVE  /\ Icmp(p) \in Packets /\ HasRoute(Icmp(p).dst)
           /\ Icmp(p).id = p.id /\ Icmp(p).made \in {1, 2} /\ Icmp(p).src \in Own
           /\ Icmp(p).made = 1 <=> p.src \notin Own
<1>1. PICK i \in DOMAIN rtable : Lpm(p.src) = rtable[i]
  BY LpmFound DEF Matching
<1>2. rtable[i].iface \in Own /\ Own \subseteq Addresses
  BY RouteType, ConstantsAssumption
<1>3. QED
  BY <1>1, <1>2 DEF Icmp, Packets
-----------------------------------------------------------------------------
(* The packets of a list of requests.  Of two packets one is about the      *)
(* same as the other if they have the same id and are made alike; a packet  *)
(* that came in, or the message about it, is to be in one place only.       *)

Queued(q) == {p \in Packets : \E i \in DOMAIN q : \E k \in DOMAIN q[i].pkts : q[i].pkts[k] = p}
Named(q) == {q[i].ip : i \in DOMAIN q}

Once(p) == p.made < 2
Same(p, r) == p.id = r.id /\ p.made = r.made
Unlike(A, B) == \A p \in A, r \in B : Once(p) => ~Same(p, r)
Unique(A) == \A p, r \in A : Once(p) /\ Same(p, r) => p = r

OneEach(q) == \A i, j \in DOMAIN q : q[i].ip = q[j].ip => i = j
Apart(q) ==
    \A i, j \in DOMAIN q : \A k \in DOMAIN q[i].pkts, l \in DOMAIN q[j].pkts :
        Once(q[i].pkts[k]) /\ Same(q[i].pkts[k], q[j].pkts[l]) => i = j /\ k = l
Routed(q) ==
    \A i \in DOMAIN q : \A k \in DOMAIN q[i].pkts :
        HasRoute(q[i].pkts[k].dst) /\ NextHop(q[i].pkts[k]) = q[i].ip

(* A thread that walks the packets of a request holds its first one, and    *)
(* knows whether there is another.                                          *)
Grip(q, t) ==
    \E i \in DOMAIN q : /\ q[i].ip = t.ip /\ q[i].pkts[1] = t.pkt
                        /\ ~t.last => Len(q[i].pkts) >= 2

LEMMA RequestType ==
    ASSUME NEW q \in Seq(Requests), NEW i \in DOMAIN q
    PROVE  /\ q[i] \in Requests /\ q[i].ip \in Addresses
           /\ q[i].pkts \in Seq(Packets) /\ q[i].pkts # <<>>
           /\ Len(q[i].pkts) \in Nat \ {0} /\ DOMAIN q[i].pkts = 1..Len(q[i].pkts)
           /\ \A k \in DOMAIN q[i].pkts : q[i].pkts[k] \in Packets /\ q[i].pkts[k] \in Queued(q)
           /\ 1 \in DOMAIN q[i].pkts
<1>1. q[i] \in Requests
  BY ElementOfSeq, LenProperties
<1>2. q[i].ip \in Addresses /\ q[i].pkts \in Seq(Packets) /\ q[i].pkts # <<>>
  BY <1>1 DEF Requests
<1>3. /\ Len(q[i].pkts) \in Nat \ {0} /\ DOMAIN q[i].pkts = 1..Len(q[i].pkts)
      /\ \A k \in DOMAIN q[i].pkts : q[i].pkts[k] \in Packets
  <2> DEFINE s == q[i].pkts
  <2>1. s \in Seq(Packets) /\ s # <<>>
    BY <1>2
  <2> HIDE DEF s
  <2>2. Len(s) \in Nat \ {0} /\ DOMAIN s = 1..Len(s) /\ \A k \in DOMAIN s : s[k] \in Packets
    BY <2>1, EmptySeq, LenProperties, ElementOfSeq
  <2>3. QED
    BY <2>2 DEF s
<1>4. QED
  BY <1>1, <1>2, <1>3 DEF Queued

(* What is left of list q in list r: each request of r is one of q, f of    *)
(* it, without the first d of its packets.                                  *)
Fewer(q, r, f, d) ==
    /\ f \in [DOMAIN r -> DOMAIN q] /\ d \in [DOMAIN r -> Nat]
    /\ \A i, j \in DOMAIN r : f[i] = f[j] => i = j
    /\ \A i \in DOMAIN r :
        /\ r[i].ip = q[f[i]].ip
        /\ \A k \in DOMAIN r[i].pkts :
            k + d[i] \in DOMAIN q[f[i]].pkts /\ r[i].pkts[k] = q[f[i]].pkts[k + d[i]]

LEMMA FewerSound ==
    ASSUME NEW q \in Seq(Requests), NEW r \in Seq(Requests), NEW f, NEW d, Fewer(q, r, f, d)
    PROVE  /\ Queued(r) \subseteq Queued(q)
           /\ OneEach(q) => OneEach(r)
           /\ Routed(q) => Routed(r)
           /\ Apart(q) => Apart(r)
<1> USE DEF Fewer
<1>1. ASSUME NEW p \in Queued(r) PROVE p \in Queued(q)
  <2>1. PICK i \in DOMAIN r : \E k \in DOMAIN r[i].pkts : r[i].pkts[k] = p
    BY DEF Queued
  <2>2. PICK k \in DOMAIN r[i].pkts : r[i].pkts[k] = p
    BY <2>1
  <2>3. f[i] \in DOMAIN q /\ k + d[i] \in DOMAIN q[f[i]].pkts /\ q[f[i]].pkts[k + d[i]] = p
    BY <2>2
  <2>4. QED
    BY <2>3, RequestType
<1>2. OneEach(q) => OneEach(r)
  BY DEF OneEach
<1>3. Routed(q) => Routed(r)
  BY DEF Routed
<1>4. ASSUME Apart(q), NEW i \in DOMAIN r, NEW j \in DOMAIN r,
             NEW k \in DOMAIN r[i].pkts, NEW l \in DOMAIN r[j].pkts,
             Once(r[i].pkts[k]), Same(r[i].pkts[k], r[j].pkts[l])
      PROVE  i = j /\ k = l
  <2>1. /\ f[i] \in DOMAIN q /\ f[j] \in DOMAIN q
        /\ k + d[i] \in DOMAIN q[f[i]].pkts /\ r[i].pkts[k] = q[f[i]].pkts[k + d[i]]
        /\ l + d[j] \in DOMAIN q[f[j]].pkts /\ r[j].pkts[l] = q[f[j]].pkts[l + d[j]]
    OBVIOUS
  <2>2. f[i] = f[j] /\ k + d[i] = l + d[j]
    BY <1>4, <2>1 DEF Apart
  <2>3. i = j
    BY <2>2
  <2>4. k \in Nat /\ l \in Nat /\ d[i] \in Nat
    <3>1. DOMAIN r[i].pkts = 1..Len(r[i].pkts) /\ DOMAIN r[j].pkts = 1..Len(r[j].pkts)
      BY RequestType
    <3>2. QED
      BY <3>1
  <2>5. QED
    BY <2>2, <2>3, <2>4
<1>5. QED
  BY <1>1, <1>2, <1>3, <1>4 DEF Apart

(* A packet that is left out is unlike those left. *)
LEMMA LeftOut ==
    ASSUME NEW q \in Seq(Requests), NEW r \in Seq(Requests), NEW f, NEW d, Fewer(q, r, f, d),
           Apart(q), NEW j \in DOMAIN q, NEW k \in DOMAIN q[j].pkts,
           \A i \in DOMAIN r : f[i] = j => k <= d[i]
    PROVE  Unlike(Queued(r), {q[j].pkts[k]})
<1> SUFFICES ASSUME NEW p \in Queued(r), Once(p), Same(p, q[j].pkts[k]) PROVE FALSE
  BY DEF Unlike
<1>1. PICK i \in DOMAIN r : \E l \in DOMAIN r[i].pkts : r[i].pkts[l] = p
  BY DEF Queued
<1>2. PICK l \in DOMAIN r[i].pkts : r[i].pkts[l] = p
  BY <1>1
<1>3. /\ f[i] \in DOMAIN q /\ l + d[i] \in DOMAIN q[f[i]].pkts
      /\ q[f[i]].pkts[l + d[i]] = p
  BY <1>2 DEF Fewer
<1>4. f[i] = j /\ l + d[i] = k
  BY <1>3 DEF Apart
<1>5. l \in Nat /\ l > 0 /\ d[i] \in Nat
  BY RequestType DEF Fewer
<1>6. QED
  BY <1>4, <1>5
-----------------------------------------------------------------------------
(* The sweep changes the age and the number of retries of requests only. *)
LEMMA AlikeSound ==
    ASSUME NEW q \in Seq(Requests), NEW r \in Seq(Requests), DOMAIN r = DOMAIN q,
           \A i \in DOMAIN q : r[i].ip = q[i].ip /\ r[i].pkts = q[i].pkts
    PROVE  /\ Queued(r) = Queued(q) /\ Named(r) = Named(q)
           /\ OneEach(q) => OneEach(r)
           /\ Routed(q) => Routed(r)
           /\ Apart(q) => Apart(r)
           /\ \A t : Grip(q, t) => Grip(r, t)
<1>1. Queued(r) = Queued(q)
  BY DEF Queued
<1>2. Named(r) = Named(q)
  BY DEF Named
<1>3. OneEach(q) => OneEach(r)
  BY DEF OneEach
<1>4. Routed(q) => Routed(r)
  BY DEF Routed
<1>5. Apart(q) => Apart(r)
  BY DEF Apart
<1>6. \A t : Grip(q, t) => Grip(r, t)
  BY DEF Grip
<1>7. QED
  BY <1>1, <1>2, <1>3, <1>4, <1>5, <1>6

(* A sound list, and one from which packets have gone. *)
Orderly(q) == q \in Seq(Requests) /\ OneEach(q) /\ Routed(q) /\ Apart(q)
Lighter(q, r, A) == Orderly(r) /\ Queued(r) \subseteq Queued(q) /\ Unlike(Queued(r), A)

(* The first packet of a request, which has more, is removed. *)
LEMMA FirstGone ==
    ASSUME NEW q, Orderly(q), NEW j \in DOMAIN q, Len(q[j].pkts) >= 2, NEW r,
           r = [i \in DOMAIN q |-> IF q[i].ip = q[j].ip
                                   THEN [q[j] EXCEPT !.pkts = Tail(q[j].pkts)] ELSE q[i]]
    PROVE  /\ Lighter(q, r, {q[j].pkts[1]}) /\ Named(r) = Named(q)
           /\ Tail(q[j].pkts)[1] \in Packets
           /\ \A t : Grip(q, t) /\ t.ip # q[j].ip => Grip(r, t)
           /\ \A t : /\ t.ip = q[j].ip /\ t.pkt = Tail(q[j].pkts)[1]
                     /\ Len(Tail(q[j].pkts)) = 1 => t.last
                     => Grip(r, t)
<1> DEFINE s == q[j].pkts
           new == [q[j] EXCEPT !.pkts = Tail(s)]
           d == [i \in DOMAIN q |-> IF i = j THEN 1 ELSE 0]
           f == [i \in DOMAIN q |-> i]
<1>1. /\ q \in Seq(Requests) /\ q[j] \in Requests /\ s \in Seq(Packets) /\ s # <<>>
      /\ Len(s) \in Nat /\ Len(s) >= 2 /\ DOMAIN s = 1..Len(s)
  BY RequestType DEF Orderly
<1>2. /\ Tail(s) \in Seq(Packets) /\ Len(Tail(s)) = Len(s) - 1
      /\ \A i \in 1..Len(s) - 1 : Tail(s)[i] = s[i + 1]
      /\ DOMAIN Tail(s) = 1..Len(s) - 1 /\ Tail(s) # <<>> /\ Tail(s)[1] \in Packets
  <2> HIDE DEF s
  <2>1. /\ Tail(s) \in Seq(Packets) /\ Len(Tail(s)) = Len(s) - 1
        /\ \A i \in 1..Len(Tail(s)) : Tail(s)[i] = s[i + 1]
    BY <1>1, HeadTailProperties
  <2>2. DOMAIN Tail(s) = 1..Len(Tail(s)) /\ 1 \in 1..Len(Tail(s))
    BY <1>1, <2>1, LenProperties
  <2>3. Tail(s)[1] \in Packets
    BY <2>1, <2>2, ElementOfSeq
  <2>4. Tail(s) # <<>>
    <3>1. Len(Tail(s)) # 0
      BY <1>1, <2>1
    <3>2. Len(<<>>) = 0
      OBVIOUS
    <3>3. QED
      BY <3>1, <3>2, Zenon
  <2>5. QED
    BY <2>1, <2>2, <2>3, <2>4
<1> HIDE DEF s
<1>3. new \in Requests /\ new.ip = q[j].ip /\ new.pkts = Tail(s)
  BY <1>1, <1>2 DEF Requests
<1>4. DOMAIN r = DOMAIN q /\ r[j] = new /\ \A i \in DOMAIN q \ {j} : r[i] = q[i]
  BY DEF s, Orderly, OneEach
<1> HIDE DEF new
<1>5. r \in Seq(Requests)
  <2>1. DOMAIN q = 1..Len(q) /\ Len(q) \in Nat /\ \A i \in DOMAIN q : q[i] \in Requests
    BY <1>1, LenProperties, ElementOfSeq
  <2> DEFINE e(i) == IF q[i].ip = q[j].ip THEN new ELSE q[i]
  <2>2. \A i \in 1..Len(q) : e(i) \in Requests
    BY <1>3, <2>1
  <2>3. r = [i \in 1..Len(q) |-> e(i)]
    BY <2>1 DEF s, new
  <2> HIDE DEF e
  <2>4. QED
    BY <2>1, <2>2, <2>3, IsASeq
<1>6. d[j] = 1 /\ f[j] = j /\ \A i \in DOMAIN q : f[i] = i /\ (i # j => d[i] = 0)
  OBVIOUS
<1>7. f \in [DOMAIN r -> DOMAIN q] /\ d \in [DOMAIN r -> Nat]
  BY <1>4
<1> HIDE DEF f, d
<1>8. ASSUME NEW i \in DOMAIN r
      PROVE  /\ r[i].ip = q[f[i]].ip
             /\ \A k \in DOMAIN r[i].pkts :
                 k + d[i] \in DOMAIN q[f[i]].pkts /\ r[i].pkts[k] = q[f[i]].pkts[k + d[i]]
  <2>1. CASE i = j
    <3>1. \A k \in 1..Len(s) - 1 : k + 1 \in 1..Len(s)
      BY <1>1
    <3>2. QED
      BY <1>1, <1>2, <1>3, <1>4, <1>6, <2>1, <3>1 DEF s
  <2>2. CASE i # j
    <3>1. i \in DOMAIN q /\ r[i] = q[i] /\ f[i] = i /\ d[i] = 0
      BY <1>4, <1>6, <2>2
    <3>2. DOMAIN q[i].pkts = 1..Len(q[i].pkts)
      BY <1>1, <3>1, RequestType
    <3>3. \A k \in DOMAIN q[i].pkts : k + 0 = k
      BY <3>2
    <3>4. QED
      BY <3>1, <3>3
  <2>3. QED
    BY <2>1, <2>2
<1>9. Fewer(q, r, f, d)
  BY <1>4, <1>6, <1>7, <1>8 DEF Fewer
<1>10. Unlike(Queued(r), {q[j].pkts[1]})
  <2>1. 1 \in DOMAIN q[j].pkts /\ \A i \in DOMAIN r : f[i] = j => 1 <= d[i]
    BY <1>1, <1>4, <1>6, RequestType
  <2>2. QED
    BY <1>1, <1>5, <1>9, <2>1, LeftOut DEF Orderly
<1>11. Lighter(q, r, {q[j].pkts[1]})
  BY <1>1, <1>5, <1>9, <1>10, FewerSound DEF Lighter, Orderly
<1>12. Named(r) = Named(q)
  <2>1. \A i \in DOMAIN q : r[i].ip = q[i].ip
    BY <1>3, <1>4
  <2>2. QED
    BY <1>4, <2>1 DEF Named
<1>13. ASSUME NEW t, Grip(q, t), t.ip # q[j].ip PROVE Grip(r, t)
  BY <1>4, <1>13 DEF Grip
<1>14. ASSUME NEW t, t.ip = q[j].ip, t.pkt = Tail(s)[1], Len(Tail(s)) = 1 => t.last
       PROVE  Grip(r, t)
  <2>1. ~t.last => Len(Tail(s)) >= 2
    BY <1>1, <1>2, <1>14
  <2>2. QED
    BY <1>3, <1>4, <1>14, <2>1 DEF Grip
<1>15. QED
  BY <1>2, <1>11, <1>12, <1>13, <1>14 DEF s
-----------------------------------------------------------------------------
(* The packets of one request are apart from each other. *)
LEMMA RestApart ==
    ASSUME NEW q, Orderly(q), NEW j \in DOMAIN q
    PROVE  /\ ToSet(Tail(q[j].pkts)) \subseteq ToSet(q[j].pkts)
           /\ ToSet(q[j].pkts) \subseteq Queued(q)
           /\ Unique(ToSet(Tail(q[j].pkts)))
           /\ Unlike({q[j].pkts[1]}, ToSet(Tail(q[j].pkts)))
<1> DEFINE s == q[j].pkts
<1>1. /\ q \in Seq(Requests) /\ s \in Seq(Packets) /\ s # <<>>
      /\ Len(s) \in Nat /\ DOMAIN s = 1..Len(s) /\ 1 \in DOMAIN s
      /\ \A k \in DOMAIN s : s[k] \in Queued(q)
  BY RequestType DEF Orderly
<1>2. \A k, l \in DOMAIN s : Once(s[k]) /\ Same(s[k], s[l]) => k = l
  BY DEF Orderly, Apart
<1> HIDE DEF s
<1>3. ToSet(s) \subseteq Queued(q)
  BY <1>1 DEF ToSet
<1>4. \A p \in ToSet(Tail(s)) : \E k \in DOMAIN s : k # 1 /\ s[k] = p
  <2>1. /\ Tail(s) \in Seq(Packets) /\ Len(Tail(s)) = Len(s) - 1
        /\ \A i \in 1..Len(Tail(s)) : Tail(s)[i] = s[i + 1]
    BY <1>1, HeadTailProperties
  <2>2. DOMAIN Tail(s) = 1..Len(s) - 1
    BY <2>1, LenProperties
  <2>3. \A i \in 1..Len(s) - 1 : i + 1 \in DOMAIN s /\ i + 1 # 1 /\ Tail(s)[i] = s[i + 1]
    BY <1>1, <2>1
  <2>4. QED
    BY <2>2, <2>3 DEF ToSet
<1>5. ToSet(Tail(s)) \subseteq ToSet(s)
  BY <1>4 DEF ToSet
<1>6. Unique(ToSet(Tail(s)))
  BY <1>2, <1>4 DEF Unique
<1>7. Unlike({s[1]}, ToSet(Tail(s)))
  BY <1>1, <1>2, <1>4 DEF Unlike
<1>8. QED
  BY <1>3, <1>5, <1>6, <1>7 DEF s

LEMMA RemoveAtProperties ==
    ASSUME NEW T, NEW q \in Seq(T), NEW i \in DOMAIN q
    PROVE  /\ RemoveAt(q, i) \in Seq(T) /\ DOMAIN RemoveAt(q, i) = 1..Len(q) - 1
           /\ \A j \in 1..Len(q) - 1 : RemoveAt(q, i)[j] = IF j < i THEN q[j] ELSE q[j + 1]
<1> DEFINE n == Len(q)
           l == SubSeq(q, 1, i - 1)
           r == SubSeq(q, i + 1, n)
<1>1. n \in Nat /\ i \in 1..n /\ \A j \in 1..n : q[j] \in T
  BY LenProperties, ElementOfSeq
<1>2. l \in Seq(T) /\ Len(l) = i - 1 /\ \A j \in 1..i - 1 : l[j] = q[j]
  <2>1. 1 \in Int /\ i - 1 \in Int /\ \A j \in 1..i - 1 : q[j] \in T
    BY <1>1
  <2>2. /\ l \in Seq(T) /\ Len(l) = IF 1 <= i - 1 THEN i - 1 - 1 + 1 ELSE 0
        /\ \A j \in 1..i - 1 - 1 + 1 : l[j] = q[1 + j - 1]
    BY <2>1, SubSeqProperties
  <2>3. QED
    BY <1>1, <2>2
<1>3. r \in Seq(T) /\ Len(r) = n - i /\ \A j \in 1..n - i : r[j] = q[i + j]
  <2>1. i + 1 \in Int /\ n \in Int /\ \A j \in i + 1..n : q[j] \in T
    BY <1>1
  <2> HIDE DEF n
  <2>2. /\ r \in Seq(T) /\ Len(r) = IF i + 1 <= n THEN n - (i + 1) + 1 ELSE 0
        /\ \A j \in 1..n - (i + 1) + 1 : r[j] = q[(i + 1) + j - 1]
    BY <2>1, SubSeqProperties
  <2> HIDE DEF r
  <2>3. n - (i + 1) + 1 = n - i /\ (i + 1 <= n \/ n - i = 0)
    BY <1>1
  <2>4. \A j \in 1..n - i : (i + 1) + j - 1 = i + j
    BY <1>1
  <2>5. QED
    BY <1>1, <2>2, <2>3, <2>4
<1>4. RemoveAt(q, i) = l \o r
  BY DEF RemoveAt
<1> HIDE DEF l, r
<1>5. /\ l \o r \in Seq(T) /\ Len(l \o r) = Len(l) + Len(r)
      /\ \A j \in 1..Len(l) + Len(r) :
            (l \o r)[j] = IF j <= Len(l) THEN l[j] ELSE r[j - Len(l)]
  BY <1>2, <1>3, ConcatProperties
<1>6. Len(l) + Len(r) = n - 1
  BY <1>1, <1>2, <1>3
<1>7. ASSUME NEW j \in 1..n - 1
      PROVE  (l \o r)[j] = IF j < i THEN q[j] ELSE q[j + 1]
  <2>1. CASE j < i
    <3>1. j \in 1..i - 1 /\ j <= i - 1
      BY <1>1, <2>1
    <3>2. QED
      BY <1>2, <1>5, <1>6, <2>1, <3>1
  <2>2. CASE ~(j < i)
    <3>1. j - (i - 1) \in 1..n - i /\ ~(j <= i - 1) /\ i + (j - (i - 1)) = j + 1
      BY <1>1, <2>2
    <3>2. QED
      BY <1>2, <1>3, <1>5, <1>6, <2>2, <3>1
  <2>3. QED
    BY <2>1, <2>2
<1>8. DOMAIN (l \o r) = 1..n - 1
  BY <1>5, <1>6, LenProperties
<1>9. QED
  BY <1>4, <1>5, <1>7, <1>8

(* A request is removed, and freed with the packets it still has. *)
LEMMA RequestGone ==
    ASSUME NEW q, Orderly(q), NEW j \in DOMAIN q, NEW r, r = RemoveAt(q, j)
    PROVE  /\ Lighter(q, r, ToSet(q[j].pkts)) /\ Named(r) = Named(q) \ {q[j].ip}
           /\ \A t : Grip(q, t) /\ t.ip # q[j].ip => Grip(r, t)
<1> DEFINE n == Len(q)
           f == [i \in 1..n - 1 |-> IF i < j THEN i ELSE i + 1]
           d == [i \in 1..n - 1 |-> 0]
<1>1. q \in Seq(Requests) /\ n \in Nat /\ DOMAIN q = 1..n /\ j \in 1..n
  BY LenProperties DEF Orderly
<1>2. /\ r \in Seq(Requests) /\ DOMAIN r = 1..n - 1
      /\ \A i \in 1..n - 1 : r[i] = IF i < j THEN q[i] ELSE q[i + 1]
  BY <1>1, RemoveAtProperties
<1>3. \A i \in 1..n - 1 : f[i] \in 1..n /\ f[i] # j /\ r[i] = q[f[i]] /\ d[i] = 0
  BY <1>1, <1>2
<1>4. \A i \in 1..n : i # j => \E k \in 1..n - 1 : f[k] = i
  <2> SUFFICES ASSUME NEW i \in 1..n, i # j PROVE \E k \in 1..n - 1 : f[k] = i
    OBVIOUS
  <2>1. CASE i < j
    BY <1>1, <2>1
  <2>2. CASE ~(i < j)
    <3>1. i - 1 \in 1..n - 1 /\ f[i - 1] = i
      BY <1>1, <2>2
    <3>2. QED
      BY <3>1
  <2>3. QED
    BY <2>1, <2>2
<1>5. /\ f \in [1..n - 1 -> 1..n] /\ d \in [1..n - 1 -> Nat]
      /\ \A i, k \in 1..n - 1 : f[i] = f[k] => i = k
  BY <1>1
<1> HIDE DEF f, d, n
<1>6. ASSUME NEW i \in DOMAIN r, NEW k \in DOMAIN r[i].pkts
      PROVE  k + d[i] \in DOMAIN q[f[i]].pkts /\ r[i].pkts[k] = q[f[i]].pkts[k + d[i]]
  <2>1. k \in Nat
    <3>1. DOMAIN r[i].pkts = 1..Len(r[i].pkts)
      BY <1>2, RequestType
    <3>2. QED
      BY <3>1
  <2>2. k + d[i] = k /\ r[i] = q[f[i]]
    BY <1>2, <1>3, <2>1
  <2>3. QED
    BY <2>2
<1>7. Fewer(q, r, f, d)
  BY <1>1, <1>2, <1>3, <1>5, <1>6 DEF Fewer
<1>8. Unlike(Queued(r), ToSet(q[j].pkts))
  <2>1. ASSUME NEW k \in DOMAIN q[j].pkts PROVE Unlike(Queued(r), {q[j].pkts[k]})
    <3>1. \A i \in DOMAIN r : f[i] = j => k <= d[i]
      BY <1>2, <1>3
    <3>2. q \in Seq(Requests) /\ r \in Seq(Requests) /\ Apart(q)
      BY <1>2 DEF Orderly
    <3>3. QED
      BY <1>7, <3>1, <3>2, LeftOut
  <2>2. QED
    BY <2>1 DEF Unlike, ToSet
<1>9. Lighter(q, r, ToSet(q[j].pkts))
  BY <1>2, <1>7, <1>8, FewerSound DEF Lighter, Orderly
<1>10. ASSUME NEW i \in DOMAIN q, i # j PROVE \E k \in DOMAIN r : r[k] = q[i]
  <2>1. PICK k \in 1..n - 1 : f[k] = i
    BY <1>1, <1>4, <1>10
  <2>2. r[k] = q[i] /\ k \in DOMAIN r
    BY <1>2, <1>3, <2>1
  <2>3. QED
    BY <2>2
<1>11. Named(r) = Named(q) \ {q[j].ip}
  <2>1. \A i \in DOMAIN r : f[i] \in DOMAIN q /\ f[i] # j /\ r[i].ip = q[f[i]].ip
    BY <1>1, <1>2, <1>3
  <2>2. \A i \in DOMAIN q : i # j => \E k \in DOMAIN r : r[k].ip = q[i].ip
    BY <1>10
  <2>3. \A i \in DOMAIN q : q[i].ip = q[j].ip => i = j
    BY DEF Orderly, OneEach
  <2>4. QED
    BY <2>1, <2>2, <2>3 DEF Named
<1>12. ASSUME NEW t, Grip(q, t), t.ip # q[j].ip PROVE Grip(r, t)
  <2>1. PICK i \in DOMAIN q : /\ q[i].ip = t.ip /\ q[i].pkts[1] = t.pkt
                              /\ ~t.last => Len(q[i].pkts) >= 2
    BY <1>12 DEF Grip
  <2>2. \E k \in DOMAIN r : r[k] = q[i]
    BY <1>10, <1>12, <2>1
  <2>3. QED
    BY <2>1, <2>2 DEF Grip
<1>13. QED
  BY <1>9, <1>11, <1>12
-----------------------------------------------------------------------------
(* One more packet, p, at place m of request j. *)
LEMMA OneMore ==
    ASSUME NEW q, Orderly(q), NEW r \in Seq(Requests), NEW p, Unlike(Queued(q), {p}),
           NEW j \in DOMAIN r, NEW m \in DOMAIN r[j].pkts, r[j].pkts[m] = p,
           HasRoute(p.dst), r[j].ip = NextHop(p),
           \A i \in DOMAIN r : \A k \in DOMAIN r[i].pkts :
               \/ i = j /\ k = m
               \/ /\ i \in DOMAIN q /\ k \in DOMAIN q[i].pkts
                  /\ r[i].pkts[k] = q[i].pkts[k] /\ r[i].ip = q[i].ip
    PROVE  Queued(r) \subseteq Queued(q) \cup {p} /\ Routed(r) /\ Apart(r)
<1>1. ASSUME NEW e \in Queued(r), e # p PROVE e \in Queued(q)
  <2>1. PICK i \in DOMAIN r : \E k \in DOMAIN r[i].pkts : r[i].pkts[k] = e
    BY DEF Queued
  <2>2. PICK k \in DOMAIN r[i].pkts : r[i].pkts[k] = e
    BY <2>1
  <2>3. i \in DOMAIN q /\ k \in DOMAIN q[i].pkts /\ q[i].pkts[k] = e
    BY <1>1, <2>2
  <2>4. QED
    BY <2>3, RequestType DEF Orderly
<1>2. Routed(r)
  BY DEF Orderly, Routed
<1>3. ASSUME NEW a \in DOMAIN r, NEW b \in DOMAIN r,
             NEW k \in DOMAIN r[a].pkts, NEW l \in DOMAIN r[b].pkts,
             Once(r[a].pkts[k]), Same(r[a].pkts[k], r[b].pkts[l])
      PROVE  a = b /\ k = l
  <2>1. \A i \in DOMAIN q : \A n \in DOMAIN q[i].pkts :
           Once(q[i].pkts[n]) => ~Same(q[i].pkts[n], p)
    BY RequestType DEF Unlike, Orderly
  <2>2. \A i \in DOMAIN q : \A n \in DOMAIN q[i].pkts :
           Once(p) => ~Same(p, q[i].pkts[n])
    BY <2>1 DEF Once, Same
  <2>3. CASE a = j /\ k = m
    BY <1>3, <2>2, <2>3
  <2>4. CASE ~(a = j /\ k = m)
    <3>1. /\ a \in DOMAIN q /\ k \in DOMAIN q[a].pkts
          /\ r[a].pkts[k] = q[a].pkts[k]
      BY <2>4
    <3>2. ~(b = j /\ l = m)
      BY <1>3, <2>1, <3>1
    <3>3. /\ b \in DOMAIN q /\ l \in DOMAIN q[b].pkts
          /\ r[b].pkts[l] = q[b].pkts[l]
      BY <3>2
    <3>4. QED
      BY <1>3, <3>1, <3>3 DEF Orderly, Apart
  <2>5. QED
    BY <2>3, <2>4
<1>4. QED
  BY <1>1, <1>2, <1>3 DEF Apart
-----------------------------------------------------------------------------
(* The request for an address, and the one a thread is at. *)

LEMMA RequestOf ==
    ASSUME OneEach(req_list), NEW ip
    PROVE  /\ Position(ip) # {} <=> ip \in Named(req_list)
           /\ Position(ip) # {} =>
                 /\ Index(ip) \in DOMAIN req_list /\ req_list[Index(ip)].ip = ip
                 /\ Request(ip) = req_list[Index(ip)]
           /\ \A i \in DOMAIN req_list : req_list[i].ip = ip => Index(ip) = i
<1>1. Position(ip) # {} => Index(ip) \in Position(ip)
  BY DEF Index
<1>2. \A i \in DOMAIN req_list : req_list[i].ip = ip => i \in Position(ip)
  BY DEF Position
<1>3. \A i, j \in Position(ip) : i = j
  BY DEF Position, OneEach
<1>4. Position(ip) # {} <=> ip \in Named(req_list)
  BY DEF Position, Named
<1>5. QED
  BY <1>1, <1>2, <1>3, <1>4 DEF Position, Request

LEMMA HeldRequest ==
    ASSUME Orderly(req_list), NEW t, Grip(req_list, t)
    PROVE  /\ Position(t.ip) # {} /\ Index(t.ip) \in DOMAIN req_list
           /\ Request(t.ip) = req_list[Index(t.ip)] /\ Request(t.ip).ip = t.ip
           /\ t.ip \in Addresses /\ t.pkt \in Packets /\ t.pkt \in Queued(req_list)
           /\ HasRoute(t.pkt.dst) /\ NextHop(t.pkt) = t.ip
           /\ Request(t.ip).pkts[1] = t.pkt
           /\ ~t.last => Len(Request(t.ip).pkts) >= 2
<1>1. PICK i \in DOMAIN req_list : /\ req_list[i].ip = t.ip /\ req_list[i].pkts[1] = t.pkt
                                   /\ ~t.last => Len(req_list[i].pkts) >= 2
  BY DEF Grip
<1>2. Index(t.ip) = i /\ Position(t.ip) # {}
  BY <1>1, RequestOf DEF Orderly, Named
<1>3. /\ req_list[i].ip \in Addresses /\ 1 \in DOMAIN req_list[i].pkts
      /\ req_list[i].pkts[1] \in Packets /\ req_list[i].pkts[1] \in Queued(req_list)
  BY RequestType DEF Orderly
<1>4. HasRoute(t.pkt.dst) /\ NextHop(t.pkt) = t.ip
  BY <1>1, <1>3 DEF Orderly, Routed
<1>5. QED
  BY <1>1, <1>2, <1>3, <1>4 DEF Request

(* arpcache_append_packet: the packet joins the request for its next hop,   *)
(* which is made if there is none.                                          *)
LEMMA Pended ==
    ASSUME Orderly(req_list), asked \subseteq Answering,
           NEW p \in Packets, HasRoute(p.dst), Unlike(Queued(req_list), {p}), Pend(p)
    PROVE  /\ Orderly(req_list') /\ Queued(req_list') \subseteq Queued(req_list) \cup {p}
           /\ Named(req_list) \subseteq Named(req_list')
           /\ \A t : Grip(req_list, t) => Grip(req_list', t)
           /\ asked' \subseteq Answering
<1> DEFINE q == req_list
           r == req_list'
           ip == NextHop(p)
           old == IF Position(ip) # {} THEN Request(ip)
                  ELSE [ip |-> ip, pkts |-> <<>>, age |-> 0, retries |-> 0]
           new == [old EXCEPT !.pkts = Append(@, p), !.retries = Counted(@), !.age = 0]
<1>1. r = IF Position(ip) # {} THEN SetRequest(new) ELSE Append(q, new)
  BY DEF Pend
<1>2. asked' \subseteq Answering
  BY DEF Pend, Ask
<1>3. q \in Seq(Requests) /\ OneEach(q) /\ Len(q) \in Nat /\ DOMAIN q = 1..Len(q)
  BY LenProperties DEF Orderly
<1>4. ip \in Addresses /\ MaxRetries \in Nat
  BY NextHopType, ConstantsAssumption
<1>5. CASE Position(ip) # {}
  <2> DEFINE j == Index(ip)
             s == q[j].pkts
  <2>1. j \in DOMAIN q /\ q[j].ip = ip /\ old = q[j]
    BY <1>3, <1>5, RequestOf
  <2>2. /\ q[j] \in Requests /\ s \in Seq(Packets) /\ s # <<>> /\ Len(s) \in Nat
        /\ DOMAIN s = 1..Len(s) /\ Len(s) # 0
    BY <1>3, <2>1, RequestType
  <2>3. /\ Append(s, p) \in Seq(Packets) /\ Len(Append(s, p)) = Len(s) + 1
        /\ Append(s, p)[Len(s) + 1] = p /\ \A k \in 1..Len(s) : Append(s, p)[k] = s[k]
        /\ DOMAIN Append(s, p) = 1..Len(s) + 1 /\ Append(s, p) # <<>>
    <3> HIDE DEF s, j
    <3>1. /\ Append(s, p) \in Seq(Packets) /\ Len(Append(s, p)) = Len(s) + 1
          /\ Append(s, p)[Len(s) + 1] = p /\ \A k \in 1..Len(s) : Append(s, p)[k] = s[k]
      BY <2>2, AppendProperties
    <3>2. DOMAIN Append(s, p) = 1..Len(s) + 1
      BY <3>1, LenProperties
    <3>3. Len(s) + 1 # 0 /\ Len(<<>>) = 0
      BY <2>2
    <3>4. Append(s, p) # <<>>
      BY <3>1, <3>3, Zenon
    <3>5. QED
      BY <3>1, <3>2, <3>4
  <2> HIDE DEF s
  <2>4. new = [q[j] EXCEPT !.pkts = Append(s, p), !.retries = Counted(@), !.age = 0]
    BY <2>1 DEF s
  <2>5. new \in Requests /\ new.ip = ip /\ new.pkts = Append(s, p)
    <3> DEFINE e == q[j]
               c == Counted(e.retries)
    <3>1. /\ e \in [ip : Addresses, pkts : Seq(Packets) \ {<<>>}, age : 0..2,
                    retries : 1..(MaxRetries + 1)]
          /\ e.ip = ip /\ e.retries \in 1..(MaxRetries + 1)
      BY <2>1, <2>2 DEF Requests
    <3>2. c \in 1..(MaxRetries + 1)
      BY <1>4, <3>1 DEF Counted
    <3>3. new = [e EXCEPT !.pkts = Append(s, p), !.retries = c, !.age = 0]
      BY <2>4, <3>1
    <3> HIDE DEF new, c, e
    <3>4. new = [ip |-> ip, pkts |-> Append(s, p), age |-> 0, retries |-> c]
      BY <3>1, <3>3
    <3>5. QED
      BY <1>4, <2>3, <3>2, <3>4 DEF Requests
  <2> HIDE DEF new, j
  <2>6. r = [i \in DOMAIN q |-> IF q[i].ip = new.ip THEN new ELSE q[i]]
    BY <1>1, <1>5 DEF SetRequest
  <2>7. DOMAIN r = DOMAIN q /\ r[j] = new /\ \A i \in DOMAIN q : i # j => r[i] = q[i]
    BY <1>3, <2>1, <2>5, <2>6 DEF OneEach
  <2>8. r \in Seq(Requests)
    <3> DEFINE e(i) == IF q[i].ip = new.ip THEN new ELSE q[i]
    <3>1. \A i \in 1..Len(q) : e(i) \in Requests
      BY <1>3, <2>5, ElementOfSeq
    <3>2. r = [i \in 1..Len(q) |-> e(i)]
      BY <1>3, <2>6
    <3> HIDE DEF e
    <3>3. QED
      BY <1>3, <3>1, <3>2, IsASeq
  <2>9. OneEach(r) /\ Named(q) \subseteq Named(r)
    <3>1. \A i \in DOMAIN q : r[i].ip = q[i].ip
      BY <2>1, <2>5, <2>7
    <3>2. QED
      BY <1>3, <2>7, <3>1 DEF OneEach, Named
  <2>10. \A t : Grip(q, t) => Grip(r, t)
    <3> SUFFICES ASSUME NEW t, Grip(q, t) PROVE Grip(r, t)
      OBVIOUS
    <3>1. PICK i \in DOMAIN q : /\ q[i].ip = t.ip /\ q[i].pkts[1] = t.pkt
                                /\ ~t.last => Len(q[i].pkts) >= 2
      BY DEF Grip
    <3>2. CASE i # j
      BY <2>7, <3>1, <3>2 DEF Grip
    <3>3. CASE i = j
      <4>1. /\ r[i].ip = t.ip /\ r[i].pkts = Append(s, p) /\ 1 \in 1..Len(s)
            /\ Len(s) >= 2 => Len(Append(s, p)) >= 2
        BY <2>1, <2>2, <2>3, <2>5, <2>7, <3>1, <3>3
      <4>2. r[i].pkts[1] = t.pkt /\ (~t.last => Len(r[i].pkts) >= 2)
        BY <2>3, <3>1, <3>3, <4>1 DEF s
      <4>3. QED
        BY <2>7, <4>1, <4>2 DEF Grip
    <3>4. QED
      BY <3>2, <3>3
  <2>11. Queued(r) \subseteq Queued(q) \cup {p} /\ Routed(r) /\ Apart(r)
    <3>1. ASSUME NEW i \in DOMAIN r, NEW k \in DOMAIN r[i].pkts
          PROVE  \/ i = j /\ k = Len(s) + 1
                 \/ /\ i \in DOMAIN q /\ k \in DOMAIN q[i].pkts
                    /\ r[i].pkts[k] = q[i].pkts[k] /\ r[i].ip = q[i].ip
      <4>1. CASE i = j
        <5>1. k \in 1..Len(s) + 1
          BY <2>3, <2>5, <2>7, <4>1
        <5>2. k = Len(s) + 1 \/ k \in 1..Len(s)
          BY <2>2, <5>1
        <5>3. QED
          BY <2>1, <2>2, <2>3, <2>5, <2>7, <4>1, <5>2 DEF s
      <4>2. CASE i # j
        BY <2>7, <4>2
      <4>3. QED
        BY <4>1, <4>2
    <3>2. /\ j \in DOMAIN r /\ Len(s) + 1 \in DOMAIN r[j].pkts
          /\ r[j].pkts[Len(s) + 1] = p /\ r[j].ip = NextHop(p)
      <4>1. Len(s) + 1 \in 1..Len(s) + 1
        BY <2>2
      <4>2. QED
        BY <2>1, <2>3, <2>5, <2>7, <4>1
    <3> HIDE DEF q, r, ip
    <3>3. QED
      BY <2>8, <3>1, <3>2, OneMore DEF q
  <2>12. QED
    BY <1>2, <2>8, <2>9, <2>10, <2>11 DEF Orderly
<1>6. CASE Position(ip) = {}
  <2> DEFINE j == Len(q) + 1
  <2>1. new = [ip |-> ip, pkts |-> Append(<<>>, p), age |-> 0, retries |-> Counted(0)]
    <3>1. old = [ip |-> ip, pkts |-> <<>>, age |-> 0, retries |-> 0]
      BY <1>6
    <3> HIDE DEF old, ip
    <3>2. old.pkts = <<>> /\ old.retries = 0
      BY <3>1
    <3>3. new = [old EXCEPT !.pkts = Append(<<>>, p), !.retries = Counted(0), !.age = 0]
      BY <3>2
    <3> HIDE DEF new
    <3>4. QED
      BY <3>1, <3>3
  <2>2. Append(<<>>, p) = <<p>> /\ <<p>> \in Seq(Packets) /\ <<p>> # <<>> /\ DOMAIN <<p>> = {1}
    OBVIOUS
  <2>3. Counted(0) = 1 /\ 1 \in 1..(MaxRetries + 1)
    BY <1>4 DEF Counted
  <2>4. new \in Requests /\ new.ip = ip /\ new.pkts = <<p>>
    <3>1. new = [ip |-> ip, pkts |-> <<p>>, age |-> 0, retries |-> 1]
      BY <2>1, <2>2, <2>3
    <3> HIDE DEF new
    <3>2. QED
      BY <1>4, <2>2, <2>3, <3>1 DEF Requests
  <2> HIDE DEF new
  <2>5. /\ r \in Seq(Requests) /\ DOMAIN r = 1..Len(q) + 1
        /\ r[j] = new /\ \A i \in 1..Len(q) : r[i] = q[i]
    <3>1. r = Append(q, new)
      BY <1>1, <1>6
    <3> HIDE DEF r, q
    <3>2. /\ r \in Seq(Requests) /\ Len(r) = Len(q) + 1
          /\ r[Len(q) + 1] = new /\ \A i \in 1..Len(q) : r[i] = q[i]
      BY <1>3, <2>4, <3>1, AppendProperties
    <3>3. QED
      BY <3>2, LenProperties
  <2>6. \A i \in DOMAIN r : i = j \/ i \in DOMAIN q
    BY <1>3, <2>5
  <2>7. j \notin DOMAIN q /\ j \in DOMAIN r /\ \A i \in DOMAIN q : i \in DOMAIN r /\ r[i] = q[i]
    BY <1>3, <2>5
  <2> HIDE DEF j
  <2>8. ip \notin Named(q)
    BY <1>3, <1>6, RequestOf
  <2>9. OneEach(r) /\ Named(q) \subseteq Named(r)
    <3>1. \A i \in DOMAIN q : r[i].ip = q[i].ip /\ r[i].ip # r[j].ip
      BY <2>4, <2>5, <2>7, <2>8 DEF Named
    <3>2. QED
      BY <1>3, <2>6, <2>7, <3>1 DEF OneEach, Named
  <2>10. \A t : Grip(q, t) => Grip(r, t)
    BY <2>7 DEF Grip
  <2>11. Queued(r) \subseteq Queued(q) \cup {p} /\ Routed(r) /\ Apart(r)
    <3>1. ASSUME NEW i \in DOMAIN r, NEW k \in DOMAIN r[i].pkts
          PROVE  \/ i = j /\ k = 1
                 \/ /\ i \in DOMAIN q /\ k \in DOMAIN q[i].pkts
                    /\ r[i].pkts[k] = q[i].pkts[k] /\ r[i].ip = q[i].ip
      BY <2>2, <2>4, <2>5, <2>6, <2>7
    <3>2. /\ j \in DOMAIN r /\ 1 \in DOMAIN r[j].pkts
          /\ r[j].pkts[1] = p /\ r[j].ip = NextHop(p)
      BY <2>2, <2>4, <2>5, <2>7
    <3> HIDE DEF q, r, ip
    <3>3. QED
      BY <2>5, <3>1, <3>2, OneMore DEF q
  <2>12. QED
    BY <1>2, <2>5, <2>9, <2>10, <2>11 DEF Orderly
<1>7. QED
  BY <1>5, <1>6
-----------------------------------------------------------------------------
(* The inductive invariant.  Nothing but the types and the frames sent is   *)
(* certain once the program has crashed; before that:                       *)

Held == IF pt.pc = "append" THEN {pt.pkt} ELSE {}
Framed == {f.pkt : f \in sent}
Everywhere == Queued(req_list) \cup Held \cup Framed \cup told \cup lost

(* A frame sent, and a cache entry, name the right MAC.                     *)
FramesRight == \A f \in sent : HasRoute(f.pkt.dst) /\ f.mac = NextHop(f.pkt)
EntriesTrue == \A s \in Slots : entries[s] # Invalid => entries[s].mac = entries[s].ip

(* What each thread points at while it does not have the lock is there:     *)
(* the first packet of a request, and the request after it.  The two are    *)
(* at different requests, and what is being released has its entry.         *)
PtHolds ==
    /\ pt.pc = "flush" => Grip(req_list, pt) /\ Known(pt.ip) # {} /\ pt.ip # sw.ip
    /\ pt.pc = "append" => pt.pkt \in Packets /\ HasRoute(pt.pkt.dst)
SwHolds ==
    /\ sw.pc = "asleep" => sw = Asleep
    /\ sw.pc # "asleep" => /\ Grip(req_list, sw) /\ sw.next # sw.ip
                           /\ sw.next # NoAddress => sw.next \in Named(req_list)
    /\ sw.pc = "append" => HasRoute(sw.pkt.src)

(* The router's messages come from an interface; ids are counted.           *)
Origin == \A p \in Everywhere : p.id <= count /\ (p.made > 0 => p.src \in Own)

(* A packet that came in, or the message about it, is in one place.         *)
Sole ==
    /\ \A a, b \in sent : Once(a.pkt) /\ Same(a.pkt, b.pkt) => a = b
    /\ Unique(told) /\ Unique(lost)
    /\ Unlike(Queued(req_list), Held) /\ Unlike(Queued(req_list), Framed)
    /\ Unlike(Queued(req_list), told) /\ Unlike(Queued(req_list), lost)
    /\ Unlike(Held, Framed) /\ Unlike(Held, told) /\ Unlike(Held, lost)
    /\ Unlike(Framed, told) /\ Unlike(Framed, lost) /\ Unlike(told, lost)

(* There is a message about a packet only when the packet is reported, or   *)
(* about to be.                                                             *)
Messages ==
    \A p, r \in Everywhere :
        p.made = 1 /\ r.made = 0 /\ p.id = r.id => r \in told \/ (sw.pc = "told" /\ r = sw.pkt)

Sound ==
    /\ EntriesTrue /\ Orderly(req_list) /\ PtHolds /\ SwHolds
    /\ Origin /\ Sole /\ Messages

IInv == TypeOK /\ FramesRight /\ (~crashed => Sound)
-----------------------------------------------------------------------------
(* The steps of the packets. *)

(* Packets move from place to place, or vanish. *)
LEMMA MovesSound ==
    ASSUME Origin, Messages, count' = count, Everywhere' \subseteq Everywhere,
           told \subseteq told',
           sw.pc = "told" => (sw'.pc = "told" /\ sw'.pkt = sw.pkt) \/ sw.pkt \in told'
    PROVE  Origin' /\ Messages'
<1>1. Origin'
  BY DEF Origin
<1>2. Messages'
  BY DEF Messages
<1>3. QED
  BY <1>1, <1>2

(* No packet moves. *)
LEMMA QuietSound ==
    ASSUME Origin, Sole, Messages, UNCHANGED <<count, sent, told, lost>>, Held' = Held,
           Queued(req_list') \subseteq Queued(req_list),
           sw.pc = "told" => sw'.pc = "told" /\ sw'.pkt = sw.pkt
    PROVE  Origin' /\ Sole' /\ Messages'
<1>1. Framed' = Framed
  BY DEF Framed
<1>2. Everywhere' \subseteq Everywhere
  BY <1>1 DEF Everywhere
<1>3. Origin' /\ Messages'
  BY <1>2, MovesSound
<1>4. Sole'
  BY <1>1 DEF Sole, Unlike, Unique
<1>5. QED
  BY <1>3, <1>4

(* A packet unlike all others appears. *)
LEMMA FreshSole ==
    ASSUME Sole, NEW p, Unlike(Everywhere, {p}), UNCHANGED <<told, lost>>,
           \/ /\ Queued(req_list') \subseteq Queued(req_list) \cup {p}
              /\ Held' = Held /\ sent' = sent
           \/ /\ Queued(req_list') \subseteq Queued(req_list)
              /\ Held = {} /\ Held' = {p} /\ sent' = sent
           \/ /\ Queued(req_list') \subseteq Queued(req_list) /\ Held' = Held
              /\ \E m : sent' = sent \cup {[pkt |-> p, mac |-> m]}
    PROVE  Sole' /\ Everywhere' \subseteq Everywhere \cup {p}
<1> DEFINE Q == Queued(req_list)
           Q2 == Queued(req_list')
           H == Held
           H2 == Held'
           F == Framed
           F2 == Framed'
<1>0. sent' = sent => F2 = F
  BY DEF Framed
<1>1. \/ Q2 \subseteq Q \cup {p} /\ H2 = H /\ F2 = F
      \/ Q2 \subseteq Q /\ H = {} /\ H2 = {p} /\ F2 = F
      \/ Q2 \subseteq Q /\ H2 = H /\ F2 = F \cup {p}
  <2>1. ASSUME NEW m, sent' = sent \cup {[pkt |-> p, mac |-> m]} PROVE F2 = F \cup {p}
    <3>1. \A f \in sent' : f \in sent \/ f.pkt = p
      BY <2>1
    <3>2. sent \subseteq sent' /\ [pkt |-> p, mac |-> m] \in sent'
      BY <2>1
    <3>3. [pkt |-> p, mac |-> m].pkt = p
      OBVIOUS
    <3>4. \E f \in sent' : f.pkt = p
      BY <3>2, <3>3
    <3>5. QED
      BY <3>1, <3>2, <3>4 DEF Framed
  <2> HIDE DEF Q, Q2, H, H2, F, F2
  <2>2. QED
    BY <1>0, <2>1 DEF Q, Q2, H, H2
<1>2. /\ Unlike(Q, H) /\ Unlike(Q, F) /\ Unlike(Q, told) /\ Unlike(Q, lost)
      /\ Unlike(H, F) /\ Unlike(H, told) /\ Unlike(H, lost)
      /\ Unlike(F, told) /\ Unlike(F, lost) /\ Unlike(told, lost)
      /\ Unique(told) /\ Unique(lost)
  BY DEF Sole
<1>3. Unlike(Q \cup H \cup F \cup told \cup lost, {p})
  BY DEF Everywhere
<1>4. \A a, b \in sent' : Once(a.pkt) /\ Same(a.pkt, b.pkt) => a = b
  <2>1. ASSUME NEW m, sent' = sent \cup {[pkt |-> p, mac |-> m]},
               NEW a \in sent', NEW b \in sent', Once(a.pkt), Same(a.pkt, b.pkt)
        PROVE  a = b
    <3>1. \A f \in sent : Once(f.pkt) => ~Same(f.pkt, p) /\ ~Same(p, f.pkt)
      BY <1>3 DEF Unlike, Framed, Same
    <3>2. \A f \in sent' : f \in sent \/ (f = [pkt |-> p, mac |-> m] /\ f.pkt = p)
      BY <2>1
    <3>3. Once(b.pkt)
      BY <2>1 DEF Once, Same
    <3>4. QED
      BY <2>1, <3>1, <3>2, <3>3 DEF Sole
  <2>2. CASE sent' = sent
    BY <2>2 DEF Sole
  <2>3. QED
    BY <2>1, <2>2
<1> HIDE DEF Q, Q2, H, H2, F, F2
<1>5. /\ Unlike(Q2, H2) /\ Unlike(Q2, F2) /\ Unlike(Q2, told) /\ Unlike(Q2, lost)
      /\ Unlike(H2, F2) /\ Unlike(H2, told) /\ Unlike(H2, lost)
      /\ Unlike(F2, told) /\ Unlike(F2, lost)
  BY <1>1, <1>2, <1>3 DEF Unlike, Once, Same
<1>6. Q2 \cup H2 \cup F2 \cup told \cup lost \subseteq (Q \cup H \cup F \cup told \cup lost) \cup {p}
  BY <1>1
<1>7. QED
  BY <1>2, <1>4, <1>5, <1>6 DEF Q, Q2, H, H2, F, F2, Sole, Everywhere

(* The packet that the packet thread has in hand joins a queue. *)
LEMMA JoinSole ==
    ASSUME Sole, NEW p, Held = {p}, Held' = {}, UNCHANGED <<sent, told, lost>>,
           Queued(req_list') \subseteq Queued(req_list) \cup {p}
    PROVE  Sole' /\ Everywhere' \subseteq Everywhere
<1>1. Framed' = Framed
  BY DEF Framed
<1>2. Everywhere' \subseteq Everywhere
  BY <1>1 DEF Everywhere
<1> DEFINE Q == Queued(req_list)
           Q2 == Queued(req_list')
<1> HIDE DEF Q, Q2
<1>3. /\ Unlike(Q, told) /\ Unlike(Q, lost) /\ Unlike(Q, Framed)
      /\ Unlike({p}, told) /\ Unlike({p}, lost) /\ Unlike({p}, Framed)
      /\ Q2 \subseteq Q \cup {p}
  BY DEF Q, Q2, Sole
<1>4. Unlike(Q2, told) /\ Unlike(Q2, lost) /\ Unlike(Q2, Framed)
  BY <1>3 DEF Unlike
<1>5. Unlike(Q2, {}) /\ \A A : Unlike({}, A)
  BY DEF Unlike
<1>6. QED
  BY <1>1, <1>2, <1>4, <1>5 DEF Q2, Sole

(* The first packet of a request is sent or reported, and with the last one *)
(* the rest is lost.                                                        *)
LEMMA LeaveSole ==
    ASSUME Sole, Held' = Held, NEW p \in Queued(req_list), NEW A \in SUBSET Queued(req_list),
           Queued(req_list') \subseteq Queued(req_list), Unlike(Queued(req_list'), {p} \cup A),
           Unique(A), Unlike({p}, A), lost' = lost \cup A,
           \/ told' = told /\ \E m : sent' = sent \cup {[pkt |-> p, mac |-> m]}
           \/ told' = told \cup {p} /\ sent' = sent
    PROVE  Sole' /\ Everywhere' \subseteq Everywhere
<1> DEFINE Q == Queued(req_list)
           Q2 == Queued(req_list')
           F == Framed
           F2 == Framed'
<1>1. \/ told' = told /\ F2 \subseteq F \cup {p}
      \/ told' = told \cup {p} /\ F2 = F
  <2>1. ASSUME NEW m, sent' = sent \cup {[pkt |-> p, mac |-> m]} PROVE F2 \subseteq F \cup {p}
    <3>1. \A f \in sent' : f \in sent \/ f.pkt = p
      BY <2>1
    <3>2. QED
      BY <3>1 DEF Framed
  <2>2. sent' = sent => F2 = F
    BY DEF Framed
  <2> HIDE DEF F, F2
  <2>3. QED
    BY <2>1, <2>2
<1>2. /\ Unlike(Q, Held) /\ Unlike(Q, F) /\ Unlike(Q, told) /\ Unlike(Q, lost)
      /\ Unlike(Held, F) /\ Unlike(Held, told) /\ Unlike(Held, lost)
      /\ Unlike(F, told) /\ Unlike(F, lost) /\ Unlike(told, lost)
      /\ Unique(told) /\ Unique(lost)
  BY DEF Sole
<1>3. \A a, b \in sent' : Once(a.pkt) /\ Same(a.pkt, b.pkt) => a = b
  <2>1. ASSUME NEW m, sent' = sent \cup {[pkt |-> p, mac |-> m]},
               NEW a \in sent', NEW b \in sent', Once(a.pkt), Same(a.pkt, b.pkt)
        PROVE  a = b
    <3>1. \A f \in sent : Once(p) => ~Same(f.pkt, p) /\ ~Same(p, f.pkt)
      BY <1>2 DEF Unlike, Framed, Same
    <3>2. \A f \in sent' : f \in sent \/ (f = [pkt |-> p, mac |-> m] /\ f.pkt = p)
      BY <2>1
    <3>3. Once(b.pkt)
      BY <2>1 DEF Once, Same
    <3>4. QED
      BY <2>1, <3>1, <3>2, <3>3 DEF Sole
  <2>2. CASE sent' = sent
    BY <2>2 DEF Sole
  <2>3. QED
    BY <2>1, <2>2
<1> HIDE DEF Q, Q2, F, F2
<1>4. Q2 \subseteq Q /\ p \in Q /\ A \subseteq Q /\ Unlike(Q2, {p}) /\ Unlike(Q2, A)
  BY DEF Q, Q2, Unlike
<1>5. Unlike(Q2, Held) /\ Unlike(Q2, F2) /\ Unlike(Q2, told') /\ Unlike(Q2, lost')
  BY <1>1, <1>2, <1>4 DEF Unlike
<1>6. Unlike(Held, F2) /\ Unlike(Held, told') /\ Unlike(Held, lost')
  BY <1>1, <1>2, <1>4 DEF Unlike, Once, Same
<1>7. Unlike(F2, told') /\ Unlike(F2, lost') /\ Unlike(told', lost')
  BY <1>1, <1>2, <1>4 DEF Unlike, Once, Same
<1>8. Unique(told') /\ Unique(lost')
  BY <1>1, <1>2, <1>4 DEF Unlike, Unique, Once, Same
<1>9. Everywhere' \subseteq Everywhere
  BY <1>1, <1>4 DEF Everywhere, Q, Q2, F, F2
<1>10. QED
  BY <1>3, <1>5, <1>6, <1>7, <1>8, <1>9 DEF Q2, F2, Sole
-----------------------------------------------------------------------------
(* The sweeper's walk. *)

LEMMA AgainType ==
    ASSUME NEW r \in Requests
    PROVE  Again(r) \in Requests /\ Again(r).ip = r.ip /\ Again(r).pkts = r.pkts
<1>1. /\ r \in [ip : Addresses, pkts : Seq(Packets) \ {<<>>}, age : 0..2,
                retries : 1..(MaxRetries + 1)]
      /\ MaxRetries \in Nat
  BY ConstantsAssumption DEF Requests
<1>2. CASE Due(r)
  <2>1. Again(r) = [r EXCEPT !.retries = r.retries + 1, !.age = 0]
    BY <1>1, <1>2 DEF Again
  <2>2. r.retries + 1 \in 1..(MaxRetries + 1)
    BY <1>1, <1>2 DEF Due
  <2>3. Again(r) = [ip |-> r.ip, pkts |-> r.pkts, age |-> 0, retries |-> r.retries + 1]
    BY <1>1, <2>1
  <2>4. QED
    BY <1>1, <2>2, <2>3 DEF Requests
<1>3. CASE ~Due(r)
  BY <1>3 DEF Again
<1>4. QED
  BY <1>2, <1>3

LEMMA WalkSound ==
    ASSUME NEW reqs, Orderly(reqs), NEW i \in Nat \ {0}, Walk(reqs, i), ~crashed,
           crashed \in BOOLEAN, asked \subseteq Answering,
           pt.pc = "flush" => pt.ip \in Addresses
    PROVE  /\ Orderly(req_list') /\ Queued(req_list') = Queued(reqs)
           /\ \A t : Grip(reqs, t) => Grip(req_list', t)
           /\ asked' \subseteq Answering /\ crashed' \in BOOLEAN
           /\ sw' \in [pc : {"asleep", "window"}, pkt : Packets \cup {NoPacket},
                       ip : Addresses \cup {NoAddress}, last : BOOLEAN,
                       next : Addresses \cup {NoAddress}]
           /\ ~crashed' => /\ SwHolds'
                           /\ pt.pc = "flush" => pt.ip # sw'.ip
<1> DEFINE n == Len(reqs)
<1>1. /\ reqs \in Seq(Requests) /\ n \in Nat /\ DOMAIN reqs = 1..n /\ NoAddress \notin Addresses
      /\ \A k \in 1..n : reqs[k] \in Requests
  BY LenProperties, ElementOfSeq, ConstantsAssumption DEF Orderly
<1>2. PICK u \in i..(n + 1) :
         LET seen == (i..u) \cap DOMAIN reqs IN
         /\ req_list' = [k \in DOMAIN reqs |-> IF k \in seen THEN Again(reqs[k]) ELSE reqs[k]]
         /\ asked' = asked \cup {reqs[k].ip : k \in {k \in seen : Due(reqs[k])
                                                          /\ reqs[k].ip \in Answering}}
         /\ IF u > n THEN sw' = Asleep /\ crashed' = crashed
            ELSE /\ sw' = [pc |-> "window", pkt |-> reqs[u].pkts[1], ip |-> reqs[u].ip,
                           last |-> Len(reqs[u].pkts) = 1,
                           next |-> IF u < n THEN reqs[u + 1].ip ELSE NoAddress]
                 /\ crashed' = (pt.pc = "flush" /\ pt.ip = reqs[u].ip)
  BY DEF Walk
<1> DEFINE seen == (i..u) \cap DOMAIN reqs
           e(k) == IF k \in seen THEN Again(reqs[k]) ELSE reqs[k]
<1>3. /\ req_list' = [k \in 1..n |-> e(k)]
      /\ \A k \in 1..n : e(k) \in Requests /\ e(k).ip = reqs[k].ip /\ e(k).pkts = reqs[k].pkts
  BY <1>1, <1>2, AgainType
<1> HIDE DEF e
<1>4. /\ req_list' \in Seq(Requests) /\ DOMAIN req_list' = DOMAIN reqs
      /\ \A k \in DOMAIN reqs : req_list'[k].ip = reqs[k].ip /\ req_list'[k].pkts = reqs[k].pkts
  BY <1>1, <1>3, IsASeq
<1>5. /\ Orderly(req_list') /\ Queued(req_list') = Queued(reqs) /\ Named(req_list') = Named(reqs)
      /\ \A t : Grip(reqs, t) => Grip(req_list', t)
  BY <1>1, <1>4, AlikeSound DEF Orderly
<1>6. asked' \subseteq Answering
  BY <1>2
<1>7. CASE u > n
  <2>1. sw' = Asleep /\ crashed' = crashed
    BY <1>2, <1>7
  <2>2. SwHolds' /\ sw'.ip = NoAddress
    BY <2>1 DEF SwHolds, Asleep
  <2>3. sw' \in [pc : {"asleep", "window"}, pkt : Packets \cup {NoPacket},
                 ip : Addresses \cup {NoAddress}, last : BOOLEAN,
                 next : Addresses \cup {NoAddress}]
    BY <2>1 DEF Asleep
  <2>4. crashed' \in BOOLEAN
    BY <2>1
  <2>5. QED
    BY <1>1, <1>5, <1>6, <2>2, <2>3, <2>4
<1>8. CASE ~(u > n)
  <2> DEFINE next == IF u < n THEN reqs[u + 1].ip ELSE NoAddress
             one == Len(reqs[u].pkts) = 1
  <2>1. u \in 1..n /\ (u < n => u + 1 \in 1..n)
    BY <1>1, <1>8
  <2>2. /\ sw' = [pc |-> "window", pkt |-> reqs[u].pkts[1], ip |-> reqs[u].ip,
                  last |-> one, next |-> next]
        /\ crashed' = (pt.pc = "flush" /\ pt.ip = reqs[u].ip)
    BY <1>2, <1>8
  <2>3. /\ reqs[u].ip \in Addresses /\ reqs[u].pkts[1] \in Packets
        /\ Len(reqs[u].pkts) \in Nat \ {0}
    BY <1>1, <2>1, RequestType
  <2>4. next \in Addresses \cup {NoAddress} /\ next # reqs[u].ip
        /\ (next # NoAddress => next \in Named(reqs))
    <3>1. CASE u < n
      <4>1. reqs[u + 1].ip \in Addresses
        BY <1>1, <2>1, <3>1, RequestType
      <4>2. u + 1 # u
        BY <2>1
      <4>3. reqs[u + 1].ip # reqs[u].ip
        BY <1>1, <2>1, <3>1, <4>2 DEF Orderly, OneEach
      <4>4. QED
        BY <1>1, <2>1, <3>1, <4>1, <4>3 DEF Named
    <3>2. CASE ~(u < n)
      BY <1>1, <2>3, <3>2
    <3>3. QED
      BY <3>1, <3>2
  <2>5. one \in BOOLEAN /\ (~one => Len(reqs[u].pkts) >= 2)
    <3>1. Len(reqs[u].pkts) # 1 => Len(reqs[u].pkts) >= 2
      <4>1. \A l \in Nat \ {0} : l # 1 => l >= 2
        OBVIOUS
      <4>2. QED
        BY <2>3, <4>1, Zenon
    <3>2. one \in BOOLEAN
      OBVIOUS
    <3>3. QED
      BY <3>1, <3>2, Zenon
  <2> HIDE DEF next, one
  <2>6. sw'.pc = "window" /\ sw'.pkt = reqs[u].pkts[1] /\ sw'.ip = reqs[u].ip
        /\ sw'.last = one /\ sw'.next = next
    BY <2>2
  <2>7. sw' \in [pc : {"asleep", "window"}, pkt : Packets \cup {NoPacket},
                 ip : Addresses \cup {NoAddress}, last : BOOLEAN,
                 next : Addresses \cup {NoAddress}]
    BY <2>2, <2>3, <2>4, <2>5
  <2>8. Grip(reqs, sw')
    <3>1. ~sw'.last => ~one
      BY <2>6, Zenon
    <3>2. QED
      BY <1>1, <2>1, <2>5, <2>6, <3>1 DEF Grip
  <2>9. SwHolds'
    <3>1. Grip(req_list', sw')
      BY <1>5, <2>8
    <3>2. QED
      BY <1>5, <2>4, <2>6, <3>1 DEF SwHolds
  <2>10. crashed' \in BOOLEAN
    BY <2>2
  <2>11. ~crashed' /\ pt.pc = "flush" => pt.ip # sw'.ip
    BY <2>2, <2>6
  <2>12. QED
    BY <1>5, <1>6, <2>7, <2>9, <2>10, <2>11
<1>9. QED
  BY <1>7, <1>8
-----------------------------------------------------------------------------
(* The steps of the packet thread. *)

(* arpcache_lookup finds the MAC of the address asked for. *)
LEMMA MacRight ==
    ASSUME TypeOK, EntriesTrue, NEW ip, Known(ip) # {}
    PROVE  Mac(ip) = ip /\ ip \in Answering /\ ip \in Addresses
<1>1. Known(ip) \in SUBSET Nat
  BY ConstantsAssumption DEF Known
<1>2. \E s \in Known(ip) : \A t \in Known(ip) : s <= t
  BY <1>1, LeastOfNats
<1>3. PICK s \in Known(ip) : Mac(ip) = entries[s].mac
  BY <1>2 DEF Mac
<1>4. s \in Slots /\ entries[s] # Invalid /\ entries[s].ip = ip
  BY <1>3 DEF Known
<1>5. entries[s].ip \in Answering /\ entries[s].mac = entries[s].ip
  BY <1>4 DEF TypeOK, EntriesTrue
<1>6. QED
  BY <1>3, <1>4, <1>5, ConstantsAssumption

LEMMA SoundState ==
    ASSUME IInv, ~crashed
    PROVE  /\ TypeOK /\ FramesRight /\ EntriesTrue /\ Orderly(req_list) /\ PtHolds /\ SwHolds
           /\ Origin /\ Sole /\ Messages
           /\ pt.pc = "flush" => pt.ip \in Addresses /\ pt.pkt \in Packets
           /\ crashed = FALSE /\ asked \subseteq Answering
<1>1. Orderly(req_list) /\ PtHolds
  BY DEF IInv, Sound
<1>2. pt.pc = "flush" => pt.ip \in Addresses /\ pt.pkt \in Packets
  BY <1>1, HeldRequest DEF PtHolds
<1>3. QED
  BY <1>1, <1>2 DEF IInv, Sound, TypeOK

(* A new frame. *)
LEMMA FrameRight ==
    ASSUME TypeOK, FramesRight, EntriesTrue, NEW p \in Packets, HasRoute(p.dst),
           Known(NextHop(p)) # {}, sent' = sent \cup {[pkt |-> p, mac |-> Mac(NextHop(p))]}
    PROVE  FramesRight' /\ sent' \subseteq [pkt : Packets, mac : Addresses]
<1>1. Mac(NextHop(p)) = NextHop(p) /\ NextHop(p) \in Addresses
  BY MacRight
<1>2. FramesRight'
  BY <1>1 DEF FramesRight
<1>3. QED
  BY <1>1, <1>2 DEF TypeOK

(* iface_send_packet_by_arp of a packet just received or made. *)
LEMMA EmitSound ==
    ASSUME IInv, ~crashed, pt.pc = "idle", count < MaxPackets, count' = count + 1,
           NEW p \in Packets, HasRoute(p.dst), p.id = count + 1, p.made > 0 => p.src \in Own,
           Emit(p), UNCHANGED <<cache, sw, asked, told, lost>>, crashed' = FALSE
    PROVE  IInv'
<1>1. /\ TypeOK /\ FramesRight /\ EntriesTrue /\ Orderly(req_list) /\ PtHolds /\ SwHolds
      /\ Origin /\ Sole /\ Messages
  BY SoundState
<1>2. UNCHANGED <<entries, req_list>> /\ MaxPackets \in Nat /\ count \in Nat
  BY <1>1, ConstantsAssumption DEF cache, TypeOK
<1>3. \/ pt' = pt /\ Known(NextHop(p)) # {}
         /\ sent' = sent \cup {[pkt |-> p, mac |-> Mac(NextHop(p))]}
      \/ pt' = [pc |-> "append", pkt |-> p, ip |-> NoAddress, last |-> FALSE] /\ sent' = sent
  BY DEF Emit, Idle
<1>4. FramesRight' /\ sent' \subseteq [pkt : Packets, mac : Addresses]
  <2>1. CASE sent' = sent
    BY <1>1, <2>1 DEF FramesRight, TypeOK
  <2>2. CASE sent' # sent
    BY <1>1, <1>3, <2>2, FrameRight
  <2>3. QED
    BY <2>1, <2>2
<1>5. pt' \in [pc : {"idle", "append", "flush"}, pkt : Packets \cup {NoPacket},
               ip : Addresses \cup {NoAddress}, last : BOOLEAN]
  <2>1. CASE pt' = pt
    BY <1>1, <2>1 DEF TypeOK
  <2>2. CASE pt' = [pc |-> "append", pkt |-> p, ip |-> NoAddress, last |-> FALSE]
    BY <2>2
  <2>3. QED
    BY <1>3, <2>1, <2>2
<1>6. TypeOK'
  <2>1. count' \in 0..MaxPackets
    BY <1>2
  <2> HIDE DEF Emit
  <2>2. QED
    BY <1>1, <1>2, <1>4, <1>5, <2>1 DEF TypeOK
<1>7. \A e \in Everywhere : e.id \in Nat /\ e.id <= count /\ e.id # p.id
  <2>1. ASSUME NEW e \in Everywhere PROVE e.id \in Nat
    <3>1. e \in Packets
      BY <1>1 DEF Everywhere, Queued, Held, Framed, TypeOK, PtHolds
    <3>2. QED
      BY <3>1 DEF Packets, Ids
  <2>2. QED
    BY <1>1, <1>2, <2>1 DEF Origin
<1>8. Unlike(Everywhere, {p})
  BY <1>7 DEF Unlike, Same
<1>9. Sole' /\ Everywhere' \subseteq Everywhere \cup {p}
  <2>1. /\ Held = {} /\ Queued(req_list') \subseteq Queued(req_list)
        /\ (pt' = pt => Held' = {}) /\ (pt' # pt => Held' = {p})
    BY <1>2, <1>3 DEF Held
  <2>2. pt' # pt \/ pt' = pt
    OBVIOUS
  <2>3. QED
    BY <1>1, <1>3, <1>8, <2>1, <2>2, FreshSole
<1>10. Origin'
  <2>1. \A e \in Everywhere : e.id <= count'
    BY <1>2, <1>7
  <2>2. QED
    BY <1>1, <1>2, <1>9, <2>1 DEF Origin
<1>11. Messages'
  <2>1. ASSUME NEW e \in Everywhere', NEW r \in Everywhere',
               e.made = 1, r.made = 0, e.id = r.id
        PROVE  r \in told' \/ (sw'.pc = "told" /\ r = sw'.pkt)
    <3>1. e \in Everywhere /\ r \in Everywhere
      BY <1>7, <1>9, <2>1
    <3>2. QED
      BY <1>1, <2>1, <3>1 DEF Messages
  <2>2. QED
    BY <2>1 DEF Messages
<1>12. PtHolds'
  BY <1>3 DEF PtHolds
<1>13. EntriesTrue' /\ Orderly(req_list') /\ SwHolds'
  BY <1>1, <1>2 DEF EntriesTrue, SwHolds
<1>14. QED
  BY <1>4, <1>6, <1>9, <1>10, <1>11, <1>12, <1>13 DEF IInv, Sound

LEMMA ReceiveSound == ASSUME IInv, ~crashed, Receive PROVE IInv'
<1>1. PICK t \in Traffic :
        LET p == [id |-> count + 1, made |-> 0, src |-> t.src, dst |-> t.dst] IN
        \/ Forwarded(t) /\ Emit(p) /\ crashed' = FALSE
        \/ ~Forwarded(t) /\ HasRoute(t.src) /\ Emit(Icmp(p)) /\ crashed' = FALSE
        \/ ~Forwarded(t) /\ ~HasRoute(t.src) /\ crashed' = TRUE /\ UNCHANGED <<pt, sent>>
  BY DEF Receive
<1>2. /\ pt.pc = "idle" /\ count < MaxPackets /\ count' = count + 1
      /\ UNCHANGED <<cache, sw, asked, told, lost>>
  BY DEF Receive
<1> DEFINE p == [id |-> count + 1, made |-> 0, src |-> t.src, dst |-> t.dst]
<1>3. /\ p \in Packets /\ p.id = count + 1 /\ ~(p.made > 0) /\ p.src = t.src /\ p.dst = t.dst
  <2>1. count + 1 \in Ids /\ t.src \in Addresses /\ t.dst \in Addresses
    BY <1>2, ConstantsAssumption DEF IInv, TypeOK, Ids
  <2>2. QED
    BY <2>1 DEF Packets
<1> HIDE DEF p
<1>4. CASE Forwarded(t) /\ Emit(p) /\ crashed' = FALSE
  <2>1. HasRoute(p.dst)
    BY <1>3, <1>4 DEF Forwarded
  <2>2. QED
    BY <1>2, <1>3, <1>4, <2>1, EmitSound
<1>5. CASE HasRoute(t.src) /\ Emit(Icmp(p)) /\ crashed' = FALSE
  <2>1. /\ Icmp(p) \in Packets /\ HasRoute(Icmp(p).dst) /\ Icmp(p).id = count + 1
        /\ Icmp(p).src \in Own
    BY <1>3, <1>5, IcmpType
  <2>2. QED
    BY <1>2, <1>5, <2>1, EmitSound
<1>6. CASE crashed' = TRUE /\ UNCHANGED <<pt, sent>>
  <2>1. count + 1 \in 0..MaxPackets
    BY <1>2, ConstantsAssumption DEF IInv, TypeOK
  <2>2. TypeOK'
    BY <1>2, <1>6, <2>1 DEF IInv, TypeOK, cache
  <2>3. QED
    BY <1>6, <2>2 DEF IInv, FramesRight
<1>7. QED
  BY <1>1, <1>4, <1>5, <1>6 DEF p

LEMMA AppendPacketSound == ASSUME IInv, ~crashed, AppendPacket PROVE IInv'
<1> DEFINE p == pt.pkt
<1>1. /\ TypeOK /\ FramesRight /\ EntriesTrue /\ Orderly(req_list) /\ PtHolds /\ SwHolds
      /\ Origin /\ Sole /\ Messages /\ asked \subseteq Answering
  BY SoundState
<1>2. /\ pt.pc = "append" /\ Pend(p) /\ pt' = Idle
      /\ UNCHANGED <<entries, sw, count, sent, told, lost, crashed>>
  BY DEF AppendPacket, ghosts
<1>3. p \in Packets /\ HasRoute(p.dst) /\ Held = {p} /\ Held' = {}
  BY <1>1, <1>2 DEF PtHolds, Held, Idle
<1>4. Unlike(Queued(req_list), {p})
  BY <1>1, <1>3 DEF Sole
<1>5. /\ Orderly(req_list') /\ Queued(req_list') \subseteq Queued(req_list) \cup {p}
      /\ Named(req_list) \subseteq Named(req_list')
      /\ \A t : Grip(req_list, t) => Grip(req_list', t)
      /\ asked' \subseteq Answering
  BY <1>1, <1>2, <1>3, <1>4, Pended
<1>6. TypeOK'
  BY <1>1, <1>2, <1>5 DEF TypeOK, Idle, Orderly, OneEach
<1>7. FramesRight' /\ EntriesTrue'
  BY <1>1, <1>2 DEF FramesRight, EntriesTrue
<1>8. Sole' /\ Everywhere' \subseteq Everywhere
  BY <1>1, <1>2, <1>3, <1>5, JoinSole
<1>9. Origin' /\ Messages'
  BY <1>1, <1>2, <1>8, MovesSound
<1>10. PtHolds' /\ SwHolds'
  BY <1>1, <1>2, <1>5 DEF PtHolds, SwHolds, Idle
<1>11. QED
  BY <1>5, <1>6, <1>7, <1>8, <1>9, <1>10 DEF IInv, Sound

LEMMA InsertSound == ASSUME IInv, ~crashed, Insert PROVE IInv'
<1>1. /\ TypeOK /\ FramesRight /\ EntriesTrue /\ Orderly(req_list) /\ PtHolds /\ SwHolds
      /\ Origin /\ Sole /\ Messages /\ asked \subseteq Answering
  BY SoundState
<1>2. PICK ip \in asked, s \in Slots :
        /\ entries' = [entries EXCEPT ![s] = Stored(@, ip)]
        /\ asked' = asked \ {ip}
        /\ IF Position(ip) = {} THEN pt' = pt
           ELSE pt' = [pc |-> "flush", pkt |-> Request(ip).pkts[1], ip |-> ip,
                       last |-> Len(Request(ip).pkts) = 1]
        /\ crashed' = (Position(ip) # {} /\ sw.ip = ip)
  BY DEF Insert
<1>3. pt.pc = "idle" /\ UNCHANGED <<req_list, sw, count, sent, told, lost>>
  BY DEF Insert, ghosts
<1> DEFINE new == [ip |-> ip, mac |-> ip, age |-> 0]
           R == Request(ip)
           one == Len(R.pkts) = 1
<1>4. ip \in Answering /\ ip \in Addresses /\ ip # NoAddress /\ EntryTimeout \in Nat
  BY <1>1, ConstantsAssumption
<1>5. /\ entries \in [Slots -> {Invalid} \cup
                         [ip : Answering, mac : Answering, age : 0..EntryTimeout]]
      /\ entries' = [entries EXCEPT ![s] = new]
  BY <1>1, <1>2 DEF Stored, TypeOK
<1>6. new # Invalid /\ new.ip = ip
  BY <1>4 DEF Invalid
<1>7. entries' \in [Slots -> {Invalid} \cup
                       [ip : Answering, mac : Answering, age : 0..EntryTimeout]]
  <2>1. new \in [ip : Answering, mac : Answering, age : 0..EntryTimeout]
    BY <1>4
  <2> HIDE DEF new
  <2>2. QED
    BY <1>5, <2>1
<1>8. EntriesTrue'
  <2>1. new.mac = new.ip
    OBVIOUS
  <2> HIDE DEF new
  <2>2. QED
    BY <1>1, <1>5, <2>1 DEF EntriesTrue
<1>9. s \in Known(ip)'
  <2> HIDE DEF new
  <2>1. QED
    BY <1>5, <1>6 DEF Known
<1>10. Position(ip) # {} => /\ R.pkts[1] \in Packets /\ Index(ip) \in DOMAIN req_list
                            /\ R = req_list[Index(ip)] /\ R.ip = ip
                            /\ ~one => Len(R.pkts) >= 2
  <2> SUFFICES ASSUME Position(ip) # {}
               PROVE  /\ R.pkts[1] \in Packets /\ Index(ip) \in DOMAIN req_list
                      /\ R = req_list[Index(ip)] /\ R.ip = ip
                      /\ ~one => Len(R.pkts) >= 2
    OBVIOUS
  <2>1. Index(ip) \in DOMAIN req_list /\ R = req_list[Index(ip)] /\ R.ip = ip
    BY <1>1, RequestOf DEF Orderly
  <2>2. Len(R.pkts) \in Nat \ {0} /\ R.pkts[1] \in Packets
    BY <1>1, <2>1, RequestType DEF Orderly
  <2>3. \A l \in Nat \ {0} : l # 1 => l >= 2
    OBVIOUS
  <2>4. ~one => Len(R.pkts) >= 2
    BY <2>2, <2>3, Zenon
  <2>5. QED
    BY <2>1, <2>2, <2>4
<1>11. one \in BOOLEAN
  OBVIOUS
<1>12. \/ pt' = pt
       \/ /\ Position(ip) # {}
          /\ pt' = [pc |-> "flush", pkt |-> R.pkts[1], ip |-> ip, last |-> one]
          /\ ~crashed' => sw.ip # ip
  BY <1>2
<1> HIDE DEF one, R, new
<1>13. pt' \in [pc : {"idle", "append", "flush"}, pkt : Packets \cup {NoPacket},
                ip : Addresses \cup {NoAddress}, last : BOOLEAN]
  <2>1. CASE pt' = pt
    BY <1>1, <2>1 DEF TypeOK
  <2>2. CASE /\ Position(ip) # {}
             /\ pt' = [pc |-> "flush", pkt |-> R.pkts[1], ip |-> ip, last |-> one]
    BY <1>4, <1>10, <1>11, <2>2
  <2>3. QED
    BY <1>12, <2>1, <2>2
<1>14. TypeOK'
  <2>1. crashed' \in BOOLEAN /\ asked' \subseteq Answering
    BY <1>1, <1>2
  <2>2. QED
    BY <1>1, <1>3, <1>7, <1>13, <2>1 DEF TypeOK
<1>15. ~crashed' => PtHolds'
  <2> SUFFICES ASSUME ~crashed' PROVE PtHolds'
    OBVIOUS
  <2>1. CASE pt' = pt
    BY <1>3, <2>1 DEF PtHolds
  <2>2. CASE /\ Position(ip) # {} /\ sw.ip # ip
             /\ pt' = [pc |-> "flush", pkt |-> R.pkts[1], ip |-> ip, last |-> one]
    <3>1. pt'.pc = "flush" /\ pt'.pkt = R.pkts[1] /\ pt'.ip = ip /\ pt'.last = one
      BY <2>2
    <3>2. ~pt'.last => ~one
      BY <3>1, Zenon
    <3>3. Grip(req_list, pt')
      BY <1>10, <2>2, <3>1, <3>2 DEF Grip
    <3>4. (Known(pt.ip) # {})'
      BY <1>9, <3>1 DEF Known
    <3>5. QED
      BY <1>3, <2>2, <3>1, <3>3, <3>4 DEF PtHolds
  <2>3. QED
    BY <1>12, <2>1, <2>2
<1>16. Held' = Held
  BY <1>3, <1>12 DEF Held
<1>17. Origin' /\ Sole' /\ Messages'
  BY <1>1, <1>3, <1>16, QuietSound
<1>18. FramesRight' /\ SwHolds' /\ Orderly(req_list')
  BY <1>1, <1>3 DEF FramesRight, SwHolds
<1>19. QED
  BY <1>8, <1>14, <1>15, <1>17, <1>18 DEF IInv, Sound

LEMMA LoseSound == ASSUME IInv, ~crashed, Lose PROVE IInv'
<1>1. /\ UNCHANGED <<entries, req_list, pt, sw, count, sent, told, lost, crashed>>
      /\ asked' \subseteq asked
  BY DEF Lose, cache, ghosts
<1>2. TypeOK'
  BY <1>1 DEF IInv, TypeOK
<1>3. QED
  BY <1>1, <1>2 DEF IInv, FramesRight, Sound, EntriesTrue, PtHolds, SwHolds, Known, Origin, Sole,
     Messages, Everywhere, Held, Framed

(* What the first packet of a request leaves behind, when it goes. *)
LEMMA GoneSound ==
    ASSUME Orderly(req_list), NEW ip, Position(ip) # {},
           \/ /\ Len(Request(ip).pkts) >= 2
              /\ req_list' = SetRequest([Request(ip) EXCEPT !.pkts = Tail(Request(ip).pkts)])
           \/ req_list' = Without(ip)
    PROVE  /\ Orderly(req_list') /\ Queued(req_list') \subseteq Queued(req_list)
           /\ Unlike(Queued(req_list'), {Request(ip).pkts[1]})
           /\ req_list' = Without(ip) => Unlike(Queued(req_list'), ToSet(Request(ip).pkts))
           /\ \A n \in Named(req_list) : n # ip => n \in Named(req_list')
           /\ \A t : Grip(req_list, t) /\ t.ip # ip => Grip(req_list', t)
<1> DEFINE q == req_list
           r == req_list'
           j == Index(ip)
<1>1. j \in DOMAIN q /\ q[j].ip = ip /\ Request(ip) = q[j]
  BY RequestOf DEF Orderly
<1>2. q[j].pkts[1] \in ToSet(q[j].pkts)
  BY <1>1, RequestType DEF Orderly, ToSet
<1>3. CASE r = Without(ip)
  <2>1. r = RemoveAt(q, j)
    BY <1>3 DEF Without
  <2> HIDE DEF q, r, j
  <2>2. /\ Lighter(q, r, ToSet(q[j].pkts)) /\ Named(r) = Named(q) \ {ip}
        /\ \A t : Grip(q, t) /\ t.ip # ip => Grip(r, t)
    BY <1>1, <2>1, RequestGone DEF q
  <2>3. QED
    BY <1>1, <1>2, <2>2 DEF Lighter, Unlike, q, r
<1>4. CASE /\ Len(Request(ip).pkts) >= 2 /\ r # Without(ip)
           /\ r = SetRequest([Request(ip) EXCEPT !.pkts = Tail(Request(ip).pkts)])
  <2>1. /\ Len(q[j].pkts) >= 2
        /\ r = [i \in DOMAIN q |-> IF q[i].ip = q[j].ip
                                   THEN [q[j] EXCEPT !.pkts = Tail(q[j].pkts)] ELSE q[i]]
    BY <1>1, <1>4 DEF SetRequest
  <2> HIDE DEF q, r, j
  <2>2. /\ Lighter(q, r, {q[j].pkts[1]}) /\ Named(r) = Named(q)
        /\ \A t : Grip(q, t) /\ t.ip # ip => Grip(r, t)
    BY <1>1, <2>1, FirstGone DEF q
  <2>3. QED
    BY <1>1, <1>4, <2>2 DEF Lighter, q, r
<1>5. QED
  BY <1>3, <1>4

(* The thread that removed the first packet of a request holds the next. *)
LEMMA NextGrip ==
    ASSUME Orderly(req_list), NEW ip, Position(ip) # {}, Len(Request(ip).pkts) >= 2,
           req_list' = SetRequest([Request(ip) EXCEPT !.pkts = Tail(Request(ip).pkts)]),
           NEW t, t.ip = ip, t.pkt = Tail(Request(ip).pkts)[1],
           Len(Tail(Request(ip).pkts)) = 1 => t.last
    PROVE  Grip(req_list', t) /\ t.pkt \in Packets /\ Named(req_list') = Named(req_list)
<1> DEFINE q == req_list
           r == req_list'
           j == Index(ip)
<1>1. j \in DOMAIN q /\ q[j].ip = ip /\ Request(ip) = q[j]
  BY RequestOf DEF Orderly
<1>2. /\ Len(q[j].pkts) >= 2
      /\ r = [i \in DOMAIN q |-> IF q[i].ip = q[j].ip
                                 THEN [q[j] EXCEPT !.pkts = Tail(q[j].pkts)] ELSE q[i]]
  BY <1>1 DEF SetRequest
<1>3. /\ t.ip = q[j].ip /\ t.pkt = Tail(q[j].pkts)[1]
      /\ Len(Tail(q[j].pkts)) = 1 => t.last
  BY <1>1
<1> HIDE DEF q, r, j
<1>4. QED
  BY <1>1, <1>2, <1>3, FirstGone DEF q, r

LEMMA FlushSound == ASSUME IInv, ~crashed, Flush PROVE IInv'
<1> DEFINE p == pt.pkt
           ip == pt.ip
           R == Request(ip)
           rest == Tail(R.pkts)
<1>1. /\ TypeOK /\ FramesRight /\ EntriesTrue /\ Orderly(req_list) /\ PtHolds /\ SwHolds
      /\ Origin /\ Sole /\ Messages /\ crashed = FALSE
  BY SoundState
<1>2. /\ pt.pc = "flush" /\ sent' = sent \cup {[pkt |-> p, mac |-> Mac(ip)]}
      /\ UNCHANGED <<entries, sw, asked, count, told>>
      /\ \/ /\ pt.last /\ pt' = Idle /\ req_list' = Without(ip)
            /\ lost' = lost \cup ToSet(rest) /\ crashed' = (sw.next = ip)
         \/ /\ ~pt.last /\ req_list' = SetRequest([R EXCEPT !.pkts = rest])
            /\ pt' = [pt EXCEPT !.pkt = rest[1], !.last = Len(rest) = 1]
            /\ lost' = lost /\ crashed' = crashed
  BY DEF Flush, Rest
<1>3. Grip(req_list, pt) /\ Known(ip) # {} /\ ip # sw.ip
  BY <1>1, <1>2 DEF PtHolds
<1>4. /\ Position(ip) # {} /\ Index(ip) \in DOMAIN req_list
      /\ R = req_list[Index(ip)] /\ ip \in Addresses /\ p \in Packets
      /\ p \in Queued(req_list) /\ HasRoute(p.dst) /\ NextHop(p) = ip
      /\ R.pkts[1] = p /\ (~pt.last => Len(R.pkts) >= 2)
  BY <1>1, <1>3, HeldRequest
<1>5. FramesRight' /\ sent' \subseteq [pkt : Packets, mac : Addresses]
  BY <1>1, <1>2, <1>3, <1>4, FrameRight
<1>6. /\ Orderly(req_list') /\ Queued(req_list') \subseteq Queued(req_list)
      /\ Unlike(Queued(req_list'), {p})
      /\ req_list' = Without(ip) => Unlike(Queued(req_list'), ToSet(R.pkts))
      /\ \A n \in Named(req_list) : n # ip => n \in Named(req_list')
      /\ \A t : Grip(req_list, t) /\ t.ip # ip => Grip(req_list', t)
  BY <1>1, <1>2, <1>4, GoneSound
<1>7. /\ ToSet(rest) \subseteq ToSet(R.pkts) /\ ToSet(R.pkts) \subseteq Queued(req_list)
      /\ Unique(ToSet(rest)) /\ Unlike({p}, ToSet(rest))
  BY <1>1, <1>4, RestApart
<1>8. Held = {}
  BY <1>2 DEF Held
<1>9. EntriesTrue'
  BY <1>1, <1>2 DEF EntriesTrue
<1>10. /\ req_list' \in Seq(Requests)
       /\ \A i, j \in DOMAIN req_list' : req_list'[i].ip = req_list'[j].ip => i = j
  BY <1>6 DEF Orderly, OneEach
<1> HIDE DEF R, rest
<1>11. CASE /\ pt.last /\ pt' = Idle /\ req_list' = Without(ip)
            /\ lost' = lost \cup ToSet(rest) /\ crashed' = (sw.next = ip)
  <2>1. lost' \subseteq Packets /\ crashed' \in BOOLEAN
    BY <1>1, <1>7, <1>11 DEF TypeOK, Queued
  <2>2. TypeOK'
    BY <1>1, <1>2, <1>5, <1>10, <1>11, <2>1 DEF TypeOK, Idle
  <2>3. Held' = Held
    BY <1>8, <1>11 DEF Held, Idle
  <2>4. Sole' /\ Everywhere' \subseteq Everywhere
    <3>1. Unlike(Queued(req_list'), {p} \cup ToSet(rest))
      BY <1>6, <1>7, <1>11 DEF Unlike
    <3>2. ToSet(rest) \in SUBSET Queued(req_list)
      BY <1>7
    <3>3. QED
      BY <1>1, <1>2, <1>4, <1>6, <1>7, <1>11, <2>3, <3>1, <3>2, LeaveSole
  <2>5. Origin' /\ Messages'
    BY <1>1, <1>2, <2>4, MovesSound
  <2>6. PtHolds'
    BY <1>11 DEF PtHolds, Idle
  <2>7. ~crashed' => SwHolds'
    <3>1. ~crashed' => sw.next # ip
      BY <1>11
    <3>2. QED
      BY <1>1, <1>2, <1>3, <1>6, <3>1 DEF SwHolds
  <2>8. QED
    BY <1>5, <1>6, <1>9, <2>2, <2>4, <2>5, <2>6, <2>7 DEF IInv, Sound
<1>12. CASE /\ ~pt.last /\ req_list' = SetRequest([R EXCEPT !.pkts = rest])
            /\ pt' = [pt EXCEPT !.pkt = rest[1], !.last = Len(rest) = 1]
            /\ lost' = lost /\ crashed' = crashed
  <2> DEFINE one == Len(rest) = 1
  <2>1. one \in BOOLEAN /\ pt' = [pt EXCEPT !.pkt = rest[1], !.last = one]
    BY <1>12
  <2>2. one = (Len(rest) = 1)
    OBVIOUS
  <2> HIDE DEF one
  <2>3. pt'.pc = "flush" /\ pt'.pkt = rest[1] /\ pt'.ip = ip /\ pt'.last = one
    BY <1>1, <1>2, <2>1 DEF TypeOK
  <2>4. Len(rest) = 1 => pt'.last
    BY <2>2, <2>3, Zenon
  <2>5. Grip(req_list', pt') /\ rest[1] \in Packets /\ Named(req_list') = Named(req_list)
    <3>1. /\ req_list' = SetRequest([Request(ip) EXCEPT !.pkts = Tail(Request(ip).pkts)])
          /\ Len(Request(ip).pkts) >= 2
          /\ pt'.ip = ip /\ pt'.pkt = Tail(Request(ip).pkts)[1]
      BY <1>4, <1>12, <2>3 DEF R, rest
    <3>2. Len(Tail(Request(ip).pkts)) = 1 => pt'.last
      BY <2>4, Zenon DEF R, rest
    <3>3. Grip(req_list', pt') /\ pt'.pkt \in Packets /\ Named(req_list') = Named(req_list)
      BY <1>1, <1>4, <3>1, <3>2, NextGrip
    <3>4. QED
      BY <2>3, <3>3
  <2>6. pt' \in [pc : {"idle", "append", "flush"}, pkt : Packets \cup {NoPacket},
                 ip : Addresses \cup {NoAddress}, last : BOOLEAN]
    BY <1>1, <2>1, <2>5 DEF TypeOK
  <2>7. TypeOK'
    BY <1>1, <1>2, <1>5, <1>10, <1>12, <2>6 DEF TypeOK
  <2>8. Held' = Held
    BY <1>8, <2>3 DEF Held
  <2>9. Sole' /\ Everywhere' \subseteq Everywhere
    <3>1. /\ Unlike(Queued(req_list'), {p} \cup {}) /\ Unique({}) /\ Unlike({p}, {})
          /\ {} \in SUBSET Queued(req_list) /\ lost' = lost \cup {}
      BY <1>6, <1>12 DEF Unlike, Unique
    <3>2. QED
      BY <1>1, <1>2, <1>4, <1>6, <2>8, <3>1, LeaveSole
  <2>10. Origin' /\ Messages'
    BY <1>1, <1>2, <2>9, MovesSound
  <2>11. PtHolds'
    <3>1. (Known(pt.ip) # {})'
      BY <1>2, <1>3, <2>3 DEF Known
    <3>2. QED
      BY <1>2, <1>3, <2>3, <2>5, <3>1 DEF PtHolds
  <2>12. SwHolds'
    BY <1>1, <1>2, <1>3, <1>6, <2>5 DEF SwHolds
  <2>13. QED
    BY <1>5, <1>6, <1>9, <2>7, <2>9, <2>10, <2>11, <2>12 DEF IInv, Sound
<1>13. QED
  BY <1>2, <1>11, <1>12
-----------------------------------------------------------------------------
(* The steps of the sweeping thread. *)

LEMMA SweepSound == ASSUME IInv, ~crashed, Sweep PROVE IInv'
<1> DEFINE q == req_list
           reqs == [k \in DOMAIN q |-> [q[k] EXCEPT !.age = Older(@)]]
<1>1. /\ TypeOK /\ FramesRight /\ EntriesTrue /\ Orderly(q) /\ PtHolds /\ SwHolds
      /\ Origin /\ Sole /\ Messages /\ crashed \in BOOLEAN /\ asked \subseteq Answering
      /\ pt.pc = "flush" => pt.ip \in Addresses
  BY SoundState
<1>2. /\ sw.pc = "asleep" /\ UNCHANGED <<pt, count, sent, told, lost>>
      /\ pt.pc = "flush" => \A s \in Known(pt.ip) : Aged(entries[s]) # Invalid
      /\ entries' = [s \in Slots |-> Aged(entries[s])] /\ Walk(reqs, 1)
  BY DEF Sweep, ghosts
<1>3. q \in Seq(Requests) /\ Len(q) \in Nat /\ DOMAIN q = 1..Len(q)
  BY <1>1, LenProperties DEF Orderly
<1>4. \A k \in DOMAIN q : /\ reqs[k] \in Requests
                          /\ reqs[k].ip = q[k].ip /\ reqs[k].pkts = q[k].pkts
  <2> SUFFICES ASSUME NEW k \in DOMAIN q
               PROVE  reqs[k] \in Requests /\ reqs[k].ip = q[k].ip /\ reqs[k].pkts = q[k].pkts
    OBVIOUS
  <2> DEFINE e == q[k]
  <2>1. e \in [ip : Addresses, pkts : Seq(Packets) \ {<<>>}, age : 0..2,
               retries : 1..(MaxRetries + 1)]
    BY <1>3, ElementOfSeq DEF Requests
  <2>2. reqs[k] = [e EXCEPT !.age = Older(e.age)]
    BY <2>1
  <2> HIDE DEF e, reqs
  <2>3. reqs[k] = [ip |-> e.ip, pkts |-> e.pkts, age |-> Older(e.age), retries |-> e.retries]
    BY <2>1, <2>2
  <2>4. Older(e.age) \in 0..2
    BY <2>1 DEF Older
  <2>5. QED
    BY <2>1, <2>3, <2>4 DEF Requests, e
<1>5. reqs \in Seq(Requests) /\ DOMAIN reqs = DOMAIN q
  <2> DEFINE e(k) == [q[k] EXCEPT !.age = Older(@)]
  <2>1. reqs = [k \in 1..Len(q) |-> e(k)] /\ \A k \in 1..Len(q) : e(k) \in Requests
    BY <1>3, <1>4
  <2> HIDE DEF e, reqs
  <2>2. QED
    BY <1>3, <2>1, IsASeq
<1> HIDE DEF reqs
<1>6. /\ Orderly(reqs) /\ Queued(reqs) = Queued(q) /\ \A t : Grip(q, t) => Grip(reqs, t)
  BY <1>1, <1>3, <1>4, <1>5, AlikeSound DEF Orderly
<1>7. /\ Orderly(req_list') /\ Queued(req_list') = Queued(reqs)
      /\ \A t : Grip(reqs, t) => Grip(req_list', t)
      /\ asked' \subseteq Answering /\ crashed' \in BOOLEAN
      /\ sw' \in [pc : {"asleep", "window"}, pkt : Packets \cup {NoPacket},
                  ip : Addresses \cup {NoAddress}, last : BOOLEAN,
                  next : Addresses \cup {NoAddress}]
      /\ ~crashed' => SwHolds' /\ (pt.pc = "flush" => pt.ip # sw'.ip)
  BY <1>1, <1>2, <1>6, WalkSound
<1>8. \A s \in Slots :
         /\ entries[s] \in {Invalid} \cup [ip : Answering, mac : Answering, age : 0..EntryTimeout]
         /\ entries'[s] = Aged(entries[s])
  BY <1>1, <1>2 DEF TypeOK
<1>9. \A s \in Slots :
         \/ entries'[s] = Invalid
         \/ /\ entries'[s] \in [ip : Answering, mac : Answering, age : 0..EntryTimeout]
            /\ entries[s] # Invalid
            /\ entries'[s].ip = entries[s].ip /\ entries'[s].mac = entries[s].mac
  <2> SUFFICES ASSUME NEW s \in Slots, Aged(entries[s]) # Invalid
               PROVE  /\ Aged(entries[s]) \in [ip : Answering, mac : Answering,
                                               age : 0..EntryTimeout]
                      /\ entries[s] # Invalid
                      /\ Aged(entries[s]).ip = entries[s].ip
                      /\ Aged(entries[s]).mac = entries[s].mac
    BY <1>8
  <2> DEFINE e == entries[s]
  <2>1. /\ e \in [ip : Answering, mac : Answering, age : 0..EntryTimeout]
        /\ e # Invalid /\ e.age # EntryTimeout /\ EntryTimeout \in Nat
    BY <1>8, ConstantsAssumption DEF Aged
  <2>2. Aged(e) = [e EXCEPT !.age = e.age + 1] /\ e.age + 1 \in 0..EntryTimeout
    BY <2>1 DEF Aged
  <2> HIDE DEF e
  <2>3. Aged(e) = [ip |-> e.ip, mac |-> e.mac, age |-> e.age + 1]
    BY <2>1, <2>2
  <2>4. QED
    BY <2>1, <2>2, <2>3 DEF e
<1>10. entries' \in [Slots -> {Invalid} \cup
                        [ip : Answering, mac : Answering, age : 0..EntryTimeout]]
  BY <1>2, <1>9
<1>11. EntriesTrue'
  BY <1>1, <1>9 DEF EntriesTrue
<1>12. TypeOK'
  BY <1>1, <1>2, <1>7, <1>10 DEF TypeOK, Orderly, OneEach
<1>13. FramesRight'
  BY <1>1, <1>2 DEF FramesRight
<1>14. Held' = Held
  BY <1>2 DEF Held
<1>15. Origin' /\ Sole' /\ Messages'
  BY <1>1, <1>2, <1>6, <1>7, <1>14, QuietSound
<1>16. ~crashed' => PtHolds'
  <2> SUFFICES ASSUME ~crashed' PROVE PtHolds'
    OBVIOUS
  <2>1. pt.pc = "flush" => (Known(pt.ip) # {})'
    <3> SUFFICES ASSUME pt.pc = "flush" PROVE (Known(pt.ip) # {})'
      OBVIOUS
    <3>1. PICK s : s \in Known(pt.ip)
      BY <1>1 DEF PtHolds
    <3>2. s \in Slots /\ entries[s].ip = pt.ip /\ Aged(entries[s]) # Invalid
      BY <1>2, <3>1 DEF Known
    <3>3. entries'[s] # Invalid /\ entries'[s].ip = pt.ip
      BY <1>8, <1>9, <3>2
    <3>4. QED
      BY <1>2, <3>2, <3>3 DEF Known
  <2>2. QED
    BY <1>1, <1>2, <1>6, <1>7, <2>1 DEF PtHolds
<1>17. QED
  BY <1>7, <1>11, <1>12, <1>13, <1>15, <1>16 DEF IInv, Sound

(* The message about the packet in hand is new, and about no other packet.  *)
LEMMA MessageFresh ==
    ASSUME Orderly(req_list), Origin, Sole, Messages, SwHolds,
           sw.pc \in {"window", "append"}, HasRoute(sw.pkt.src)
    PROVE  /\ Icmp(sw.pkt) \in Packets /\ HasRoute(Icmp(sw.pkt).dst)
           /\ Unlike(Everywhere, {Icmp(sw.pkt)})
           /\ Icmp(sw.pkt).id <= count /\ Icmp(sw.pkt).src \in Own /\ Icmp(sw.pkt).made # 0
           /\ \A r \in Everywhere :
                 Icmp(sw.pkt).made = 1 /\ r.made = 0 /\ r.id = Icmp(sw.pkt).id => r = sw.pkt
<1> DEFINE p == sw.pkt
<1>1. p \in Packets /\ p \in Queued(req_list)
  BY HeldRequest DEF SwHolds
<1>2. /\ Icmp(p) \in Packets /\ HasRoute(Icmp(p).dst) /\ Icmp(p).id = p.id
      /\ Icmp(p).made \in {1, 2} /\ Icmp(p).src \in Own
      /\ Icmp(p).made = 1 <=> p.src \notin Own
  BY <1>1, IcmpType
<1>3. p \in Everywhere
  BY <1>1 DEF Everywhere
<1>4. p.made \in 0..2 /\ p.id <= count /\ (p.made > 0 => p.src \in Own)
  BY <1>1, <1>3 DEF Origin, Packets
<1>5. Icmp(p).made = 1 => p.made = 0
  BY <1>2, <1>4
<1>6. Icmp(p).id <= count
  BY <1>2, <1>4
<1> HIDE DEF p
<1>7. ASSUME NEW e \in Everywhere, Once(e), Same(e, Icmp(p)) PROVE FALSE
  <2>1. e.made = 1 /\ p.made = 0 /\ e.id = p.id
    BY <1>2, <1>5, <1>7 DEF Once, Same
  <2>2. p \in told
    BY <1>3, <2>1 DEF Messages
  <2>3. Once(p) /\ Same(p, p)
    BY <2>1 DEF Once, Same
  <2>4. QED
    BY <1>1, <2>2, <2>3 DEF Sole, Unlike
<1>8. ASSUME NEW r \in Everywhere, Icmp(p).made = 1, r.made = 0, r.id = Icmp(p).id
      PROVE  r = p
  <2>1. Once(p) /\ Once(r) /\ Same(p, r) /\ Same(r, p)
    BY <1>2, <1>5, <1>8 DEF Once, Same
  <2>2. r \in Queued(req_list)
    BY <1>1, <2>1 DEF Everywhere, Sole, Unlike
  <2>3. PICK i \in DOMAIN req_list : \E k \in DOMAIN req_list[i].pkts : req_list[i].pkts[k] = r
    BY <2>2 DEF Queued
  <2>4. PICK j \in DOMAIN req_list : \E l \in DOMAIN req_list[j].pkts : req_list[j].pkts[l] = p
    BY <1>1 DEF Queued
  <2>5. QED
    BY <2>1, <2>3, <2>4 DEF Orderly, Apart
<1>9. QED
  BY <1>2, <1>6, <1>7, <1>8 DEF p, Unlike

(* The message takes its place, and the packet it is about is in hand.      *)
LEMMA MessageSound ==
    ASSUME Orderly(req_list), Origin, Sole, Messages, SwHolds,
           sw.pc \in {"window", "append"}, HasRoute(sw.pkt.src),
           sw'.pc = "told", sw'.pkt = sw.pkt, UNCHANGED <<count, told>>,
           Everywhere' \subseteq Everywhere \cup {Icmp(sw.pkt)}
    PROVE  Origin' /\ Messages'
<1> DEFINE m == Icmp(sw.pkt)
<1>1. /\ m.id <= count /\ m.src \in Own /\ m.made # 0
      /\ \A r \in Everywhere : m.made = 1 /\ r.made = 0 /\ r.id = m.id => r = sw.pkt
  BY MessageFresh
<1> HIDE DEF m
<1>2. Everywhere' \subseteq Everywhere \cup {m}
  BY DEF m
<1>3. Origin'
  BY <1>1, <1>2 DEF Origin
<1>4. ASSUME NEW e \in Everywhere', NEW r \in Everywhere', e.made = 1, r.made = 0, e.id = r.id
      PROVE  r \in told' \/ (sw'.pc = "told" /\ r = sw'.pkt)
  <2>1. r \in Everywhere
    BY <1>1, <1>2, <1>4
  <2>2. CASE e \in Everywhere
    BY <1>4, <2>1, <2>2 DEF Messages
  <2>3. CASE e = m
    BY <1>1, <1>4, <2>1, <2>3
  <2>4. QED
    BY <1>2, <2>2, <2>3
<1>5. QED
  BY <1>3, <1>4 DEF Messages

LEMMA ReportSound == ASSUME IInv, ~crashed, Report PROVE IInv'
<1> DEFINE m == Icmp(sw.pkt)
<1>1. /\ TypeOK /\ FramesRight /\ EntriesTrue /\ Orderly(req_list) /\ PtHolds /\ SwHolds
      /\ Origin /\ Sole /\ Messages
  BY SoundState
<1>2. CASE ~HasRoute(sw.pkt.src)
  <2>1. /\ crashed' = TRUE
        /\ UNCHANGED <<entries, req_list, pt, sw, asked, count, sent, told, lost>>
    BY <1>2 DEF Report, Crash, cache, ghosts
  <2>2. TypeOK' /\ FramesRight'
    BY <1>1, <2>1 DEF TypeOK, FramesRight
  <2>3. QED
    BY <2>1, <2>2 DEF IInv
<1>3. CASE HasRoute(sw.pkt.src)
  <2>1. /\ sw.pc = "window"
        /\ UNCHANGED <<entries, req_list, pt, asked, count, told, lost, crashed>>
        /\ \/ /\ Known(NextHop(m)) # {}
              /\ sent' = sent \cup {[pkt |-> m, mac |-> Mac(NextHop(m))]}
              /\ sw' = [sw EXCEPT !.pc = "told"]
           \/ sw' = [sw EXCEPT !.pc = "append"] /\ sent' = sent
    BY <1>3 DEF Report, cache
  <2>2. m \in Packets /\ HasRoute(m.dst) /\ Unlike(Everywhere, {m})
    BY <1>1, <1>3, <2>1, MessageFresh
  <2>3. /\ sw'.pc \in {"told", "append"} /\ sw'.pkt = sw.pkt /\ sw'.ip = sw.ip
        /\ sw'.last = sw.last /\ sw'.next = sw.next
        /\ sw' \in [pc : {"asleep", "window", "append", "told"}, pkt : Packets \cup {NoPacket},
                    ip : Addresses \cup {NoAddress}, last : BOOLEAN,
                    next : Addresses \cup {NoAddress}]
    BY <1>1, <2>1 DEF TypeOK
  <2> HIDE DEF m
  <2>4. FramesRight' /\ sent' \subseteq [pkt : Packets, mac : Addresses]
    <3>1. CASE sent' = sent
      BY <1>1, <3>1 DEF FramesRight, TypeOK
    <3>2. CASE sent' # sent
      BY <1>1, <2>1, <2>2, <3>2, FrameRight
    <3>3. QED
      BY <3>1, <3>2
  <2>5. TypeOK'
    BY <1>1, <2>1, <2>3, <2>4 DEF TypeOK
  <2>6. SwHolds'
    <3>1. Grip(req_list, sw')
      BY <1>1, <2>1, <2>3 DEF SwHolds, Grip
    <3>2. QED
      BY <1>1, <1>3, <2>1, <2>3, <3>1 DEF SwHolds
  <2>7. PtHolds' /\ EntriesTrue' /\ Orderly(req_list')
    BY <1>1, <2>1, <2>3 DEF PtHolds, EntriesTrue, Known
  <2>8. Held' = Held
    BY <2>1 DEF Held
  <2>9. Origin' /\ Sole' /\ Messages'
    <3>1. CASE sw'.pc = "append" /\ sent' = sent
      BY <1>1, <2>1, <2>8, <3>1, QuietSound
    <3>2. CASE /\ sw'.pc = "told"
               /\ sent' = sent \cup {[pkt |-> m, mac |-> Mac(NextHop(m))]}
      <4>1. Sole' /\ Everywhere' \subseteq Everywhere \cup {m}
        BY <1>1, <2>1, <2>2, <2>8, <3>2, FreshSole
      <4>2. QED
        BY <1>1, <1>3, <2>1, <2>3, <3>2, <4>1, MessageSound DEF m
    <3>3. QED
      BY <1>1, <2>1, <3>1, <3>2 DEF TypeOK
  <2>10. QED
    BY <2>4, <2>5, <2>6, <2>7, <2>9 DEF IInv, Sound
<1>4. QED
  BY <1>2, <1>3

LEMMA ReportPendedSound == ASSUME IInv, ~crashed, ReportPended PROVE IInv'
<1> DEFINE m == Icmp(sw.pkt)
<1>1. /\ TypeOK /\ FramesRight /\ EntriesTrue /\ Orderly(req_list) /\ PtHolds /\ SwHolds
      /\ Origin /\ Sole /\ Messages /\ asked \subseteq Answering
  BY SoundState
<1>2. /\ sw.pc = "append" /\ Pend(m) /\ sw' = [sw EXCEPT !.pc = "told"]
      /\ UNCHANGED <<entries, pt, count, sent, told, lost, crashed>>
  BY DEF ReportPended, ghosts
<1>3. HasRoute(sw.pkt.src)
  BY <1>1, <1>2 DEF SwHolds
<1>4. m \in Packets /\ HasRoute(m.dst) /\ Unlike(Everywhere, {m})
  BY <1>1, <1>2, <1>3, MessageFresh
<1>5. /\ sw'.pc = "told" /\ sw'.pkt = sw.pkt /\ sw'.ip = sw.ip
      /\ sw'.last = sw.last /\ sw'.next = sw.next
      /\ sw' \in [pc : {"asleep", "window", "append", "told"}, pkt : Packets \cup {NoPacket},
                  ip : Addresses \cup {NoAddress}, last : BOOLEAN,
                  next : Addresses \cup {NoAddress}]
  BY <1>1, <1>2 DEF TypeOK
<1> HIDE DEF m
<1>6. /\ Orderly(req_list') /\ Queued(req_list') \subseteq Queued(req_list) \cup {m}
      /\ Named(req_list) \subseteq Named(req_list')
      /\ \A t : Grip(req_list, t) => Grip(req_list', t)
      /\ asked' \subseteq Answering
  <2>1. Unlike(Queued(req_list), {m})
    BY <1>4 DEF Unlike, Everywhere
  <2>2. QED
    BY <1>1, <1>2, <1>4, <2>1, Pended
<1>7. TypeOK' /\ FramesRight' /\ EntriesTrue'
  BY <1>1, <1>2, <1>5, <1>6 DEF TypeOK, FramesRight, EntriesTrue, Orderly, OneEach
<1>8. Held' = Held
  BY <1>2 DEF Held
<1>9. Sole' /\ Everywhere' \subseteq Everywhere \cup {m}
  BY <1>1, <1>2, <1>4, <1>6, <1>8, FreshSole
<1>10. Origin' /\ Messages'
  BY <1>1, <1>2, <1>3, <1>5, <1>9, MessageSound DEF m
<1>11. PtHolds'
  BY <1>1, <1>2, <1>5, <1>6 DEF PtHolds, Known
<1>12. SwHolds'
  <2>1. Grip(req_list, sw')
    BY <1>1, <1>2, <1>5 DEF SwHolds, Grip
  <2>2. QED
    BY <1>1, <1>2, <1>5, <1>6, <2>1 DEF SwHolds
<1>13. QED
  BY <1>6, <1>7, <1>9, <1>10, <1>11, <1>12 DEF IInv, Sound

LEMMA ReportedSound == ASSUME IInv, ~crashed, Reported PROVE IInv'
<1> DEFINE p == sw.pkt
           ip == sw.ip
           R == Request(ip)
           rest == Tail(R.pkts)
           i == Index(sw.next)
           from == IF Index(ip) < i THEN i - 1 ELSE i
           gone == Without(ip)
<1>1. /\ TypeOK /\ FramesRight /\ EntriesTrue /\ Orderly(req_list) /\ PtHolds /\ SwHolds
      /\ Origin /\ Sole /\ Messages /\ crashed \in BOOLEAN /\ crashed = FALSE
      /\ asked \subseteq Answering
      /\ pt.pc = "flush" => pt.ip \in Addresses
  BY SoundState
<1>2. /\ sw.pc = "told" /\ told' = told \cup {p} /\ UNCHANGED <<entries, pt, count, sent>>
      /\ \/ /\ ~sw.last /\ req_list' = SetRequest([R EXCEPT !.pkts = rest])
            /\ sw' = [sw EXCEPT !.pc = "window", !.pkt = rest[1], !.last = Len(rest) = 1]
            /\ UNCHANGED <<asked, lost, crashed>>
         \/ /\ lost' = lost \cup ToSet(rest)
            /\ \/ sw' = Asleep /\ req_list' = gone /\ UNCHANGED <<asked, crashed>>
               \/ sw.next # NoAddress /\ Walk(gone, from)
  BY DEF Reported, Rest
<1>3. Grip(req_list, sw)
  BY <1>1, <1>2 DEF SwHolds
<1>4. /\ Position(ip) # {} /\ Index(ip) \in DOMAIN req_list
      /\ R = req_list[Index(ip)] /\ R.ip = ip /\ ip \in Addresses /\ p \in Packets
      /\ p \in Queued(req_list) /\ R.pkts[1] = p /\ (~sw.last => Len(R.pkts) >= 2)
  BY <1>1, <1>3, HeldRequest
<1>5. /\ ToSet(rest) \subseteq ToSet(R.pkts) /\ ToSet(R.pkts) \subseteq Queued(req_list)
      /\ Unique(ToSet(rest)) /\ Unlike({p}, ToSet(rest)) /\ p \in ToSet(R.pkts)
  <2>1. 1 \in DOMAIN R.pkts
    BY <1>1, <1>4, RequestType DEF Orderly
  <2>2. p \in ToSet(R.pkts)
    BY <1>4, <2>1 DEF ToSet
  <2> HIDE DEF R
  <2>3. QED
    BY <1>1, <1>4, <2>2, RestApart
<1>6. Held' = Held
  BY <1>2 DEF Held
<1>7. EntriesTrue' /\ FramesRight'
  BY <1>1, <1>2 DEF EntriesTrue, FramesRight
<1>8. told' \subseteq Packets
  BY <1>1, <1>2, <1>4 DEF TypeOK
<1> HIDE DEF R, rest, i, from, gone
<1>9. CASE /\ ~sw.last /\ req_list' = SetRequest([R EXCEPT !.pkts = rest])
           /\ sw' = [sw EXCEPT !.pc = "window", !.pkt = rest[1], !.last = Len(rest) = 1]
           /\ UNCHANGED <<asked, lost, crashed>>
  <2> DEFINE one == Len(rest) = 1
  <2>1. /\ one \in BOOLEAN
        /\ sw' = [sw EXCEPT !.pc = "window", !.pkt = rest[1], !.last = one]
    BY <1>9
  <2>2. one = (Len(rest) = 1)
    OBVIOUS
  <2> HIDE DEF one
  <2>3. sw'.pc = "window" /\ sw'.pkt = rest[1] /\ sw'.ip = ip /\ sw'.last = one /\ sw'.next = sw.next
    BY <1>1, <2>1 DEF TypeOK
  <2>4. Len(rest) = 1 => sw'.last
    BY <2>2, <2>3, Zenon
  <2>5. /\ req_list' = SetRequest([Request(ip) EXCEPT !.pkts = Tail(Request(ip).pkts)])
        /\ Len(Request(ip).pkts) >= 2
        /\ sw'.ip = ip /\ sw'.pkt = Tail(Request(ip).pkts)[1]
    BY <1>4, <1>9, <2>3 DEF R, rest
  <2>6. Grip(req_list', sw') /\ rest[1] \in Packets /\ Named(req_list') = Named(req_list)
    <3>1. Len(Tail(Request(ip).pkts)) = 1 => sw'.last
      BY <2>4, Zenon DEF R, rest
    <3>2. Grip(req_list', sw') /\ sw'.pkt \in Packets /\ Named(req_list') = Named(req_list)
      BY <1>1, <1>4, <2>5, <3>1, NextGrip
    <3>3. QED
      BY <2>3, <3>2
  <2>7. /\ Orderly(req_list') /\ Queued(req_list') \subseteq Queued(req_list)
        /\ Unlike(Queued(req_list'), {p})
        /\ \A t : Grip(req_list, t) /\ t.ip # ip => Grip(req_list', t)
    BY <1>1, <1>4, <2>5, GoneSound DEF R
  <2>8. sw' \in [pc : {"asleep", "window", "append", "told"}, pkt : Packets \cup {NoPacket},
                 ip : Addresses \cup {NoAddress}, last : BOOLEAN,
                 next : Addresses \cup {NoAddress}]
    BY <1>1, <2>1, <2>6 DEF TypeOK
  <2>9. TypeOK'
    BY <1>1, <1>2, <1>8, <1>9, <2>7, <2>8 DEF TypeOK, Orderly, OneEach
  <2>10. Sole' /\ Everywhere' \subseteq Everywhere
    <3>1. /\ Unlike(Queued(req_list'), {p} \cup {}) /\ Unique({}) /\ Unlike({p}, {})
          /\ {} \in SUBSET Queued(req_list) /\ lost' = lost \cup {}
      BY <1>9, <2>7 DEF Unlike, Unique
    <3>2. QED
      BY <1>1, <1>2, <1>4, <1>6, <2>7, <3>1, LeaveSole
  <2>11. Origin' /\ Messages'
    BY <1>1, <1>2, <2>10, MovesSound
  <2>12. SwHolds'
    BY <1>1, <1>2, <2>3, <2>6 DEF SwHolds
  <2>13. PtHolds'
    BY <1>1, <1>2, <2>3, <2>7 DEF PtHolds, Known
  <2>14. QED
    BY <1>7, <2>7, <2>9, <2>10, <2>11, <2>12, <2>13 DEF IInv, Sound
<1>10. CASE /\ lost' = lost \cup ToSet(rest)
            /\ \/ sw' = Asleep /\ req_list' = gone /\ UNCHANGED <<asked, crashed>>
               \/ sw.next # NoAddress /\ Walk(gone, from)
  <2>1. /\ Orderly(gone) /\ Queued(gone) \subseteq Queued(req_list)
        /\ Unlike(Queued(gone), ToSet(R.pkts))
        /\ \A t : Grip(req_list, t) /\ t.ip # ip => Grip(gone, t)
    BY <1>1, <1>4, RequestGone DEF Lighter, gone, Without
  <2>2. /\ Orderly(req_list') /\ Queued(req_list') = Queued(gone)
        /\ \A t : Grip(gone, t) => Grip(req_list', t)
        /\ asked' \subseteq Answering /\ crashed' \in BOOLEAN
        /\ sw' \in [pc : {"asleep", "window", "append", "told"}, pkt : Packets \cup {NoPacket},
                    ip : Addresses \cup {NoAddress}, last : BOOLEAN,
                    next : Addresses \cup {NoAddress}]
        /\ ~crashed' => SwHolds' /\ (pt.pc = "flush" => pt.ip # sw'.ip)
    <3>1. CASE sw' = Asleep /\ req_list' = gone /\ UNCHANGED <<asked, crashed>>
      <4>1. SwHolds' /\ sw'.ip = NoAddress /\ NoAddress \notin Addresses
        BY <3>1, ConstantsAssumption DEF SwHolds, Asleep
      <4>2. sw' \in [pc : {"asleep", "window", "append", "told"}, pkt : Packets \cup {NoPacket},
                     ip : Addresses \cup {NoAddress}, last : BOOLEAN,
                     next : Addresses \cup {NoAddress}]
        BY <3>1 DEF Asleep
      <4>3. QED
        BY <1>1, <2>1, <3>1, <4>1, <4>2
    <3>2. CASE sw.next # NoAddress /\ Walk(gone, from)
      <4>1. i \in DOMAIN req_list
        BY <1>1, <1>2, <3>2, RequestOf DEF SwHolds, Orderly, i
      <4>2. from \in Nat \ {0}
        <5>1. DOMAIN req_list = 1..Len(req_list)
          BY <1>1, LenProperties DEF Orderly
        <5>2. QED
          BY <1>4, <4>1, <5>1 DEF from
      <4>3. QED
        BY <1>1, <2>1, <3>2, <4>2, WalkSound
    <3>3. QED
      BY <1>10, <3>1, <3>2
  <2>3. lost' \subseteq Packets
    BY <1>1, <1>5, <1>10 DEF TypeOK, Queued
  <2>4. TypeOK'
    BY <1>1, <1>2, <1>8, <2>2, <2>3 DEF TypeOK, Orderly, OneEach
  <2>5. Sole' /\ Everywhere' \subseteq Everywhere
    <3>1. /\ Unlike(Queued(req_list'), {p} \cup ToSet(rest))
          /\ Queued(req_list') \subseteq Queued(req_list)
          /\ ToSet(rest) \in SUBSET Queued(req_list)
      BY <1>5, <2>1, <2>2 DEF Unlike
    <3>2. QED
      BY <1>1, <1>2, <1>4, <1>5, <1>6, <1>10, <3>1, LeaveSole
  <2>6. Origin' /\ Messages'
    BY <1>1, <1>2, <2>5, MovesSound
  <2>7. ~crashed' => PtHolds'
    BY <1>1, <1>2, <2>1, <2>2 DEF PtHolds, Known
  <2>8. QED
    BY <1>7, <2>2, <2>4, <2>5, <2>6, <2>7 DEF IInv, Sound
<1>11. QED
  BY <1>2, <1>9, <1>10
-----------------------------------------------------------------------------
LEMMA InitIInv == Init => IInv
<1> SUFFICES ASSUME Init PROVE IInv
  OBVIOUS
<1>1. /\ entries = [s \in Slots |-> Invalid] /\ req_list = <<>>
      /\ pt = Idle /\ sw = Asleep /\ asked = {} /\ count = 0
      /\ sent = {} /\ told = {} /\ lost = {} /\ crashed = FALSE
  BY DEF Init
<1>2. req_list \in Seq(Requests) /\ DOMAIN req_list = {}
  BY <1>1
<1>3. TypeOK
  <2>1. pt \in [pc : {"idle", "append", "flush"}, pkt : Packets \cup {NoPacket},
                ip : Addresses \cup {NoAddress}, last : BOOLEAN]
    BY <1>1 DEF Idle
  <2>2. sw \in [pc : {"asleep", "window", "append", "told"}, pkt : Packets \cup {NoPacket},
                ip : Addresses \cup {NoAddress}, last : BOOLEAN,
                next : Addresses \cup {NoAddress}]
    BY <1>1 DEF Asleep
  <2>3. count \in 0..MaxPackets
    BY <1>1, ConstantsAssumption
  <2>4. QED
    BY <1>1, <1>2, <2>1, <2>2, <2>3 DEF TypeOK
<1>4. Orderly(req_list)
  BY <1>2 DEF Orderly, OneEach, Routed, Apart
<1>5. Queued(req_list) = {} /\ Held = {} /\ Framed = {} /\ Everywhere = {}
  BY <1>1, <1>2 DEF Queued, Held, Framed, Everywhere, Idle
<1>6. PtHolds /\ SwHolds /\ EntriesTrue /\ FramesRight
  BY <1>1 DEF PtHolds, SwHolds, EntriesTrue, FramesRight, Idle, Asleep
<1>7. Origin /\ Sole /\ Messages
  BY <1>1, <1>5 DEF Origin, Sole, Messages, Unlike, Unique
<1>8. QED
  BY <1>3, <1>4, <1>6, <1>7 DEF IInv, Sound

LEMMA NextStep == ASSUME IInv, [Next]_vars PROVE IInv'
<1>1. CASE ~crashed /\ Receive
  BY <1>1, ReceiveSound
<1>2. CASE ~crashed /\ Insert
  BY <1>2, InsertSound
<1>3. CASE ~crashed /\ AppendPacket
  BY <1>3, AppendPacketSound
<1>4. CASE ~crashed /\ Flush
  BY <1>4, FlushSound
<1>5. CASE ~crashed /\ Sweep
  BY <1>5, SweepSound
<1>6. CASE ~crashed /\ Report
  BY <1>6, ReportSound
<1>7. CASE ~crashed /\ ReportPended
  BY <1>7, ReportPendedSound
<1>8. CASE ~crashed /\ Reported
  BY <1>8, ReportedSound
<1>9. CASE ~crashed /\ Lose
  BY <1>9, LoseSound
<1>10. CASE UNCHANGED vars
  <2>1. UNCHANGED <<entries, req_list, pt, sw, asked, count, sent, told, lost, crashed>>
    BY <1>10 DEF vars
  <2>2. TypeOK' /\ FramesRight'
    BY <2>1 DEF IInv, TypeOK, FramesRight
  <2>3. Sound => Sound'
    BY <2>1 DEF Sound, EntriesTrue, PtHolds, SwHolds, Known, Origin, Sole, Messages, Everywhere,
       Held, Framed
  <2>4. QED
    BY <2>1, <2>2, <2>3 DEF IInv
<1>11. QED
  BY <1>1, <1>2, <1>3, <1>4, <1>5, <1>6, <1>7, <1>8, <1>9, <1>10
     DEF Next, PacketThread, Sweeper

(* The two threads of the router, whatever they do while the other has let  *)
(* go of the lock (arpcache.c:151-157, 201-208), hold on to what is there,  *)
(* and every packet is in one place, until memory is used after it is freed.*)
THEOREM Inductive == Spec => []IInv
<1>1. QED
  BY InitIInv, NextStep, PTL DEF Spec

LEMMA AtMostOne ==
    ASSUME NEW S, \A e, f \in S : e = f
    PROVE  Cardinality(S) = IF S = {} THEN 0 ELSE 1
<1>1. CASE S = {}
  BY <1>1, FS_EmptySet
<1>2. CASE S # {}
  <2>1. PICK e \in S : S = {e}
    BY <1>2
  <2>2. QED
    BY <1>2, <2>1, FS_Singleton
<1>3. QED
  BY <1>1, <1>2

(* Where a packet may be, and that it is in one of these places. *)
LEMMA PlacedOnce ==
    ASSUME IInv, ~crashed, NEW n \in Ids, NEW m \in 0..1
    PROVE  Cardinality(Pending(n, m)) + Cardinality(SentAs(n, m))
               + Cardinality(GoneAs(n, m)) <= 1
<1> DEFINE P == Pending(n, m)
           S == SentAs(n, m)
           G == GoneAs(n, m)
<1>1. Orderly(req_list) /\ Sole
  BY SoundState
<1>2. \A p, r : Is(p, n, m) /\ Is(r, n, m) => Once(p) /\ Same(p, r)
  BY DEF Is, Once, Same
<1>3. ASSUME NEW e \in P
      PROVE  \E i \in DOMAIN req_list : \E k \in DOMAIN req_list[i].pkts :
                /\ e = <<i, k>> /\ Is(req_list[i].pkts[k], n, m)
                /\ req_list[i].pkts[k] \in Queued(req_list)
  <2>1. PICK i \in DOMAIN req_list : e \in PlacesInQueue(i, n, m)
    BY DEF Pending
  <2>2. PICK k \in DOMAIN req_list[i].pkts :
            e = <<i, k>> /\ req_list[i].pkts[k].id = n /\ req_list[i].pkts[k].made = m
    BY <2>1 DEF PlacesInQueue
  <2>3. req_list[i].pkts[k] \in Queued(req_list)
    BY <1>1, RequestType DEF Orderly
  <2>4. QED
    BY <2>2, <2>3 DEF Is
<1>4. \A e, f \in P : e = f
  BY <1>1, <1>2, <1>3 DEF Orderly, Apart
<1>5. \A e \in S : e \in sent /\ e.pkt \in Framed /\ Is(e.pkt, n, m)
  BY DEF SentAs, Framed
<1>6. \A e, f \in S : e = f
  BY <1>1, <1>2, <1>5 DEF Sole
<1>7. \A e \in G : \/ \E p \in told : e = <<"told", p>> /\ Is(p, n, m)
                   \/ \E p \in lost : e = <<"lost", p>> /\ Is(p, n, m)
  BY DEF GoneAs
<1>8. \A e, f \in G : e = f
  BY <1>1, <1>2, <1>7 DEF Sole, Unique, Unlike
<1>9. ASSUME NEW e \in P PROVE S = {} /\ G = {}
  <2>1. PICK p \in Queued(req_list) : Is(p, n, m)
    BY <1>3
  <2>2. \A f \in S : FALSE
    BY <1>1, <1>2, <1>5, <2>1 DEF Sole, Unlike
  <2>3. \A g \in G : FALSE
    BY <1>1, <1>2, <1>7, <2>1 DEF Sole, Unlike
  <2>4. QED
    BY <2>2, <2>3
<1>10. \A e \in S : G = {}
  BY <1>1, <1>2, <1>5, <1>7 DEF Sole, Unlike
<1> HIDE DEF P, S, G
<1>11. /\ Cardinality(P) = IF P = {} THEN 0 ELSE 1
       /\ Cardinality(S) = IF S = {} THEN 0 ELSE 1
       /\ Cardinality(G) = IF G = {} THEN 0 ELSE 1
  BY <1>4, <1>6, <1>8, AtMostOne
<1>12. QED
  BY <1>9, <1>10, <1>11 DEF P, S, G

(* A packet, or the ICMP message about it, is pending once, sent once,      *)
(* reported once or lost, and no two of these (arpcache.c:151-157,          *)
(* 201-208): RouterInv for every routing table and any traffic.             *)
THEOREM OneFateEach == Spec => []RouterInv
<1>1. IInv => RouterInv
  BY PlacedOnce DEF IInv, RouterInv, OneFate
<1>2. QED
  BY <1>1, Inductive, PTL

(* Every frame goes to the next hop of the most specific route for its      *)
(* destination (ip_base.c:32-48, arpcache.c:124-145): the longest mask is   *)
(* that of the smallest network, as of two networks that meet the one of    *)
(* the longer mask is within the other.                                     *)
THEOREM MostSpecific == Spec => []RightNextHop
<1>1. ASSUME FramesRight, NEW f \in sent
      PROVE  \E i \in Matching(f.pkt.dst) :
                /\ \A j \in Matching(f.pkt.dst) : rtable[i].prefix \subseteq rtable[j].prefix
                /\ f.mac = (IF rtable[i].gw = NoAddress THEN f.pkt.dst ELSE rtable[i].gw)
  <2> DEFINE dst == f.pkt.dst
  <2>1. HasRoute(dst) /\ f.mac = NextHop(f.pkt)
    BY <1>1 DEF FramesRight
  <2>2. PICK i \in Matching(dst) : /\ Lpm(dst) = rtable[i]
                                   /\ \A j \in Matching(dst) : rtable[i].mask >= rtable[j].mask
    BY <2>1, LpmFound
  <2>3. ASSUME NEW j \in Matching(dst) PROVE rtable[i].prefix \subseteq rtable[j].prefix
    <3>1. i \in DOMAIN rtable /\ j \in DOMAIN rtable /\ dst \in rtable[i].prefix \cap rtable[j].prefix
      BY DEF Matching
    <3>2. QED
      BY <2>2, <3>1, ConstantsAssumption
  <2>4. f.mac = (IF rtable[i].gw = NoAddress THEN dst ELSE rtable[i].gw)
    BY <2>1, <2>2 DEF NextHop
  <2>5. QED
    BY <2>3, <2>4
<1>2. IInv => RightNextHop
  BY <1>1 DEF IInv, RightNextHop
<1>3. QED
  BY <1>2, Inductive, PTL
=============================================================================
