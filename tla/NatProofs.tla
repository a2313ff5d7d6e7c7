----------------------------- MODULE NatProofs ------------------------------
(***************************************************************************)
(* Theorems about the translator of Nat, for every table, pool, list of    *)
(* rules and time-out: what do_translation and nat_timeout leave true.     *)
(***************************************************************************)
EXTENDS Nat, Integers, SequenceTheorems, FiniteSetTheorems, WellFoundedInduction, TLAPS

(* < is well-founded on the naturals. *)
LEMMA LeastOfNats ==
    ASSUME NEW S \in SUBSET Nat, S # {}
    PROVE  \E x \in S : \A y \in S : x <= y
<1>1. PICK x \in S : \A y \in S : <<y, x>> \notin OpToRel(<, Nat)
  BY NatLessThanWellFounded, WFMin
<1>2. \A y \in S : y < x => <<y, x>> \in OpToRel(<, Nat)
  BY DEF OpToRel
<1>3. \A y \in S : ~(y < x)
  BY <1>1, <1>2, Zenon
<1>4. QED
  BY <1>3

(* A bounded set of naturals has a greatest element. *)
LEMMA GreatestOfBounded ==
    ASSUME NEW S \in SUBSET Nat, S # {}, NEW b \in Nat, \A x \in S : x <= b
    PROVE  \E m \in S : \A a \in S : a <= m
<1> DEFINE Gaps == {b - x : x \in S}
<1>1. Gaps \in SUBSET Nat /\ Gaps # {} /\ \A a \in S : b - a \in Gaps
  <2>1. \A x \in S : x \in Nat /\ b - x \in Nat
    OBVIOUS
  <2>2. QED
    BY <2>1
<1>2. PICK g \in Gaps : \A y \in Gaps : g <= y
  BY <1>1, LeastOfNats
<1>3. PICK m \in S : g = b - m
  BY <1>2
<1>4. \A a \in S : a <= m
  BY <1>1, <1>2, <1>3
<1>5. QED
  BY <1>4

(* Selected keeps the elements of S, each in its place, and drops the rest. *)
LEMMA SelectedPlaces ==
    ASSUME NEW T, NEW q \in Seq(T), NEW S
    PROVE  /\ Selected(q, S) \in Seq(T)
           /\ \E f \in [1..Len(Selected(q, S)) -> 1..Len(q)] :
                 /\ \A j \in 1..Len(Selected(q, S)) :
                       Selected(q, S)[j] = q[f[j]] /\ q[f[j]] \in S
                 /\ \A i, j \in 1..Len(Selected(q, S)) : f[i] = f[j] => i = j
                 /\ \A k \in 1..Len(q) :
                       q[k] \in S => \E j \in 1..Len(Selected(q, S)) : f[j] = k
<1> DEFINE I == {i \in DOMAIN q : q[i] \in S}
           n == Cardinality(I)
           UpTo(i) == {j \in I : j <= i}
           place == [i \in I |-> Cardinality(UpTo(i))]
           f == [k \in 1..n |-> CHOOSE i \in I : Cardinality(UpTo(i)) = k]
<1>1. /\ Len(q) \in Nat /\ DOMAIN q = 1..Len(q) /\ \A i \in 1..Len(q) : q[i] \in T
      /\ I \subseteq Nat /\ I \subseteq 1..Len(q)
  BY LenProperties, ElementOfSeq
<1>2. Selected(q, S) = [k \in 1..n |-> q[f[k]]]
  BY DEF Selected
<1>3. /\ \A k \in 1..Len(q) : q[k] \in S => k \in I
      /\ \A i \in I : q[i] \in S
  BY <1>1
<1> HIDE DEF I
<1>4. IsFiniteSet(I) /\ n \in Nat
  <2>1. IsFiniteSet(1..Len(q))
    BY <1>1, FS_Interval
  <2>2. IsFiniteSet(I)
    BY <1>1, <2>1, FS_Subset
  <2>3. QED
    BY <2>2, FS_CardinalityType
<1>5. \A i \in I : IsFiniteSet(UpTo(i)) /\ Cardinality(UpTo(i)) \in 1..n
  <2> SUFFICES ASSUME NEW i \in I
               PROVE  IsFiniteSet(UpTo(i)) /\ Cardinality(UpTo(i)) \in 1..n
    OBVIOUS
  <2>1. UpTo(i) \in SUBSET I /\ i \in UpTo(i)
    BY <1>1
  <2> HIDE DEF UpTo
  <2>2. IsFiniteSet(UpTo(i)) /\ Cardinality(UpTo(i)) <= n
    BY <1>4, <2>1, FS_Subset
  <2>3. Cardinality(UpTo(i)) \in Nat /\ Cardinality(UpTo(i)) # 0
    BY <2>1, <2>2, FS_CardinalityType, FS_EmptySet
  <2>4. QED
    BY <1>4, <2>2, <2>3
<1>6. ASSUME NEW i \in I, NEW j \in I, i < j
      PROVE  Cardinality(UpTo(i)) # Cardinality(UpTo(j))
  <2>1. i \in Nat /\ j \in Nat /\ \A k \in I : k \in Nat
    BY <1>1
  <2>2. \A k \in I : k <= i => k <= j
    BY <1>6, <2>1
  <2>3. UpTo(i) \in SUBSET UpTo(j) /\ j \in UpTo(j) /\ j \notin UpTo(i)
    <3>1. UpTo(i) \in SUBSET UpTo(j)
      BY <2>2
    <3>2. j <= j /\ ~(j <= i)
      BY <1>6, <2>1
    <3>3. QED
      BY <3>1, <3>2
  <2> HIDE DEF UpTo
  <2>4. QED
    BY <1>5, <2>3, FS_Subset
<1>7. \A i, j \in I : Cardinality(UpTo(i)) = Cardinality(UpTo(j)) => i = j
  <2>1. \A i, j \in I : i < j \/ j < i \/ i = j
    BY <1>1
  <2> HIDE DEF UpTo
  <2>2. QED
    BY <1>6, <2>1
<1>8. \A k \in 1..n : \E i \in I : Cardinality(UpTo(i)) = k
  <2> HIDE DEF UpTo, n
  <2>1. place \in Injection(I, 1..n)
    BY <1>5, <1>7 DEF Injection, IsInjective
  <2>2. IsFiniteSet(1..n) /\ Cardinality(1..n) = n
    BY <1>4, FS_Interval
  <2>3. place \in Surjection(I, 1..n)
    BY <2>1, <2>2, FS_Injection DEF n
  <2>4. QED
    BY <2>3 DEF Surjection
<1>9. /\ \A k \in 1..n : f[k] \in I /\ Cardinality(UpTo(f[k])) = k
      /\ f \in [1..n -> 1..Len(q)]
  <2> HIDE DEF UpTo, n
  <2>1. \A k \in 1..n : f[k] \in I /\ Cardinality(UpTo(f[k])) = k
    BY <1>8
  <2>2. QED
    BY <1>1, <2>1
<1> HIDE DEF f, UpTo, n
<1>10. \A i, j \in 1..n : f[i] = f[j] => i = j
  BY <1>9
<1>11. \A i \in I : \E k \in 1..n : f[k] = i
  BY <1>5, <1>7, <1>9
<1> DEFINE e(k) == q[f[k]]
           r == Selected(q, S)
<1>12. r \in Seq(T) /\ Len(r) = n /\ \A k \in 1..n : r[k] = q[f[k]]
  <2>1. \A k \in 1..n : e(k) \in T
    BY <1>1, <1>9
  <2>2. r = [k \in 1..n |-> e(k)]
    BY <1>2
  <2> HIDE DEF e, r
  <2>3. r \in Seq(T)
    BY <1>4, <2>1, <2>2, IsASeq
  <2>4. Len(r) = n
    BY <1>4, <2>2
  <2>5. QED
    BY <2>2, <2>3, <2>4 DEF e
<1> HIDE DEF r
<1>13. QED
  BY <1>3, <1>9, <1>10, <1>11, <1>12 DEF r
-----------------------------------------------------------------------------
List(b) == nat_mapping_list[b]

(* Both clocks of a mapping show the same, whatever the direction.          *)
OneClock ==
    \A b \in Buckets : \A k \in 1..Len(List(b)) : List(b)[k].idle = List(b)[k].last

(* A mapping of a rule's port belongs to the host of the rule.              *)
RulesObeyed ==
    \A b \in Buckets : \A k \in 1..Len(List(b)) :
        List(b)[k].ext \in RulePorts => List(b)[k].int = CheckRules(List(b)[k].ext)

(* While nothing stray has come in: a mapping of a port of the pool has     *)
(* its port marked,                                                         *)
Marked ==
    \A b \in Buckets : \A k \in 1..Len(List(b)) :
        List(b)[k].ext \in Pool => List(b)[k].ext \in assigned_ports

(* and is the only one of its port in the whole table.                      *)
Alone ==
    \A b, c \in Buckets : \A k \in 1..Len(List(b)), l \in 1..Len(List(c)) :
        List(b)[k].ext \in Pool /\ List(b)[k].ext = List(c)[l].ext
        => b = c /\ k = l

(* A mapping made by assign_port has a port of the pool, or none.           *)
OutPorts ==
    \A b \in Buckets : \A k \in 1..Len(List(b)) :
        List(b)[k].out => List(b)[k].ext \in Pool \cup {0}

(* The inductive invariant.                                                 *)
IInv ==
    /\ TypeOK /\ NoPortLeak /\ OneClock /\ RulesObeyed /\ OutPorts
    /\ ~stray => Marked /\ Alone
-----------------------------------------------------------------------------
(* Lists and their positions. *)

LEMMA Positions ==
    ASSUME TypeOK, NEW b \in Buckets
    PROVE  /\ List(b) \in Seq(Mapping) /\ Len(List(b)) \in Nat
           /\ \A k \in 1..Len(List(b)) : List(b)[k] \in Mapping /\ List(b)[k] \in In(b)
           /\ \A m \in In(b) : \E k \in 1..Len(List(b)) : m = List(b)[k]
<1>1. List(b) \in Seq(Mapping)
  BY DEF TypeOK, List
<1>2. Len(List(b)) \in Nat /\ DOMAIN List(b) = 1..Len(List(b))
  BY <1>1, LenProperties
<1>3. \A k \in 1..Len(List(b)) : List(b)[k] \in Mapping
  BY <1>1, ElementOfSeq
<1>4. In(b) = {List(b)[k] : k \in 1..Len(List(b))}
  BY <1>2 DEF In, List, ToSet
<1>5. QED
  BY <1>1, <1>2, <1>3, <1>4

(* The least of a set of positions. *)
LEMMA MinIsLeast ==
    ASSUME NEW S \in SUBSET Nat, S # {}
    PROVE  Min(S) \in S /\ \A y \in S : Min(S) <= y
<1>1. \E x \in S : \A y \in S : x <= y
  BY LeastOfNats
<1>2. QED
  BY <1>1 DEF Min

(* The search of DIR_IN ends at the first mapping of the port. *)
LEMMA OfPortFinds ==
    ASSUME TypeOK, NEW b \in Buckets, NEW p
    PROVE  \/ /\ OfPort(b, p) = 0
              /\ \A i \in 1..Len(List(b)) : List(b)[i].ext # p
           \/ /\ OfPort(b, p) \in 1..Len(List(b))
              /\ List(b)[OfPort(b, p)].ext = p
<1> DEFINE I == {i \in 1..Len(List(b)) : List(b)[i].ext = p}
<1>1. OfPort(b, p) = IF I # {} THEN Min(I) ELSE 0
  BY DEF OfPort, Find, SelectInSeq, List
<1>2. I \in SUBSET Nat
  OBVIOUS
<1>3. CASE I = {}
  BY <1>1, <1>3
<1>4. CASE I # {}
  <2>1. Min(I) \in I
    <3> HIDE DEF I
    <3> QED
      BY <1>2, <1>4, MinIsLeast
  <2>2. QED
    BY <1>1, <1>4, <2>1
<1>5. QED
  BY <1>3, <1>4

(* The search of DIR_OUT ends at the first mapping of the host. *)
LEMMA OfHostFinds ==
    ASSUME TypeOK, NEW b \in Buckets, NEW h
    PROVE  OfHost(b, h) = 0 \/ OfHost(b, h) \in 1..Len(List(b))
<1> DEFINE I == {i \in 1..Len(List(b)) : List(b)[i].int = h}
<1>1. OfHost(b, h) = IF I # {} THEN Min(I) ELSE 0
  BY DEF OfHost, Find, SelectInSeq, List
<1>2. I \in SUBSET Nat
  OBVIOUS
<1>3. CASE I = {}
  BY <1>1, <1>3
<1>4. CASE I # {}
  <2>1. Min(I) \in I
    <3> HIDE DEF I
    <3> QED
      BY <1>2, <1>4, MinIsLeast
  <2>2. QED
    BY <1>1, <1>4, <2>1
<1>5. QED
  BY <1>3, <1>4

(* assign_port returns a port of the pool that is not marked, or 0. *)
LEMMA AssignPortIsFree ==
    AssignPort = 0 \/ (AssignPort \in Pool /\ AssignPort \notin assigned_ports)
<1>1. FreePorts \in SUBSET Nat /\ FreePorts = Pool \ assigned_ports
  BY ConstantsAssumption DEF FreePorts, Pool
<1>2. CASE FreePorts = {}
  BY <1>2 DEF AssignPort
<1>3. CASE FreePorts # {}
  <2>1. Min(FreePorts) \in FreePorts
    BY <1>1, <1>3, MinIsLeast
  <2>2. QED
    BY <1>1, <1>3, <2>1 DEF AssignPort
<1>4. QED
  BY <1>2, <1>3

(* The ports of rules are no ports of the pool. *)
LEMMA RulePortsApart ==
    /\ \A p \in RulePorts : p \in Nat /\ p \notin Pool /\ p # 0
    /\ \A p \in Pool : p \in Nat /\ p # 0
<1>1. DOMAIN Rules = 1..Len(Rules)
  BY ConstantsAssumption, LenProperties
<1>2. \A k \in DOMAIN Rules : Rules[k] \in [ext : Nat \ Pool, int : Inside]
  BY <1>1, ConstantsAssumption, ElementOfSeq
<1>3. QED
  BY <1>2, ConstantsAssumption DEF RulePorts, Pool

(* check_rules returns the host of the last rule of the port. *)
LEMMA CheckRulesPicks ==
    ASSUME NEW p
    PROVE  \/ p \notin RulePorts /\ CheckRules(p) = Nobody
           \/ /\ p \in RulePorts
              /\ \E k \in DOMAIN Rules :
                    /\ Rules[k].ext = p /\ CheckRules(p) = Rules[k].int
                    /\ CheckRules(p) \in Inside
                    /\ \A j \in DOMAIN Rules : Rules[j].ext = p => j <= k
<1>1. DOMAIN Rules = 1..Len(Rules) /\ Len(Rules) \in Nat
  BY ConstantsAssumption, LenProperties
<1>2. \A k \in DOMAIN Rules : Rules[k] \in [ext : Nat \ Pool, int : Inside]
  BY <1>1, ConstantsAssumption, ElementOfSeq
<1>3. Matching(p) \in SUBSET Nat /\ \A k \in Matching(p) : k <= Len(Rules)
  BY <1>1 DEF Matching
<1>4. Matching(p) = {} <=> p \notin RulePorts
  BY DEF Matching, RulePorts
<1>5. CASE Matching(p) = {}
  BY <1>4, <1>5 DEF CheckRules
<1>6. CASE Matching(p) # {}
  <2>1. \E m \in Matching(p) : \A a \in Matching(p) : a <= m
    BY <1>1, <1>3, <1>6, GreatestOfBounded
  <2>2. /\ Max(Matching(p)) \in Matching(p)
        /\ \A a \in Matching(p) : a <= Max(Matching(p))
    BY <2>1 DEF Max
  <2>3. CheckRules(p) = Rules[Max(Matching(p))].int
    BY <1>6 DEF CheckRules
  <2>4. \A j \in DOMAIN Rules : Rules[j].ext = p => j \in Matching(p)
    BY DEF Matching
  <2>5. Max(Matching(p)) \in DOMAIN Rules /\ Rules[Max(Matching(p))].ext = p
    BY <2>2 DEF Matching
  <2>6. CheckRules(p) \in Inside
    BY <1>2, <2>3, <2>5
  <2>7. QED
    BY <1>4, <1>6, <2>2, <2>3, <2>4, <2>5, <2>6
<1>7. QED
  BY <1>5, <1>6
-----------------------------------------------------------------------------
(* do_translation. *)

(* Of a mapping, what stays as long as it is in the table. *)
Same(m, n) == n.int = m.int /\ n.ext = m.ext /\ n.out = m.out

LEMMA CarriedMapping ==
    ASSUME NEW m \in Mapping, NEW dir \in {"in", "out"}, NEW fin \in BOOLEAN
    PROVE  /\ Carried(m, dir, fin) \in Mapping /\ Same(m, Carried(m, dir, fin))
           /\ Carried(m, dir, fin).idle = Carried(m, dir, fin).last
<1>1. 0 \in 0..Timeout + 1
  BY ConstantsAssumption
<1>2. QED
  BY <1>1 DEF Carried, Touched, Mapping, Same

LEMMA NewMapping ==
    ASSUME NEW i \in Inside \cup {Nobody}, NEW p \in Nat, NEW out \in BOOLEAN
    PROVE  New(i, p, out) \in Mapping
<1>1. 0 \in 0..Timeout + 1
  BY ConstantsAssumption
<1>2. QED
  BY <1>1 DEF New, Mapping

(* Every mapping keeps its place. *)
Steady ==
    \A c \in Buckets : \A i \in 1..Len(List(c)) :
        /\ i \in 1..Len(List(c)') /\ Same(List(c)[i], List(c)'[i])
        /\ List(c)[i].idle = List(c)[i].last => List(c)'[i].idle = List(c)'[i].last

(* No list gets longer, but that of b, by n, if grows. *)
Added(b, n, grows) ==
    \A c \in Buckets : \A i \in 1..Len(List(c)') :
        \/ i \in 1..Len(List(c))
        \/ grows /\ c = b /\ i = Len(List(b)) + 1 /\ List(c)'[i] = n

(* A packet either finds its mapping or appends it; the rest stays. *)
LEMMA TranslateStep ==
    ASSUME TypeOK, NEW b \in Buckets, NEW k \in 0..Len(List(b)), NEW m \in Mapping,
           NEW dir \in {"in", "out"}, NEW fin \in BOOLEAN,
           Translate(b, k, m, dir, fin)
    PROVE  /\ nat_mapping_list' \in [Buckets -> Seq(Mapping)]
           /\ Steady
           /\ Added(b, Carried(m, dir, fin), k = 0)
           /\ k = 0 => Carried(m, dir, fin) \in Mappings'
<1> DEFINE n == Carried(m, dir, fin)
           q == List(b)
           new == IF k = 0 THEN Append(q, n)
                           ELSE [q EXCEPT ![k] = Carried(q[k], dir, fin)]
<1>1. nat_mapping_list \in [Buckets -> Seq(Mapping)]
  BY DEF TypeOK
<1>2. nat_mapping_list' = [nat_mapping_list EXCEPT ![b] = new]
  BY DEF Translate, List
<1>3. List(b)' = new /\ \A c \in Buckets : c # b => List(c)' = List(c)
  BY <1>1, <1>2 DEF List
<1>4. q \in Seq(Mapping) /\ Len(q) \in Nat
  BY Positions
<1>5. /\ n \in Mapping
      /\ k # 0 => /\ q[k] \in Mapping /\ k \in 1..Len(q)
                  /\ Carried(q[k], dir, fin) \in Mapping
                  /\ Same(q[k], Carried(q[k], dir, fin))
                  /\ Carried(q[k], dir, fin).idle = Carried(q[k], dir, fin).last
  <2>1. k # 0 => k \in 1..Len(q)
    BY <1>4
  <2>2. k # 0 => q[k] \in Mapping
    BY <1>4, <2>1, ElementOfSeq
  <2>3. QED
    BY <2>1, <2>2, CarriedMapping
<1> HIDE DEF n, q
<1>6. CASE k = 0
  <2>1. new = Append(q, n)
    BY <1>6
  <2>2. /\ new \in Seq(Mapping) /\ Len(new) = Len(q) + 1 /\ new[Len(q) + 1] = n
        /\ \A i \in 1..Len(q) : new[i] = q[i]
    BY <1>4, <1>5, <2>1, AppendProperties
  <2> HIDE DEF new
  <2>3. \A i \in 1..Len(q) : i \in 1..Len(new)
    BY <1>4, <2>2
  <2>4. \A i \in 1..Len(new) : i \in 1..Len(q) \/ i = Len(q) + 1
    BY <1>4, <2>2
  <2>5. Steady
    BY <1>3, <2>2, <2>3 DEF Steady, Same, q
  <2>6. Added(b, n, k = 0)
    BY <1>3, <1>6, <2>2, <2>4 DEF Added, q
  <2>7. nat_mapping_list' \in [Buckets -> Seq(Mapping)]
    BY <1>1, <1>2, <2>2
  <2>8. n \in Mappings'
    <3>1. DOMAIN new = 1..Len(new) /\ Len(q) + 1 \in 1..Len(new)
      BY <1>4, <2>2, LenProperties
    <3>2. n \in ToSet(new)
      BY <2>2, <3>1 DEF ToSet
    <3>3. ToSet(new) = In(b)'
      BY <1>3 DEF In, List
    <3>4. QED
      BY <3>2, <3>3 DEF Mappings
  <2>9. QED
    BY <2>5, <2>6, <2>7, <2>8 DEF n
<1>7. CASE k # 0
  <2>1. new = [q EXCEPT ![k] = Carried(q[k], dir, fin)]
    BY <1>7
  <2>2. /\ new \in Seq(Mapping) /\ Len(new) = Len(q)
        /\ \A i \in 1..Len(q) :
               new[i] = IF i = k THEN Carried(q[k], dir, fin) ELSE q[i]
    BY <1>4, <1>5, <1>7, <2>1, ExceptSeq
  <2> HIDE DEF new
  <2>3. \A i \in 1..Len(q) :
            /\ Same(q[i], new[i])
            /\ q[i].idle = q[i].last => new[i].idle = new[i].last
    BY <1>5, <1>7, <2>2 DEF Same
  <2>4. Steady
    BY <1>3, <2>2, <2>3 DEF Steady, Same, q
  <2>5. Added(b, n, k = 0)
    BY <1>3, <2>2 DEF Added, q
  <2>6. nat_mapping_list' \in [Buckets -> Seq(Mapping)]
    BY <1>1, <1>2, <2>2
  <2>7. QED
    BY <1>7, <2>4, <2>5, <2>6 DEF n
<1>8. QED
  BY <1>6, <1>7

(* What a packet may do to the table: n, when it is new, has what its port  *)
(* asks for, and the port is one that was free.                             *)
LEMMA PacketInv ==
    ASSUME IInv, NEW b, NEW n, NEW grows \in BOOLEAN,
           nat_mapping_list' \in [Buckets -> Seq(Mapping)], Steady, Added(b, n, grows),
           grows => /\ n \in Mappings' /\ n.idle = n.last
                    /\ n.ext \in RulePorts => n.int = CheckRules(n.ext)
                    /\ n.out => n.ext \in Pool \cup {0},
           \/ assigned_ports' = assigned_ports
           \/ grows /\ n.ext \in Pool /\ assigned_ports' = assigned_ports \cup {n.ext},
           nat_thread' \in {"asleep", "awake"}, stray' \in BOOLEAN, stray => stray',
           ~stray' => (grows /\ n.ext \in Pool
                       => n.ext \notin assigned_ports /\ n.ext \in assigned_ports')
    PROVE  IInv'
<1>1. TypeOK'
  BY DEF IInv, TypeOK
<1>2. /\ TypeOK /\ NoPortLeak /\ OneClock /\ RulesObeyed /\ OutPorts
      /\ ~stray => Marked /\ Alone
  BY DEF IInv
<1>3. \A c \in Buckets : \A i \in 1..Len(List(c)') :
          \/ i \in 1..Len(List(c)) /\ Same(List(c)[i], List(c)'[i])
          \/ grows /\ c = b /\ i = Len(List(b)) + 1 /\ List(c)'[i] = n
  BY DEF Added, Steady
<1>4. NoPortLeak'
  <2> SUFFICES ASSUME NEW p \in assigned_ports' PROVE \E m \in Mappings' : m.ext = p
    BY DEF NoPortLeak
  <2>1. CASE p \in assigned_ports
    <3>1. PICK c \in Buckets : \E m \in In(c) : m.ext = p
      BY <1>2, <2>1 DEF NoPortLeak, Mappings
    <3>2. PICK i \in 1..Len(List(c)) : List(c)[i].ext = p
      BY <1>2, <3>1, Positions
    <3>3. i \in 1..Len(List(c)') /\ List(c)'[i].ext = p
      BY <3>2 DEF Steady, Same
    <3>4. List(c)'[i] \in In(c)'
      <4>1. TypeOK' => List(c)'[i] \in In(c)'
        BY <1>1, <3>3, LenProperties DEF TypeOK, In, List, ToSet
      <4>2. QED
        BY <1>1, <4>1
    <3>5. QED
      BY <3>3, <3>4 DEF Mappings
  <2>2. CASE p \notin assigned_ports
    BY <2>2
  <2>3. QED
    BY <2>1, <2>2
<1>5. OneClock'
  BY <1>2, <1>3 DEF OneClock, Steady
<1>6. RulesObeyed'
  BY <1>2, <1>3 DEF RulesObeyed, Same
<1>7. OutPorts'
  BY <1>2, <1>3 DEF OutPorts, Same
<1>8. ASSUME ~stray' PROVE Marked' /\ Alone'
  <2>1. Marked /\ Alone
    BY <1>2, <1>8
  <2>2. Marked'
    BY <1>3, <1>8, <2>1 DEF Marked, Same
  <2>3. Alone'
    <3> SUFFICES ASSUME NEW c \in Buckets, NEW d \in Buckets,
                        NEW k \in 1..Len(List(c)'), NEW l \in 1..Len(List(d)'),
                        List(c)'[k].ext \in Pool, List(c)'[k].ext = List(d)'[l].ext
                 PROVE  c = d /\ k = l
      BY DEF Alone
    <3>1. CASE k \in 1..Len(List(c)) /\ l \in 1..Len(List(d))
      <4>1. Same(List(c)[k], List(c)'[k]) /\ Same(List(d)[l], List(d)'[l])
        BY <3>1 DEF Steady
      <4>2. List(c)[k].ext \in Pool /\ List(c)[k].ext = List(d)[l].ext
        BY <4>1 DEF Same
      <4>3. QED
        BY <2>1, <3>1, <4>2, Zenon DEF Alone
    <3>2. CASE k \in 1..Len(List(c)) /\ List(d)'[l] = n /\ grows
      <4>1. Same(List(c)[k], List(c)'[k])
        BY <3>2 DEF Steady
      <4>2. QED
        BY <1>8, <2>1, <3>2, <4>1 DEF Marked, Same
    <3>3. CASE l \in 1..Len(List(d)) /\ List(c)'[k] = n /\ grows
      <4>1. Same(List(d)[l], List(d)'[l])
        BY <3>3 DEF Steady
      <4>2. QED
        BY <1>8, <2>1, <3>3, <4>1 DEF Marked, Same
    <3>4. CASE c = b /\ d = b /\ k = Len(List(b)) + 1 /\ l = Len(List(b)) + 1
      BY <3>4
    <3>5. QED
      BY <1>3, <3>1, <3>2, <3>3, <3>4
  <2>4. QED
    BY <2>2, <2>3
<1>9. QED
  BY <1>1, <1>4, <1>5, <1>6, <1>7, <1>8 DEF IInv

LEMMA TranslateInInv ==
    ASSUME IInv, NEW r \in Remotes, NEW p \in Nat, NEW fin \in BOOLEAN,
           TranslateIn(r, p, fin)
    PROVE  IInv' /\ Steady
<1> DEFINE b == Hash[r]
           k == OfPort(b, p)
           m == New(CheckRules(p), p, FALSE)
           n == Carried(m, "in", fin)
<1>1. /\ Translate(b, k, m, "in", fin)
      /\ stray' = (stray \/ (k = 0 /\ CheckRules(p) = Nobody))
      /\ UNCHANGED <<assigned_ports, nat_thread>>
  BY DEF TranslateIn
<1>2. b \in Buckets /\ TypeOK
  BY ConstantsAssumption DEF IInv
<1> HIDE DEF b
<1>3. k \in 0..Len(List(b))
  BY <1>2, OfPortFinds, Positions
<1>4. CheckRules(p) \in Inside \cup {Nobody}
  BY CheckRulesPicks
<1>5. m \in Mapping /\ m.ext = p /\ m.int = CheckRules(p) /\ m.out = FALSE
  BY <1>4, NewMapping DEF New
<1> HIDE DEF k, m
<1>6. n \in Mapping /\ n.ext = p /\ n.int = CheckRules(p) /\ n.out = FALSE /\ n.idle = n.last
  <2>1. n \in Mapping /\ Same(m, n) /\ n.idle = n.last
    BY <1>5, CarriedMapping
  <2>2. QED
    BY <1>5, <2>1 DEF Same
<1>7. /\ nat_mapping_list' \in [Buckets -> Seq(Mapping)] /\ Steady
      /\ Added(b, n, k = 0) /\ (k = 0 => n \in Mappings')
  BY <1>1, <1>2, <1>3, <1>5, TranslateStep
<1> HIDE DEF n
<1>8. k = 0 /\ p \in Pool => stray'
  BY <1>1, CheckRulesPicks, RulePortsApart
<1>9. stray \in BOOLEAN
  BY <1>2 DEF TypeOK
<1>10. QED
  <2> DEFINE grows == k = 0
  <2>1. grows \in BOOLEAN /\ Added(b, n, grows) /\ (grows => n \in Mappings')
    BY <1>7
  <2>2. stray' \in BOOLEAN /\ (stray => stray') /\ ~(~stray' /\ grows /\ n.ext \in Pool)
    BY <1>1, <1>6, <1>8, <1>9
  <2>3. nat_thread' \in {"asleep", "awake"}
    BY <1>1, <1>2 DEF TypeOK
  <2> HIDE DEF grows
  <2>4. QED
    BY <1>1, <1>2, <1>6, <1>7, <2>1, <2>2, <2>3, PacketInv

LEMMA TranslateOutInv ==
    ASSUME IInv, NEW i \in Inside, NEW r \in Remotes, NEW fin \in BOOLEAN,
           TranslateOut(i, r, fin)
    PROVE  IInv' /\ Steady
<1> DEFINE b == Hash[r]
           k == OfHost(b, i)
           p == AssignPort
           m == New(i, p, TRUE)
           n == Carried(m, "out", fin)
<1>1. /\ Translate(b, k, m, "out", fin)
      /\ assigned_ports' = IF k = 0 /\ p # 0 THEN assigned_ports \cup {p}
                                             ELSE assigned_ports
      /\ UNCHANGED <<nat_thread, stray>>
  BY DEF TranslateOut
<1>2. b \in Buckets /\ TypeOK
  BY ConstantsAssumption DEF IInv
<1> HIDE DEF b
<1>3. k \in 0..Len(List(b))
  BY <1>2, OfHostFinds, Positions
<1>4. p = 0 \/ (p \in Pool /\ p \notin assigned_ports)
  BY AssignPortIsFree
<1>5. p \in Nat /\ p \notin RulePorts /\ (p \in Pool <=> p # 0)
  BY <1>4, RulePortsApart
<1> HIDE DEF k, p
<1>6. m \in Mapping /\ m.ext = p /\ m.int = i
  BY <1>5, NewMapping DEF New
<1> HIDE DEF m
<1>7. n \in Mapping /\ n.ext = p /\ n.int = i /\ n.idle = n.last
  <2>1. n \in Mapping /\ Same(m, n) /\ n.idle = n.last
    BY <1>6, CarriedMapping
  <2>2. QED
    BY <1>6, <2>1 DEF Same
<1>8. /\ nat_mapping_list' \in [Buckets -> Seq(Mapping)] /\ Steady
      /\ Added(b, n, k = 0) /\ (k = 0 => n \in Mappings')
  BY <1>1, <1>2, <1>3, <1>6, TranslateStep
<1> HIDE DEF n
<1>9. stray \in BOOLEAN
  BY <1>2 DEF TypeOK
<1>10. QED
  <2> DEFINE grows == k = 0
  <2>1. grows \in BOOLEAN /\ Added(b, n, grows) /\ (grows => n \in Mappings')
    BY <1>8
  <2>2. stray' \in BOOLEAN /\ (stray => stray')
    BY <1>1, <1>9
  <2>3. \/ assigned_ports' = assigned_ports
        \/ grows /\ n.ext \in Pool /\ assigned_ports' = assigned_ports \cup {n.ext}
    BY <1>1, <1>5, <1>7
  <2>4. grows /\ n.ext \in Pool => n.ext \notin assigned_ports /\ n.ext \in assigned_ports'
    BY <1>1, <1>4, <1>5, <1>7
  <2>5. n.ext \notin RulePorts /\ n.ext \in Pool \cup {0}
    BY <1>4, <1>5, <1>7
  <2>6. nat_thread' \in {"asleep", "awake"}
    BY <1>1, <1>2 DEF TypeOK
  <2> HIDE DEF grows
  <2>7. QED
    BY <1>1, <1>2, <1>7, <1>8, <2>1, <2>2, <2>3, <2>4, <2>5, <2>6, PacketInv
-----------------------------------------------------------------------------
(* nat_timeout. *)

(* A list of n mappings, given by their places. *)
LEMMA ListOfPlaces ==
    ASSUME NEW n \in Nat, NEW f \in [1..n -> Mapping]
    PROVE  f \in Seq(Mapping) /\ Len(f) = n
<1>1. f \in Seq(Mapping)
  BY SeqDef
<1>2. DOMAIN f = 1..n /\ Len(f) \in Nat /\ DOMAIN f = 1..Len(f)
  BY <1>1, LenProperties
<1>3. QED
  BY <1>1, <1>2

LEMMA TickStep ==
    ASSUME TypeOK, Tick
    PROVE  /\ nat_mapping_list' \in [Buckets -> Seq(Mapping)]
           /\ Steady
           /\ \A b \in Buckets : Len(List(b)') = Len(List(b))
<1> DEFINE Aged(m) == [m EXCEPT !.idle = Older(@), !.last = Older(@)]
           new(b) == [k \in DOMAIN List(b) |-> Aged(List(b)[k])]
<1>1. \A b \in Buckets : List(b)' = new(b)
  BY DEF Tick, List
<1>2. ASSUME NEW m \in Mapping
      PROVE  /\ Aged(m) \in Mapping /\ Same(m, Aged(m))
             /\ m.idle = m.last => Aged(m).idle = Aged(m).last
  <2>1. \A a \in 0..Timeout + 1 : Older(a) \in 0..Timeout + 1
    BY ConstantsAssumption DEF Older
  <2>2. QED
    BY <2>1 DEF Mapping, Same
<1> HIDE DEF Aged
<1>3. ASSUME NEW b \in Buckets
      PROVE  /\ List(b)' \in Seq(Mapping) /\ Len(List(b)') = Len(List(b))
             /\ \A i \in 1..Len(List(b)) :
                    /\ i \in 1..Len(List(b)') /\ Same(List(b)[i], List(b)'[i])
                    /\ List(b)[i].idle = List(b)[i].last
                       => List(b)'[i].idle = List(b)'[i].last
  <2>1. /\ List(b) \in Seq(Mapping) /\ Len(List(b)) \in Nat
        /\ \A k \in 1..Len(List(b)) : List(b)[k] \in Mapping
    BY Positions
  <2>2. DOMAIN List(b) = 1..Len(List(b))
    BY <2>1, LenProperties
  <2>3. new(b) \in [1..Len(List(b)) -> Mapping]
    BY <1>2, <2>1, <2>2
  <2>4. new(b) \in Seq(Mapping) /\ Len(new(b)) = Len(List(b))
    <3> HIDE DEF new
    <3> QED
      BY <2>1, <2>3, ListOfPlaces
  <2>5. \A i \in 1..Len(List(b)) : new(b)[i] = Aged(List(b)[i])
    BY <2>2
  <2> HIDE DEF new
  <2>6. QED
    BY <1>1, <1>2, <2>1, <2>4, <2>5
<1>4. nat_mapping_list' \in [Buckets -> Seq(Mapping)]
  <2>1. nat_mapping_list' = [b \in Buckets |-> List(b)']
    BY DEF Tick, List
  <2>2. QED
    BY <1>3, <2>1
<1>5. QED
  BY <1>3, <1>4 DEF Steady

LEMMA TickInv == ASSUME IInv, Tick PROVE IInv' /\ Steady
<1>1. TypeOK /\ (\A b \in Buckets : Len(List(b)) \in Nat)
  BY Positions DEF IInv
<1>2. /\ nat_mapping_list' \in [Buckets -> Seq(Mapping)] /\ Steady
      /\ \A b \in Buckets : Len(List(b)') = Len(List(b))
  BY <1>1, TickStep
<1>3. Added("", "", FALSE)
  BY <1>2 DEF Added
<1>4. /\ assigned_ports' = assigned_ports /\ stray' = stray
      /\ nat_thread' \in {"asleep", "awake"} /\ stray \in BOOLEAN
  BY <1>1 DEF Tick, TypeOK
<1> DEFINE never == FALSE
<1>5. Added("", "", never) /\ ~never /\ never \in BOOLEAN
  BY <1>3
<1> HIDE DEF never
<1>6. QED
  BY <1>1, <1>2, <1>4, <1>5, PacketInv

(* What the sweep takes out of the list of b, and leaves of the table.      *)
Taken(b, finished) == {m \in In(b) : Idle(m) \/ <<b, m>> \in finished}

(* Every place of the new table was some place of the old one, two places   *)
(* were two; and a mapping is taken out or kept.                            *)
LEMMA SweptLists ==
    ASSUME TypeOK, NEW b \in Buckets, NEW gone,
           List(b)' = Selected(List(b), In(b) \ gone)
    PROVE  /\ List(b)' \in Seq(Mapping)
           /\ In(b) \ gone \subseteq In(b)'
           /\ \E f \in [1..Len(List(b)') -> 1..Len(List(b))] :
                 /\ \A i \in 1..Len(List(b)') :
                        List(b)'[i] = List(b)[f[i]] /\ List(b)'[i] \in In(b) \ gone
                 /\ \A i, j \in 1..Len(List(b)') : f[i] = f[j] => i = j
<1> DEFINE q == List(b)
           r == List(b)'
           S == In(b) \ gone
<1>1. q \in Seq(Mapping) /\ Len(q) \in Nat
  BY Positions
<1>2. r = Selected(q, S)
  OBVIOUS
<1> HIDE DEF q, r, S
<1>3. r \in Seq(Mapping)
  BY <1>1, <1>2, SelectedPlaces
<1>4. PICK f \in [1..Len(r) -> 1..Len(q)] :
          /\ \A j \in 1..Len(r) : r[j] = q[f[j]] /\ q[f[j]] \in S
          /\ \A i, j \in 1..Len(r) : f[i] = f[j] => i = j
          /\ \A k \in 1..Len(q) : q[k] \in S => \E j \in 1..Len(r) : f[j] = k
  BY <1>1, <1>2, SelectedPlaces
<1>5. \A j \in 1..Len(r) : r[j] = q[f[j]] /\ r[j] \in S
  BY <1>4
<1> USE DEF q, r, S
<1>6. In(b) \ gone \subseteq In(b)'
  <2> SUFFICES ASSUME NEW m \in In(b) \ gone PROVE m \in In(b)'
    OBVIOUS
  <2>1. PICK k \in 1..Len(q) : m = q[k]
    BY Positions
  <2>2. PICK i \in 1..Len(r) : f[i] = k
    BY <1>4, <2>1
  <2>3. r[i] = m /\ i \in DOMAIN r
    BY <1>3, <1>5, <2>1, <2>2, LenProperties
  <2>4. In(b)' = ToSet(r)
    BY DEF In, List
  <2>5. QED
    BY <2>3, <2>4 DEF ToSet
<1>7. QED
  BY <1>3, <1>4, <1>5, <1>6

LEMMA SweepStep ==
    ASSUME TypeOK, Sweep
    PROVE  \E finished \in SUBSET {x \in Buckets \X Mappings :
                                      x[2] \in In(x[1]) /\ BothFin(x[2])} :
              /\ \A b \in Buckets :
                    List(b)' = Selected(List(b), In(b) \ Taken(b, finished))
              /\ nat_mapping_list' = [b \in Buckets |-> List(b)']
              /\ assigned_ports' =
                    assigned_ports \ {m.ext : m \in UNION {Taken(b, finished) : b \in Buckets}}
              /\ nat_thread' = "asleep" /\ stray' = stray
BY DEF Sweep, Taken, Freed, List

LEMMA SweepInv == ASSUME IInv, Sweep PROVE IInv'
<1>1. /\ TypeOK /\ NoPortLeak /\ OneClock /\ RulesObeyed /\ OutPorts
      /\ ~stray => Marked /\ Alone
  BY DEF IInv
<1>2. PICK finished :
          /\ \A b \in Buckets :
                List(b)' = Selected(List(b), In(b) \ Taken(b, finished))
          /\ nat_mapping_list' = [b \in Buckets |-> List(b)']
          /\ assigned_ports' =
                assigned_ports \ {m.ext : m \in UNION {Taken(b, finished) : b \in Buckets}}
          /\ nat_thread' = "asleep" /\ stray' = stray
  BY <1>1, SweepStep
<1> DEFINE Gone(b) == Taken(b, finished)
<1> HIDE DEF Gone
<1>3. ASSUME NEW b \in Buckets
      PROVE  /\ List(b)' \in Seq(Mapping)
             /\ In(b) \ Gone(b) \subseteq In(b)'
             /\ \E f \in [1..Len(List(b)') -> 1..Len(List(b))] :
                   /\ \A i \in 1..Len(List(b)') :
                          List(b)'[i] = List(b)[f[i]] /\ List(b)'[i] \in In(b) \ Gone(b)
                   /\ \A i, j \in 1..Len(List(b)') : f[i] = f[j] => i = j
  BY <1>1, <1>2, SweptLists DEF Gone
<1>4. assigned_ports' = assigned_ports \ {m.ext : m \in UNION {Gone(b) : b \in Buckets}}
  BY <1>2 DEF Gone
<1>5. \A b \in Buckets : \A i \in 1..Len(List(b)') : \E k \in 1..Len(List(b)) :
          List(b)'[i] = List(b)[k] /\ List(b)[k] \notin Gone(b)
  BY <1>3
<1>6. TypeOK'
  <2>1. nat_mapping_list' \in [Buckets -> Seq(Mapping)]
    BY <1>2, <1>3
  <2>2. QED
    BY <1>1, <1>2, <1>4, <2>1 DEF TypeOK
<1>7. NoPortLeak'
  <2> SUFFICES ASSUME NEW p \in assigned_ports' PROVE \E m \in Mappings' : m.ext = p
    BY DEF NoPortLeak
  <2>1. PICK b \in Buckets : \E m \in In(b) : m.ext = p
    BY <1>1, <1>4 DEF NoPortLeak, Mappings
  <2>2. PICK m \in In(b) : m.ext = p
    BY <2>1
  <2>3. m \notin Gone(b)
    BY <1>4, <2>2
  <2>4. m \in In(b)'
    BY <1>3, <2>3
  <2>5. QED
    BY <2>2, <2>4 DEF Mappings
<1>8. OneClock' /\ RulesObeyed' /\ OutPorts'
  <2>1. OneClock'
    BY <1>1, <1>5 DEF OneClock
  <2>2. RulesObeyed'
    BY <1>1, <1>5 DEF RulesObeyed
  <2>3. OutPorts'
    BY <1>1, <1>5 DEF OutPorts
  <2>4. QED
    BY <2>1, <2>2, <2>3
<1>9. ASSUME ~stray' PROVE Marked' /\ Alone'
  <2>1. Marked /\ Alone
    BY <1>1, <1>2, <1>9
  <2>2. Marked'
    <3> SUFFICES ASSUME NEW b \in Buckets, NEW i \in 1..Len(List(b)'),
                        List(b)'[i].ext \in Pool
                 PROVE  List(b)'[i].ext \in assigned_ports'
      BY DEF Marked
    <3>1. PICK k \in 1..Len(List(b)) :
              List(b)'[i] = List(b)[k] /\ List(b)[k] \notin Gone(b)
      BY <1>5
    <3>2. List(b)[k].ext \in assigned_ports
      BY <2>1, <3>1 DEF Marked
    <3>3. ASSUME NEW c \in Buckets, NEW m \in Gone(c), m.ext = List(b)[k].ext
          PROVE  FALSE
      <4>1. m \in In(c)
        BY <3>3 DEF Gone, Taken
      <4>2. PICK l \in 1..Len(List(c)) : m = List(c)[l]
        BY <1>1, <4>1, Positions
      <4>3. List(b)[k].ext \in Pool /\ List(b)[k].ext = List(c)[l].ext
        BY <3>1, <3>3, <4>2
      <4>4. b = c /\ k = l
        BY <2>1, <4>3, Zenon DEF Alone
      <4>5. QED
        BY <3>1, <4>2, <4>4
    <3>4. QED
      BY <1>4, <3>1, <3>2, <3>3
  <2>3. Alone'
    <3> SUFFICES ASSUME NEW b \in Buckets, NEW c \in Buckets,
                        NEW i \in 1..Len(List(b)'), NEW j \in 1..Len(List(c)'),
                        List(b)'[i].ext \in Pool, List(b)'[i].ext = List(c)'[j].ext
                 PROVE  b = c /\ i = j
      BY DEF Alone
    <3>1. PICK f \in [1..Len(List(b)') -> 1..Len(List(b))] :
              /\ \A x \in 1..Len(List(b)') :
                     List(b)'[x] = List(b)[f[x]] /\ List(b)'[x] \in In(b) \ Gone(b)
              /\ \A x, y \in 1..Len(List(b)') : f[x] = f[y] => x = y
      BY <1>3, Zenon
    <3>2. PICK g \in [1..Len(List(c)') -> 1..Len(List(c))] :
              /\ \A x \in 1..Len(List(c)') :
                     List(c)'[x] = List(c)[g[x]] /\ List(c)'[x] \in In(c) \ Gone(c)
              /\ \A x, y \in 1..Len(List(c)') : g[x] = g[y] => x = y
      BY <1>3, Zenon
    <3>3. b = c
      <4>1. List(b)[f[i]].ext \in Pool /\ List(b)[f[i]].ext = List(c)[g[j]].ext
        BY <3>1, <3>2
      <4>2. f[i] \in 1..Len(List(b)) /\ g[j] \in 1..Len(List(c))
        OBVIOUS
      <4>3. QED
        BY <2>1, <4>1, <4>2, Zenon DEF Alone
    <3>4. f[i] = f[j]
      <4>1. j \in 1..Len(List(b)') /\ List(b)'[j] = List(b)[f[j]]
        BY <3>1, <3>3
      <4>2. List(b)[f[i]].ext \in Pool /\ List(b)[f[i]].ext = List(b)[f[j]].ext
        BY <3>1, <3>3, <4>1
      <4>3. f[i] \in 1..Len(List(b)) /\ f[j] \in 1..Len(List(b))
        BY <4>1
      <4>4. QED
        BY <2>1, <4>2, <4>3, Zenon DEF Alone
    <3>5. QED
      BY <3>1, <3>3, <3>4
  <2>4. QED
    BY <2>2, <2>3
<1>10. QED
  BY <1>6, <1>7, <1>8, <1>9 DEF IInv
-----------------------------------------------------------------------------
(* The specification. *)

LEMMA InitInv == ASSUME Init PROVE IInv
<1>1. <<>> \in Seq(Mapping) /\ Len(<<>>) = 0
  OBVIOUS
<1>2. \A b \in Buckets : List(b) = <<>>
  BY DEF Init, List
<1>3. TypeOK
  BY <1>1 DEF Init, TypeOK
<1>4. NoPortLeak
  BY DEF Init, NoPortLeak
<1>5. \A b \in Buckets : 1..Len(List(b)) = {}
  BY <1>1, <1>2
<1>6. OneClock /\ RulesObeyed /\ OutPorts /\ Marked /\ Alone
  BY <1>5 DEF OneClock, RulesObeyed, OutPorts, Marked, Alone
<1>7. QED
  BY <1>3, <1>4, <1>6 DEF IInv

(* Every step but the sweep leaves each mapping in its place. *)
LEMMA NextStep ==
    ASSUME IInv, [Next]_vars
    PROVE  IInv' /\ (Steady \/ Sweep)
<1>1. TypeOK
  BY DEF IInv
<1>2. ASSUME NEW r \in Remotes, NEW fin \in BOOLEAN,
             NEW p \in Knocked \cup RulePorts \cup {m.ext : m \in In(Hash[r])},
             TranslateIn(r, p, fin)
      PROVE  IInv' /\ Steady
  <2>1. Hash[r] \in Buckets
    BY DEF Buckets
  <2>2. ASSUME NEW m \in In(Hash[r]) PROVE m.ext \in Nat
    <3>1. m \in Mapping
      BY <1>1, <2>1, Positions
    <3>2. QED
      BY <3>1 DEF Mapping
  <2>3. p \in Nat
    BY <2>2, ConstantsAssumption, RulePortsApart
  <2>4. QED
    BY <1>2, <2>3, TranslateInInv
<1>3. ASSUME NEW r \in Remotes, NEW fin \in BOOLEAN, NEW i \in Inside,
             TranslateOut(i, r, fin)
      PROVE  IInv' /\ Steady
  BY <1>3, TranslateOutInv
<1>4. CASE Tick
  BY <1>4, TickInv
<1>5. CASE Sweep
  BY <1>5, SweepInv
<1>6. CASE UNCHANGED vars
  <2>1. IInv'
    BY <1>6 DEF IInv, TypeOK, NoPortLeak, OneClock, RulesObeyed, OutPorts, Marked, Alone,
                Mappings, In, List, vars
  <2>2. Steady
    BY <1>6 DEF Steady, Same, List, vars
  <2>3. QED
    BY <2>1, <2>2
<1>7. QED
  BY <1>2, <1>3, <1>4, <1>5, <1>6 DEF Next

(* The inductive invariant of the translator holds.                         *)
THEOREM Inductive == Spec => []IInv
<1>1. Init => IInv
  BY InitInv
<1>2. IInv /\ [Next]_vars => IInv'
  BY NextStep
<1>3. QED
  BY <1>1, <1>2, PTL DEF Spec

(* In every run the table has the types stated, only ports of the pool are  *)
(* marked, and no port stays marked without a mapping that uses it          *)
(* (nat.c:54-62, 179-203).                                                  *)
THEOREM NoPortLost == Spec => []NatInv
<1>1. IInv => NatInv
  BY DEF IInv, NatInv
<1>2. QED
  BY <1>1, Inductive, PTL

LEMMA AnswersComeBack == ASSUME IInv PROVE ReplyReachesHost
<1> SUFFICES ASSUME ~stray, NEW b \in Buckets, NEW m \in In(b), m.out, m.ext # 0
             PROVE  nat_mapping_list[b][OfPort(b, m.ext)].int = m.int
  BY DEF ReplyReachesHost, ComesBack
<1>1. TypeOK /\ OutPorts /\ Alone
  BY DEF IInv
<1>2. PICK k \in 1..Len(List(b)) : m = List(b)[k]
  BY <1>1, Positions
<1>3. m.ext \in Pool
  BY <1>1, <1>2 DEF OutPorts
<1>4. /\ OfPort(b, m.ext) \in 1..Len(List(b))
      /\ List(b)[OfPort(b, m.ext)].ext = m.ext
  BY <1>1, <1>2, OfPortFinds
<1>5. OfPort(b, m.ext) = k
  BY <1>1, <1>2, <1>3, <1>4 DEF Alone
<1>6. QED
  BY <1>2, <1>5 DEF List

LEMMA LastRuleDecides == ASSUME IInv PROVE RuleReachesHost
<1> SUFFICES ASSUME NEW b \in Buckets, NEW m \in In(b), NEW k \in DOMAIN Rules,
                    m.ext = Rules[k].ext,
                    \A j \in DOMAIN Rules : j > k => Rules[j].ext # Rules[k].ext
             PROVE  m.int = Rules[k].int
  BY DEF RuleReachesHost
<1>1. TypeOK /\ RulesObeyed
  BY DEF IInv
<1>2. PICK i \in 1..Len(List(b)) : m = List(b)[i]
  BY <1>1, Positions
<1>3. m.ext \in RulePorts
  BY DEF RulePorts
<1>4. m.int = CheckRules(m.ext)
  BY <1>1, <1>2, <1>3 DEF RulesObeyed
<1>5. PICK n \in DOMAIN Rules :
          /\ Rules[n].ext = m.ext /\ CheckRules(m.ext) = Rules[n].int
          /\ \A j \in DOMAIN Rules : Rules[j].ext = m.ext => j <= n
  BY <1>3, CheckRulesPicks
<1>6. DOMAIN Rules = 1..Len(Rules) /\ Len(Rules) \in Nat
  BY ConstantsAssumption, LenProperties
<1>7. k <= n /\ ~(n > k)
  BY <1>5
<1>8. n = k
  BY <1>6, <1>7
<1>9. QED
  BY <1>4, <1>5, <1>8

(* As long as nothing has come in unasked, an answer to a packet that went  *)
(* out through a port of the pool is given to the host it came from; and at *)
(* all times a packet to the port of a rule is given to the host of the     *)
(* last rule of that port (nat.c:64-72, 93-131).                            *)
THEOREM RightHostAnswered == Spec => []ReachesHost
<1>1. IInv => ReachesHost
  BY AnswersComeBack, LastRuleDecides DEF ReachesHost
<1>2. QED
  BY <1>1, Inductive, PTL

LEMMA ActiveStays ==
    ASSUME IInv, [Next]_vars, NEW b \in Buckets, NEW m \in In(b),
           m.last <= Timeout, ~BothFin(m)
    PROVE  \E n \in In(b)' : n.int = m.int /\ n.ext = m.ext
<1>1. IInv' /\ (Steady \/ Sweep)
  BY NextStep
<1>2. TypeOK /\ TypeOK' /\ OneClock
  BY <1>1 DEF IInv
<1>3. PICK k \in 1..Len(List(b)) : m = List(b)[k]
  BY <1>2, Positions
<1>4. CASE Steady
  <2>1. k \in 1..Len(List(b)') /\ Same(m, List(b)'[k])
    BY <1>3, <1>4 DEF Steady
  <2>2. List(b)' \in Seq(Mapping)
    BY <1>2 DEF TypeOK, List
  <2>3. List(b)'[k] \in In(b)'
    BY <2>1, <2>2, LenProperties DEF In, List, ToSet
  <2>4. QED
    BY <2>1, <2>3 DEF Same
<1>5. CASE Sweep
  <2>1. PICK finished \in SUBSET {x \in Buckets \X Mappings :
                                     x[2] \in In(x[1]) /\ BothFin(x[2])} :
            List(b)' = Selected(List(b), In(b) \ Taken(b, finished))
    BY <1>2, <1>5, SweepStep
  <2>2. In(b) \ Taken(b, finished) \subseteq In(b)'
    BY <1>2, <2>1, SweptLists
  <2>3. ~Idle(m)
    <3>1. m.idle = m.last /\ m \in Mapping
      BY <1>2, <1>3, Positions DEF OneClock
    <3>2. m.last \in Int /\ Timeout \in Int
      BY <3>1, ConstantsAssumption DEF Mapping
    <3>3. QED
      BY <3>1, <3>2 DEF Idle
  <2>4. <<b, m>> \notin finished
    <3>1. <<b, m>> \in finished => BothFin(<<b, m>>[2])
      BY <2>1
    <3>2. QED
      BY <3>1
  <2>5. m \in In(b)'
    BY <2>2, <2>3, <2>4 DEF Taken
  <2>6. QED
    BY <2>5
<1>6. QED
  BY <1>1, <1>4, <1>5

(* No step takes a mapping away that carried a packet, of whichever         *)
(* direction, within the time-out, unless both sides of it sent their FIN   *)
(* (nat.c:143, 170-203).                                                    *)
THEOREM ActiveKept == Spec => KeptWhileActive
<1>1. IInv /\ [Next]_vars
      => [\A b \in Buckets : \A m \in In(b) :
             m.last <= Timeout /\ ~BothFin(m)
             => \E n \in In(b)' : n.int = m.int /\ n.ext = m.ext]_vars
  BY ActiveStays
<1>2. QED
  BY <1>1, Inductive, PTL DEF Spec, KeptWhileActive
=============================================================================
