--------------------------- MODULE RoutingProofs ---------------------------
(***************************************************************************)
(* Proofs about how routes are found: about PrefixTrie for every width of  *)
(* addresses, every set of ports and every table, and about the floods of  *)
(* Mospf for every network.                                                *)
(***************************************************************************)
EXTENDS PrefixTrie, Mospf, FiniteSetTheorems, SequenceTheorems, WellFoundedInduction, TLAPS

(* < is well-founded on the naturals. *)
LEMMA LeastOfNats ==
    ASSUME NEW S \in SUBSET Nat, S # {}
    PROVE  \E x \in S : \A y \in S : x <= y
<1>1. PICK x \in S : \A y \in S : <<y, x>> \notin OpToRel(<, Nat)
  BY NatLessThanWellFounded, WFMin
<1>2. \A y \in S : y < x => <<y, x>> \in OpToRel(<, Nat)
  BY DEF OpToRel
<1>3. \A y \in S : ~(y < x)
  BY <1>1, <1>2, Zenon
<1>4. QED
  BY <1>3
-----------------------------------------------------------------------------
(* What a look-up that ends at p may look back at. *)
Marked(p) == {q \in Above(p) \cap DOMAIN simple : simple[q] # NoPort}

(* A node of the leaf-pushed trie holds what looking back from it finds in  *)
(* the simple one.                                                          *)
Pushed == \A p \in DOMAIN simple : leaf[p] = LookBack(p)

(* Looking back ends at the root, if not before. *)
RootMarked == simple[Root] # NoPort

IInv == TypeOK /\ RootMarked /\ Pushed
-----------------------------------------------------------------------------
LEMMA NodeIsSeq ==
    ASSUME NEW p
    PROVE  p \in Nodes <=> p \in Seq({0, 1}) /\ Len(p) <= Width
<1> USE ConstantsAssumption
<1>1. ASSUME p \in Nodes PROVE p \in Seq({0, 1}) /\ Len(p) <= Width
  <2>1. PICK n \in 0..Width : p \in [1..n -> {0, 1}]
    BY <1>1 DEF Nodes
  <2>2. n \in Nat /\ n <= Width
    BY <2>1
  <2>3. p \in Seq({0, 1})
    BY <2>1, <2>2, SeqDef
  <2>4. Len(p) = n
    BY <2>1, <2>2, <2>3
  <2>5. QED
    BY <2>2, <2>3, <2>4
<1>2. ASSUME p \in Seq({0, 1}), Len(p) <= Width PROVE p \in Nodes
  <2>1. Len(p) \in 0..Width /\ p \in [1..Len(p) -> {0, 1}]
    BY <1>2
  <2>2. QED
    BY <2>1 DEF Nodes
<1>3. QED
  BY <1>1, <1>2

LEMMA CutProps ==
    ASSUME NEW p \in Nodes, NEW n \in 0..Len(p)
    PROVE  /\ Cut(p, n) \in Nodes /\ Len(Cut(p, n)) = n
           /\ \A i \in 1..n : Cut(p, n)[i] = p[i]
<1>1. p \in Seq({0, 1}) /\ Len(p) <= Width /\ Len(p) \in Nat
  BY NodeIsSeq
<1>2. /\ SubSeq(p, 1, n) \in Seq({0, 1}) /\ Len(SubSeq(p, 1, n)) = n
      /\ \A i \in 1..n : SubSeq(p, 1, n)[i] = p[i]
  BY <1>1
<1>3. n <= Width
  BY <1>1, ConstantsAssumption
<1>4. QED
  BY <1>2, <1>3, NodeIsSeq DEF Cut

(* Nodes above p are known by their length. *)
LEMMA AboveProps ==
    ASSUME NEW p \in Nodes, NEW q \in Above(p)
    PROVE  /\ q \in Nodes /\ Len(q) \in 0..Len(p) /\ q = Cut(p, Len(q))
           /\ Above(q) \subseteq Above(p)
           /\ \A r \in Above(p) : Len(r) <= Len(q) => r \in Above(q)
<1>1. Len(p) \in Nat
  BY NodeIsSeq
<1>2. PICK n \in 0..Len(p) : q = Cut(p, n)
  BY DEF Above
<1>3. q \in Nodes /\ Len(q) = n
  BY <1>2, CutProps
<1>4. \A k \in 0..n : Cut(q, k) = Cut(p, k)
  <2> SUFFICES ASSUME NEW k \in 0..n PROVE Cut(q, k) = Cut(p, k)
    OBVIOUS
  <2>1. k \in 0..Len(p) /\ k \in 0..Len(q)
    BY <1>1, <1>2, <1>3
  <2>2. /\ Cut(q, k) \in Nodes /\ Len(Cut(q, k)) = k
        /\ \A i \in 1..k : Cut(q, k)[i] = q[i]
    BY <1>3, <2>1, CutProps
  <2>3. /\ Cut(p, k) \in Nodes /\ Len(Cut(p, k)) = k
        /\ \A i \in 1..k : Cut(p, k)[i] = p[i]
    BY <2>1, CutProps
  <2>4. \A i \in 1..n : q[i] = p[i]
    BY <1>2, CutProps
  <2>5. \A i \in 1..k : Cut(q, k)[i] = Cut(p, k)[i]
    BY <2>2, <2>3, <2>4, <1>1
  <2>6. Cut(q, k) \in Seq({0, 1}) /\ Cut(p, k) \in Seq({0, 1})
    BY <2>2, <2>3, NodeIsSeq
  <2>7. QED
    BY <2>2, <2>3, <2>5, <2>6, SeqEqual
<1>5. Above(q) \subseteq Above(p)
  BY <1>1, <1>3, <1>4 DEF Above
<1>6. ASSUME NEW r \in Above(p), Len(r) <= Len(q) PROVE r \in Above(q)
  <2>1. PICK m \in 0..Len(p) : r = Cut(p, m)
    BY DEF Above
  <2>2. m <= n
    BY <1>3, <1>6, <2>1, CutProps
  <2>3. m \in 0..Len(q) /\ r = Cut(q, m)
    BY <1>1, <1>3, <1>4, <2>1, <2>2
  <2>4. QED
    BY <2>3 DEF Above
<1>7. QED
  BY <1>2, <1>3, <1>5, <1>6

LEMMA RootIsNode == Root \in Nodes /\ Len(Root) = 0
<1>1. Root \in Seq({0, 1}) /\ Len(Root) = 0
  BY DEF Root
<1>2. Len(Root) <= Width
  BY <1>1, ConstantsAssumption
<1>3. QED
  BY <1>1, <1>2, NodeIsSeq

LEMMA SelfAndRoot ==
    ASSUME NEW p \in Nodes
    PROVE  p \in Above(p) /\ Root \in Above(p) /\ Root \in Nodes
<1>1. p \in Seq({0, 1}) /\ Len(p) \in Nat /\ Len(p) <= Width
  BY NodeIsSeq
<1>2. Cut(p, Len(p)) = p /\ Cut(p, 0) = <<>>
  BY <1>1 DEF Cut
<1>3. Cut(p, Len(p)) \in Above(p) /\ Cut(p, 0) \in Above(p)
  BY <1>1 DEF Above
<1>4. QED
  BY <1>2, <1>3, RootIsNode DEF Root

(* Among nodes there is a longest.                                          *)
LEMMA LongestExists ==
    ASSUME NEW p \in Nodes, NEW S \in SUBSET Above(p), S # {}
    PROVE  Longest(S) \in S /\ \A q \in S : Len(q) <= Len(Longest(S))
<1> DEFINE Gaps == {Len(p) - Len(q) : q \in S}
<1>1. Len(p) \in Nat /\ \A q \in S : Len(q) \in 0..Len(p)
  BY NodeIsSeq, AboveProps
<1>2. Gaps \in SUBSET Nat /\ Gaps # {}
  BY <1>1
<1>3. PICK g \in Gaps : \A h \in Gaps : g <= h
  <2> HIDE DEF Gaps
  <2>1. QED
    BY <1>2, LeastOfNats
<1>4. PICK m \in S : g = Len(p) - Len(m)
  BY <1>3
<1>5. \A q \in S : Len(q) <= Len(m)
  <2> SUFFICES ASSUME NEW q \in S PROVE Len(q) <= Len(m)
    OBVIOUS
  <2>1. Len(p) - Len(m) <= Len(p) - Len(q)
    BY <1>3, <1>4
  <2>2. QED
    BY <1>1, <2>1
<1>6. QED
  BY <1>4, <1>5 DEF Longest

LEMMA LongestIsSelf ==
    ASSUME NEW p \in Nodes, NEW S \in SUBSET Above(p), p \in S
    PROVE  Longest(S) = p
<1>1. Longest(S) \in S /\ Len(p) <= Len(Longest(S))
  BY LongestExists
<1>2. /\ Len(Longest(S)) \in 0..Len(p) /\ Longest(S) = Cut(p, Len(Longest(S)))
      /\ Len(p) \in Nat /\ p = Cut(p, Len(p))
  BY <1>1, AboveProps, SelfAndRoot, NodeIsSeq
<1>3. Len(Longest(S)) = Len(p)
  BY <1>1, <1>2
<1>4. QED
  BY <1>2, <1>3
-----------------------------------------------------------------------------
LEMMA InitIInv == Init => IInv
<1> SUFFICES ASSUME Init PROVE IInv
  OBVIOUS
<1>1. Root \in Nodes /\ Len(Root) = 0 /\ Above(Root) = {Root}
  <2>1. Cut(Root, 0) = Root
    BY DEF Cut, Root
  <2>2. 0..Len(Root) = {0}
    BY RootIsNode
  <2>3. QED
    BY <2>1, <2>2, RootIsNode DEF Above
<1>2. DOMAIN simple = {Root} /\ DOMAIN leaf = {Root} /\ simple[Root] = DefaultPort /\ leaf[Root] = DefaultPort
  BY DEF Init
<1>3. table \in Seq(Entries) /\ Len(table) <= MaxEntries
  BY ConstantsAssumption DEF Init
<1>4. TypeOK
  BY <1>1, <1>2, <1>3 DEF TypeOK
<1>5. Pushed
  <2>1. {q \in Above(Root) \cap DOMAIN simple : simple[q] # NoPort} = {Root}
    BY <1>1, <1>2 DEF NoPort, DefaultPort
  <2>2. Longest({Root}) = Root
    BY <1>1, SelfAndRoot, LongestIsSelf
  <2>3. LookBack(Root) = DefaultPort
    BY <1>2, <2>1, <2>2 DEF LookBack
  <2>4. QED
    BY <1>2, <2>3 DEF Pushed
<1>6. RootMarked
  BY <1>2 DEF RootMarked, NoPort, DefaultPort
<1>7. QED
  BY <1>4, <1>5, <1>6 DEF IInv

(* Nothing that is there changes, and with a node all those above it are.   *)
LEMMA Grows ==
    ASSUME TypeOK, NEW e \in Entries, AddNode(e)
    PROVE  /\ e.net \in Nodes /\ e.port \in Ports
           /\ DOMAIN simple' = DOMAIN simple \cup Above(e.net)
           /\ DOMAIN leaf' = DOMAIN simple'
           /\ \A p \in DOMAIN simple : simple'[p] = simple[p] /\ leaf'[p] = leaf[p]
           /\ \A p \in Above(e.net) : p \notin DOMAIN simple =>
                simple'[p] = NewSimple(e, p) /\ leaf'[p] = NewLeaf(e, p)
           /\ \A p \in DOMAIN simple' : p \in Nodes /\ Above(p) \subseteq DOMAIN simple'
<1>1. e.net \in Nodes /\ e.port \in Ports
  BY DEF Entries
<1>2. DOMAIN leaf = DOMAIN simple
  BY DEF TypeOK
<1>3. /\ DOMAIN simple' = DOMAIN simple \cup Above(e.net)
      /\ DOMAIN leaf' = DOMAIN simple'
  BY <1>2 DEF AddNode
<1>4. \A p \in DOMAIN simple : simple'[p] = simple[p] /\ leaf'[p] = leaf[p]
  BY <1>2 DEF AddNode
<1>5. \A p \in Above(e.net) : p \notin DOMAIN simple =>
         simple'[p] = NewSimple(e, p) /\ leaf'[p] = NewLeaf(e, p)
  BY <1>2 DEF AddNode
<1>6. ASSUME NEW p \in DOMAIN simple' PROVE p \in Nodes /\ Above(p) \subseteq DOMAIN simple'
  <2>1. CASE p \in DOMAIN simple
    BY <1>3, <2>1 DEF TypeOK
  <2>2. CASE p \in Above(e.net)
    BY <1>1, <1>3, <2>2, AboveProps
  <2>3. QED
    BY <1>3, <1>6, <2>1, <2>2
<1>7. QED
  BY <1>1, <1>3, <1>4, <1>5, <1>6

(* The last old node above p. *)
LEMMA EndProps ==
    ASSUME TypeOK, NEW p \in Nodes
    PROVE  /\ End(leaf, p) \in Above(p) \cap DOMAIN simple
           /\ Above(p) \cap DOMAIN simple = Above(End(leaf, p))
<1>1. DOMAIN leaf = DOMAIN simple /\ Root \in DOMAIN simple
  BY DEF TypeOK
<1> DEFINE Old == Above(p) \cap DOMAIN simple
           end == Longest(Old)
<1>2. End(leaf, p) = end
  BY <1>1 DEF End
<1>3. Old \in SUBSET Above(p) /\ Old # {}
  BY <1>1, SelfAndRoot
<1>4. end \in Old /\ \A q \in Old : Len(q) <= Len(end)
  <2> HIDE DEF Old
  <2>1. QED
    BY <1>3, LongestExists
<1> HIDE DEF end
<1>5. Old \subseteq Above(end)
  BY <1>4, AboveProps
<1>6. Above(end) \subseteq Old
  BY <1>4, AboveProps DEF TypeOK
<1>7. QED
  BY <1>2, <1>4, <1>5, <1>6

LEMMA AddNodeTypes ==
    ASSUME TypeOK, NEW e \in Entries, AddNode(e)
    PROVE  TypeOK'
<1>1. Root \in DOMAIN simple'
  BY Grows DEF TypeOK
<1>2. ASSUME NEW p \in DOMAIN simple'
      PROVE  /\ simple'[p] \in Ports \cup {NoPort, DefaultPort}
             /\ leaf'[p] \in Ports \cup {DefaultPort}
  <2>1. CASE p \in DOMAIN simple
    BY <2>1, Grows DEF TypeOK
  <2>2. CASE p \notin DOMAIN simple
    <3>1. p \in Above(e.net) /\ e.port \in Ports /\ p \in Nodes
      BY <1>2, <2>2, Grows
    <3>2. simple'[p] = NewSimple(e, p) /\ leaf'[p] = NewLeaf(e, p)
      BY <2>2, <3>1, Grows
    <3>3. leaf[End(leaf, p)] \in Ports \cup {DefaultPort}
      BY <3>1, EndProps DEF TypeOK
    <3>4. QED
      BY <3>1, <3>2, <3>3 DEF NewSimple, NewLeaf
  <2>3. QED
    BY <2>1, <2>2
<1>3. table' \in Seq(Entries) /\ Len(table') <= MaxEntries
  <2>1. table \in Seq(Entries) /\ Len(table) < MaxEntries /\ table' = Append(table, e)
    BY DEF AddNode, TypeOK
  <2>2. QED
    BY <2>1, ConstantsAssumption
<1>4. QED
  BY <1>1, <1>2, <1>3, Grows DEF TypeOK

LEMMA MarkedLongest ==
    ASSUME TypeOK, RootMarked, NEW p \in Nodes
    PROVE  /\ Marked(p) \in SUBSET Above(p) /\ Longest(Marked(p)) \in DOMAIN simple
           /\ simple[Longest(Marked(p))] = LookBack(p)
<1>1. Root \in Marked(p)
  BY SelfAndRoot DEF Marked, RootMarked, TypeOK
<1>2. Marked(p) \in SUBSET Above(p)
  BY DEF Marked
<1>3. Longest(Marked(p)) \in Marked(p)
  BY <1>1, <1>2, LongestExists
<1>4. LookBack(p) = simple[Longest(Marked(p))]
  BY DEF LookBack, Marked
<1>5. QED
  BY <1>2, <1>3, <1>4 DEF Marked

LEMMA AddNodePushed ==
    ASSUME IInv, NEW e \in Entries, AddNode(e)
    PROVE  RootMarked' /\ Pushed'
<1>1. TypeOK /\ RootMarked /\ Pushed /\ TypeOK'
  BY AddNodeTypes DEF IInv
<1>2. RootMarked'
  BY <1>1, Grows DEF RootMarked, TypeOK
<1>3. \A p \in Nodes : LookBack(p)' = simple'[Longest(Marked(p)')]
  BY DEF LookBack, Marked
(* Old nodes look back at what they did. *)
<1>4. ASSUME NEW p \in DOMAIN simple PROVE leaf'[p] = LookBack(p)'
  <2>1. p \in Nodes /\ Above(p) \subseteq DOMAIN simple
    BY <1>1 DEF TypeOK
  <2>2. Marked(p)' = Marked(p)
    BY <1>1, <2>1, Grows DEF Marked
  <2>3. Longest(Marked(p)) \in DOMAIN simple /\ simple[Longest(Marked(p))] = LookBack(p)
    BY <1>1, <2>1, MarkedLongest
  <2>4. LookBack(p)' = simple[Longest(Marked(p))]
    BY <1>1, <1>3, <2>1, <2>2, <2>3, Grows
  <2>5. QED
    BY <1>1, <2>3, <2>4, Grows DEF Pushed
(* The new node of the entry has a port, which is the entry's in both. *)
<1>5. ASSUME e.net \notin DOMAIN simple PROVE leaf'[e.net] = LookBack(e.net)'
  <2>1. e.net \in Nodes /\ e.net \in Above(e.net) /\ e.port \in Ports
    BY <1>1, Grows, SelfAndRoot
  <2>2. simple'[e.net] = e.port /\ leaf'[e.net] = e.port
    BY <1>1, <1>5, <2>1, Grows DEF NewSimple, NewLeaf
  <2>3. e.port # NoPort
    BY <2>1, ConstantsAssumption DEF NoPort
  <2>4. e.net \in Marked(e.net)' /\ Marked(e.net)' \in SUBSET Above(e.net)
    BY <1>1, <2>1, <2>2, <2>3, Grows DEF Marked
  <2>5. Longest(Marked(e.net)') = e.net
    BY <2>1, <2>4, LongestIsSelf
  <2>6. QED
    BY <1>3, <2>1, <2>2, <2>5
(* Any other has none, and the first marked node above it is the one above  *)
(* the old node it grows from.                                              *)
<1>6. ASSUME NEW p \in Above(e.net), p \notin DOMAIN simple, p # e.net
      PROVE  leaf'[p] = LookBack(p)'
  <2> DEFINE end == End(leaf, p)
  <2>1. p \in Nodes /\ e.net \in Nodes
    BY <1>1, Grows, AboveProps
  <2>2. end \in DOMAIN simple /\ Above(p) \cap DOMAIN simple = Above(end) /\ end \in Nodes
    BY <1>1, <2>1, EndProps DEF TypeOK
  <2>3. leaf'[p] = leaf[end]
    BY <1>1, <1>6, Grows DEF NewLeaf
  <2> HIDE DEF end
  <2>4. e.net \notin Above(p)
    <3> SUFFICES ASSUME e.net \in Above(p) PROVE FALSE
      OBVIOUS
    <3>1. Len(e.net) <= Len(p) /\ Len(p) <= Len(e.net) /\ Len(p) \in Nat /\ Len(e.net) \in Nat
      BY <2>1, <1>6, AboveProps, NodeIsSeq
    <3>2. p = Cut(e.net, Len(p)) /\ e.net = Cut(e.net, Len(e.net))
      BY <2>1, <1>6, AboveProps, SelfAndRoot
    <3>3. QED
      BY <1>6, <3>1, <3>2
  <2>5. \A q \in Above(p) : q \in Above(e.net) /\ (q \notin DOMAIN simple => simple'[q] = NoPort)
    <3> SUFFICES ASSUME NEW q \in Above(p)
                 PROVE  q \in Above(e.net) /\ (q \notin DOMAIN simple => simple'[q] = NoPort)
      OBVIOUS
    <3>1. q \in Above(e.net) /\ q # e.net
      BY <2>1, <1>6, <2>4, AboveProps
    <3>2. QED
      BY <1>1, <3>1, Grows DEF NewSimple
  <2>6. Marked(p)' = Marked(end)
    BY <1>1, <2>2, <2>5, Grows DEF Marked
  <2>7. Longest(Marked(end)) \in DOMAIN simple /\ simple[Longest(Marked(end))] = LookBack(end)
    BY <1>1, <2>2, MarkedLongest
  <2>8. LookBack(p)' = LookBack(end)
    BY <1>1, <1>3, <2>1, <2>6, <2>7, Grows
  <2>9. QED
    BY <1>1, <2>2, <2>3, <2>8 DEF Pushed
<1>7. DOMAIN simple' = DOMAIN simple \cup Above(e.net)
  BY <1>1, Grows
<1>8. QED
  BY <1>2, <1>4, <1>5, <1>6, <1>7 DEF Pushed
-----------------------------------------------------------------------------
(* The inductive invariant holds.                                           *)
THEOREM TriesAgreeEverywhere == Spec => []IInv
<1>1. IInv /\ [Next]_vars => IInv'
  <2> SUFFICES ASSUME IInv, [Next]_vars PROVE IInv'
    OBVIOUS
  <2>1. CASE UNCHANGED vars
    BY <2>1 DEF IInv, TypeOK, RootMarked, Pushed, LookBack, vars
  <2>2. CASE Next
    <3>1. PICK e \in Entries : AddNode(e)
      BY <2>2 DEF Next
    <3>2. QED
      BY <3>1, AddNodeTypes, AddNodePushed DEF IInv
  <2>3. QED
    BY <2>1, <2>2
<1>2. QED
  BY <1>1, InitIInv, PTL DEF Spec

(* Both programs give the same port to every address whose look-up ends in  *)
(* a break (simple/lookup.c:130-136, leaf_pushing/lookup.c:116-117), for    *)
(* every table in every order.                                              *)
THEOREM SameAnswers == Spec => []TrieInv
<1>1. IInv => TrieInv
  <2> SUFFICES ASSUME IInv PROVE SameAnswer
    BY DEF IInv, TrieInv
  <2> SUFFICES ASSUME NEW a \in Addresses, Written(simple, a)
               PROVE  LookupSimple(a) = LookupLeaf(a)
    BY DEF SameAnswer
  <2>1. TypeOK /\ Pushed
    BY DEF IInv
  <2> DEFINE p == Cut(a, Width - 1)
  <2>2. p \in Nodes
    <3>1. a \in Nodes /\ Len(a) = Width
      <4>1. a \in [1..Width -> {0, 1}] /\ Width \in 0..Width
        BY ConstantsAssumption DEF Addresses
      <4>2. a \in Nodes
        BY <4>1 DEF Nodes
      <4>3. a \in Seq({0, 1})
        BY <4>2, NodeIsSeq
      <4>4. QED
        BY <4>1, <4>2, <4>3, ConstantsAssumption
    <3>2. Width - 1 \in 0..Len(a)
      BY <3>1, ConstantsAssumption
    <3>3. QED
      BY <3>1, <3>2, CutProps
  <2>3. Stop(leaf, a) \in DOMAIN simple
    BY <2>1, <2>2, EndProps DEF Stop
  <2>4. Stop(simple, a) = Stop(leaf, a)
    BY <2>1 DEF Stop, End, TypeOK
  <2>5. QED
    BY <2>1, <2>3, <2>4 DEF LookupSimple, LookupLeaf, Pushed
<1>2. QED
  BY <1>1, TriesAgreeEverywhere, PTL
-----------------------------------------------------------------------------
(* Longest match.                                                           *)

Nets == {table[i].net : i \in DOMAIN table}

(* The nodes are those above the entries, and the root. *)
NodesOfTable ==
    /\ \A p \in DOMAIN simple : p = Root \/ \E m \in Nets : p \in Above(m)
    /\ \A m \in Nets : Above(m) \subseteq DOMAIN simple

(* A node has the port of its first entry, provided no longer one made it.  *)
PortsOfTable ==
    /\ simple[Root] = DefaultPort
    /\ ParentsFirst => \A p \in DOMAIN simple \ {Root} :
                          simple[p] = IF p \in Nets THEN First(p) ELSE NoPort

TableInv == IInv /\ NodesOfTable /\ PortsOfTable

(* Entry k of table t is its first for p. *)
IsFirst(t, p, k) == t[k].net = p /\ \A j \in DOMAIN t : t[j].net = p => k <= j

LEMMA FirstExists ==
    ASSUME NEW t, NEW n \in Nat, DOMAIN t = 1..n, NEW p, NEW i \in 1..n, t[i].net = p
    PROVE  LET k == CHOOSE k \in DOMAIN t : IsFirst(t, p, k)
           IN k \in 1..n /\ IsFirst(t, p, k)
<1> DEFINE At == {k \in 1..n : t[k].net = p}
<1>1. At \in SUBSET Nat /\ At # {}
  OBVIOUS
<1>2. PICK k \in At : \A j \in At : k <= j
  <2> HIDE DEF At
  <2>1. QED
    BY <1>1, LeastOfNats
<1>3. k \in DOMAIN t /\ IsFirst(t, p, k)
  BY <1>2 DEF IsFirst
<1>4. QED
  BY <1>3

LEMMA FirstIsUnique ==
    ASSUME NEW t, NEW n \in Nat, DOMAIN t = 1..n, NEW p, NEW k \in 1..n, IsFirst(t, p, k)
    PROVE  (CHOOSE i \in DOMAIN t : IsFirst(t, p, i)) = k
<1> DEFINE c == CHOOSE i \in DOMAIN t : IsFirst(t, p, i)
<1>1. c \in 1..n /\ IsFirst(t, p, c)
  BY FirstExists DEF IsFirst
<1> HIDE DEF c
<1>2. c <= k /\ k <= c
  BY <1>1 DEF IsFirst
<1>3. c = k
  BY <1>1, <1>2
<1>4. QED
  BY <1>3 DEF c

LEMMA FirstStays ==
    ASSUME TypeOK, NEW e \in Entries, table' = Append(table, e)
    PROVE  /\ Nets' = Nets \cup {e.net}
           /\ \A p \in Nets : First(p)' = First(p)
           /\ e.net \notin Nets => First(e.net)' = e.port
           /\ ParentsFirst' =>
                /\ ParentsFirst
                /\ \A m \in Nets : ~ IsStrictPrefix(e.net, m)
<1> DEFINE n == Len(table)
<1>1. /\ table \in Seq(Entries) /\ DOMAIN table = 1..n /\ n \in Nat
      /\ DOMAIN table' = 1..n+1 /\ table'[n+1] = e
      /\ \A i \in 1..n : table'[i] = table[i]
  BY DEF TypeOK
<1> HIDE DEF n
<1>2. Nets' = Nets \cup {e.net}
  <2>1. Nets' = {table'[i].net : i \in DOMAIN table'}
    BY DEF Nets
  <2>2. ASSUME NEW m \in Nets' PROVE m \in Nets \cup {e.net}
    <3>1. PICK i \in 1..n+1 : m = table'[i].net
      BY <1>1, <2>1, <2>2
    <3>2. CASE i = n + 1
      BY <1>1, <3>1, <3>2
    <3>3. CASE i # n + 1
      <4>1. i \in 1..n
        BY <1>1, <3>3
      <4>2. QED
        BY <1>1, <3>1, <4>1 DEF Nets
    <3>4. QED
      BY <3>2, <3>3
  <2>3. ASSUME NEW m \in Nets PROVE m \in Nets'
    <3>1. PICK i \in 1..n : m = table[i].net
      BY <1>1 DEF Nets
    <3>2. i \in 1..n+1 /\ m = table'[i].net
      BY <1>1, <3>1
    <3>3. QED
      BY <1>1, <2>1, <3>2
  <2>4. e.net \in Nets'
    <3>1. n + 1 \in 1..n+1
      BY <1>1
    <3>2. QED
      BY <1>1, <2>1, <3>1
  <2>5. QED
    BY <2>2, <2>3, <2>4
<1>3. ASSUME NEW p \in Nets PROVE First(p)' = First(p)
  <2>1. PICK w \in 1..n : table[w].net = p
    BY <1>1 DEF Nets
  <2> DEFINE k == CHOOSE w0 \in DOMAIN table : IsFirst(table, p, w0)
  <2>2. k \in 1..n /\ IsFirst(table, p, k)
    BY <1>1, <2>1, FirstExists
  <2>3. First(p) = table[k].port
    BY Zenon DEF First, IsFirst
  <2> HIDE DEF k
  <2>4. k \in 1..n+1 /\ IsFirst(table', p, k)
    BY <1>1, <2>2 DEF IsFirst
  <2>5. (CHOOSE i \in DOMAIN table' : IsFirst(table', p, i)) = k
    BY <1>1, <2>4, FirstIsUnique
  <2>6. First(p)' = table'[CHOOSE i \in DOMAIN table' : IsFirst(table', p, i)].port
    BY Zenon DEF First, IsFirst
  <2>7. QED
    BY <1>1, <2>2, <2>3, <2>5, <2>6
<1>4. ASSUME e.net \notin Nets PROVE First(e.net)' = e.port
  <2>1. \A j \in 1..n : table'[j].net # e.net
    BY <1>1, <1>4 DEF Nets
  <2>2. n + 1 \in 1..n+1 /\ IsFirst(table', e.net, n + 1)
    BY <1>1, <2>1 DEF IsFirst
  <2>3. (CHOOSE i \in DOMAIN table' : IsFirst(table', e.net, i)) = n + 1
    BY <1>1, <2>2, FirstIsUnique
  <2>4. First(e.net)' = table'[CHOOSE i \in DOMAIN table' : IsFirst(table', e.net, i)].port
    BY Zenon DEF First, IsFirst
  <2>5. QED
    BY <1>1, <2>3, <2>4
<1>5. ASSUME ParentsFirst'
      PROVE  ParentsFirst /\ \A m \in Nets : ~ IsStrictPrefix(e.net, m)
  <2>1. \A i, j \in 1..n+1 : i < j => ~ IsStrictPrefix(table'[j].net, table'[i].net)
    BY <1>1, <1>5 DEF ParentsFirst
  <2>2. \A i, j \in 1..n : i \in 1..n+1 /\ j \in 1..n+1
    BY <1>1
  <2>3. ParentsFirst
    BY <1>1, <2>1, <2>2 DEF ParentsFirst
  <2>4. ASSUME NEW m \in Nets PROVE ~ IsStrictPrefix(e.net, m)
    <3>1. PICK i \in 1..n : table[i].net = m
      BY <1>1 DEF Nets
    <3>2. i \in 1..n+1 /\ n + 1 \in 1..n+1 /\ i < n + 1
      BY <1>1
    <3>3. QED
      BY <1>1, <2>1, <3>1, <3>2
  <2>5. QED
    BY <2>3, <2>4
<1>6. QED
  BY <1>2, <1>3, <1>4, <1>5

LEMMA AboveIsPrefix ==
    ASSUME NEW p \in Nodes, NEW m \in Nodes
    PROVE  p \in Above(m) <=> IsPrefix(p, m)
<1>1. p = Cut(p, Len(p)) /\ Len(p) \in Nat /\ Len(m) \in Nat
  <2>1. Len(p) \in Nat /\ Len(m) \in Nat
    BY NodeIsSeq
  <2>2. QED
    BY <2>1, SelfAndRoot, AboveProps
<1>2. ASSUME p \in Above(m) PROVE IsPrefix(p, m)
  <2>1. Len(p) <= Len(m) /\ p = Cut(m, Len(p))
    BY <1>1, <1>2, AboveProps
  <2>2. QED
    BY <1>1, <2>1 DEF IsPrefix, Cut
<1>3. ASSUME IsPrefix(p, m) PROVE p \in Above(m)
  <2>1. Len(p) <= Len(m) /\ SubSeq(p, 1, Len(p)) = SubSeq(m, 1, Len(p))
    BY <1>3, Zenon DEF IsPrefix
  <2>2. Len(p) \in 0..Len(m) /\ p = Cut(m, Len(p))
    BY <1>1, <2>1 DEF Cut
  <2>3. QED
    BY <2>2, Zenon DEF Above
<1>4. QED
  BY <1>2, <1>3

LEMMA TableStep ==
    ASSUME TableInv, NEW e \in Entries, AddNode(e)
    PROVE  NodesOfTable' /\ PortsOfTable'
<1>1. TypeOK /\ NodesOfTable /\ PortsOfTable /\ Root \in DOMAIN simple
  BY DEF TableInv, IInv, TypeOK
<1>2. table' = Append(table, e)
  BY DEF AddNode
<1>3. Nets' = Nets \cup {e.net} /\ DOMAIN simple' = DOMAIN simple \cup Above(e.net)
  BY <1>1, <1>2, FirstStays, Grows
<1>4. NodesOfTable'
  BY <1>1, <1>3 DEF NodesOfTable
<1>5. simple'[Root] = DefaultPort
  BY <1>1, Grows DEF PortsOfTable
<1>6. ASSUME ParentsFirst', NEW p \in DOMAIN simple' \ {Root}
      PROVE  simple'[p] = IF p \in Nets' THEN First(p)' ELSE NoPort
  <2>1. ParentsFirst /\ \A m \in Nets : ~ IsStrictPrefix(e.net, m)
    BY <1>1, <1>2, <1>6, FirstStays
  <2>2. e.net \in Nodes /\ e.net \in Above(e.net) /\ Nets \subseteq DOMAIN simple
    <3>1. \A m \in Nets : m \in Nodes
      <4>1. \A i \in DOMAIN table : table[i] \in Entries
        BY <1>1 DEF TypeOK
      <4>2. QED
        BY <4>1 DEF Nets, Entries
    <3>2. QED
      BY <1>1, <3>1, Grows, SelfAndRoot DEF NodesOfTable
  <2>3. CASE p \notin DOMAIN simple
    <3>1. p \in Above(e.net) /\ p \notin Nets /\ simple'[p] = NewSimple(e, p)
      BY <1>1, <1>3, <1>6, <2>2, <2>3, Grows
    <3>2. CASE p = e.net
      BY <1>1, <1>2, <1>3, <3>1, <3>2, FirstStays DEF NewSimple
    <3>3. CASE p # e.net
      BY <1>3, <3>1, <3>3 DEF NewSimple
    <3>4. QED
      BY <3>2, <3>3
  <2>4. CASE p \in DOMAIN simple
    <3>1. simple'[p] = simple[p] /\ simple[p] = IF p \in Nets THEN First(p) ELSE NoPort
      BY <1>1, <1>6, <2>1, <2>4, Grows DEF PortsOfTable
    <3>2. p = e.net => p \in Nets
      <4> SUFFICES ASSUME p = e.net PROVE p \in Nets
        OBVIOUS
      <4>1. PICK m \in Nets : p \in Above(m)
        BY <1>1, <1>6, <2>4 DEF NodesOfTable
      <4>2. m \in Nodes /\ p \in Nodes
        BY <1>1, <2>2, <2>4 DEF TypeOK
      <4>3. IsPrefix(p, m)
        BY <4>1, <4>2, AboveIsPrefix
      <4>4. p = m
        BY <2>1, <4>3 DEF IsStrictPrefix
      <4>5. QED
        BY <4>4
    <3>3. p \in Nets' <=> p \in Nets
      BY <1>3, <3>2
    <3>4. p \in Nets => First(p)' = First(p)
      BY <1>1, <1>2, FirstStays
    <3>5. QED
      BY <3>1, <3>3, <3>4
  <2>5. QED
    BY <2>3, <2>4
<1>7. PortsOfTable'
  BY <1>5, <1>6 DEF PortsOfTable
<1>8. QED
  BY <1>4, <1>7

LEMMA InitTable == Init => NodesOfTable /\ PortsOfTable
<1> SUFFICES ASSUME Init PROVE NodesOfTable /\ PortsOfTable
  OBVIOUS
<1>1. DOMAIN simple = {Root} /\ simple[Root] = DefaultPort /\ Nets = {}
  BY DEF Init, Nets
<1>2. QED
  BY <1>1 DEF NodesOfTable, PortsOfTable

(* The first address bits of a look-up. *)
LEMMA CutAddress ==
    ASSUME NEW a \in Addresses
    PROVE  /\ a \in Nodes /\ Cut(a, Width - 1) \in Above(a) /\ Cut(a, Width - 1) \in Nodes
           /\ Len(a) = Width /\ Len(Cut(a, Width - 1)) = Width - 1
<1>1. a \in [1..Width -> {0, 1}] /\ Width \in 0..Width
  BY ConstantsAssumption DEF Addresses
<1>2. a \in Nodes
  BY <1>1 DEF Nodes
<1>3. a \in Seq({0, 1})
  BY <1>2, NodeIsSeq
<1>4. Len(a) = Width
  BY <1>1, <1>3, ConstantsAssumption
<1>5. Width - 1 \in 0..Len(a)
  BY <1>4, ConstantsAssumption
<1>6. Cut(a, Width - 1) \in Above(a)
  BY <1>5 DEF Above
<1>7. QED
  BY <1>2, <1>4, <1>5, <1>6, CutProps

LEMMA MatchesAreMarked ==
    ASSUME TableInv, ParentsFirst, NEW a \in Addresses, Written(simple, a)
    PROVE  /\ Marked(Stop(simple, a)) =
                {table[i].net : i \in {i \in DOMAIN table : IsPrefix(table[i].net, a)}} \cup {Root}
           /\ Stop(simple, a) \in Nodes
<1> DEFINE cut == Cut(a, Width - 1)
           s == Stop(simple, a)
           Matches == {table[i].net : i \in {i \in DOMAIN table : IsPrefix(table[i].net, a)}}
<1>1. TypeOK /\ NodesOfTable /\ PortsOfTable
  BY DEF TableInv, IInv
<1>2. /\ a \in Nodes /\ cut \in Above(a) /\ cut \in Nodes /\ Len(a) = Width
      /\ Len(cut) = Width - 1 /\ cut \notin DOMAIN simple
  BY CutAddress DEF Written
<1>3. s \in DOMAIN simple /\ s \in Nodes /\ Above(cut) \cap DOMAIN simple = Above(s)
  <2>1. s = End(leaf, cut)
    BY <1>1 DEF Stop, End, TypeOK
  <2>2. QED
    BY <1>1, <1>2, <2>1, EndProps DEF TypeOK
<1>4. ASSUME NEW m \in Nets PROVE m \in Nodes /\ m \in DOMAIN simple /\ First(m) \in Ports
  <2>1. \A i \in DOMAIN table : table[i] \in Entries
    BY <1>1 DEF TypeOK
  <2>2. m \in Nodes
    BY <2>1, <1>4 DEF Nets, Entries
  <2>3. m \in DOMAIN simple
    BY <1>1, <1>4, <2>2, SelfAndRoot DEF NodesOfTable
  <2>4. First(m) \in Ports
    <3>1. Len(table) \in Nat /\ DOMAIN table = 1..Len(table)
      BY <1>1 DEF TypeOK
    <3>2. PICK i \in 1..Len(table) : table[i].net = m
      BY <1>4, <3>1 DEF Nets
    <3> DEFINE k == CHOOSE k \in DOMAIN table : IsFirst(table, m, k)
    <3>3. k \in 1..Len(table)
      BY <3>1, <3>2, FirstExists
    <3>4. First(m) = table[k].port
      BY Zenon DEF First, IsFirst
    <3> HIDE DEF k
    <3>5. QED
      BY <2>1, <3>1, <3>3, <3>4 DEF Entries
  <2>5. QED
    BY <2>2, <2>3, <2>4
<1> HIDE DEF cut, s
<1>5. ASSUME NEW q \in Marked(s) PROVE q \in Matches \cup {Root}
  <2>1. q \in Above(s) /\ q \in DOMAIN simple /\ simple[q] # NoPort
    BY <1>5 DEF Marked
  <2>2. q \in Above(a) /\ q \in Nodes
    BY <1>2, <1>3, <2>1, AboveProps
  <2>3. q # Root => q \in Nets
    BY <1>1, <2>1 DEF PortsOfTable
  <2>4. IsPrefix(q, a)
    BY <1>2, <2>2, AboveIsPrefix
  <2>5. q \in Nets => q \in Matches
    BY <2>4 DEF Nets
  <2>6. QED
    BY <2>3, <2>5
<1>6. ASSUME NEW m \in Matches PROVE m \in Marked(s)
  <2>1. m \in Nets /\ IsPrefix(m, a)
    BY <1>6 DEF Nets
  <2>2. m \in Nodes /\ m \in DOMAIN simple /\ m \in Above(a)
    BY <1>2, <1>4, <2>1, AboveIsPrefix
  <2>3. Len(m) <= Len(cut)
    <3> SUFFICES ASSUME ~ (Len(m) <= Len(cut)) PROVE FALSE
      OBVIOUS
    <3>1. Len(cut) <= Len(m)
      <4>1. Len(m) \in Nat /\ Len(cut) \in Nat
        BY <1>2, <2>2, NodeIsSeq
      <4>2. QED
        BY <4>1
    <3>2. cut \in Above(m)
      BY <1>2, <2>2, <3>1, AboveProps
    <3>3. QED
      BY <1>1, <1>2, <2>1, <3>2 DEF NodesOfTable
  <2>4. m \in Above(cut)
    BY <1>2, <2>2, <2>3, AboveProps
  <2>5. simple[m] # NoPort
    BY <1>1, <1>4, <2>1, <2>2, ConstantsAssumption DEF PortsOfTable, NoPort, DefaultPort
  <2>6. QED
    BY <1>3, <2>2, <2>4, <2>5 DEF Marked
<1>7. Root \in Marked(s)
  BY <1>1, <1>3, SelfAndRoot DEF Marked, PortsOfTable, TypeOK, NoPort, DefaultPort
<1>8. Marked(s) = Matches \cup {Root}
  BY <1>5, <1>6, <1>7
<1>9. QED
  BY <1>3, <1>8 DEF s

(* The nodes are those of the table, and so are their ports.                *)
THEOREM TableInductive == Spec => []TableInv
<1>1. TableInv /\ [Next]_vars => (NodesOfTable /\ PortsOfTable)'
  <2> SUFFICES ASSUME TableInv, [Next]_vars PROVE (NodesOfTable /\ PortsOfTable)'
    OBVIOUS
  <2>1. CASE UNCHANGED vars
    <3>1. simple' = simple /\ table' = table
      BY <2>1 DEF vars
    <3>2. Nets' = Nets /\ (\A p : First(p)' = First(p)) /\ (ParentsFirst' => ParentsFirst)
      BY <3>1, Zenon DEF Nets, First, ParentsFirst
    <3>3. NodesOfTable'
      BY <3>1, <3>2 DEF TableInv, NodesOfTable
    <3>4. PortsOfTable'
      BY <3>1, <3>2 DEF TableInv, PortsOfTable
    <3>5. QED
      BY <3>3, <3>4
  <2>2. CASE Next
    <3>1. PICK e \in Entries : AddNode(e)
      BY <2>2 DEF Next
    <3>2. QED
      BY <3>1, TableStep
  <2>3. QED
    BY <2>1, <2>2
<1>2. TableInv <=> IInv /\ NodesOfTable /\ PortsOfTable
  BY DEF TableInv
<1>3. QED
  BY <1>1, <1>2, InitTable, TriesAgreeEverywhere, PTL DEF Spec

(* With shorter prefixes first, a look-up finds the port of the longest     *)
(* prefix that matches (simple/lookup.c:143-218), in every such table.      *)
THEOREM FindsLongestMatch == Spec => []LongestMatch
<1>1. TableInv => LongestMatch
  <2> SUFFICES ASSUME TableInv, ParentsFirst, NEW a \in Addresses, Written(simple, a)
               PROVE  LookupSimple(a) = IF Best(a) = Root THEN DefaultPort ELSE First(Best(a))
    BY DEF LongestMatch
  <2> DEFINE s == Stop(simple, a)
  <2>1. Best(a) = Longest(Marked(s)) /\ s \in Nodes
    BY MatchesAreMarked DEF Best
  <2>2. TypeOK /\ RootMarked /\ PortsOfTable
    BY DEF TableInv, IInv
  <2>3. Best(a) \in Marked(s)
    <3>1. Marked(s) \in SUBSET Above(s) /\ Root \in Marked(s)
      BY <2>1, <2>2, SelfAndRoot DEF Marked, RootMarked, TypeOK
    <3>2. QED
      BY <2>1, <3>1, LongestExists
  <2>4. LookupSimple(a) = simple[Best(a)]
    BY <2>1, <2>2, MarkedLongest DEF LookupSimple
  <2> HIDE DEF s
  <2>5. Best(a) \in DOMAIN simple /\ simple[Best(a)] # NoPort
    BY <2>3 DEF Marked
  <2>6. QED
    BY <2>2, <2>4, <2>5 DEF PortsOfTable
<1>2. QED
  BY <1>1, TableInductive, PTL
-----------------------------------------------------------------------------
(* The floods of Mospf.                                                     *)

(* The LSUs under way on the link p. *)
Flow(w, p) == {w[p][i] : i \in DOMAIN w[p]}
OnePerRouter(db) == \A i, j \in DOMAIN db : db[i].rid = db[j].rid => i = j

(* The routers that have announcement q of o or a later one. *)
Knows(o, q) ==
    {r \in Routers : \E i \in DOMAIN mospf_db[r] :
                         mospf_db[r][i].rid = o /\ q <= mospf_db[r][i].seq}

FloodTypes ==
    /\ running \subseteq Routers /\ links \subseteq Links /\ hung \subseteq Routers
    /\ nbr_list \in [Routers -> SUBSET Routers]
    /\ sequence_num \in [Routers -> 0..SeqSize - 1]
    /\ mospf_db \in [Routers -> Seq(EntryType)] /\ wire \in [Pairs -> Seq(LsuType)]
    /\ faults \in Nat

Databases == \A r \in Routers : OnePerRouter(mospf_db[r]) /\ r \notin Rids(mospf_db[r])

(* An LSU on a link is not the destination's own, and each router it has    *)
(* crossed knows it still, or has been stopped.                             *)
Bounded(c, p) == /\ c.rid # p[2]
                 /\ MaxTtl - c.ttl <= Cardinality(Knows(c.rid, c.seq)) + faults
Flooded == \A p \in Pairs : \A c \in Flow(wire, p) : Bounded(c, p)

FloodInv == FloodTypes /\ Databases /\ Flooded

LEMMA PairTypes ==
    ASSUME MospfConstants, NEW p \in Pairs
    PROVE  p[1] \in Routers /\ p[2] \in Routers /\ p[1] # p[2]
<1>1. /\ p[1] \in Routers /\ p[2] \in Routers
      /\ {p[1], p[2]} \in Links
  BY DEF Pairs
<1>2. Cardinality({p[1], p[2]}) = 2
  BY <1>1 DEF MospfConstants
<1>3. ASSUME p[1] = p[2]
      PROVE  FALSE
  <2>1. {p[1], p[2]} = {p[1]}
    BY <1>3
  <2>2. Cardinality({p[1]}) = 1
    BY FS_Singleton
  <2>3. 2 = 1
    BY <1>2, <2>1, <2>2, Zenon
  <2>4. QED
    BY <2>3
<1>4. QED
  BY <1>1, <1>3

(* Who knows something is a number of routers. *)
LEMMA KnowsFinite ==
    ASSUME MospfConstants, NEW o, NEW q
    PROVE  /\ Knows(o, q) \in SUBSET Routers /\ IsFiniteSet(Knows(o, q))
           /\ Cardinality(Knows(o, q)) \in Nat
<1>1. Knows(o, q) \in SUBSET Routers /\ IsFiniteSet(Routers)
  BY DEF Knows, MospfConstants
<1>2. QED
  BY <1>1, FS_Subset, FS_CardinalityType

LEMMA KnowsFiniteNext ==
    ASSUME MospfConstants, NEW o, NEW q
    PROVE  /\ Knows(o, q)' \in SUBSET Routers /\ IsFiniteSet(Knows(o, q)')
           /\ Cardinality(Knows(o, q)') \in Nat
<1>1. Knows(o, q)' \in SUBSET Routers /\ IsFiniteSet(Routers)
  BY DEF Knows, MospfConstants
<1>2. QED
  BY <1>1, FS_Subset, FS_CardinalityType

LEMMA FlowTypes ==
    ASSUME NEW w \in [Pairs -> Seq(LsuType)], NEW p \in Pairs
    PROVE  /\ w[p] \in Seq(LsuType) /\ Len(w[p]) \in Nat /\ DOMAIN w[p] = 1..Len(w[p])
           /\ Flow(w, p) \subseteq LsuType
<1>1. w[p] \in Seq(LsuType)
  OBVIOUS
<1>2. QED
  BY <1>1, LenProperties, ElementOfSeq DEF Flow

(* Send appends, *)
LEMMA SentAlong ==
    ASSUME NEW w \in [Pairs -> Seq(LsuType)], NEW r, NEW to, NEW lsu \in LsuType
    PROVE  /\ Send(w, r, to, lsu) \in [Pairs -> Seq(LsuType)]
           /\ \A p \in Pairs : \A c \in Flow(Send(w, r, to, lsu), p) :
                 c \in Flow(w, p) \/ (p[1] = r /\ p[2] \in to /\ c = lsu)
<1> DEFINE v == Send(w, r, to, lsu)
           Takes(p) == p[1] = r /\ p[2] \in to /\ Carries(r, p[2])
<1>1. v = [p \in Pairs |-> IF Takes(p) THEN Append(w[p], lsu) ELSE w[p]]
  BY DEF Send
<1> HIDE DEF v
<1>2. ASSUME NEW p \in Pairs
      PROVE  /\ v[p] \in Seq(LsuType)
             /\ \A c \in Flow(v, p) : c \in Flow(w, p) \/ (Takes(p) /\ c = lsu)
  <2> DEFINE q == w[p]
             a == Append(q, lsu)
  <2>1. q \in Seq(LsuType) /\ Len(q) \in Nat /\ DOMAIN q = 1..Len(q)
    BY FlowTypes
  <2> HIDE DEF q
  <2>2. /\ a \in Seq(LsuType) /\ DOMAIN a = 1..Len(q) + 1
        /\ a[Len(q) + 1] = lsu /\ \A i \in 1..Len(q) : a[i] = q[i]
    BY <2>1, AppendProperties, LenProperties
  <2>3. v[p] = IF Takes(p) THEN a ELSE q
    BY <1>1 DEF q
  <2> HIDE DEF a, Takes
  <2>4. ASSUME NEW i \in 1..Len(q) + 1
        PROVE  a[i] = lsu \/ \E j \in DOMAIN q : a[i] = q[j]
    <3>1. i \in 1..Len(q) \/ i = Len(q) + 1
      BY <2>1
    <3>2. QED
      BY <2>1, <2>2, <3>1
  <2>5. ASSUME NEW c \in Flow(v, p)
        PROVE  c \in Flow(w, p) \/ (Takes(p) /\ c = lsu)
    <3>1. CASE Takes(p)
      BY <2>2, <2>3, <2>4, <3>1 DEF Flow, q
    <3>2. CASE ~Takes(p)
      BY <2>3, <3>2 DEF Flow, q
    <3>3. QED
      BY <3>1, <3>2
  <2>6. QED
    BY <2>1, <2>2, <2>3, <2>5
<1>3. v \in [Pairs -> Seq(LsuType)]
  BY <1>1, <1>2
<1>4. QED
  BY <1>2, <1>3 DEF v

(* and taking an LSU from a link leaves the others. *)
LEMMA TakenFrom ==
    ASSUME NEW w \in [Pairs -> Seq(LsuType)], NEW e \in Pairs, w[e] # <<>>
    PROVE  /\ Head(w[e]) \in Flow(w, e)
           /\ [w EXCEPT ![e] = Tail(@)] \in [Pairs -> Seq(LsuType)]
           /\ \A p \in Pairs : Flow([w EXCEPT ![e] = Tail(@)], p) \subseteq Flow(w, p)
<1> DEFINE q == w[e]
           v == [w EXCEPT ![e] = Tail(@)]
<1>1. q \in Seq(LsuType) /\ Len(q) \in Nat /\ DOMAIN q = 1..Len(q) /\ q # <<>>
  BY FlowTypes
<1> HIDE DEF q
<1>2. /\ Tail(q) \in Seq(LsuType) /\ DOMAIN Tail(q) = 1..Len(q) - 1
      /\ \A i \in 1..Len(q) - 1 : Tail(q)[i] = q[i + 1]
  BY <1>1, HeadTailProperties, LenProperties
<1>3. \A i \in 1..Len(q) - 1 : i + 1 \in DOMAIN q
  BY <1>1
<1>4. Head(q) = q[1] /\ 1 \in DOMAIN q
  BY <1>1, EmptySeq
<1>5. v = [w EXCEPT ![e] = Tail(q)]
  BY DEF q
<1> HIDE DEF v
<1>6. v \in [Pairs -> Seq(LsuType)] /\ v[e] = Tail(q) /\ \A p \in Pairs \ {e} : v[p] = w[p]
  BY <1>2, <1>5
<1>7. Flow(v, e) \subseteq Flow(w, e)
  BY <1>2, <1>3, <1>6 DEF Flow, q
<1>8. \A p \in Pairs : Flow(v, p) \subseteq Flow(w, p)
  BY <1>6, <1>7 DEF Flow
<1>9. QED
  BY <1>4, <1>6, <1>8 DEF Flow, q, v
-----------------------------------------------------------------------------
(* What keeps the floods bounded: nobody forgets, and what is new on a link *)
(* is bounded.                                                              *)
LEMMA FloodedStep ==
    ASSUME MospfConstants, FloodInv, faults' \in Nat, faults <= faults',
           \A o \in Routers, q \in Nat : Knows(o, q) \subseteq Knows(o, q)',
           \A p \in Pairs : \A c \in Flow(wire, p)' :
               c \in Flow(wire, p) \/ Bounded(c, p)'
    PROVE  Flooded'
<1> SUFFICES ASSUME NEW p \in Pairs, NEW c \in Flow(wire, p)', c \in Flow(wire, p)
             PROVE  Bounded(c, p)'
  BY DEF Flooded
<1>1. c \in LsuType /\ Bounded(c, p)
  BY FlowTypes DEF FloodInv, FloodTypes, Flooded
<1>2. /\ c.rid \in Routers /\ c.seq \in Nat /\ c.ttl \in Nat /\ MaxTtl \in Nat
      /\ faults \in Nat
  BY <1>1 DEF LsuType, MospfConstants, FloodInv, FloodTypes
<1>3. Knows(c.rid, c.seq) \subseteq Knows(c.rid, c.seq)'
  BY <1>2
<1>4. /\ Cardinality(Knows(c.rid, c.seq)) <= Cardinality(Knows(c.rid, c.seq)')
      /\ Cardinality(Knows(c.rid, c.seq)) \in Nat /\ Cardinality(Knows(c.rid, c.seq)') \in Nat
  BY <1>3, KnowsFinite, KnowsFiniteNext, FS_Subset
<1>5. MaxTtl - c.ttl <= Cardinality(Knows(c.rid, c.seq)') + faults'
  BY <1>1, <1>2, <1>4 DEF Bounded
<1>6. QED
  BY <1>1, <1>5 DEF Bounded

(* The same when no database changes, *)
LEMMA SameDatabases ==
    ASSUME MospfConstants, FloodInv, FloodTypes', UNCHANGED mospf_db, faults <= faults',
           \A p \in Pairs : \A c \in Flow(wire, p)' :
               c \in Flow(wire, p) \/ (c.rid = p[1] /\ c.ttl = MaxTtl)
    PROVE  FloodInv'
<1>1. \A o, q : Knows(o, q)' = Knows(o, q)
  BY DEF Knows
<1>2. Databases'
  BY DEF FloodInv, Databases, OnePerRouter, Rids
<1>3. ASSUME NEW p \in Pairs, NEW c, c.rid = p[1], c.ttl = MaxTtl
      PROVE  Bounded(c, p)'
  <2>1. c.rid # p[2] /\ MaxTtl - c.ttl = 0
    BY <1>3, PairTypes DEF MospfConstants
  <2>2. Cardinality(Knows(c.rid, c.seq)') \in Nat /\ faults' \in Nat
    BY KnowsFiniteNext DEF FloodTypes
  <2>3. 0 <= Cardinality(Knows(c.rid, c.seq)') + faults'
    BY <2>2
  <2>4. QED
    BY <2>1, <2>3 DEF Bounded
<1>4. Flooded'
  <2>1. faults' \in Nat
    BY DEF FloodTypes
  <2>2. QED
    BY <1>1, <1>3, <2>1, FloodedStep
<1>5. QED
  BY <1>2, <1>4 DEF FloodInv

(* as when a router announces its neighbours. *)
LEMMA Announced ==
    ASSUME MospfConstants, FloodInv, NEW r \in Routers, NEW nbrs \in SUBSET Routers,
           SendLsu(r, nbrs), nbr_list' \in [Routers -> SUBSET Routers],
           UNCHANGED <<running, links, mospf_db, hung, faults>>
    PROVE  FloodInv'
<1> DEFINE seq == (sequence_num[r] + 1) % SeqSize
           lsu == [rid |-> r, seq |-> seq, ttl |-> MaxTtl, array |-> nbrs]
<1>1. sequence_num' = [sequence_num EXCEPT ![r] = seq] /\ wire' = Send(wire, r, nbrs, lsu)
  BY DEF SendLsu
<1>2. FloodTypes
  BY DEF FloodInv
<1>3. seq \in 0..SeqSize - 1
  <2>1. SeqSize \in Nat \ {0} /\ sequence_num[r] + 1 \in Nat
    BY <1>2 DEF MospfConstants, FloodTypes
  <2>2. QED
    BY <2>1
<1> HIDE DEF seq
<1>4. lsu \in LsuType
  BY <1>3 DEF LsuType, MospfConstants
<1> HIDE DEF lsu
<1>5. /\ wire' \in [Pairs -> Seq(LsuType)]
      /\ \A p \in Pairs : \A c \in Flow(wire', p) : c \in Flow(wire, p) \/ (p[1] = r /\ c = lsu)
  <2>1. wire \in [Pairs -> Seq(LsuType)]
    BY <1>2 DEF FloodTypes
  <2>2. /\ Send(wire, r, nbrs, lsu) \in [Pairs -> Seq(LsuType)]
        /\ \A p \in Pairs : \A c \in Flow(Send(wire, r, nbrs, lsu), p) :
              c \in Flow(wire, p) \/ (p[1] = r /\ p[2] \in nbrs /\ c = lsu)
    BY <1>4, <2>1, SentAlong
  <2>3. QED
    BY <1>1, <2>2
<1>6. FloodTypes'
  BY <1>1, <1>2, <1>3, <1>5 DEF FloodTypes
<1>7. lsu.rid = r /\ lsu.ttl = MaxTtl
  BY DEF lsu
<1>8. \A p \in Pairs : \A c \in Flow(wire, p)' :
          c \in Flow(wire, p) \/ (c.rid = p[1] /\ c.ttl = MaxTtl)
  BY <1>5, <1>7 DEF Flow
<1>9. faults <= faults'
  BY <1>2 DEF FloodTypes
<1>10. QED
  BY <1>6, <1>8, <1>9, SameDatabases

(* When LSUs are only lost. *)
LEMMA Fewer ==
    ASSUME MospfConstants, FloodInv, FloodTypes', UNCHANGED mospf_db, faults <= faults',
           \A p \in Pairs : Flow(wire', p) \subseteq Flow(wire, p)
    PROVE  FloodInv'
<1>1. \A p \in Pairs : \A c \in Flow(wire, p)' : c \in Flow(wire, p)
  BY DEF Flow
<1>2. QED
  BY <1>1, SameDatabases

LEMMA HelloSteps ==
    ASSUME MospfConstants, FloodInv, NEW r \in Routers, NEW s \in Routers,
           HandleHello(r, s) \/ NbrTimeout(r, s) \/ PeriodicLsu(r)
    PROVE  FloodInv'
<1>1. nbr_list \in [Routers -> SUBSET Routers]
  BY DEF FloodInv, FloodTypes
<1>2. CASE HandleHello(r, s)
  BY <1>1, <1>2, Announced DEF HandleHello, routes, bounds
<1>3. CASE NbrTimeout(r, s)
  BY <1>1, <1>3, Announced DEF NbrTimeout, routes, bounds
<1>4. CASE PeriodicLsu(r)
  BY <1>1, <1>4, Announced DEF PeriodicLsu, routes
<1>5. QED
  BY <1>2, <1>3, <1>4

LEMMA QuietSteps ==
    ASSUME MospfConstants, FloodInv,
           \/ UNCHANGED mospfVars
           \/ \E r, s \in Routers : HelloAgain(r, s)
           \/ \E r \in Routers : Compute(r) \/ Install(r) \/ StartUp(r)
    PROVE  FloodInv'
<1>1. FloodTypes
  BY DEF FloodInv
<1>2. /\ UNCHANGED <<links, nbr_list, sequence_num, mospf_db, wire, faults>>
      /\ running' \subseteq Routers /\ hung' \subseteq Routers
  <2>1. CASE UNCHANGED mospfVars \/ \E r, s \in Routers : HelloAgain(r, s)
    BY <1>1, <2>1 DEF HelloAgain, mospfVars, FloodTypes
  <2>2. CASE \E r \in Routers : Compute(r) \/ StartUp(r)
    BY <1>1, <2>2 DEF Compute, StartUp, routes, bounds, FloodTypes
  <2>3. CASE \E r \in Routers : Install(r)
    <3>1. PICK r \in Routers : Install(r)
      BY <2>3
    <3>2. /\ UNCHANGED <<running, links, nbr_list, sequence_num, mospf_db, wire, faults>>
          /\ hung' = hung \/ hung' = hung \cup {r}
      BY <3>1 DEF Install, bounds
    <3>3. QED
      BY <1>1, <3>2 DEF FloodTypes
  <2>4. QED
    BY <2>1, <2>2, <2>3
<1>3. FloodTypes'
  BY <1>1, <1>2 DEF FloodTypes
<1>4. faults <= faults' /\ \A p \in Pairs : Flow(wire', p) \subseteq Flow(wire, p)
  BY <1>1, <1>2 DEF FloodTypes
<1>5. QED
  BY <1>2, <1>3, <1>4, Fewer

LEMMA FaultSteps ==
    ASSUME MospfConstants, FloodInv,
           (\E p \in Pairs : Lose(p)) \/ \E l \in Links : CutOrRepair(l)
    PROVE  FloodInv'
<1>1. FloodTypes
  BY DEF FloodInv
<1>2. /\ UNCHANGED <<running, nbr_list, sequence_num, mospf_db, hung>> /\ faults' = faults + 1
      /\ links' \subseteq Links /\ wire' \in [Pairs -> Seq(LsuType)]
      /\ \A p \in Pairs : Flow(wire', p) \subseteq Flow(wire, p)
  <2>1. CASE \E p \in Pairs : Lose(p)
    <3>1. PICK e \in Pairs : Lose(e)
      BY <2>1
    <3>2. /\ UNCHANGED <<running, links, nbr_list, sequence_num, mospf_db, hung>>
          /\ faults' = faults + 1 /\ wire[e] # <<>> /\ wire' = [wire EXCEPT ![e] = Tail(@)]
      BY <3>1 DEF Lose, routes
    <3>3. QED
      BY <1>1, <3>2, TakenFrom DEF FloodTypes
  <2>2. CASE \E l \in Links : CutOrRepair(l)
    <3>1. PICK l \in Links : CutOrRepair(l)
      BY <2>2
    <3>2. /\ UNCHANGED <<running, nbr_list, sequence_num, mospf_db, hung>>
          /\ faults' = faults + 1 /\ links' \subseteq Links
          /\ wire' = [p \in Pairs |-> IF {p[1], p[2]} = l THEN <<>> ELSE wire[p]]
      BY <1>1, <3>1 DEF CutOrRepair, routes, FloodTypes
    <3>3. <<>> \in Seq(LsuType) /\ \A p : <<>> = wire'[p] => Flow(wire', p) = {}
      BY EmptySeq DEF Flow
    <3>4. ASSUME NEW p \in Pairs
          PROVE  wire'[p] \in Seq(LsuType) /\ Flow(wire', p) \subseteq Flow(wire, p)
      <4>1. wire'[p] = <<>> \/ wire'[p] = wire[p]
        BY <3>2
      <4>2. wire[p] \in Seq(LsuType)
        BY <1>1 DEF FloodTypes
      <4>3. QED
        BY <3>3, <4>1, <4>2 DEF Flow
    <3>5. wire' \in [Pairs -> Seq(LsuType)]
      BY <3>2, <3>4
    <3>6. QED
      BY <3>2, <3>4, <3>5
  <2>3. QED
    BY <2>1, <2>2
<1>3. FloodTypes'
  BY <1>1, <1>2 DEF FloodTypes
<1>4. faults <= faults'
  BY <1>1, <1>2 DEF FloodTypes
<1>5. QED
  BY <1>2, <1>3, <1>4, Fewer
-----------------------------------------------------------------------------
(* Taking an entry out of a database. *)
LEMMA RemovedAt ==
    ASSUME NEW T, NEW q \in Seq(T), NEW i \in 1..Len(q)
    PROVE  /\ RemoveAt(q, i) \in Seq(T) /\ DOMAIN RemoveAt(q, i) = 1..Len(q) - 1
           /\ \A j \in 1..Len(q) - 1 : RemoveAt(q, i)[j] = q[IF j < i THEN j ELSE j + 1]
<1> DEFINE a == SubSeq(q, 1, i - 1)
           b == SubSeq(q, i + 1, Len(q))
<1>1. Len(q) \in Nat /\ i \in Nat /\ 1 <= i /\ i <= Len(q) /\ \A j \in 1..Len(q) : q[j] \in T
  BY LenProperties, ElementOfSeq
<1>2. a \in Seq(T) /\ Len(a) = i - 1 /\ \A j \in 1..i - 1 : a[j] = q[j]
  <2>1. \A j \in 1..i - 1 : q[j] \in T
    BY <1>1
  <2>2. /\ a \in Seq(T) /\ Len(a) = IF 1 <= i - 1 THEN i - 1 - 1 + 1 ELSE 0
        /\ \A j \in 1..i - 1 - 1 + 1 : a[j] = q[1 + j - 1]
    BY <1>1, <2>1, SubSeqProperties
  <2>3. QED
    BY <1>1, <2>2
<1>3. b \in Seq(T) /\ Len(b) = Len(q) - i /\ \A j \in 1..Len(q) - i : b[j] = q[i + j]
  <2>1. \A j \in i + 1..Len(q) : q[j] \in T
    BY <1>1
  <2>2. /\ b \in Seq(T) /\ Len(b) = IF i + 1 <= Len(q) THEN Len(q) - (i + 1) + 1 ELSE 0
        /\ \A j \in 1..Len(q) - (i + 1) + 1 : b[j] = q[i + 1 + j - 1]
    BY <1>1, <2>1, SubSeqProperties
  <2>3. QED
    BY <1>1, <2>2
<1> HIDE DEF a, b
<1>4. /\ a \o b \in Seq(T) /\ Len(a \o b) = Len(a) + Len(b)
      /\ \A j \in 1..Len(a) + Len(b) : (a \o b)[j] = IF j <= Len(a) THEN a[j] ELSE b[j - Len(a)]
  BY <1>2, <1>3, ConcatProperties
<1>5. Len(a) + Len(b) = Len(q) - 1 /\ DOMAIN (a \o b) = 1..Len(q) - 1
  BY <1>1, <1>2, <1>3, <1>4, LenProperties
<1>6. ASSUME NEW j \in 1..Len(q) - 1
      PROVE  (a \o b)[j] = q[IF j < i THEN j ELSE j + 1]
  <2>1. CASE j < i
    <3>1. j \in 1..i - 1 /\ j <= Len(a) /\ j \in 1..Len(a) + Len(b)
      BY <1>1, <1>2, <1>5, <2>1
    <3>2. QED
      BY <1>2, <1>4, <2>1, <3>1
  <2>2. CASE ~(j < i)
    <3>1. /\ ~(j <= Len(a)) /\ j \in 1..Len(a) + Len(b) /\ j - Len(a) \in 1..Len(q) - i
          /\ i + (j - Len(a)) = j + 1
      BY <1>1, <1>2, <1>5, <2>2
    <3>2. (a \o b)[j] = b[j - Len(a)] /\ b[j - Len(a)] = q[i + (j - Len(a))]
      BY <1>3, <1>4, <3>1
    <3>3. QED
      BY <2>2, <3>1, <3>2
  <2>3. QED
    BY <2>1, <2>2
<1>7. RemoveAt(q, i) = a \o b
  BY DEF RemoveAt, a, b
<1>8. QED
  BY <1>4, <1>5, <1>6, <1>7

LEMMA Database ==
    ASSUME FloodInv, NEW r \in Routers
    PROVE  /\ mospf_db[r] \in Seq(EntryType) /\ Len(mospf_db[r]) \in Nat
           /\ DOMAIN mospf_db[r] = 1..Len(mospf_db[r]) /\ OnePerRouter(mospf_db[r])
           /\ \A i \in DOMAIN mospf_db[r] : /\ mospf_db[r][i] \in EntryType
                                            /\ mospf_db[r][i].rid # r
                                            /\ mospf_db[r][i].seq \in Nat
<1>1. mospf_db[r] \in Seq(EntryType) /\ OnePerRouter(mospf_db[r]) /\ r \notin Rids(mospf_db[r])
  BY DEF FloodInv, FloodTypes, Databases
<1>2. Len(mospf_db[r]) \in Nat /\ DOMAIN mospf_db[r] = 1..Len(mospf_db[r])
  BY <1>1, LenProperties
<1>3. \A i \in DOMAIN mospf_db[r] : mospf_db[r][i] \in EntryType
  BY <1>1, <1>2, ElementOfSeq
<1>4. QED
  BY <1>1, <1>2, <1>3 DEF Rids, EntryType

LEMMA EntryFound ==
    ASSUME NEW db, NEW o \in Rids(db)
    PROVE  EntryOf(db, o) \in DOMAIN db /\ db[EntryOf(db, o)].rid = o
<1>1. \E i \in DOMAIN db : db[i].rid = o
  BY DEF Rids
<1>2. QED
  BY <1>1 DEF EntryOf

(* checking_database_thread: nothing is under way when an entry gets so old.*)
LEMMA TimeoutStep ==
    ASSUME MospfConstants, FloodInv, NEW r \in Routers, NEW o \in Routers, DbTimeout(r, o)
    PROVE  FloodInv'
<1> DEFINE db == mospf_db[r]
           i == EntryOf(db, o)
           new == RemoveAt(db, i)
           Old(j) == IF j < i THEN j ELSE j + 1
<1>1. /\ mospf_db' = [mospf_db EXCEPT ![r] = new] /\ o \in Rids(db)
      /\ UNCHANGED <<running, links, nbr_list, sequence_num, wire, hung, faults>>
      /\ \A p \in Pairs : wire[p] = <<>>
  BY DEF DbTimeout, Expired, Quiet, routes, bounds
<1>2. FloodTypes /\ Databases
  BY DEF FloodInv
<1>3. /\ db \in Seq(EntryType) /\ Len(db) \in Nat /\ DOMAIN db = 1..Len(db) /\ OnePerRouter(db)
      /\ \A j \in DOMAIN db : db[j].rid # r
  BY Database
<1>4. i \in 1..Len(db)
  BY <1>1, <1>3, EntryFound
<1> HIDE DEF db, i
<1>5. /\ new \in Seq(EntryType) /\ DOMAIN new = 1..Len(db) - 1
      /\ \A j \in 1..Len(db) - 1 : new[j] = db[Old(j)]
  BY <1>3, <1>4, RemovedAt
<1> HIDE DEF new
<1>6. /\ \A j \in 1..Len(db) - 1 : Old(j) \in 1..Len(db)
      /\ \A j, k \in 1..Len(db) - 1 : Old(j) = Old(k) => j = k
  BY <1>3, <1>4
<1> HIDE DEF Old
<1>7. OnePerRouter(new)
  BY <1>3, <1>5, <1>6 DEF OnePerRouter
<1>8. r \notin Rids(new)
  BY <1>3, <1>5, <1>6 DEF Rids
<1>9. FloodTypes'
  BY <1>1, <1>2, <1>5 DEF FloodTypes
<1>10. Databases'
  BY <1>1, <1>2, <1>7, <1>8 DEF Databases, FloodTypes
<1>11. Flooded'
  <2>1. \A p \in Pairs : Flow(wire, p)' = {}
    BY <1>1 DEF Flow
  <2>2. QED
    BY <2>1 DEF Flooded
<1>12. QED
  BY <1>9, <1>10, <1>11 DEF FloodInv

(* A router that stops forgets what it knew, and that is counted. *)
LEMMA ShutDownStep ==
    ASSUME MospfConstants, FloodInv, NEW r \in Routers, ShutDown(r)
    PROVE  FloodInv'
<1>1. FloodTypes /\ Databases
  BY DEF FloodInv
<1>2. /\ faults' = faults + 1 /\ running' = running \ {r} /\ hung' = hung \ {r}
      /\ wire' = [p \in Pairs |-> IF p[2] = r THEN <<>> ELSE wire[p]]
      /\ nbr_list' = [nbr_list EXCEPT ![r] = {}]
      /\ sequence_num' = [sequence_num EXCEPT ![r] = 0]
      /\ mospf_db' = [mospf_db EXCEPT ![r] = <<>>] /\ UNCHANGED links
  BY DEF ShutDown
<1>3. /\ <<>> \in Seq(LsuType) /\ <<>> \in Seq(EntryType) /\ 0 \in 0..SeqSize - 1
      /\ DOMAIN <<>> = {}
  <2>1. 0 \in 0..SeqSize - 1
    BY DEF MospfConstants
  <2>2. QED
    BY <2>1, EmptySeq
<1>4. ASSUME NEW p \in Pairs
      PROVE  wire'[p] \in Seq(LsuType) /\ Flow(wire', p) \subseteq Flow(wire, p)
  <2>1. wire'[p] = <<>> \/ wire'[p] = wire[p]
    BY <1>2
  <2>2. wire[p] \in Seq(LsuType)
    BY <1>1 DEF FloodTypes
  <2>3. QED
    BY <1>3, <2>1, <2>2 DEF Flow
<1>5. wire' \in [Pairs -> Seq(LsuType)]
  BY <1>2, <1>4
<1>6. FloodTypes'
  BY <1>1, <1>2, <1>3, <1>5 DEF FloodTypes
<1>7. Databases'
  <2>1. mospf_db'[r] = <<>> /\ \A s \in Routers \ {r} : mospf_db'[s] = mospf_db[s]
    BY <1>1, <1>2 DEF FloodTypes
  <2>2. OnePerRouter(<<>>) /\ r \notin Rids(<<>>)
    BY <1>3 DEF OnePerRouter, Rids
  <2>3. QED
    BY <1>1, <2>1, <2>2 DEF Databases
<1>8. ASSUME NEW p \in Pairs, NEW c \in Flow(wire, p)'
      PROVE  Bounded(c, p)'
  <2>1. c \in Flow(wire, p) /\ c \in LsuType /\ Bounded(c, p)
    <3>1. c \in Flow(wire, p)
      BY <1>4, <1>8 DEF Flow
    <3>2. QED
      BY <1>1, <3>1, FlowTypes DEF FloodTypes, FloodInv, Flooded
  <2> DEFINE K == Knows(c.rid, c.seq)
             L == Knows(c.rid, c.seq)'
  <2>2. K \subseteq L \cup {r}
    <3>1. \A s \in Routers \ {r} : mospf_db'[s] = mospf_db[s]
      BY <1>1, <1>2 DEF FloodTypes
    <3>2. QED
      BY <3>1 DEF Knows
  <2>3. IsFiniteSet(K) /\ Cardinality(K) \in Nat /\ IsFiniteSet(L) /\ Cardinality(L) \in Nat
    BY KnowsFinite, KnowsFiniteNext
  <2> HIDE DEF K, L
  <2>4. IsFiniteSet(L \cup {r}) /\ Cardinality(L \cup {r}) <= Cardinality(L) + 1
        /\ Cardinality(L \cup {r}) \in Nat
    <3>1. /\ IsFiniteSet(L \cup {r})
          /\ Cardinality(L \cup {r}) = IF r \in L THEN Cardinality(L) ELSE Cardinality(L) + 1
      BY <2>3, FS_AddElement
    <3>2. QED
      BY <2>3, <3>1
  <2>5. Cardinality(K) <= Cardinality(L \cup {r})
    BY <2>2, <2>4, FS_Subset
  <2>6. /\ c.ttl \in Nat /\ MaxTtl \in Nat /\ faults \in Nat
        /\ MaxTtl - c.ttl <= Cardinality(K) + faults
    BY <1>1, <2>1 DEF LsuType, MospfConstants, FloodTypes, Bounded, K
  <2>7. MaxTtl - c.ttl <= Cardinality(L) + faults'
    BY <1>2, <2>3, <2>4, <2>5, <2>6
  <2>8. QED
    BY <2>1, <2>7 DEF Bounded, L
<1>9. QED
  BY <1>6, <1>7, <1>8 DEF FloodInv, Flooded
-----------------------------------------------------------------------------
(* What handle_mospf_lsu does to a database, with an entry it has not or    *)
(* that is newer than the one it has.                                       *)
Stored(new, db, e, r) ==
    /\ new \in Seq(EntryType) /\ OnePerRouter(new) /\ r \notin Rids(new)
    /\ \A i \in DOMAIN db : \E j \in DOMAIN new : /\ new[j].rid = db[i].rid
                                                  /\ db[i].seq <= new[j].seq
    /\ \E j \in DOMAIN new : new[j] = e
    /\ \A i \in DOMAIN db : db[i].rid = e.rid => db[i].seq < e.seq

LEMMA EntryTypes ==
    ASSUME MospfConstants, NEW db \in Seq(EntryType)
    PROVE  /\ Len(db) \in Nat /\ DOMAIN db = 1..Len(db) /\ db \in [1..Len(db) -> EntryType]
           /\ \A i \in DOMAIN db : /\ db[i] \in EntryType /\ db[i].seq \in Nat
                                   /\ db[i].seq <= db[i].seq
<1>1. Len(db) \in Nat /\ DOMAIN db = 1..Len(db) /\ db \in [1..Len(db) -> EntryType]
  BY LenProperties
<1>2. \A i \in DOMAIN db : db[i] \in EntryType
  BY <1>1, ElementOfSeq
<1>3. ASSUME NEW x \in EntryType
      PROVE  x.seq \in Nat
  BY DEF EntryType, MospfConstants
<1>4. \A i \in DOMAIN db : db[i].seq \in Nat
  BY <1>2, <1>3
<1>5. \A i \in DOMAIN db : db[i].seq <= db[i].seq
  BY <1>4
<1>6. QED
  BY <1>1, <1>2, <1>4, <1>5

LEMMA EntryAdded ==
    ASSUME MospfConstants, NEW r, NEW db \in Seq(EntryType), OnePerRouter(db), r \notin Rids(db),
           NEW e \in EntryType, e.rid # r, e.rid \notin Rids(db)
    PROVE  Stored(Append(db, e), db, e, r)
<1> DEFINE new == Append(db, e)
           n == Len(db)
<1>1. /\ n \in Nat /\ DOMAIN db = 1..n
      /\ \A i \in 1..n : db[i].seq <= db[i].seq
  BY EntryTypes
<1>2. new \in Seq(EntryType) /\ Len(new) = n + 1
  BY AppendProperties
<1>3. new[n + 1] = e /\ \A i \in 1..n : new[i] = db[i]
  BY AppendProperties
<1> HIDE DEF new
<1>4. DOMAIN new = 1..Len(new)
  BY <1>2, LenProperties
<1>5. DOMAIN new = 1..n + 1
  BY <1>2, <1>4, Zenon
<1>6. /\ \A i \in 1..n : db[i].rid # e.rid
      /\ \A i \in 1..n : db[i].rid # r
  BY <1>1 DEF Rids
<1> HIDE DEF n
<1>7. /\ \A i \in 1..n + 1 : i \in 1..n \/ i = n + 1
      /\ n + 1 \in 1..n + 1 /\ \A i \in 1..n : i \in 1..n + 1
  BY <1>1
<1>8. \A i, j \in 1..n : new[i].rid = new[j].rid => i = j
  BY <1>1, <1>3 DEF OnePerRouter
<1>9. \A i \in 1..n : new[i].rid # new[n + 1].rid
  BY <1>3, <1>6
<1>10. OnePerRouter(new)
  BY <1>5, <1>7, <1>8, <1>9, Zenon DEF OnePerRouter
<1>11. r \notin Rids(new)
  <2>1. \A i \in 1..n + 1 : new[i].rid # r
    BY <1>3, <1>6, <1>7
  <2>2. QED
    BY <1>5, <2>1 DEF Rids
<1>12. \A i \in DOMAIN db : \E j \in DOMAIN new : /\ new[j].rid = db[i].rid
                                                  /\ db[i].seq <= new[j].seq
  <2> SUFFICES ASSUME NEW i \in 1..n
               PROVE  i \in DOMAIN new /\ new[i].rid = db[i].rid /\ db[i].seq <= new[i].seq
    BY <1>1
  <2>1. new[i] = db[i] /\ db[i].seq <= db[i].seq
    BY <1>1, <1>3
  <2>2. QED
    BY <1>5, <1>7, <2>1
<1>13. \E j \in DOMAIN new : new[j] = e
  BY <1>3, <1>5, <1>7
<1>14. QED
  BY <1>1, <1>2, <1>6, <1>10, <1>11, <1>12, <1>13 DEF Stored, new

LEMMA EntryReplaced ==
    ASSUME MospfConstants, NEW r, NEW db \in Seq(EntryType), OnePerRouter(db), r \notin Rids(db),
           NEW e \in EntryType, NEW k \in DOMAIN db, db[k].rid = e.rid, db[k].seq < e.seq
    PROVE  Stored([db EXCEPT ![k] = e], db, e, r)
<1> DEFINE new == [db EXCEPT ![k] = e]
           n == Len(db)
<1>1. /\ n \in Nat /\ DOMAIN db = 1..n /\ db \in [1..n -> EntryType]
      /\ \A i \in 1..n : db[i].seq \in Nat /\ db[i].seq <= db[i].seq
  BY EntryTypes
<1>2. e.seq \in Nat
  BY DEF EntryType, MospfConstants
<1>3. db[k].seq <= e.seq
  BY <1>1, <1>2
<1> HIDE DEF n
<1>4. /\ new \in [1..n -> EntryType] /\ DOMAIN new = 1..n
      /\ new[k] = e /\ \A i \in 1..n : i # k => new[i] = db[i]
  BY <1>1
<1> HIDE DEF new
<1>5. new \in Seq(EntryType)
  <2>1. \E m \in Nat : new \in [1..m -> EntryType]
    BY <1>1, <1>4
  <2>2. QED
    BY <2>1, SeqDef
<1>6. \A i \in 1..n : new[i].rid = db[i].rid
  <2> TAKE i \in 1..n
  <2>1. CASE i = k
    BY <1>4, <2>1
  <2>2. CASE i # k
    BY <1>4, <2>2
  <2>3. QED
    BY <2>1, <2>2
<1>7. OnePerRouter(new)
  <2>1. \A i, j \in 1..n : db[i].rid = db[j].rid => i = j
    BY <1>1 DEF OnePerRouter
  <2>2. \A i, j \in 1..n : new[i].rid = new[j].rid => i = j
    BY <1>6, <2>1
  <2>3. QED
    BY <1>4, <2>2 DEF OnePerRouter
<1>8. r \notin Rids(new)
  <2>1. \A i \in 1..n : db[i].rid # r
    BY <1>1 DEF Rids
  <2>2. \A i \in 1..n : new[i].rid # r
    BY <1>6, <2>1
  <2>3. QED
    BY <1>4, <2>2 DEF Rids
<1>9. \A i \in 1..n : db[i].seq <= new[i].seq
  <2> TAKE i \in 1..n
  <2>1. CASE i = k
    BY <1>3, <1>4, <2>1
  <2>2. CASE i # k
    BY <1>1, <1>4, <2>2
  <2>3. QED
    BY <2>1, <2>2
<1>10. \A i \in 1..n : db[i].rid = e.rid => db[i].seq < e.seq
  <2>1. \A i \in 1..n : db[i].rid = db[k].rid => i = k
    BY <1>1 DEF OnePerRouter
  <2>2. QED
    BY <2>1
<1>11. \A i \in 1..n : \E j \in DOMAIN new : /\ new[j].rid = db[i].rid
                                             /\ db[i].seq <= new[j].seq
  BY <1>4, <1>6, <1>9
<1>12. \E j \in DOMAIN new : new[j] = e
  BY <1>1, <1>4
<1>13. QED
  BY <1>1, <1>5, <1>7, <1>8, <1>10, <1>11, <1>12 DEF Stored, new
-----------------------------------------------------------------------------
(* handle_mospf_lsu, of an LSU that is old: it is dropped. *)
LEMMA OldLsuStep ==
    ASSUME MospfConstants, FloodInv, NEW r \in Routers, NEW s \in Routers, HandleLsu(r, s),
           mospf_db' = mospf_db, wire' = [wire EXCEPT ![<<s, r>>] = Tail(@)]
    PROVE  FloodInv'
<1>1. FloodTypes
  BY DEF FloodInv
<1>2. /\ <<s, r>> \in Pairs /\ wire[<<s, r>>] # <<>>
      /\ UNCHANGED <<running, links, nbr_list, sequence_num, hung, faults>>
  BY DEF HandleLsu, routes, bounds
<1>3. /\ wire' \in [Pairs -> Seq(LsuType)]
      /\ \A p \in Pairs : Flow(wire', p) \subseteq Flow(wire, p)
  BY <1>1, <1>2, TakenFrom DEF FloodTypes
<1>4. FloodTypes'
  BY <1>1, <1>2, <1>3 DEF FloodTypes
<1>5. faults <= faults'
  BY <1>1, <1>2 DEF FloodTypes
<1>6. QED
  BY <1>3, <1>4, <1>5, Fewer

(* Of one that is new: r knows it from then on, and did not before, so that *)
(* what it forwards has crossed one more router that knows it.              *)
LEMMA NewLsuStep ==
    ASSUME MospfConstants, FloodInv, NEW r \in Routers, NEW s \in Routers, HandleLsu(r, s),
           NEW lsu \in Flow(wire, <<s, r>>), NEW entry, NEW new,
           entry.rid = lsu.rid, entry.seq = lsu.seq, Stored(new, mospf_db[r], entry, r),
           mospf_db' = [mospf_db EXCEPT ![r] = new],
           wire' = Forward([wire EXCEPT ![<<s, r>>] = Tail(@)], r, lsu)
    PROVE  FloodInv'
<1> DEFINE db == mospf_db[r]
           e == <<s, r>>
           rest == [wire EXCEPT ![e] = Tail(@)]
           told == [lsu EXCEPT !.ttl = @ - 1]
           to == {n \in nbr_list[r] : n # lsu.rid}
<1>1. FloodTypes /\ Databases
  BY DEF FloodInv
<1>2. /\ e \in Pairs /\ wire[e] # <<>>
      /\ UNCHANGED <<running, links, nbr_list, sequence_num, hung, faults>>
  BY DEF HandleLsu, routes, bounds
<1>3. /\ rest \in [Pairs -> Seq(LsuType)]
      /\ \A p \in Pairs : Flow(rest, p) \subseteq Flow(wire, p)
  BY <1>1, <1>2, TakenFrom DEF FloodTypes
<1>4. lsu \in LsuType /\ Bounded(lsu, e) /\ lsu.rid # r
  <2>1. lsu \in LsuType
    BY <1>1, <1>2, <1>3, FlowTypes DEF FloodTypes
  <2>2. Bounded(lsu, e)
    BY <1>2, <1>3 DEF FloodInv, Flooded
  <2>3. QED
    BY <2>1, <2>2 DEF Bounded
<1>5. /\ lsu.rid \in Routers /\ lsu.seq \in Nat /\ lsu.ttl \in Nat \ {0} /\ lsu.ttl <= MaxTtl
      /\ MaxTtl \in Nat /\ faults \in Nat
  <2>1. /\ lsu.rid \in Routers /\ lsu.seq \in 0..SeqSize - 1 /\ lsu.ttl \in 1..MaxTtl
    BY <1>4 DEF LsuType
  <2>2. SeqSize \in Nat /\ MaxTtl \in Nat /\ faults \in Nat
    BY <1>1 DEF MospfConstants, FloodTypes
  <2>3. QED
    BY <2>1, <2>2
<1>6. /\ db \in Seq(EntryType) /\ Len(db) \in Nat /\ DOMAIN db = 1..Len(db) /\ OnePerRouter(db)
      /\ \A i \in DOMAIN db : db[i] \in EntryType /\ db[i].rid # r /\ db[i].seq \in Nat
  BY Database
<1> HIDE DEF db, rest, told, to
(* The database. *)
<1>7. /\ new \in Seq(EntryType) /\ OnePerRouter(new) /\ r \notin Rids(new)
      /\ \A i \in DOMAIN db : \E j \in DOMAIN new : /\ new[j].rid = db[i].rid
                                                    /\ db[i].seq <= new[j].seq
      /\ \E j \in DOMAIN new : new[j] = entry
      /\ \A i \in DOMAIN db : db[i].rid = lsu.rid => db[i].seq < lsu.seq
  BY DEF Stored, db
<1>8. mospf_db'[r] = new /\ \A t \in Routers \ {r} : mospf_db'[t] = mospf_db[t]
  BY <1>1 DEF FloodTypes
<1>9. mospf_db' \in [Routers -> Seq(EntryType)]
  BY <1>1, <1>7 DEF FloodTypes
<1>10. Databases'
  BY <1>1, <1>7, <1>8 DEF Databases
<1>11. ASSUME NEW o \in Routers, NEW q \in Nat
       PROVE  Knows(o, q) \subseteq Knows(o, q)'
  <2> SUFFICES ASSUME NEW t \in Knows(o, q) PROVE t \in Knows(o, q)'
    OBVIOUS
  <2>1. PICK i \in DOMAIN mospf_db[t] : mospf_db[t][i].rid = o /\ q <= mospf_db[t][i].seq
    BY DEF Knows
  <2>2. CASE t = r
    <3>1. PICK j \in DOMAIN new : new[j].rid = db[i].rid /\ db[i].seq <= new[j].seq
      BY <1>7, <2>1, <2>2 DEF db
    <3>2. new[j].seq \in Nat /\ db[i].seq \in Nat
      <4>1. new[j] \in EntryType
        BY <1>7, <3>1, LenProperties, ElementOfSeq
      <4>2. new[j].seq \in Nat
        BY <4>1 DEF EntryType
      <4>3. i \in DOMAIN db
        BY <2>2 DEF db
      <4>4. QED
        BY <1>6, <4>2, <4>3
    <3>3. q <= new[j].seq /\ new[j].rid = o
      BY <2>1, <2>2, <3>1, <3>2 DEF db
    <3>4. QED
      BY <1>8, <2>2, <3>1, <3>3 DEF Knows
  <2>3. CASE t # r
    BY <1>8, <2>1, <2>3 DEF Knows
  <2>4. QED
    BY <2>2, <2>3
<1>12. /\ r \notin Knows(lsu.rid, lsu.seq) /\ r \in Knows(lsu.rid, lsu.seq)'
  <2>1. \A i \in DOMAIN db : ~(db[i].rid = lsu.rid /\ lsu.seq <= db[i].seq)
    <3> SUFFICES ASSUME NEW i \in DOMAIN db, db[i].rid = lsu.rid
                 PROVE  ~(lsu.seq <= db[i].seq)
      OBVIOUS
    <3>1. db[i].seq < lsu.seq /\ db[i].seq \in Nat /\ lsu.seq \in Nat
      BY <1>5, <1>6, <1>7
    <3>2. QED
      BY <3>1
  <2>2. r \notin Knows(lsu.rid, lsu.seq)
    BY <2>1 DEF Knows, db
  <2>3. \E j \in DOMAIN new : new[j].rid = lsu.rid /\ lsu.seq <= new[j].seq
    <3>1. lsu.seq <= lsu.seq
      BY <1>5
    <3>2. QED
      BY <1>7, <3>1
  <2>4. QED
    BY <1>8, <2>2, <2>3 DEF Knows
(* The network. *)
<1>13. told.rid = lsu.rid /\ told.seq = lsu.seq /\ told.ttl = lsu.ttl - 1
  BY <1>4 DEF LsuType, told
<1>14. MaxTtl - told.ttl <= Cardinality(Knows(lsu.rid, lsu.seq)') + faults'
  <2> DEFINE K == Knows(lsu.rid, lsu.seq)
             L == Knows(lsu.rid, lsu.seq)'
  <2>1. K \cup {r} \subseteq L /\ r \notin K
    BY <1>5, <1>11, <1>12
  <2>2. IsFiniteSet(K) /\ Cardinality(K) \in Nat /\ IsFiniteSet(L) /\ Cardinality(L) \in Nat
    BY KnowsFinite, KnowsFiniteNext
  <2>3. MaxTtl - lsu.ttl <= Cardinality(K) + faults
    BY <1>4 DEF Bounded
  <2> HIDE DEF K, L
  <2>4. Cardinality(K \cup {r}) = Cardinality(K) + 1
    BY <2>1, <2>2, FS_AddElement
  <2>5. Cardinality(K \cup {r}) <= Cardinality(L)
    BY <2>1, <2>2, FS_Subset
  <2>6. MaxTtl - told.ttl <= Cardinality(L) + faults'
    <3>1. faults' = faults /\ told.ttl = lsu.ttl - 1
      BY <1>2, <1>13
    <3>2. Cardinality(K) + 1 <= Cardinality(L)
      BY <2>4, <2>5
    <3>3. /\ faults \in Nat /\ lsu.ttl \in Nat /\ MaxTtl \in Nat
          /\ Cardinality(K) \in Nat /\ Cardinality(L) \in Nat
      BY <1>5, <2>2
    <3> HIDE DEF told
    <3>4. QED
      BY <2>3, <3>1, <3>2, <3>3
  <2>7. QED
    BY <2>6 DEF L
<1>15. /\ wire' \in [Pairs -> Seq(LsuType)]
       /\ \A p \in Pairs : \A c \in Flow(wire', p) :
             c \in Flow(wire, p) \/ (p[2] \in to /\ c = told)
  <2>1. CASE lsu.ttl - 1 > 0
    <3>1. told \in LsuType
      <4>1. lsu.ttl - 1 \in 1..MaxTtl
        <5>1. lsu.ttl \in Nat /\ MaxTtl \in Nat /\ lsu.ttl <= MaxTtl /\ lsu.ttl - 1 > 0
          BY <1>5, <2>1
        <5>2. QED
          BY <5>1
      <4>2. QED
        BY <1>4, <4>1 DEF told, LsuType
    <3>2. wire' = Send(rest, r, to, told)
      BY <2>1 DEF Forward, rest, told, to
    <3>3. /\ Send(rest, r, to, told) \in [Pairs -> Seq(LsuType)]
          /\ \A p \in Pairs : \A c \in Flow(Send(rest, r, to, told), p) :
                c \in Flow(rest, p) \/ (p[1] = r /\ p[2] \in to /\ c = told)
      BY <1>3, <3>1, SentAlong
    <3> DEFINE sent == Send(rest, r, to, told)
    <3> HIDE DEF sent
    <3>4. ASSUME NEW p \in Pairs, NEW c \in Flow(wire', p)
          PROVE  c \in Flow(wire, p) \/ (p[2] \in to /\ c = told)
      <4>1. c \in Flow(sent, p)
        BY <3>2 DEF sent
      <4>2. c \in Flow(rest, p) \/ (p[2] \in to /\ c = told)
        BY <3>3, <4>1 DEF sent
      <4>3. QED
        BY <1>3, <4>2
    <3>5. wire' \in [Pairs -> Seq(LsuType)]
      BY <3>2, <3>3, Zenon
    <3>6. QED
      BY <3>4, <3>5
  <2>2. CASE ~(lsu.ttl - 1 > 0)
    <3>1. wire' = rest
      BY <2>2 DEF Forward, rest
    <3>2. QED
      BY <1>3, <3>1
  <2>3. QED
    BY <2>1, <2>2
<1>16. FloodTypes'
  BY <1>1, <1>2, <1>9, <1>15 DEF FloodTypes
<1>17. ASSUME NEW p \in Pairs, NEW c \in Flow(wire, p)'
       PROVE  c \in Flow(wire, p) \/ Bounded(c, p)'
  <2>1. c \in Flow(wire, p) \/ (p[2] \in to /\ c = told)
    BY <1>15 DEF Flow
  <2>2. CASE p[2] \in to /\ c = told
    <3>1. c.rid # p[2] /\ c.rid = lsu.rid /\ c.seq = lsu.seq /\ c.ttl = told.ttl
      BY <1>13, <2>2 DEF to
    <3>2. Knows(c.rid, c.seq)' = Knows(lsu.rid, lsu.seq)'
      BY <3>1
    <3>3. MaxTtl - c.ttl <= Cardinality(Knows(c.rid, c.seq)') + faults'
      BY <1>14, <3>1, <3>2
    <3>4. QED
      BY <3>1, <3>3 DEF Bounded
  <2>3. QED
    BY <2>1, <2>2
<1>18. Flooded'
  <2>1. faults' \in Nat /\ faults <= faults'
    BY <1>2, <1>5
  <2>2. QED
    BY <1>11, <1>17, <2>1, FloodedStep
<1>19. QED
  BY <1>10, <1>16, <1>18 DEF FloodInv

LEMMA LsuStep ==
    ASSUME MospfConstants, FloodInv, NEW r \in Routers, NEW s \in Routers, HandleLsu(r, s)
    PROVE  FloodInv'
<1> DEFINE lsu == Head(wire[<<s, r>>])
           db == mospf_db[r]
           i == EntryOf(db, lsu.rid)
           entry == [rid |-> lsu.rid, seq |-> lsu.seq, array |-> lsu.array]
           rest == [wire EXCEPT ![<<s, r>>] = Tail(@)]
           isFound == lsu.rid \in Rids(db)
           new == IF isFound THEN [db EXCEPT ![i] = entry] ELSE Append(db, entry)
<1>1. /\ mospf_db' = [mospf_db EXCEPT ![r] =
                         IF ~isFound THEN Append(db, entry)
                         ELSE IF Newer(db[i], lsu) THEN [db EXCEPT ![i] = entry] ELSE db]
      /\ wire' = IF ~isFound \/ Newer(db[i], lsu) THEN Forward(rest, r, lsu) ELSE rest
  BY DEF HandleLsu
<1>2. mospf_db = [mospf_db EXCEPT ![r] = db]
  BY DEF FloodInv, FloodTypes
<1>3. CASE isFound /\ ~Newer(db[i], lsu)
  <2>1. mospf_db' = mospf_db /\ wire' = rest
    BY <1>1, <1>2, <1>3
  <2>2. QED
    BY <2>1, OldLsuStep
<1>4. CASE ~isFound \/ Newer(db[i], lsu)
  <2>1. /\ mospf_db' = [mospf_db EXCEPT ![r] = new] /\ wire' = Forward(rest, r, lsu)
        /\ \/ ~isFound /\ new = Append(db, entry)
           \/ isFound /\ db[i].seq < lsu.seq /\ new = [db EXCEPT ![i] = entry]
    BY <1>1, <1>4 DEF Newer
  <2>2. /\ lsu \in Flow(wire, <<s, r>>) /\ lsu \in LsuType
    <3>1. <<s, r>> \in Pairs /\ wire[<<s, r>>] # <<>> /\ wire \in [Pairs -> Seq(LsuType)]
      BY DEF HandleLsu, FloodInv, FloodTypes
    <3>2. lsu \in Flow(wire, <<s, r>>)
      BY <3>1, TakenFrom
    <3>3. QED
      BY <3>1, <3>2, FlowTypes
  <2>3. <<s, r>> \in Pairs
    BY DEF HandleLsu
  <2> HIDE DEF lsu
  <2>4. entry \in EntryType /\ entry.rid = lsu.rid /\ entry.seq = lsu.seq
    BY <2>2 DEF LsuType, EntryType
  <2>5. entry \in EntryType /\ entry.rid # r
    <3>1. lsu.rid # r
      BY <2>2, <2>3 DEF FloodInv, Flooded, Bounded
    <3>2. QED
      BY <2>4, <3>1
  <2>6. db \in Seq(EntryType) /\ OnePerRouter(db) /\ r \notin Rids(db)
    BY DEF FloodInv, FloodTypes, Databases
  <2> HIDE DEF entry, db
  <2>7. Stored(new, db, entry, r)
    <3>1. CASE ~isFound
      BY <2>4, <2>5, <2>6, <3>1, EntryAdded
    <3>2. CASE isFound
      <4>1. i \in DOMAIN db /\ db[i].rid = entry.rid /\ db[i].seq < entry.seq
        BY <2>1, <2>4, <3>2, EntryFound
      <4>2. Stored([db EXCEPT ![i] = entry], db, entry, r)
        BY <2>5, <2>6, <4>1, EntryReplaced
      <4>3. QED
        BY <3>2, <4>2
    <3>3. QED
      BY <3>1, <3>2
  <2> HIDE DEF new
  <2>8. QED
    BY <2>1, <2>2, <2>4, <2>7, NewLsuStep DEF db
<1>5. QED
  BY <1>3, <1>4
-----------------------------------------------------------------------------
(* The first databases have one entry for every other router. *)
LEMMA SetListed ==
    ASSUME NEW S, IsFiniteSet(S)
    PROVE  /\ Cardinality(S) \in Nat /\ SetToSeq(S) \in [1..Cardinality(S) -> S]
           /\ \A i, j \in 1..Cardinality(S) : SetToSeq(S)[i] = SetToSeq(S)[j] => i = j
<1> DEFINE n == Cardinality(S)
<1>1. n \in Nat /\ ExistsBijection(1..n, S)
  BY FS_CardinalityType
<1> HIDE DEF n
<1>2. PICK f \in Bijection(1..n, S) : TRUE
  BY <1>1 DEF ExistsBijection
<1>3. f \in [1..n -> S] /\ IsInjective(f)
  BY <1>2 DEF Bijection, Injection, IsInjective
<1>4. SetToSeq(S) \in [1..n -> S] /\ IsInjective(SetToSeq(S))
  BY <1>3 DEF SetToSeq, n
<1>5. QED
  BY <1>1, <1>4 DEF IsInjective, n

LEMMA FirstDatabase ==
    ASSUME MospfConstants, NEW r \in Routers, MospfInit
    PROVE  /\ mospf_db[r] \in Seq(EntryType) /\ OnePerRouter(mospf_db[r])
           /\ r \notin Rids(mospf_db[r])
<1> DEFINE S == Routers \ {r}
           others == SetToSeq(S)
           n == Cardinality(S)
           Near(s) == {t \in Routers : {s, t} \in FirstLinks}
           db == mospf_db[r]
<1>1. IsFiniteSet(S)
  BY FS_RemoveElement DEF MospfConstants
<1>2. /\ n \in Nat /\ others \in [1..n -> S]
      /\ \A i, j \in 1..n : others[i] = others[j] => i = j
  BY <1>1, SetListed
<1>3. db = [i \in DOMAIN others |-> [rid |-> others[i], seq |-> FirstSeq[others[i]],
                                     array |-> Near(others[i])]]
  BY DEF MospfInit
<1> HIDE DEF others, n, db
<1>4. DOMAIN db = 1..n /\ \A i \in 1..n : db[i].rid = others[i]
  BY <1>2, <1>3
<1>5. ASSUME NEW i \in 1..n
      PROVE  db[i] \in EntryType
  <2>1. others[i] \in Routers
    BY <1>2
  <2>2. FirstSeq[others[i]] \in 0..SeqSize - 1
    BY <2>1 DEF MospfConstants
  <2>3. Near(others[i]) \in SUBSET Routers
    OBVIOUS
  <2> HIDE DEF Near
  <2>4. db[i] = [rid |-> others[i], seq |-> FirstSeq[others[i]], array |-> Near(others[i])]
    BY <1>2, <1>3
  <2>5. QED
    BY <2>1, <2>2, <2>3, <2>4 DEF EntryType
<1> HIDE DEF Near
<1>6. db \in Seq(EntryType)
  <2>1. db \in [1..n -> EntryType]
    BY <1>2, <1>3, <1>4, <1>5
  <2>2. QED
    BY <1>2, <2>1, SeqDef
<1>7. OnePerRouter(db)
  BY <1>2, <1>4 DEF OnePerRouter
<1>8. r \notin Rids(db)
  BY <1>2, <1>4 DEF Rids
<1>9. QED
  BY <1>6, <1>7, <1>8 DEF db

LEMMA FirstFloods ==
    ASSUME MospfConstants, MospfInit
    PROVE  FloodInv
<1>1. /\ running = Routers /\ links = FirstLinks /\ sequence_num = FirstSeq /\ hung = {}
      /\ wire = [p \in Pairs |-> <<>>] /\ faults = 0
      /\ nbr_list = [r \in Routers |-> {s \in Routers : {r, s} \in FirstLinks}]
  BY DEF MospfInit
<1>2. mospf_db \in [Routers -> Seq(EntryType)]
  <2>1. mospf_db = [r \in Routers |-> mospf_db[r]]
    BY DEF MospfInit
  <2>2. QED
    BY <2>1, FirstDatabase
<1>3. <<>> \in Seq(LsuType) /\ DOMAIN <<>> = {}
  BY EmptySeq
<1>4. FloodTypes
  <2>1. nbr_list \in [Routers -> SUBSET Routers]
    BY <1>1
  <2>2. wire \in [Pairs -> Seq(LsuType)]
    BY <1>1, <1>3
  <2>3. QED
    BY <1>1, <1>2, <2>1, <2>2 DEF FloodTypes, MospfConstants
<1>5. Databases
  BY FirstDatabase DEF Databases
<1>6. \A p \in Pairs : Flow(wire, p) = {}
  BY <1>1, <1>3 DEF Flow
<1>7. QED
  BY <1>4, <1>5, <1>6 DEF FloodInv, Flooded

LEMMA FloodStep ==
    ASSUME MospfConstants, FloodInv, [MospfNext]_mospfVars
    PROVE  FloodInv'
<1>1. CASE UNCHANGED mospfVars
  BY <1>1, QuietSteps
<1>2. ASSUME NEW r \in Routers, NEW s \in Routers,
             \/ HandleHello(r, s) \/ HelloAgain(r, s) \/ NbrTimeout(r, s)
             \/ HandleLsu(r, s) \/ DbTimeout(r, s)
      PROVE  FloodInv'
  BY <1>2, HelloSteps, QuietSteps, LsuStep, TimeoutStep
<1>3. ASSUME NEW r \in Routers, PeriodicLsu(r) \/ Compute(r) \/ Install(r)
      PROVE  FloodInv'
  BY <1>3, HelloSteps, QuietSteps
<1>4. ASSUME NEW r \in Routers, ShutDown(r) \/ StartUp(r)
      PROVE  FloodInv'
  BY <1>4, ShutDownStep, QuietSteps
<1>5. CASE (\E p \in Pairs : Lose(p)) \/ \E l \in Links : CutOrRepair(l)
  BY <1>5, FaultSteps
<1>6. QED
  BY <1>1, <1>2, <1>3, <1>4, <1>5 DEF MospfNext

(* The routers that know an announcement are a bound on the links it has    *)
(* crossed, whatever the network, the failures and the sequence numbers.    *)
THEOREM FloodsInductive == MospfSpec => []FloodInv
<1>1. MospfInit => FloodInv
  BY MospfConstants, FirstFloods
<1>2. FloodInv /\ [MospfNext]_mospfVars => FloodInv'
  BY MospfConstants, FloodStep
<1>3. QED
  BY <1>1, <1>2, PTL DEF MospfSpec

LEMMA OnePerRid ==
    ASSUME NEW db \in Seq(EntryType), OnePerRouter(db)
    PROVE  Cardinality(Rids(db)) = Len(db)
<1> DEFINE n == Len(db)
           f == [i \in 1..n |-> db[i].rid]
<1>1. n \in Nat /\ DOMAIN db = 1..n
  BY LenProperties
<1> HIDE DEF n
<1>2. f \in Bijection(1..n, Rids(db))
  <2>1. f \in Injection(1..n, Rids(db))
    BY <1>1 DEF OnePerRouter, Rids, Injection, IsInjective
  <2>2. f \in Surjection(1..n, Rids(db))
    BY <1>1 DEF Rids, Surjection
  <2>3. QED
    BY <2>1, <2>2 DEF Bijection
<1>3. IsFiniteSet(1..n) /\ Cardinality(1..n) = n
  <2>1. 1 \in Int /\ n \in Int /\ (1 > n => n = 0) /\ n - 1 + 1 = n
    BY <1>1
  <2>2. IsFiniteSet(1..n) /\ Cardinality(1..n) = IF 1 > n THEN 0 ELSE n - 1 + 1
    BY <2>1, FS_Interval
  <2>3. QED
    BY <2>1, <2>2
<1>4. Cardinality(Rids(db)) = Cardinality(1..n)
  BY <1>2, <1>3, FS_Bijection DEF ExistsBijection
<1>5. QED
  BY <1>3, <1>4 DEF n

LEMMA FloodsFollow ==
    ASSUME MospfConstants, FloodInv
    PROVE  MospfInv
<1>1. FloodTypes /\ Databases
  BY DEF FloodInv
<1>2. ASSUME NEW r \in Routers
      PROVE  /\ mospf_db[r] \in Seq(EntryType) /\ Rids(mospf_db[r]) \subseteq Routers \ {r}
             /\ Cardinality(Rids(mospf_db[r])) = Len(mospf_db[r])
  <2>1. /\ mospf_db[r] \in Seq(EntryType) /\ OnePerRouter(mospf_db[r])
        /\ \A i \in DOMAIN mospf_db[r] : /\ mospf_db[r][i] \in EntryType
                                         /\ mospf_db[r][i].rid # r
    BY Database
  <2>2. \A x \in EntryType : x.rid \in Routers
    BY DEF EntryType
  <2>3. Rids(mospf_db[r]) \subseteq Routers \ {r}
    BY <2>1, <2>2 DEF Rids
  <2>4. QED
    BY <2>1, <2>3, OnePerRid
<1>3. MospfTypes
  BY <1>1, <1>2 DEF FloodTypes, MospfTypes
<1>4. ASSUME NEW p \in Pairs, NEW i \in DOMAIN wire[p]
      PROVE  MaxTtl - wire[p][i].ttl < Cardinality(Routers) + faults
  <2> DEFINE c == wire[p][i]
             K == Knows(c.rid, c.seq)
  <2>1. c \in Flow(wire, p) /\ c \in LsuType
    BY <1>1, FlowTypes DEF Flow, FloodTypes
  <2>2. Bounded(c, p)
    BY <2>1 DEF FloodInv, Flooded
  <2> HIDE DEF c
  <2>3. c.rid \in Routers /\ c.ttl \in Nat /\ MaxTtl \in Nat /\ faults \in Nat
    <3>1. c.rid \in Routers /\ c.ttl \in 1..MaxTtl
      BY <2>1 DEF LsuType
    <3>2. MaxTtl \in Nat /\ faults \in Nat
      BY <1>1 DEF MospfConstants, FloodTypes
    <3>3. QED
      BY <3>1, <3>2
  <2>4. K \subseteq Routers \ {c.rid}
    BY <1>1 DEF Knows, Databases, Rids
  <2>5. IsFiniteSet(Routers)
    BY DEF MospfConstants
  <2>6. /\ IsFiniteSet(Routers \ {c.rid})
        /\ Cardinality(Routers \ {c.rid}) = Cardinality(Routers) - 1
    BY <2>3, <2>5, FS_RemoveElement
  <2>7. Cardinality(K) <= Cardinality(Routers \ {c.rid})
    BY <2>4, <2>6, FS_Subset
  <2>8. Cardinality(K) \in Nat /\ Cardinality(Routers) \in Nat
    BY <2>5, KnowsFinite, FS_CardinalityType
  <2>9. MaxTtl - c.ttl <= Cardinality(K) + faults
    BY <2>2 DEF Bounded
  <2> HIDE DEF K
  <2>10. QED
    BY <2>3, <2>6, <2>7, <2>8, <2>9 DEF c
<1>5. QED
  BY <1>3, <1>4 DEF MospfInv, FloodStopsItself

(* A flood ends because routers know an announcement already: an LSU on a   *)
(* link has crossed fewer links than there are routers and failures, and    *)
(* every router keeps one entry per other router and none of its own        *)
(* (handle_mospf_lsu).                                                      *)
THEOREM FloodsEnd == MospfSpec => []MospfInv
<1>1. FloodInv => MospfInv
  BY MospfConstants, FloodsFollow
<1>2. QED
  BY <1>1, FloodsInductive, PTL
=============================================================================
