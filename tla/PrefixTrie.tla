----------------------------- MODULE PrefixTrie -----------------------------
(***************************************************************************)
(* The two routing tries of EXP11, filled with the same table:             *)
(*                                                                         *)
(*   simple/lookup.c        inner nodes have no port; a look-up that ends  *)
(*                          at one walks back up to the nearest port       *)
(*   leaf_pushing/lookup.c  an inner node copies its parent's port when it *)
(*                          is made; a look-up never walks back            *)
(*                                                                         *)
(* A node is the path to it from the root, a sequence of bits; a trie maps *)
(* its nodes to ports.  Nodes come from memory that was never used before  *)
(* and so start without children.  Definitions named Mutant_... are faulty *)
(* variants that the specification does not use.                           *)
(***************************************************************************)
EXTENDS Integers, Sequences, SequencesExt

CONSTANTS
    Width,          (* bits of an address: 32                                *)
    Ports,          (* port numbers of the table                             *)
    MaxEntries      (* bound: lines of forwarding-table.txt                  *)

ASSUME ConstantsAssumption ==
    Width \in Nat \ {0} /\ Ports \subseteq Nat /\ MaxEntries \in Nat

VARIABLES
    simple, leaf,   (* node |-> treeNode->port, in either program            *)
    table           (* the entries added so far                              *)

vars == <<simple, leaf, table>>

NoPort == -1
DefaultPort == 0
Nodes == UNION {[1..n -> {0, 1}] : n \in 0..Width}
Entries == [net : Nodes, port : Ports]
Addresses == [1..Width -> {0, 1}]

Cut(p, n) == SubSeq(p, 1, n)
Above(p) == {Cut(p, n) : n \in 0..Len(p)}
Longest(S) == CHOOSE p \in S : \A q \in S : Len(q) <= Len(p)
-----------------------------------------------------------------------------
(* init_tree *)
Root == <<>>

(* The nodes on the path of p, down to where the trie ends *)
End(trie, p) == Longest(Above(p) \cap DOMAIN trie)

(* insert_tree of the simple trie *)
NewSimple(e, p) == IF p = e.net THEN e.port ELSE NoPort

Mutant_NewLeaf(e, p) == IF p = e.net THEN e.port ELSE DefaultPort
(* insert_tree of the leaf-pushed one: the chain of new nodes copies the    *)
(* port of the last old one.                                                *)
NewLeaf(e, p) == IF p = e.net THEN e.port ELSE leaf[End(leaf, p)]

(* add_node in both programs: nothing that is there changes.                *)
AddNode(e) ==
    /\ Len(table) < MaxEntries /\ table' = Append(table, e)
    /\ simple' = [p \in DOMAIN simple \cup Above(e.net) |->
                    IF p \in DOMAIN simple THEN simple[p] ELSE NewSimple(e, p)]
    /\ leaf' = [p \in DOMAIN leaf \cup Above(e.net) |->
                    IF p \in DOMAIN leaf THEN leaf[p] ELSE NewLeaf(e, p)]

Init ==
    /\ simple = [p \in {Root} |-> DefaultPort]
    /\ leaf = [p \in {Root} |-> DefaultPort]
    /\ table = <<>>

Next == \E e \in Entries : AddNode(e)
Spec == Init /\ [][Next]_vars
-----------------------------------------------------------------------------
(* The loops of lookup make Width - 1 steps.                                *)
Stop(trie, a) == End(trie, Cut(a, Width - 1))

(* After the last of them without a break, port has not been written.       *)
Written(trie, a) == Cut(a, Width - 1) \notin DOMAIN trie

Mutant_LookBack(p) == IF simple[p] # NoPort THEN simple[p] ELSE DefaultPort
LookBack(p) == simple[Longest({q \in Above(p) \cap DOMAIN simple : simple[q] # NoPort})]

(* lookup of the simple trie: the comparison of networks can only send it   *)
(* to look_back, which stops at once at a node that has a port.             *)
LookupSimple(a) == LookBack(Stop(simple, a))
LookupLeaf(a) == leaf[Stop(leaf, a)]
-----------------------------------------------------------------------------
TypeOK ==
    /\ DOMAIN simple = DOMAIN leaf /\ Root \in DOMAIN simple
    /\ \A p \in DOMAIN simple :
        /\ p \in Nodes /\ Above(p) \subseteq DOMAIN simple
        /\ simple[p] \in Ports \cup {NoPort, DefaultPort}
        /\ leaf[p] \in Ports \cup {DefaultPort}
    /\ table \in Seq(Entries) /\ Len(table) <= MaxEntries

(* Both tries give the same port for every address whose look-up ends in a  *)
(* break, in whatever order the table comes: what leaf pushing copies down  *)
(* when a node is made is what looking back finds later                     *)
(* (simple/lookup.c:130-136, leaf_pushing/lookup.c:116-117).                *)
SameAnswer ==
    \A a \in Addresses : Written(simple, a) => LookupSimple(a) = LookupLeaf(a)

(* The types, and the same answers.                                         *)
TrieInv == TypeOK /\ SameAnswer

(* No entry comes after one whose prefix extends its own.                   *)
ParentsFirst ==
    \A i, j \in DOMAIN table : i < j => ~IsStrictPrefix(table[j].net, table[i].net)

Best(a) == Longest({table[i].net : i \in {i \in DOMAIN table : IsPrefix(table[i].net, a)}}
                       \cup {Root})
First(p) == table[CHOOSE i \in DOMAIN table :
                    /\ table[i].net = p
                    /\ \A j \in DOMAIN table : table[j].net = p => i <= j].port

(* For a table whose shorter prefixes come first, a look-up finds the port  *)
(* of the longest prefix that matches, the first if it is there twice, and  *)
(* 0 if there is none; an entry of length 0 is ignored                      *)
(* (simple/lookup.c:143-218).                                               *)
LongestMatch ==
    ParentsFirst =>
        \A a \in Addresses : Written(simple, a) =>
            LookupSimple(a) = IF Best(a) = Root THEN DefaultPort ELSE First(Best(a))
=============================================================================
