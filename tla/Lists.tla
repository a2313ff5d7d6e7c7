------------------------------- MODULE Lists --------------------------------
(***************************************************************************)
(* Lists of the kernel's kind (list.h), as sequences.                      *)
(***************************************************************************)
EXTENDS Naturals, Sequences, FiniteSets

(* What is left of q when a list_for_each_entry_safe loop takes every       *)
(* element that is not in S out of it (list_delete_entry): its k-th is the  *)
(* k-th of q that is in S.                                                  *)
Selected(q, S) ==
    LET I == {i \in DOMAIN q : q[i] \in S}
        Nth(k) == CHOOSE i \in I : Cardinality({j \in I : j <= i}) = k
    IN [k \in 1..Cardinality(I) |-> q[Nth(k)]]
=============================================================================
