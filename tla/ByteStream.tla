---------------------------- MODULE ByteStream -----------------------------
(***************************************************************************)
(* What the receiving half of a socket promises its application: a FIFO    *)
(* pipe that holds at most Capacity bytes.  Byte number i of the stream    *)
(* is the value i, so a lost, repeated or reordered byte is visible in     *)
(* out, the sequence of bytes the application has read.                    *)
(***************************************************************************)
EXTENDS Integers, Sequences

CONSTANTS Total,      (* bytes the peer sends in all *)
          Capacity    (* bytes the pipe can hold     *)

VARIABLES stored,     (* bytes put into the pipe so far *)
          out         (* bytes taken out of it, in order *)

vars == <<stored, out>>

Init == stored = 0 /\ out = <<>>

Store == \E n \in 1..Total :
    /\ stored + n <= Total
    /\ stored + n <= Len(out) + Capacity
    /\ stored' = stored + n
    /\ UNCHANGED out

Deliver == \E n \in 1..Total :
    /\ n <= stored - Len(out)
    /\ out' = out \o [i \in 1..n |-> Len(out) + i - 1]
    /\ UNCHANGED stored

Next == Store \/ Deliver

Spec == Init /\ [][Next]_vars
=============================================================================
