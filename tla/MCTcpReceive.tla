---------------------------- MODULE MCTcpReceive ----------------------------
(* Five bytes cut into segments of 2, 1 and 2 bytes. *)
EXTENDS TcpReceive

MCSegments == {[seq |-> 0, len |-> 2], [seq |-> 2, len |-> 1],
               [seq |-> 3, len |-> 2]}
=============================================================================
