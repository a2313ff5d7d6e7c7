------------------------------ MODULE MCMospf ------------------------------
(* Three routers in a triangle and in a line; r1 and r3 have hosts. *)
EXTENDS Mospf
CONSTANTS r1, r2, r3

Triangle == {{r1, r2}, {r2, r3}, {r1, r3}}
Line == {{r1, r2}, {r2, r3}}
(* r1 is about to wrap around. *)
NearWrap == r1 :> 3 @@ r2 :> 1 @@ r3 :> 1
=============================================================================
