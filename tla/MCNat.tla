------------------------------- MODULE MCNat -------------------------------
(* Two hosts inside, each with a rule of its own (an earlier rule of the   *)
(* first one's port is overruled); two remotes with lists of their own.    *)
(* With PortMin = 1 and PortMax = 2 the pool is the one port 1, which      *)
(* remotes also write to unasked.                                          *)
EXTENDS Nat

CONSTANTS h1, h2, r1, r2

MCInside == {h1, h2}
MCRemotes == {r1, r2}
MCHash == r1 :> 1 @@ r2 :> 2
MCRules == <<[ext |-> 8, int |-> h2], [ext |-> 8, int |-> h1],
             [ext |-> 9, int |-> h2]>>
MCKnocked == {1}
=============================================================================
