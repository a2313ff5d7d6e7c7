---------------------------- MODULE MCArpCache ----------------------------
(* Three hosts and room for two; the first host changes its MAC. Two       *)
(* packets wait for the first host, one for the second, none for the third.*)
EXTENDS ArpCache

CONSTANTS h1, h2, h3, m1, m1b, m2, m3, p1, p2, p3, s1, s2

MCPackets == {p1, p2, p3}
MCIps == {h1, h2, h3}
MCMacs == {m1, m1b, m2, m3}
MCSlots == {s1, s2}
MCNextHop == p1 :> h1 @@ p2 :> h1 @@ p3 :> h2
MCOwns == h1 :> {m1, m1b} @@ h2 :> {m2} @@ h3 :> {m3}
=============================================================================
