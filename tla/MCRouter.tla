------------------------------ MODULE MCRouter ------------------------------
(* Interfaces o1 and o2; host h1 behind o1; a gateway g behind o2, which    *)
(* leads to h2; and an address u that no route leads to.                    *)
EXTENDS Router

CONSTANTS h1, h2, g, u, o1, o2, none

(* The route of mask 16 covers the network of h1, too.                      *)
Routes == <<[prefix |-> {h1, o1, h2}, mask |-> 16, gw |-> g, iface |-> o2],
            [prefix |-> {h1, o1}, mask |-> 24, gw |-> none, iface |-> o1],
            [prefix |-> {g, o2}, mask |-> 24, gw |-> none, iface |-> o2]>>

P(s, d, i) == [src |-> s, dst |-> d, ttl |-> 2, echo |-> FALSE, in |-> i]
SomeTraffic ==
    {P(h1, h2, o1), P(h2, h1, o2), P(h1, u, o1), [P(h1, o1, o1) EXCEPT !.echo = TRUE],
     P(u, h1, o2), [P(u, h1, o2) EXCEPT !.ttl = 1]}
=============================================================================
