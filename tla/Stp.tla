-------------------------------- MODULE Stp --------------------------------
(***************************************************************************)
(* The spanning tree protocol of EXP06 (stp.c): every switch of a network  *)
(* runs the program.  The packet handler and the hello timer hold          *)
(* stp->lock, so each is one step of its switch.  Links join two ports and *)
(* keep the order of frames; a frame may be lost.                          *)
(*                                                                         *)
(* A configuration, on the wire or kept in a port, is the tuple            *)
(* <<root, cost, switch, port>>; the order of the four comparisons in the  *)
(* code is the lexicographic order of tuples.  The switches are called     *)
(* bridges here and the specification has names of its own, StpSpec and so *)
(* on, beside those of Lan.  Definitions named Mutant_... are faulty       *)
(* variants that the specification does not use.                           *)
(***************************************************************************)
EXTENDS Naturals, Sequences, FiniteSets, FiniteSetsExt

CONSTANTS
    Bridges,        (* switch_id, a number, of every switch                  *)
    Peer,           (* switch -> for each of its ports the port <<switch, i>>*)
                    (* it is linked to                                       *)
    MaxFrames,      (* bound: no hello while so many frames are under way    *)
    MaxLost         (* bound: frames that may be lost                        *)

PortsOf(s) == DOMAIN Peer[s]
LinkEnds == UNION {{s} \X PortsOf(s) : s \in Bridges}

ASSUME StpConstants ==
    /\ Bridges \subseteq Nat \ {0} /\ IsFiniteSet(Bridges)
    /\ DOMAIN Peer = Bridges /\ \A s \in Bridges : Peer[s] \in Seq(LinkEnds)
    /\ \A p \in LinkEnds : LET q == Peer[p[1]][p[2]] IN p # q /\ Peer[q[1]][q[2]] = p
    /\ MaxFrames \in Nat \ {0} /\ MaxLost \in Nat

VARIABLES
    designated,         (* switch -> for each port its designated_root,      *)
                        (* _cost, _switch and _port                          *)
    designated_root,    (* switch -> the root it believes in                 *)
    root_path_cost,     (* switch -> its cost to that root                   *)
    root_port,          (* switch -> index of its root port, 0 if NULL       *)
    hello_timer,        (* switch -> whether the timer is active             *)
    bpdus,              (* switch -> for each port the configurations under  *)
                        (* way to it                                         *)
    lost                (* frames lost so far                                *)

stpVars == <<designated, designated_root, root_path_cost, root_port, hello_timer,
             bpdus, lost>>
-----------------------------------------------------------------------------
(* Priorities: the smaller configuration wins. *)
Better(c, d) ==
    \E k \in 1..4 : c[k] < d[k] /\ \A j \in 1..k - 1 : c[j] = d[j]

Mutant_AcceptBetter(own, config) == Better(config, own)
Mutant_AcceptRoot(own, config) == ~(own[1] < config[1])
(* recv_has_higher_pirority: equal is high enough. *)
Accept(own, config) == ~Better(own, config)

(* stp_port_is_designated, of port i of s with configuration c. *)
Designated(c, s, i) == c[3] = s /\ c[4] = i

(* update_root, of the ports non that are not designated: a single one is   *)
(* the root port.  Of more, the first that is better than its successor,    *)
(* unless a later one, the last excepted, is better still; with none the    *)
(* root port stays.                                                         *)
PickRootPort(conf, non, old) ==
    LET After(k, n) == k < n /\ \A m \in non : k < m => n <= m
        BeatsNext(k) == \E n \in non : After(k, n) /\ Better(conf[k], conf[n])
        tried == {k \in non : /\ \E n \in non : k < n
                              /\ \E j \in non : j <= k /\ BeatsNext(j)}
        Wins(k, j) == Better(conf[k], conf[j]) \/ (k <= j /\ ~Better(conf[j], conf[k]))
    IN IF Cardinality(non) = 1 THEN CHOOSE k \in non : TRUE
       ELSE IF tried # {} THEN CHOOSE k \in tried : \A j \in tried : Wins(k, j)
       ELSE old

Mutant_SendEverywhere(s, conf, root, cost) ==
    [t \in Bridges |-> [j \in PortsOf(t) |->
        IF Peer[t][j][1] = s THEN Append(bpdus[t][j], <<root, cost, s, Peer[t][j][2]>>)
                             ELSE bpdus[t][j]]]
(* stp_send_config: from every port of s that is designated in conf. *)
SendConfig(s, conf, root, cost) ==
    [t \in Bridges |-> [j \in PortsOf(t) |->
        LET from == Peer[t][j]
            i == from[2]
        IN IF from[1] = s /\ Designated(conf[i], s, i)
           THEN Append(bpdus[t][j], <<root, cost, s, i>>)
           ELSE bpdus[t][j]]]
-----------------------------------------------------------------------------
FramesUnderWay == FoldSet(LAMBDA p, n : n + Len(bpdus[p[1]][p[2]]), 0, LinkEnds)

(* stp_handle_hello_timeout: the timer is started again. *)
HelloTimeout(s) ==
    /\ hello_timer[s]
    /\ FramesUnderWay < MaxFrames
    /\ bpdus' = SendConfig(s, designated[s], designated_root[s], root_path_cost[s])
    /\ UNCHANGED <<designated, designated_root, root_path_cost, root_port,
                   hello_timer, lost>>

(* stp_handle_config_packet, a configuration of a lower priority. *)
Ignore(s, i) ==
    /\ bpdus[s][i] # <<>> /\ ~Accept(designated[s][i], Head(bpdus[s][i]))
    /\ bpdus' = [bpdus EXCEPT ![s][i] = Tail(@)]
    /\ UNCHANGED <<designated, designated_root, root_path_cost, root_port,
                   hello_timer, lost>>

(* stp_handle_config_packet: update_port_config, update_root,               *)
(* update_other_ports, and on if the switch is not the root.                *)
Handle(s, i) ==
    /\ bpdus[s][i] # <<>> /\ Accept(designated[s][i], Head(bpdus[s][i]))
    /\ LET conf == [designated[s] EXCEPT ![i] = Head(bpdus[s][i])]
           non == {j \in PortsOf(s) : ~Designated(conf[j], s, j)}
           rp == PickRootPort(conf, non, root_port[s])
           root == IF rp = 0 THEN s ELSE conf[rp][1]
           cost == IF rp = 0 THEN 0 ELSE conf[rp][2] + 1
           others == [j \in PortsOf(s) |-> IF Designated(conf[j], s, j)
                                           THEN <<root, cost, s, j>> ELSE conf[j]]
       IN /\ designated' = [designated EXCEPT ![s] = others]
          /\ root_port' = [root_port EXCEPT ![s] = rp]
          /\ designated_root' = [designated_root EXCEPT ![s] = root]
          /\ root_path_cost' = [root_path_cost EXCEPT ![s] = cost]
          /\ hello_timer' = [hello_timer EXCEPT ![s] = @ /\ root = s]
          /\ bpdus' = [(IF root = s THEN bpdus ELSE SendConfig(s, others, root, cost))
                         EXCEPT ![s][i] = Tail(@)]
    /\ UNCHANGED lost

(* stp_port_handle_packet. *)
Receive(s, i) == Ignore(s, i) \/ Handle(s, i)

(* A frame is lost. *)
Lose(s, i) ==
    /\ bpdus[s][i] # <<>> /\ lost < MaxLost
    /\ bpdus' = [bpdus EXCEPT ![s][i] = Tail(@)]
    /\ lost' = lost + 1
    /\ UNCHANGED <<designated, designated_root, root_path_cost, root_port, hello_timer>>
-----------------------------------------------------------------------------
(* stp_init and stp_port_init. *)
StpInit ==
    /\ designated = [s \in Bridges |-> [i \in PortsOf(s) |-> <<s, 0, s, i>>]]
    /\ designated_root = [s \in Bridges |-> s]
    /\ root_path_cost = [s \in Bridges |-> 0]
    /\ root_port = [s \in Bridges |-> 0]
    /\ hello_timer = [s \in Bridges |-> TRUE]
    /\ bpdus = [s \in Bridges |-> [i \in PortsOf(s) |-> <<>>]]
    /\ lost = 0

StpNext ==
    \E s \in Bridges :
        \/ HelloTimeout(s)
        \/ \E i \in PortsOf(s) : Receive(s, i) \/ Lose(s, i)

(* The timer thread and the packet loop of every switch run.  The bound, not*)
(* the code, disables a hello again and again, hence SF.                    *)
StpFairness ==
    \A s \in Bridges : /\ SF_stpVars(HelloTimeout(s))
                       /\ WF_stpVars(\E i \in PortsOf(s) : Receive(s, i))

StpSpec == StpInit /\ [][StpNext]_stpVars /\ StpFairness
-----------------------------------------------------------------------------
(* Types of all variables; a cost never exceeds the longest simple path.    *)
Config == Bridges \X (0..Cardinality(Bridges) - 1) \X Bridges \X Nat
StpTypes ==
    /\ \A s \in Bridges : /\ designated[s] \in [PortsOf(s) -> Config]
                          /\ bpdus[s] \in [PortsOf(s) -> Seq(Config)]
                          /\ root_port[s] \in {0} \cup PortsOf(s)
    /\ designated_root \in [Bridges -> Bridges]
    /\ root_path_cost \in [Bridges -> 0..Cardinality(Bridges) - 1]
    /\ hello_timer \in [Bridges -> BOOLEAN]
    /\ lost \in 0..MaxLost

IsDesignated(p) == Designated(designated[p[1]][p[2]], p[1], p[2])
Opposite(p) == Peer[p[1]][p[2]]

(* No link is ever without a designated end, whatever crosses on it: two    *)
(* ends never give way to each other (stp.c:143-171, 204-209).              *)
LinkHasDesignated == \A p \in LinkEnds : IsDesignated(p) \/ IsDesignated(Opposite(p))

(* The types, and a designated end on each link.                            *)
StpInv == StpTypes /\ LinkHasDesignated

(* What a switch believes never gets worse, although it picks its root port *)
(* anew, in an odd way, whenever any port has changed (stp.c:211-245).      *)
BeliefsOnlyImprove ==
    [][\A s \in Bridges :
           \/ designated_root'[s] < designated_root[s]
           \/ /\ designated_root'[s] = designated_root[s]
              /\ root_path_cost'[s] <= root_path_cost[s]]_stpVars

(* The network settles: every switch believes in the smallest, every link   *)
(* has one designated end, and every other switch has a root port towards a *)
(* switch that is one closer: a spanning tree (stp.c:256-270).              *)
Root == CHOOSE s \in Bridges : \A t \in Bridges : s <= t
Tree ==
    /\ \A s \in Bridges : designated_root[s] = Root
    /\ \A p \in LinkEnds : IsDesignated(p) # IsDesignated(Opposite(p))
    /\ \A s \in Bridges \ {Root} :
           /\ root_port[s] # 0
           /\ root_path_cost[s] = root_path_cost[Peer[s][root_port[s]][1]] + 1
Converges == <>[]Tree
=============================================================================
