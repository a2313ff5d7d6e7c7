-------------------------------- MODULE Lan ---------------------------------
(***************************************************************************)
(* A LAN of learning switches (EXP05 mac.c, main.c, packet.c) and hubs     *)
(* (EXP04 main.c).  A switch has                                           *)
(*                                                                         *)
(*   its packet loop: handle_packet looks the destination up and forwards  *)
(*     or broadcasts, looks the source up, and inserts it if there was no  *)
(*     entry: three critical sections of mac_port_map.lock                 *)
(*   its sweeping thread, which comes in between and removes what has aged *)
(*                                                                         *)
(* A host may be plugged in somewhere else.  A link end that has received  *)
(* nothing yet delivers nothing; links lose and reorder nothing within one *)
(* frame and may reorder frames.  Definitions named Mutant_... are faulty  *)
(* variants that the specification does not use.                           *)
(***************************************************************************)
EXTENDS Naturals, FiniteSets

CONSTANTS
    Hosts, Movers,      (* MAC addresses; those of hosts that may be moved   *)
    Switches, Hubs,
    Ports,              (* link ends <<bridge, number>>: the interfaces      *)
    Trunk,              (* the links between bridges: end |-> end            *)
    Home,               (* host |-> the end it is first plugged in           *)
    Timeout,            (* MAC_PORT_TIMEOUT (30 s), in ticks                 *)
    Slots,              (* bound: frames under way                           *)
    MaxMoves            (* bound: moves of hosts                             *)

ASSUME ConstantsAssumption ==
    /\ Hosts # {} /\ Slots # {}
    /\ Movers \subseteq Hosts /\ Switches \cap Hubs = {}
    /\ Ports \subseteq (Switches \cup Hubs) \X Nat
    /\ DOMAIN Trunk \subseteq Ports
    /\ \A e \in DOMAIN Trunk : Trunk[e] \in DOMAIN Trunk /\ Trunk[Trunk[e]] = e
    /\ Home \in [Hosts -> Ports \ DOMAIN Trunk]
    /\ \A g, h \in Hosts : Home[g] = Home[h] => g = h
    /\ Timeout \in Nat /\ MaxMoves \in Nat

VARIABLES
    where,      (* host |-> its link end                                     *)
    table,      (* switch |-> its mac_port_map                               *)
    pc, cur,    (* switch |-> where its packet loop is; its frame and end    *)
    frame,      (* slot |-> the frame sent in it                             *)
    got,        (* slot |-> how often the frame has reached its destination,
                   counted up to 3                                           *)
    wire,       (* copies of frames on their way into a bridge               *)
    moves

vars == <<where, table, pc, cur, frame, got, wire, moves>>

Copies == [slot : Slots, at : Ports]
AnyCopy == CHOOSE c \in Copies : TRUE      (* of cur, between frames *)
EndsOf(b) == {e \in Ports : e[1] = b}
-----------------------------------------------------------------------------
(* iface_send_packet on each end of out, after taking copy c off the wire. *)
Emit(c, out) ==
    /\ wire' = (wire \ {c}) \cup
                {[slot |-> c.slot, at |-> Trunk[e]] : e \in out \cap DOMAIN Trunk}
    /\ got' = [got EXCEPT ![c.slot] =
                IF where[frame[c.slot].dst] \in out /\ @ < 3 THEN @ + 1 ELSE @]

Mutant_Broadcast(e) == EndsOf(e[1])
(* broadcast_packet: every interface but the one it came in. *)
Broadcast(e) == EndsOf(e[1]) \ {e}

(* handle_packet of the hub *)
HubHandle(c) ==
    /\ c \in wire /\ c.at[1] \in Hubs
    /\ Emit(c, Broadcast(c.at))
    /\ UNCHANGED <<where, table, pc, cur, frame, moves>>
-----------------------------------------------------------------------------
Entries(s, m) == {e \in table[s] : e.mac = m}

(* lookup_port: whoever is found is young again. *)
Looked(s, m) == (table[s] \ Entries(s, m)) \cup {[e EXCEPT !.age = 0] : e \in Entries(s, m)}

At(s, from) == pc[s] = from
To(s, to) == pc' = [pc EXCEPT ![s] = to]
Done(s) == To(s, "idle") /\ cur' = [cur EXCEPT ![s] = AnyCopy]

Forward(s, c) ==
    /\ At(s, "idle") /\ To(s, "learn")
    /\ c \in wire /\ c.at[1] = s
    /\ cur' = [cur EXCEPT ![s] = c]
    /\ LET found == Entries(s, frame[c.slot].dst)
       IN \/ found = {} /\ Emit(c, Broadcast(c.at))
          \/ \E e \in found : Emit(c, {e.at})
    /\ table' = [table EXCEPT ![s] = Looked(s, frame[c.slot].dst)]
    /\ UNCHANGED <<where, frame, moves>>

Mutant_Unknown(s, m) == TRUE
Unknown(s, m) == Entries(s, m) = {}

Source(s) == frame[cur[s].slot].src

Learn(s) ==
    /\ At(s, "learn")
    /\ IF Unknown(s, Source(s)) THEN To(s, "insert") /\ cur' = cur ELSE Done(s)
    /\ table' = [table EXCEPT ![s] = Looked(s, Source(s))]
    /\ UNCHANGED <<where, frame, got, wire, moves>>

Mutant_LearntAt(s) == CHOOSE e \in EndsOf(s) : e # cur[s].at
LearntAt(s) == cur[s].at

(* insert_mac_port *)
Insert(s) ==
    /\ At(s, "insert") /\ Done(s)
    /\ table' = [table EXCEPT ![s] =
                   @ \cup {[mac |-> Source(s), at |-> LearntAt(s), age |-> 0]}]
    /\ UNCHANGED <<where, frame, got, wire, moves>>

Mutant_Aged(e) == e.age < Timeout
Aged(e) == e.age > Timeout

(* sweep_aged_mac_port_entry *)
Sweep(s) ==
    /\ table' = [table EXCEPT ![s] = {e \in @ : ~Aged(e)}]
    /\ UNCHANGED <<where, pc, cur, frame, got, wire, moves>>
-----------------------------------------------------------------------------
(* The world around: time, hosts that send, hosts that are moved.          *)

Tick ==
    /\ table' = [s \in Switches |->
                  {[e EXCEPT !.age = IF @ > Timeout THEN @ ELSE @ + 1] : e \in table[s]}]
    /\ UNCHANGED <<where, pc, cur, frame, got, wire, moves>>

(* The frame in n has left the LAN and no packet loop has hold of it.       *)
Gone(n) == /\ \A c \in wire : c.slot # n
           /\ \A s \in Switches : pc[s] = "idle" \/ cur[s].slot # n

Send ==
    \E h, d \in Hosts, n \in Slots :
        /\ h # d /\ Gone(n)
        /\ frame' = [frame EXCEPT ![n] = [src |-> h, dst |-> d, from |-> where[h]]]
        /\ got' = [got EXCEPT ![n] = 0]
        /\ wire' = wire \cup {[slot |-> n, at |-> where[h]]}
        /\ UNCHANGED <<where, table, pc, cur, moves>>

Move ==
    /\ moves < MaxMoves /\ moves' = moves + 1
    /\ \E h \in Movers, e \in Ports \ DOMAIN Trunk :
        /\ \A g \in Hosts : where[g] # e
        /\ where' = [where EXCEPT ![h] = e]
    /\ UNCHANGED <<table, pc, cur, frame, got, wire>>

Init ==
    /\ where = Home
    /\ table = [s \in Switches |-> {}]
    /\ pc = [s \in Switches |-> "idle"]
    /\ cur = [s \in Switches |-> AnyCopy]
    /\ LET h == CHOOSE x \in Hosts : TRUE
       IN frame = [n \in Slots |-> [src |-> h, dst |-> h, from |-> Home[h]]]
    /\ got = [n \in Slots |-> 1] /\ wire = {} /\ moves = 0

Next == \/ Tick \/ Send \/ Move
        \/ \E c \in wire : HubHandle(c) \/ \E s \in Switches : Forward(s, c)
        \/ \E s \in Switches : Learn(s) \/ Insert(s) \/ Sweep(s)

(* The loop of ustack_run serves each interface in turn, in the order of    *)
(* arrival, so that no frame waits for ever while others are taken.         *)
Fairness ==
    /\ WF_vars(Tick)
    /\ \A n \in Slots :
        /\ WF_vars(\E e \in Ports : HubHandle([slot |-> n, at |-> e]))
        /\ \A s \in Switches : SF_vars(\E e \in Ports : Forward(s, [slot |-> n, at |-> e]))
    /\ \A s \in Switches : WF_vars(Learn(s) \/ Insert(s)) /\ WF_vars(Sweep(s))

Spec == Init /\ [][Next]_vars /\ Fairness
-----------------------------------------------------------------------------
TypeOK ==
    /\ where \in [Hosts -> Ports \ DOMAIN Trunk]
    /\ table \in [Switches -> SUBSET [mac : Hosts, at : Ports, age : 0..Timeout + 1]]
    /\ pc \in [Switches -> {"idle", "learn", "insert"}] /\ cur \in [Switches -> Copies]
    /\ frame \in [Slots -> [src : Hosts, dst : Hosts, from : Ports]] /\ got \in [Slots -> 0..3]
    /\ wire \subseteq Copies /\ moves \in 0..MaxMoves

(* A switch keeps one entry for an address, although looking it up and      *)
(* inserting it are two critical sections with the sweeper in between       *)
(* (EXP05 main.c:53): an older second one would shadow the first.           *)
OneEntry == \A s \in Switches, m \in Hosts : Cardinality(Entries(s, m)) <= 1

(* The types, and one entry for an address. *)
LanInv == TypeOK /\ OneEntry

(* With one switch a frame to a host that stays where it is reaches it,     *)
(* and reaches it once, whatever has been learnt, forgotten or learnt       *)
(* wrongly of others; twice at most when both are on one hub, whose frames  *)
(* a switch sends back to it (EXP05 main.c:47). Of two switches one may     *)
(* forget the host while the other sends what it gets from it back.         *)
DeliveredOnce ==
    \A n \in Slots :
        LET f == frame[n] IN
        Gone(n) /\ f.dst \notin Movers =>
            \/ got[n] = 1
            \/ got[n] = 2 /\ f.from[1] = Home[f.dst][1] /\ f.from[1] \in Hubs

(* Every frame leaves the LAN: nothing sends copies around for ever.        *)
FramesEnd == \A n \in Slots : ~Gone(n) ~> Gone(n)

Mentions(s, h) == pc[s] # "idle" /\ (Source(s) = h \/ frame[cur[s].slot].dst = h)

(* A switch forgets a host that it does not hear of or from any more, so    *)
(* that a host that was moved is found again after a silence (mac.c:123);   *)
(* every look-up, also of the host's own frames, puts that off (mac.c:58).  *)
Forgotten ==
    \A s \in Switches, h \in Hosts : <>[]~Mentions(s, h) => <>[](Entries(s, h) = {})
=============================================================================
