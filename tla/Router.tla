------------------------------- MODULE Router -------------------------------
(***************************************************************************)
(* The IP router of EXP07 (ip.c, ip_base.c, icmp.c, arp.c, arpcache.c).    *)
(*                                                                         *)
(*   pt   the packet thread: forwards IP packets, answers errors with      *)
(*        ICMP, and stores ARP answers, which releases pending packets     *)
(*   sw   the sweeping thread: ages the cache, asks again, and reports the *)
(*        packets of an address that does not answer                       *)
(*                                                                         *)
(* Both release arpcache.lock while they walk the packets of a request,    *)
(* holding pointers to the packet in hand, to the one after it and to the  *)
(* request after this one.  Memory is modelled as far as that: when a      *)
(* thread would use what the other has freed, the program has crashed, and *)
(* nothing is said of what it does then.  A MAC is named by the address of *)
(* the host that has it.  Definitions named Mutant_... are faulty variants *)
(* that the specification does not use.                                    *)
(***************************************************************************)
EXTENDS Naturals, FiniteSets, SequencesExt

CONSTANTS
    Addresses,
    Own,            (* addresses of the router's interfaces, each naming its own *)
    Answering,      (* hosts that answer ARP                                 *)
    NoAddress,      (* 0: no gateway; the list head; nobody                  *)
    rtable,         (* sequence of routes: prefix (a set), mask (its length),*)
                    (* gw, iface                                             *)
    MaxPackets,     (* bound: packets that come in                           *)
    Traffic,        (* what they may be: src, dst, ttl, echo, and in         *)
    Slots,          (* of arpcache.entries                                   *)
    EntryTimeout,   (* ARP_ENTRY_TIMEOUT (15 s), in sweeps                   *)
    MaxRetries      (* ARP_REQUEST_MAX_RETRIES (5)                           *)

ASSUME ConstantsAssumption ==
    /\ Own \subseteq Addresses /\ Answering \subseteq Addresses \ Own
    /\ NoAddress \notin Addresses
    /\ rtable \in Seq([prefix : SUBSET Addresses, mask : 0..32,
                       gw : Addresses \cup {NoAddress}, iface : Own])
    /\ \A i, j \in DOMAIN rtable :   (* of two networks one contains the other *)
        /\ rtable[i].mask >= rtable[j].mask
        /\ rtable[i].prefix \cap rtable[j].prefix # {}
        => rtable[i].prefix \subseteq rtable[j].prefix
    /\ \A o \in Own : \E i \in DOMAIN rtable : o \in rtable[i].prefix
    /\ Traffic \subseteq [src : Addresses, dst : Addresses, ttl : Nat \ {0},
                          echo : BOOLEAN, in : Own]
    /\ Slots \subseteq Nat /\ MaxPackets \in Nat /\ EntryTimeout \in Nat /\ MaxRetries \in Nat

VARIABLES
    entries,    (* slot |-> entry or Invalid                                 *)
    req_list,   (* pending requests, each with its packets                   *)
    pt, sw,     (* the threads: where they are and what they hold            *)
    asked,      (* hosts whose ARP answer is under way                       *)
    count,      (* packets that have come in                                 *)
    sent, told, lost,   (* packets: framed for a MAC; reported as            *)
                        (* unreachable; gone with the memory of a request    *)
    crashed

vars == <<entries, req_list, pt, sw, asked, count, sent, told, lost, crashed>>
cache == <<entries, req_list>>
ghosts == <<count, sent, told, lost>>

(* made = 0 for a packet that came in, 1 for the ICMP message about it,     *)
(* 2 for one about the router's own                                         *)
Ids == 1..MaxPackets
Packets == [id : Ids, made : 0..2, src : Addresses, dst : Addresses]
Invalid == [ip |-> NoAddress, mac |-> NoAddress, age |-> 0]
Requests == [ip : Addresses, pkts : Seq(Packets) \ {<<>>}, age : 0..2,
             retries : 1..(MaxRetries + 1)]
NoPacket == [id |-> 0, made |-> 0, src |-> NoAddress, dst |-> NoAddress]
Idle == [pc |-> "idle", pkt |-> NoPacket, ip |-> NoAddress, last |-> FALSE]
Asleep == [pc |-> "asleep", pkt |-> NoPacket, ip |-> NoAddress, last |-> FALSE,
           next |-> NoAddress]

Crash == crashed' = TRUE /\ UNCHANGED <<cache, pt, sw, asked, ghosts>>
-----------------------------------------------------------------------------
Matching(dst) == {i \in DOMAIN rtable : dst \in rtable[i].prefix}
HasRoute(dst) == Matching(dst) # {}

(* longest_prefix_match: the first of those with the longest mask *)
Lpm(dst) ==
    rtable[CHOOSE i \in Matching(dst) : \A j \in Matching(dst) :
              /\ rtable[i].mask >= rtable[j].mask
              /\ rtable[i].mask = rtable[j].mask => i <= j]

(* ip_send_packet *)
NextHop(p) == IF Lpm(p.dst).gw # NoAddress THEN Lpm(p.dst).gw ELSE p.dst

(* icmp_send_packet, of any type: from the interface towards the source *)
Icmp(p) == [id |-> p.id, made |-> IF p.src \in Own THEN 2 ELSE 1,
            src |-> Lpm(p.src).iface, dst |-> p.src]
-----------------------------------------------------------------------------
Known(ip) == {s \in Slots : entries[s] # Invalid /\ entries[s].ip = ip}
Mac(ip) == entries[CHOOSE s \in Known(ip) : \A t \in Known(ip) : s <= t].mac

Position(ip) == {i \in DOMAIN req_list : req_list[i].ip = ip}
Index(ip) == CHOOSE i \in Position(ip) : TRUE
Request(ip) == req_list[Index(ip)]
Without(ip) == RemoveAt(req_list, Index(ip))
SetRequest(r) == [i \in DOMAIN req_list |-> IF req_list[i].ip = r.ip THEN r ELSE req_list[i]]

Counted(n) == IF n > MaxRetries THEN n ELSE n + 1
Ask(ip) == asked' = IF ip \in Answering THEN asked \cup {ip} ELSE asked

(* arpcache_append_packet: every append asks again, and counts.             *)
Pend(p) ==
    LET ip == NextHop(p)
        r == IF Position(ip) # {} THEN Request(ip)
             ELSE [ip |-> ip, pkts |-> <<>>, age |-> 0, retries |-> 0]
        new == [r EXCEPT !.pkts = Append(@, p), !.retries = Counted(@), !.age = 0]
    IN /\ req_list' = IF Position(ip) # {} THEN SetRequest(new) ELSE Append(req_list, new)
       /\ Ask(ip)
-----------------------------------------------------------------------------
(* iface_send_packet_by_arp of the packet thread, up to the look-up         *)
Emit(p) ==
    IF Known(NextHop(p)) # {}
    THEN sent' = sent \cup {[pkt |-> p, mac |-> Mac(NextHop(p))]} /\ pt' = pt
    ELSE pt' = [Idle EXCEPT !.pc = "append", !.pkt = p] /\ sent' = sent

ForMe(t) == t.echo /\ t.in = t.dst
Forwarded(t) == ~ForMe(t) /\ t.ttl > 1 /\ HasRoute(t.dst)

(* handle_ip_packet, ip_forward_package *)
Receive ==
    /\ pt.pc = "idle" /\ count < MaxPackets /\ count' = count + 1
    /\ \E t \in Traffic :
        LET p == [id |-> count + 1, made |-> 0, src |-> t.src, dst |-> t.dst] IN
        \/ Forwarded(t) /\ Emit(p) /\ crashed' = FALSE
        \/ ~Forwarded(t) /\ HasRoute(t.src) /\ Emit(Icmp(p)) /\ crashed' = FALSE
        \/ ~Forwarded(t) /\ ~HasRoute(t.src) /\ crashed' = TRUE /\ UNCHANGED <<pt, sent>>
    /\ UNCHANGED <<cache, sw, asked, told, lost>>

AppendPacket ==
    /\ pt.pc = "append" /\ Pend(pt.pkt) /\ pt' = Idle
    /\ UNCHANGED <<entries, sw, ghosts, crashed>>

Mutant_Stored(old, ip) == [ip |-> ip, age |-> 0,
                           mac |-> IF old # Invalid THEN old.mac ELSE ip]
Stored(old, ip) == [ip |-> ip, mac |-> ip, age |-> 0]

(* The slot taken: the first that is valid, whatever its address, or any.   *)
Taken(s) ==
    LET valid == {t \in Slots : entries[t] # Invalid}
    IN valid # {} => s \in valid /\ \A t \in valid : s <= t

(* handle_arp_packet with an answer, and arpcache_insert up to the first    *)
(* window *)
Insert ==
    /\ pt.pc = "idle"
    /\ \E ip \in asked, s \in Slots :
        /\ Taken(s) /\ entries' = [entries EXCEPT ![s] = Stored(@, ip)]
        /\ asked' = asked \ {ip}
        /\ IF Position(ip) = {} THEN pt' = pt
           ELSE pt' = [pc |-> "flush", pkt |-> Request(ip).pkts[1], ip |-> ip,
                       last |-> Len(Request(ip).pkts) = 1]
        /\ crashed' = (Position(ip) # {} /\ sw.ip = ip)
    /\ UNCHANGED <<req_list, sw, ghosts>>

Mutant_Rest(pkts) == pkts
Rest(pkts) == Tail(pkts)

(* A window of arpcache_insert: the packet is sent and removed.             *)
Flush ==
    /\ pt.pc = "flush"
    /\ LET r == Request(pt.ip)
           rest == Rest(r.pkts)
       IN /\ sent' = sent \cup {[pkt |-> pt.pkt, mac |-> Mac(pt.ip)]}
          /\ \/ /\ pt.last /\ pt' = Idle /\ req_list' = Without(pt.ip)
                /\ lost' = lost \cup ToSet(rest) /\ crashed' = (sw.next = pt.ip)
             \/ /\ ~pt.last /\ req_list' = SetRequest([r EXCEPT !.pkts = rest])
                /\ pt' = [pt EXCEPT !.pkt = rest[1], !.last = Len(rest) = 1]
                /\ UNCHANGED <<lost, crashed>>
    /\ UNCHANGED <<entries, sw, asked, count, told>>
-----------------------------------------------------------------------------
(* arpcache_sweep.  Requests age 0, 1, 2: asked since the last sweep, since *)
(* the one before, or more than a second ago.                               *)

Due(r) == r.age = 2 /\ r.retries <= MaxRetries
Mutant_Again(r) == IF Due(r) THEN [r EXCEPT !.age = 0] ELSE r
Again(r) == IF Due(r) THEN [r EXCEPT !.retries = @ + 1, !.age = 0] ELSE r
GivenUp(r) == r.retries > MaxRetries

(* From the request at position i on, to the first, u, that is given up     *)
Walk(reqs, i) ==
    \E u \in i..(Len(reqs) + 1) :
        LET seen == (i..u) \cap DOMAIN reqs IN
        /\ \A k \in seen : GivenUp(Again(reqs[k])) <=> k = u
        /\ req_list' = [k \in DOMAIN reqs |-> IF k \in seen THEN Again(reqs[k]) ELSE reqs[k]]
        /\ asked' = asked \cup {reqs[k].ip : k \in {k \in seen : Due(reqs[k])
                                                         /\ reqs[k].ip \in Answering}}
        /\ IF u > Len(reqs) THEN sw' = Asleep /\ crashed' = crashed
           ELSE /\ sw' = [pc |-> "window", pkt |-> reqs[u].pkts[1], ip |-> reqs[u].ip,
                          last |-> Len(reqs[u].pkts) = 1,
                          next |-> IF u < Len(reqs) THEN reqs[u + 1].ip ELSE NoAddress]
                /\ crashed' = (pt.pc = "flush" /\ pt.ip = reqs[u].ip)

Older(n) == IF n < 2 THEN n + 1 ELSE n
Aged(e) == IF e = Invalid \/ e.age = EntryTimeout THEN Invalid ELSE [e EXCEPT !.age = @ + 1]

(* A second has passed.  What is just being released does not expire: that  *)
(* would take ARP_ENTRY_TIMEOUT seconds.                                    *)
Sweep ==
    /\ sw.pc = "asleep"
    /\ pt.pc = "flush" => \A s \in Known(pt.ip) : Aged(entries[s]) # Invalid
    /\ entries' = [s \in Slots |-> Aged(entries[s])]
    /\ Walk([k \in DOMAIN req_list |-> [req_list[k] EXCEPT !.age = Older(@)]], 1)
    /\ UNCHANGED <<pt, ghosts>>

(* The window: icmp_send_packet, up to the look-up                          *)
Report ==
    /\ sw.pc = "window"
    /\ \/ ~HasRoute(sw.pkt.src) /\ Crash
       \/ /\ HasRoute(sw.pkt.src)
          /\ LET p == Icmp(sw.pkt) IN
             IF Known(NextHop(p)) # {}
             THEN /\ sent' = sent \cup {[pkt |-> p, mac |-> Mac(NextHop(p))]}
                  /\ sw' = [sw EXCEPT !.pc = "told"]
             ELSE sw' = [sw EXCEPT !.pc = "append"] /\ sent' = sent
          /\ UNCHANGED <<cache, pt, asked, count, told, lost, crashed>>

ReportPended ==
    /\ sw.pc = "append" /\ Pend(Icmp(sw.pkt))
    /\ sw' = [sw EXCEPT !.pc = "told"]
    /\ UNCHANGED <<entries, pt, ghosts, crashed>>

(* The lock again: the packet goes, and with the last one the request.      *)
Reported ==
    /\ sw.pc = "told" /\ told' = told \cup {sw.pkt}
    /\ LET r == Request(sw.ip)
           rest == Rest(r.pkts)
       IN \/ /\ ~sw.last /\ req_list' = SetRequest([r EXCEPT !.pkts = rest])
             /\ sw' = [sw EXCEPT !.pc = "window", !.pkt = rest[1], !.last = Len(rest) = 1]
             /\ UNCHANGED <<asked, lost, crashed>>
          \/ /\ sw.last /\ lost' = lost \cup ToSet(rest)
             /\ \/ /\ sw.next = NoAddress /\ sw' = Asleep
                   /\ req_list' = Without(sw.ip) /\ UNCHANGED <<asked, crashed>>
                \/ /\ sw.next # NoAddress
                   /\ LET i == Index(sw.next) IN
                      Walk(Without(sw.ip), IF Index(sw.ip) < i THEN i - 1 ELSE i)
    /\ UNCHANGED <<entries, pt, count, sent>>
-----------------------------------------------------------------------------
(* An ARP request or its answer is lost. *)
Lose ==
    /\ \E ip \in asked : asked' = asked \ {ip}
    /\ UNCHANGED <<cache, pt, sw, ghosts, crashed>>

Init ==
    /\ entries = [s \in Slots |-> Invalid] /\ req_list = <<>>
    /\ pt = Idle /\ sw = Asleep /\ asked = {} /\ count = 0
    /\ sent = {} /\ told = {} /\ lost = {} /\ crashed = FALSE

PacketThread == AppendPacket \/ Flush
Sweeper == Sweep \/ Report \/ ReportPended \/ Reported
Next == ~crashed /\ (Receive \/ Insert \/ PacketThread \/ Sweeper \/ Lose)

(* Both threads run on: the one that wants the lock gets it in the end.     *)
Fairness == WF_vars(~crashed /\ PacketThread) /\ WF_vars(~crashed /\ Sweeper)
Spec == Init /\ [][Next]_vars /\ Fairness
-----------------------------------------------------------------------------
TypeOK ==
    /\ entries \in [Slots -> {Invalid} \cup
                   [ip : Answering, mac : Answering, age : 0..EntryTimeout]]
    /\ req_list \in Seq(Requests)
    /\ \A i, j \in DOMAIN req_list : req_list[i].ip = req_list[j].ip => i = j
    /\ pt \in [pc : {"idle", "append", "flush"}, pkt : Packets \cup {NoPacket},
               ip : Addresses \cup {NoAddress}, last : BOOLEAN]
    /\ sw \in [pc : {"asleep", "window", "append", "told"}, pkt : Packets \cup {NoPacket},
               ip : Addresses \cup {NoAddress}, last : BOOLEAN,
               next : Addresses \cup {NoAddress}]
    /\ asked \subseteq Answering /\ count \in 0..MaxPackets /\ crashed \in BOOLEAN
    /\ sent \subseteq [pkt : Packets, mac : Addresses]
    /\ told \subseteq Packets /\ lost \subseteq Packets

PlacesInQueue(r, n, m) == {<<r, i>> : i \in {i \in DOMAIN req_list[r].pkts :
                              req_list[r].pkts[i].id = n /\ req_list[r].pkts[i].made = m}}
Pending(n, m) == UNION {PlacesInQueue(r, n, m) : r \in DOMAIN req_list}
Is(p, n, m) == p.id = n /\ p.made = m
SentAs(n, m) == {f \in sent : Is(f.pkt, n, m)}
GoneAs(n, m) == {<<"told", p>> : p \in {p \in told : Is(p, n, m)}} \cup
                {<<"lost", p>> : p \in {p \in lost : Is(p, n, m)}}

(* A packet, or the ICMP message about it, is pending once, sent once,      *)
(* reported once or lost, and no two of these, although two threads walk    *)
(* the queues and both let go of the lock in between (arpcache.c:151-157,   *)
(* 201-208), as long as neither frees what the other holds.                 *)
OneFate ==
    \A n \in Ids, m \in 0..1 :
        Cardinality(Pending(n, m)) + Cardinality(SentAs(n, m))
            + Cardinality(GoneAs(n, m)) <= 1

(* The types, and one fate.                                                 *)
RouterInv == TypeOK /\ (~crashed => OneFate)

(* Every frame is addressed to the next hop of the most specific route for  *)
(* its destination, whatever answers came and expired while it was pending  *)
(* (ip_base.c:32-48, arpcache.c:124-145).                                   *)
RightNextHop ==
    \A f \in sent : \E i \in Matching(f.pkt.dst) :
        /\ \A j \in Matching(f.pkt.dst) : rtable[i].prefix \subseteq rtable[j].prefix
        /\ f.mac = (IF rtable[i].gw = NoAddress THEN f.pkt.dst ELSE rtable[i].gw)

(* The sweeper is at a request for the router's own address that holds two  *)
(* messages of the router to itself: each one it reports is pended again at *)
(* the end of the queue it is walking, which it never leaves.               *)
Spinning ==
    /\ sw.pc = "window"
    /\ Cardinality({i \in DOMAIN Request(sw.ip).pkts : Request(sw.ip).pkts[i].made = 2}) >= 2

(* A packet that waits for an address is sent or reported in the end, or    *)
(* lost with its request, whether or not anybody answers                    *)
(* (arpcache.c:173-178), unless the program crashes or the sweeper spins.   *)
Answered ==
    \A n \in Ids, m \in 0..1 :
        Pending(n, m) # {} ~>
            SentAs(n, m) # {} \/ GoneAs(n, m) # {} \/ crashed \/ Spinning
=============================================================================
