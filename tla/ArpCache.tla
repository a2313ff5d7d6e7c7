------------------------------ MODULE ArpCache ------------------------------
(***************************************************************************)
(* The ARP cache of the EXP15-EXP18 stacks (arpcache.c): the table of      *)
(* IP -> MAC entries, the packets that wait for an answer, and the thread  *)
(* that sweeps both once a second.                                         *)
(*                                                                         *)
(* The functions hold arpcache.lock from end to end, so each is one step,  *)
(* but a sender looks up and, having found nothing, appends in two         *)
(* critical sections, and the sweeper reports the packets it took out      *)
(* after it has released the lock.  Every packet may be in the hands of a  *)
(* thread of its own.  The ICMP message the sweeper sends is a packet like *)
(* any other and is not followed further.  Definitions named Mutant_...    *)
(* are faulty variants that the specification does not use.                *)
(***************************************************************************)
EXTENDS Naturals, Sequences, FiniteSets, SequencesExt, Lists

CONSTANTS
    Packets, Ips, Macs,
    NextHop,        (* the IP each packet is to be sent to                   *)
    Owns,           (* the MACs hosts announce for each IP: none, one, more  *)
    Slots,          (* indices of entries (MAX_ARP_SIZE of them)             *)
    EntryTimeout,   (* ARP_ENTRY_TIMEOUT, in seconds                         *)
    MaxRetries      (* ARP_REQUEST_MAX_RETRIES                               *)

ASSUME ConstantsAssumption ==
    /\ NextHop \in [Packets -> Ips] /\ Owns \in [Ips -> SUBSET Macs]
    /\ IsFiniteSet(Packets) /\ Slots # {}
    /\ EntryTimeout \in Nat \ {0} /\ MaxRetries \in Nat \ {0}

VARIABLES
    entries,    (* slot -> [ip, mac, age], age in seconds, or Invalid        *)
    req_list,   (* sequence of [ip, retries, age, pkts], newest first        *)
    fresh,      (* packets no thread has tried to send yet                   *)
    missed,     (* those looked up in vain and not yet appended              *)
    pkt_list,   (* the sweeper's own list                                    *)
    sent,       (* pairs <<packet, MAC it was sent to>>, in order            *)
    reported,   (* packets answered with ICMP host unreachable, in order     *)
    sweeper     (* "asleep", "awake" or "reporting"                          *)

vars == <<entries, req_list, fresh, missed, pkt_list, sent, reported, sweeper>>

Invalid == [ip |-> "invalid"]
Valid(s) == entries[s] # Invalid
Holding(ip) == {s \in Slots : Valid(s) /\ entries[s].ip = ip}
Requests == DOMAIN req_list
RequestsFor(ip) == {i \in Requests : req_list[i].ip = ip}
First(I) == CHOOSE i \in I : \A j \in I : i <= j
-----------------------------------------------------------------------------
(* iface_send_packet_by_arp: arpcache_lookup, and the packet is gone if the *)
(* address is known.                                                        *)
Lookup(p) ==
    /\ p \in fresh
    /\ fresh' = fresh \ {p}
    /\ IF Holding(NextHop[p]) # {}
       THEN /\ \E s \in Holding(NextHop[p]) : sent' = Append(sent, <<p, entries[s].mac>>)
            /\ UNCHANGED missed
       ELSE missed' = missed \cup {p} /\ UNCHANGED sent
    /\ UNCHANGED <<entries, req_list, pkt_list, reported, sweeper>>

(* The request arpcache_append_packet joins, if there is one. *)
Pending(ip) == RequestsFor(ip)

(* arpcache_append_packet. The table is not looked at again. *)
AppendPacket(p) ==
    LET ip == NextHop[p] IN
    /\ p \in missed
    /\ missed' = missed \ {p}
    /\ req_list' =
         IF Pending(ip) # {}
         THEN [req_list EXCEPT ![First(Pending(ip))].pkts = Append(@, p)]
         ELSE <<[ip |-> ip, retries |-> 1, age |-> 0, pkts |-> <<p>>]>> \o req_list
    /\ UNCHANGED <<entries, fresh, pkt_list, sent, reported, sweeper>>
-----------------------------------------------------------------------------
(* arpcache_insert, for an ARP request or reply that names ip and mac. *)

Mutant_EnterAgain(e) ==
    {[entries EXCEPT ![s] = e] : s \in {x \in Slots : ~Valid(x)}}
(* A new address goes to a random slot if any slot is free, and before the  *)
(* table, to entries[-1], if none is.                                       *)
Enter(e) ==
    IF Holding(e.ip) # {}
    THEN {[s \in Slots |-> IF s \in Holding(e.ip) THEN e ELSE entries[s]]}
    ELSE IF \E s \in Slots : ~Valid(s)
         THEN {[entries EXCEPT ![s] = e] : s \in Slots}
         ELSE {entries}

Mutant_AnsweredAny(ip) == Requests
(* The request whose packets arpcache_insert sends. *)
Answered(ip) == RequestsFor(ip)

Insert(ip, mac) ==
    /\ entries' \in Enter([ip |-> ip, mac |-> mac, age |-> 0])
    /\ IF Answered(ip) # {}
       THEN LET i == First(Answered(ip))
                pkts == req_list[i].pkts
            IN /\ sent' = sent \o [k \in DOMAIN pkts |-> <<pkts[k], mac>>]
               /\ req_list' = RemoveAt(req_list, i)
       ELSE UNCHANGED <<sent, req_list>>
    /\ UNCHANGED <<fresh, missed, pkt_list, reported, sweeper>>
-----------------------------------------------------------------------------
(* arpcache_sweep. *)

(* A second passes: sleep(1) ends, entries and requests are a second older. *)
Older(age, limit) == IF age < limit THEN age + 1 ELSE age
Tick ==
    /\ sweeper' = IF sweeper = "asleep" THEN "awake" ELSE sweeper
    /\ entries' = [s \in Slots |->
                     IF Valid(s) THEN [entries[s] EXCEPT !.age = Older(@, EntryTimeout)]
                                 ELSE Invalid]
    /\ req_list' = [i \in Requests |-> [req_list[i] EXCEPT !.age = Older(@, 1)]]
    /\ UNCHANGED <<fresh, missed, pkt_list, sent, reported>>

(* Asked often enough: given up. *)
Due(r) == r.age >= 1 /\ ~(r.retries < MaxRetries)

Mutant_RetriedUncounted(r) == r
(* Asked again. *)
Retried(r) == IF r.age >= 1 THEN [r EXCEPT !.retries = @ + 1] ELSE r

Mutant_KeptAll == req_list
(* What is left of the requests; a request given up goes with its packets.  *)
Kept == Selected(req_list, {r \in ToSet(req_list) : ~Due(r)})

Sweep ==
    LET due == Selected(req_list, {r \in ToSet(req_list) : Due(r)}) IN
    /\ sweeper = "awake"
    /\ entries' = [s \in Slots |->
                     IF Valid(s) /\ entries[s].age >= EntryTimeout THEN Invalid
                                                                   ELSE entries[s]]
    /\ req_list' = [i \in DOMAIN Kept |-> Retried(Kept[i])]
    /\ pkt_list' = FlattenSeq([i \in DOMAIN due |-> due[i].pkts])
    /\ sweeper' = "reporting"
    /\ UNCHANGED <<fresh, missed, sent, reported>>

(* Without the lock: ICMP host unreachable for each packet taken out. *)
Report ==
    /\ sweeper = "reporting"
    /\ IF pkt_list = <<>>
       THEN sweeper' = "asleep" /\ UNCHANGED <<pkt_list, reported>>
       ELSE /\ reported' = Append(reported, Head(pkt_list))
            /\ pkt_list' = Tail(pkt_list)
            /\ UNCHANGED sweeper
    /\ UNCHANGED <<entries, req_list, fresh, missed, sent>>
-----------------------------------------------------------------------------
Init ==
    /\ entries = [s \in Slots |-> Invalid]
    /\ req_list = <<>>
    /\ fresh = Packets /\ missed = {}
    /\ pkt_list = <<>> /\ sent = <<>> /\ reported = <<>>
    /\ sweeper = "asleep"

Next ==
    \/ \E p \in Packets : Lookup(p) \/ AppendPacket(p)
    \/ \E ip \in Ips : \E mac \in Owns[ip] : Insert(ip, mac)
    \/ Tick \/ Sweep \/ Report

(* Time passes, the sweeper's thread runs, and so does a sender's between   *)
(* its two critical sections; nobody has to answer.                         *)
Fairness ==
    /\ WF_vars(Tick) /\ WF_vars(Sweep) /\ WF_vars(Report)
    /\ \A p \in Packets : WF_vars(AppendPacket(p))

Spec == Init /\ [][Next]_vars /\ Fairness
-----------------------------------------------------------------------------
(* Types of all variables. *)
Entry == [ip : Ips, mac : Macs, age : 0..EntryTimeout]
Request == [ip : Ips, retries : 1..MaxRetries, age : 0..1, pkts : Seq(Packets)]
TypeOK ==
    /\ entries \in [Slots -> Entry \cup {Invalid}]
    /\ req_list \in Seq(Request)
    /\ fresh \subseteq Packets /\ missed \subseteq Packets
    /\ pkt_list \in Seq(Packets) /\ reported \in Seq(Packets)
    /\ sent \in Seq(Packets \X Macs)
    /\ sweeper \in {"asleep", "awake", "reporting"}

(* A packet given to iface_send_packet_by_arp is in one place, once: with   *)
(* its thread, pending, with the sweeper, sent or reported; it is never     *)
(* lost, sent twice, or both sent and reported (packets are handed over by  *)
(* pointer and freed at the end).                                           *)
In(q, i, tag, p) == {<<tag, i, k>> : k \in {n \in DOMAIN q : q[n] = p}}
Places(p) ==
    (IF p \in fresh THEN {<<"fresh", 0, 0>>} ELSE {})
    \cup (IF p \in missed THEN {<<"missed", 0, 0>>} ELSE {})
    \cup (UNION {In(req_list[i].pkts, i, "pending", p) : i \in Requests})
    \cup In(pkt_list, 0, "listed", p) \cup In(reported, 0, "reported", p)
    \cup In([k \in DOMAIN sent |-> sent[k][1]], 0, "sent", p)
OnePlace == \A p \in Packets : Cardinality(Places(p)) = 1

(* At most one request for an address: arpcache_insert serves only the      *)
(* first it finds (arpcache.c:117).                                         *)
OneRequest == \A i, j \in Requests : req_list[i].ip = req_list[j].ip => i = j

(* At most one valid entry for an address, however often and from wherever  *)
(* it is announced: lookup stops at the first (arpcache.c:22-26).           *)
OneEntry == \A ip \in Ips : Cardinality(Holding(ip)) <= 1

(* The types, one request and one entry for an address.                     *)
ArpInv == TypeOK /\ OneRequest /\ OneEntry

(* Every packet leaves for a MAC that a host announced for its next hop.    *)
RightHost == \A k \in DOMAIN sent : sent[k][2] \in Owns[NextHop[sent[k][1]]]

(* A packet that found no entry is sent or reported in the end, whether or  *)
(* not anybody answers (arpcache.c:142-173).                                *)
Resolved ==
    \A p \in Packets :
        p \in missed ~> \/ \E k \in DOMAIN sent : sent[k][1] = p
                        \/ \E k \in DOMAIN reported : reported[k] = p
=============================================================================
