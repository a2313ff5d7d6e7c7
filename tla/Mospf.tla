------------------------------- MODULE Mospf -------------------------------
(***************************************************************************)
(* The link state routers of EXP12 (mospf_daemon.c).  Every router runs    *)
(* the packet handler and four threads: hello, LSU, ageing of neighbours,  *)
(* ageing of the database with the route computation.  mospf_lock is held  *)
(* by each step but those of the route computation, which reads database   *)
(* and neighbours without it.                                              *)
(*                                                                         *)
(* Links join two routers and keep the order of frames.  The networks a    *)
(* router announces are fixed, what changes in an announcement is which    *)
(* neighbours it names.  Ages in seconds are replaced by what lets them    *)
(* grow: a neighbour ages when its hellos have stopped, an entry when the  *)
(* announcements of its router have passed it by.  The specification has   *)
(* names of its own, MospfSpec and so on, beside those of PrefixTrie.      *)
(* Definitions named Mutant_... are faulty variants that the specification *)
(* does not use.                                                           *)
(***************************************************************************)
EXTENDS Naturals, Sequences, FiniteSets, SequencesExt, TLC

CONSTANTS
    Routers,        (* router ids                                            *)
    Links,          (* sets of two routers                                   *)
    FirstLinks,     (* links that work at the beginning                      *)
    Stubs,          (* routers with a network of hosts                       *)
    Failing,        (* routers that may stop and start again                 *)
    Watched,        (* routers whose route computation is followed           *)
    FirstSeq,       (* router -> sequence_num at the beginning               *)
    SeqSize,        (* sequence numbers are modulo this, 2^16 in the code    *)
    MaxTtl,         (* MOSPF_MAX_LSU_TTL                                     *)
    MaxFaults,      (* bound: LSUs lost, routers stopped, links cut, repaired*)
    MaxUnderWay,    (* bound: no new LSU while so many are under way         *)
    MaxRefresh      (* bound: periodic LSUs that tell nobody anything new    *)

ASSUME MospfConstants ==
    /\ IsFiniteSet(Routers) /\ Stubs \subseteq Routers /\ Failing \cup Watched \subseteq Routers
    /\ \A l \in Links : l \subseteq Routers /\ Cardinality(l) = 2
    /\ FirstLinks \subseteq Links
    /\ SeqSize \in Nat \ {0, 1} /\ FirstSeq \in [Routers -> 0..SeqSize - 1] /\ MaxTtl \in Nat \ {0}
    /\ MaxFaults \in Nat /\ MaxUnderWay \in Nat \ {0} /\ MaxRefresh \in Nat

VARIABLES
    running,        (* routers that run                                      *)
    links,          (* links that work                                       *)
    nbr_list,       (* router -> its neighbours                              *)
    sequence_num,   (* router -> number of its last LSU                      *)
    mospf_db,       (* router -> its entries [rid, seq, array], in order     *)
    wire,           (* <<from, to>> -> LSUs [rid, seq, ttl, array] under way *)
    rtable,         (* router -> next hop of networks it is not attached to  *)
    calc,           (* router -> what update_rtable has computed, or Idle    *)
    stale,          (* routers whose database or neighbours have changed     *)
                    (* since their last computation began                    *)
    hung,           (* routers whose database thread is lost                 *)
    faults, refreshed

mospfVars == <<running, links, nbr_list, sequence_num, mospf_db, wire, rtable, calc,
               stale, hung, faults, refreshed>>
bounds == <<faults, refreshed>>
routes == <<rtable, calc, hung>>
Idle == <<>>

(* A network is the set of routers attached to it. *)
Networks == Links \cup {{r} : r \in Stubs}
NetworksOf(r) == {n \in Networks : r \in n}
Pairs == {p \in Routers \X Routers : {p[1], p[2]} \in Links}
-----------------------------------------------------------------------------
(* What is true of the network, to say who can hear whom. *)

Carries(a, b) == {a, b} \in links /\ b \in running

(* Routers at most k links away from r. *)
Within(r) ==
    LET W[k \in 0..Cardinality(Routers)] ==
            IF k = 0 THEN {r} \cap running
            ELSE LET near == W[k - 1]
                 IN near \cup {b \in running : \E a \in near : {a, b} \in links}
    IN W
Reach(r) == Within(r)[Cardinality(Routers)]
Hops(r, n) == CHOOSE k \in 0..Cardinality(Routers) :
                  /\ Within(r)[k] \cap n # {}
                  /\ k = 0 \/ Within(r)[k - 1] \cap n = {}

Rids(db) == {db[i].rid : i \in DOMAIN db}
EntryOf(db, o) == CHOOSE i \in DOMAIN db : db[i].rid = o
(* While a router computes its routes only its own steps are followed: those*)
(* of others change nothing that it reads and come before.                 *)
Computing == {r \in Routers : calc[r] # Idle}
Turn(r) == Computing \subseteq {r}

Changed(r) == stale' = stale \cup ({r} \cap Watched)

UnderWay == Cardinality(UNION {{p} \X DOMAIN wire[p] : p \in Pairs})
Quiet == (\A p \in Pairs : wire[p] = <<>>) /\ Computing = {}
NbrsKnown == \A r \in running : nbr_list[r] = {s \in Routers : Carries(r, s)}
(* The entry of o at r is the last announcement of o. *)
Current(r, o) ==
    /\ o \in Rids(mospf_db[r])
    /\ LET e == mospf_db[r][EntryOf(mospf_db[r], o)]
       IN e.seq = sequence_num[o] /\ e.array = nbr_list[o]
-----------------------------------------------------------------------------
(* An LSU leaves r on the links to routers in to. *)
Send(w, r, to, lsu) ==
    [p \in Pairs |-> IF p[1] = r /\ p[2] \in to /\ Carries(r, p[2])
                     THEN Append(w[p], lsu) ELSE w[p]]

(* sending_mospf_lsu, with the neighbours nbrs. *)
SendLsu(r, nbrs) ==
    LET seq == (sequence_num[r] + 1) % SeqSize
    IN /\ sequence_num' = [sequence_num EXCEPT ![r] = seq]
       /\ wire' = Send(wire, r, nbrs,
                       [rid |-> r, seq |-> seq, ttl |-> MaxTtl, array |-> nbrs])

(* sending_mospf_hello_thread: r gets the hellos that s sends on each link. *)
Hello(r, s) == {r, s} \subseteq running /\ {r, s} \in links

(* handle_mospf_hello: of a known neighbour only the age changes, a new one *)
(* is told to everybody.                                                   *)
HelloAgain(r, s) == Hello(r, s) /\ s \in nbr_list[r] /\ UNCHANGED mospfVars
HandleHello(r, s) ==
    /\ Hello(r, s) /\ s \notin nbr_list[r]
    /\ UnderWay < MaxUnderWay /\ Turn(r)
    /\ nbr_list' = [nbr_list EXCEPT ![r] = @ \cup {s}]
    /\ SendLsu(r, nbr_list[r] \cup {s})
    /\ Changed(r)
    /\ UNCHANGED <<running, links, mospf_db, routes, bounds>>

(* checking_nbr_thread: no hello for 3 * helloint seconds. *)
NbrTimeout(r, s) ==
    /\ r \in running /\ s \in nbr_list[r] /\ ~Carries(r, s)
    /\ UnderWay < MaxUnderWay /\ Turn(r)
    /\ nbr_list' = [nbr_list EXCEPT ![r] = @ \ {s}]
    /\ SendLsu(r, nbr_list[r] \ {s})
    /\ Changed(r)
    /\ UNCHANGED <<running, links, mospf_db, routes, bounds>>

Mutant_Expired(r, o) == FALSE
(* checking_database_thread: an entry gets older than                      *)
(* MOSPF_DATABASE_TIMEOUT, which takes longer than any flood.              *)
Expired(r, o) ==
    /\ r \in running /\ o \in Rids(mospf_db[r]) /\ Quiet /\ NbrsKnown
    /\ o \notin Reach(r) \/ ~Current(r, o)

(* sending_mospf_lsu_thread.  The period is far longer than a flood. *)
PeriodicLsu(r) ==
    /\ r \in running /\ Quiet /\ NbrsKnown /\ \A s \in Reach(r) : ~Expired(s, r)
    /\ \/ \E s \in Reach(r) \ {r} : ~Current(s, r)
          /\ UNCHANGED refreshed
       \/ refreshed < MaxRefresh /\ refreshed' = refreshed + 1
    /\ SendLsu(r, nbr_list[r])
    /\ UNCHANGED <<running, links, nbr_list, mospf_db, stale, routes, faults>>

Mutant_Newer(entry, lsu) == entry.seq <= lsu.seq
(* An LSU replaces the entry of its router. *)
Newer(entry, lsu) == entry.seq < lsu.seq

(* The forwarding loop: every neighbour but the router the LSU is about. *)
Forward(w, r, lsu) ==
    IF lsu.ttl - 1 > 0
    THEN Send(w, r, {n \in nbr_list[r] : n # lsu.rid}, [lsu EXCEPT !.ttl = @ - 1])
    ELSE w

(* handle_mospf_lsu of an LSU that r gets from s. *)
HandleLsu(r, s) ==
    /\ <<s, r>> \in Pairs /\ wire[<<s, r>>] # <<>> /\ Turn(r)
    /\ LET lsu == Head(wire[<<s, r>>])
           db == mospf_db[r]
           isFound == lsu.rid \in Rids(db)
           i == EntryOf(db, lsu.rid)
           entry == [rid |-> lsu.rid, seq |-> lsu.seq, array |-> lsu.array]
           isUpdated == ~isFound \/ Newer(db[i], lsu)
           rest == [wire EXCEPT ![<<s, r>>] = Tail(@)]
       IN /\ mospf_db' = [mospf_db EXCEPT ![r] =
                             IF ~isFound THEN Append(db, entry)
                             ELSE IF isUpdated THEN [db EXCEPT ![i] = entry] ELSE db]
          /\ wire' = IF isUpdated THEN Forward(rest, r, lsu) ELSE rest
          /\ IF isUpdated THEN Changed(r) ELSE UNCHANGED stale
    /\ UNCHANGED <<running, links, nbr_list, sequence_num, routes, bounds>>

DbTimeout(r, o) ==
    /\ Expired(r, o)
    /\ mospf_db' = [mospf_db EXCEPT ![r] = RemoveAt(@, EntryOf(@, o))]
    /\ Changed(r)
    /\ UNCHANGED <<running, links, nbr_list, sequence_num, wire, routes, bounds>>
-----------------------------------------------------------------------------
(* The route computation.  Routers are indexes of router_list, the first   *)
(* is the router itself.                                                   *)

Unreached == 127        (* INT8_MAX *)

(* init_graph: the routers in the order of the database, and for each the   *)
(* routers it announces; either end's announcement makes an edge.          *)
InitGraph(r) ==
    LET db == mospf_db[r]
        list == <<r>> \o [i \in DOMAIN db |-> db[i].rid]
    IN [list |-> list,
        named |-> [v \in DOMAIN list |->
            IF v = 1 THEN {} ELSE {u \in DOMAIN list : list[u] \in db[v - 1].array}]]

(* min_dist: the first of the nearest. *)
MinDist(dist, open) == CHOOSE u \in open : \A v \in open :
                           dist[u] < dist[v] \/ (dist[u] = dist[v] /\ u <= v)

(* Dijkstra's test; where there is no edge the sum is too large. *)
Relax(g, s, u, v) ==
    /\ v \in s.open \ {u} /\ (u \in g.named[v] \/ v \in g.named[u])
    /\ s.dist[u] + 1 < s.dist[v]

Dijkstra(g) ==
    LET I == DOMAIN g.list
        Step(s, i) ==
            LET u == MinDist(s.dist, s.open)
                near == {v \in I : Relax(g, s, u, v)}
            IN [open |-> s.open \ {u},
                dist |-> [v \in I |-> IF v \in near THEN s.dist[u] + 1 ELSE s.dist[v]],
                prev |-> [v \in I |-> IF v \in near THEN u ELSE s.prev[v]]]
    IN FoldLeft(Step, [open |-> I, dist |-> [v \in I |-> IF v = 1 THEN 0 ELSE Unreached],
                       prev |-> [v \in I |-> 0]], [i \in I |-> i])

Mutant_FindNextHop(i, prev) == i
(* find_next_hop: back along prev to the router whose predecessor is the    *)
(* first.                                                                  *)
FindNextHop(i, prev) ==
    LET f[j \in DOMAIN prev] == IF prev[j] = 1 THEN j ELSE f[prev[j]]
    IN f[i]

(* update_router, the nearest routers first, each if it still has an entry  *)
(* and its next hop is a neighbour; a network keeps its first route.       *)
UpdateRouter(r, c) ==
    LET known == {i \in 2..Len(c.list) :
                     c.list[i] \in Rids(mospf_db[r]) /\ c.dist[i] < Unreached}
        order == SetToSortSeq(known, LAMBDA i, j :
                     c.dist[i] < c.dist[j] \/ (c.dist[i] = c.dist[j] /\ i < j))
        Add(rt, i) ==
            LET hop == c.list[FindNextHop(i, c.prev)]
                new == NetworksOf(c.list[i]) \ (NetworksOf(r) \cup DOMAIN rt)
            IN IF hop \in nbr_list[r] THEN rt @@ [n \in new |-> hop] ELSE rt
    IN FoldLeft(Add, <<>>, order)

(* find_next_hop is asked for a router that was not reached and follows a   *)
(* predecessor of -1 out of the array.                                     *)
Astray(r, c) == \E i \in 2..Len(c.list) :
                    c.list[i] \in Rids(mospf_db[r]) /\ c.dist[i] = Unreached

(* update_rtable as far as Dijkstra.  A computation from what the last one  *)
(* has seen is left out.                                                   *)
BeginUpdate(r) ==
    /\ r \in (running \cap Watched \cap stale) \ hung /\ Computing = {}
    /\ stale' = stale \ {r}
Compute(r) ==
    /\ BeginUpdate(r)
    /\ LET g == InitGraph(r)
           d == Dijkstra(g)
       IN calc' = [calc EXCEPT ![r] = [list |-> g.list, dist |-> d.dist, prev |-> d.prev]]
    /\ UNCHANGED <<running, links, nbr_list, sequence_num, mospf_db, wire, rtable, hung, bounds>>

(* The rest of update_rtable.  What is read outside the array may send the  *)
(* thread round for ever, end the process, or name no neighbour.           *)
EndUpdate(r) == r \in Computing /\ calc' = [calc EXCEPT ![r] = Idle]
Install(r) ==
    /\ EndUpdate(r)
    /\ rtable' = [rtable EXCEPT ![r] = UpdateRouter(r, calc[r])]
    /\ hung' \in {hung} \cup (IF Astray(r, calc[r]) THEN {hung \cup {r}} ELSE {})
    /\ UNCHANGED <<running, links, nbr_list, sequence_num, mospf_db, wire, stale, bounds>>
-----------------------------------------------------------------------------
(* The network: an LSU is lost, a link fails or is repaired, a router stops *)
(* and starts again.                                                       *)

Lose(p) ==
    /\ wire[p] # <<>> /\ Computing = {} /\ faults < MaxFaults
    /\ wire' = [wire EXCEPT ![p] = Tail(@)]
    /\ faults' = faults + 1
    /\ UNCHANGED <<running, links, nbr_list, sequence_num, mospf_db, stale, routes, refreshed>>

CutOrRepair(l) ==
    /\ Computing = {} /\ faults < MaxFaults /\ faults' = faults + 1
    /\ links' = IF l \in links THEN links \ {l} ELSE links \cup {l}
    /\ wire' = [p \in Pairs |-> IF {p[1], p[2]} = l THEN <<>> ELSE wire[p]]
    /\ UNCHANGED <<running, nbr_list, sequence_num, mospf_db, stale, routes, refreshed>>

ShutDown(r) ==
    /\ r \in running \cap Failing /\ Computing = {} /\ faults < MaxFaults /\ faults' = faults + 1
    /\ running' = running \ {r}
    /\ wire' = [p \in Pairs |-> IF p[2] = r THEN <<>> ELSE wire[p]]
    /\ nbr_list' = [nbr_list EXCEPT ![r] = {}]
    /\ sequence_num' = [sequence_num EXCEPT ![r] = 0]
    /\ mospf_db' = [mospf_db EXCEPT ![r] = <<>>]
    /\ rtable' = [rtable EXCEPT ![r] = <<>>]
    /\ stale' = stale \ {r}
    /\ hung' = hung \ {r}
    /\ UNCHANGED <<links, calc, refreshed>>

(* mospf_init and mospf_run; a start is part of the stop's event. *)
StartUp(r) ==
    /\ r \notin running /\ Computing = {}
    /\ running' = running \cup {r}
    /\ UNCHANGED <<links, nbr_list, sequence_num, mospf_db, wire, stale, routes, bounds>>
-----------------------------------------------------------------------------
(* The network after some time without failures: everybody has heard of    *)
(* everybody, routes are about to be computed.                             *)
MospfInit ==
    /\ LET Near(r) == {s \in Routers : {r, s} \in FirstLinks}
           Others(r) == SetToSeq(Routers \ {r})
       IN /\ nbr_list = [r \in Routers |-> Near(r)]
          /\ mospf_db = [r \in Routers |-> [i \in DOMAIN Others(r) |->
                 [rid |-> Others(r)[i], seq |-> FirstSeq[Others(r)[i]],
                  array |-> Near(Others(r)[i])]]]
    /\ running = Routers
    /\ links = FirstLinks
    /\ sequence_num = FirstSeq
    /\ wire = [p \in Pairs |-> <<>>]
    /\ rtable = [r \in Routers |-> <<>>]
    /\ calc = [r \in Routers |-> Idle]
    /\ stale = Watched /\ hung = {}
    /\ faults = 0 /\ refreshed = 0

MospfNext ==
    \/ \E r, s \in Routers :
           \/ HandleHello(r, s) \/ HelloAgain(r, s) \/ NbrTimeout(r, s)
           \/ HandleLsu(r, s) \/ DbTimeout(r, s)
    \/ \E r \in Routers : PeriodicLsu(r) \/ Compute(r) \/ Install(r)
    \/ \E r \in Routers : ShutDown(r) \/ StartUp(r)
    \/ \E p \in Pairs : Lose(p)
    \/ \E l \in Links : CutOrRepair(l)

(* The packet handler and the threads of every router run. *)
MospfFairness ==
    /\ \A r \in Routers :
        /\ WF_mospfVars(\E s \in Routers : HandleHello(r, s) \/ HandleLsu(r, s))
        /\ WF_mospfVars(\E s \in Routers : NbrTimeout(r, s))
        /\ WF_mospfVars(PeriodicLsu(r))
        /\ WF_mospfVars(\E o \in Routers : DbTimeout(r, o))
    /\ \A r \in Watched : WF_stale(BeginUpdate(r)) /\ WF_calc(EndUpdate(r))

MospfSpec == MospfInit /\ [][MospfNext]_mospfVars /\ MospfFairness
-----------------------------------------------------------------------------
LsuType == [rid : Routers, seq : 0..SeqSize - 1, ttl : 1..MaxTtl, array : SUBSET Routers]
EntryType == [rid : Routers, seq : 0..SeqSize - 1, array : SUBSET Routers]

(* Every variable has its type; a router has one entry per other router and *)
(* none about itself.                                                      *)
MospfTypes ==
    /\ running \subseteq Routers /\ links \subseteq Links /\ hung \subseteq Routers
    /\ nbr_list \in [Routers -> SUBSET Routers]
    /\ sequence_num \in [Routers -> 0..SeqSize - 1]
    /\ \A r \in Routers : /\ mospf_db[r] \in Seq(EntryType)
                          /\ Rids(mospf_db[r]) \subseteq Routers \ {r}
                          /\ Cardinality(Rids(mospf_db[r])) = Len(mospf_db[r])
    /\ \A p \in Pairs : wire[p] \in Seq(LsuType)

(* The sequence numbers end a flood, not the time to live: an LSU under way *)
(* has crossed no more links than there are routers and restarts, although *)
(* it is forwarded back to where it came from (handle_mospf_lsu).          *)
FloodStopsItself ==
    \A p \in Pairs : \A i \in DOMAIN wire[p] :
        MaxTtl - wire[p][i].ttl < Cardinality(Routers) + faults

(* The types, and floods that end.                                          *)
MospfInv == MospfTypes /\ FloodStopsItself

(* Whatever fails, is lost or starts again with old numbers, the databases *)
(* end up equal to what the routers announce: each router has the last     *)
(* announcement of every router it can reach and of no other.              *)
DbSettles ==
    <>[](\A r, o \in running : r # o =>
            IF o \in Reach(r) THEN Current(r, o) ELSE o \notin Rids(mospf_db[r]))

RoutesRight(r) ==
    /\ DOMAIN rtable[r] = {n \in Networks \ NetworksOf(r) : n \cap Reach(r) # {}}
    /\ \A n \in DOMAIN rtable[r] :
           Carries(r, rtable[r][n]) /\ Hops(rtable[r][n], n) + 1 = Hops(r, n)
(* Routing settles: unless find_next_hop went astray, update_rtable ends up *)
(* with a shortest route to every network that can be reached and to no    *)
(* other, whatever it read while the database changed under it.            *)
RoutesSettle == <>[](\A r \in running \cap Watched : r \in hung \/ RoutesRight(r))

=============================================================================
