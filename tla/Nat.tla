-------------------------------- MODULE Nat --------------------------------
(***************************************************************************)
(* The network address translator of EXP13 (nat.c): the hash table of      *)
(* mappings, the port pool and the DNAT rules, the packet handler          *)
(* (do_translation) and the thread that removes old mappings (nat_timeout).*)
(* Both hold nat.lock from end to end, so each is one step.                *)
(*                                                                         *)
(* A mapping does not name its remote: the table is indexed by a hash of   *)
(* the remote's address and port, and remotes whose hashes collide share a *)
(* list.  Anybody outside may send a packet to any external port at any    *)
(* time.  Sequence numbers are left out, so whether the ACK tests of       *)
(* is_flow_finished hold is left open; the address of the external         *)
(* interface is the only external one.  Definitions named Mutant_... are   *)
(* faulty variants that the specification does not use.                    *)
(***************************************************************************)
EXTENDS Naturals, Sequences, FiniteSets, SequencesExt, Lists

CONSTANTS
    Inside,         (* internal endpoints                                    *)
    Remotes,        (* endpoints on the public side                          *)
    Hash,           (* remote -> index of its list                           *)
    PortMin,        (* NAT_PORT_MIN                                          *)
    PortMax,        (* NAT_PORT_MAX, itself not in the pool                  *)
    Rules,          (* sequence of [ext, int], the DNAT rules                *)
    Timeout,        (* TCP_ESTABLISHED_TIMEOUT, in seconds                   *)
    Knocked,        (* ports of the pool that remotes write to unasked       *)
    MaxMappings     (* bound: no new mapping while there are so many         *)

Pool == PortMin..PortMax - 1
RulePorts == {Rules[k].ext : k \in DOMAIN Rules}
Buckets == {Hash[r] : r \in Remotes}
Nobody == "0.0.0.0:0"

ASSUME ConstantsAssumption ==
    /\ PortMin \in Nat \ {0} /\ PortMax \in Nat /\ Knocked \subseteq Pool
    /\ Hash \in [Remotes -> Buckets] /\ Nobody \notin Inside
    /\ Rules \in Seq([ext : Nat \ Pool, int : Inside]) /\ 0 \notin RulePorts
    /\ Timeout \in Nat /\ MaxMappings \in Nat

VARIABLES
    nat_mapping_list,   (* bucket -> sequence of mappings: int and ext, the  *)
                        (* two endpoints; out, TRUE when assign_port was     *)
                        (* asked; fins, who ended on a bare FIN; idle, the   *)
                        (* seconds since update_time; and, for the           *)
                        (* properties, last, the seconds since a packet      *)
    assigned_ports,     (* the ports marked assigned                         *)
    nat_thread,         (* "asleep" or "awake"                               *)
    stray               (* for the properties: a packet has come in for      *)
                        (* which there was neither mapping nor rule          *)

vars == <<nat_mapping_list, assigned_ports, nat_thread, stray>>

In(b) == ToSet(nat_mapping_list[b])
Mappings == UNION {In(b) : b \in Buckets}
HowMany == FoldSet(LAMBDA b, n : n + Len(nat_mapping_list[b]), 0, Buckets)

(* The first mapping of a list of which Test holds; 0 if there is none. *)
Find(b, Test(_)) == SelectInSeq(nat_mapping_list[b], Test)
OfPort(b, p) == Find(b, LAMBDA m : m.ext = p)
OfHost(b, i) == Find(b, LAMBDA m : m.int = i)
-----------------------------------------------------------------------------
(* do_translation. *)

Mutant_FreePortsAll == Pool
FreePorts == Pool \ assigned_ports

(* assign_port: the lowest port that is free, or 0. *)
AssignPort == IF FreePorts = {} THEN 0 ELSE Min(FreePorts)

Matching(p) == {k \in DOMAIN Rules : Rules[k].ext = p}
(* check_rules: the last rule that matches; none leaves the address zero. *)
CheckRules(p) == IF Matching(p) = {} THEN Nobody ELSE Rules[Max(Matching(p))].int

Mutant_TouchedByHosts(m, dir) ==
    IF dir = "out" THEN [m EXCEPT !.idle = 0] ELSE m
(* update_time is set by packets of both directions. *)
Touched(m, dir) == [m EXCEPT !.idle = 0]

(* What a packet leaves in its mapping: only the latest packet of each side *)
(* counts, and only flags that are exactly FIN.                             *)
Carried(m, dir, fin) ==
    [Touched(m, dir) EXCEPT !.last = 0,
                            !.fins = IF fin THEN @ \cup {dir} ELSE @ \ {dir}]

New(i, p, out) ==
    [int |-> i, ext |-> p, out |-> out, fins |-> {}, idle |-> 0, last |-> 0]

(* The k-th mapping of b carries a packet; m is appended first if k is 0. *)
Translate(b, k, m, dir, fin) ==
    LET q == nat_mapping_list[b] IN
    nat_mapping_list' =
        [nat_mapping_list EXCEPT ![b] =
            IF k = 0 THEN Append(q, Carried(m, dir, fin))
                     ELSE [q EXCEPT ![k] = Carried(q[k], dir, fin)]]

(* DIR_IN: from remote r to the external port p. *)
TranslateIn(r, p, fin) ==
    LET b == Hash[r]
        k == OfPort(b, p)
    IN /\ k = 0 => HowMany < MaxMappings
       /\ Translate(b, k, New(CheckRules(p), p, FALSE), "in", fin)
       /\ stray' = (stray \/ (k = 0 /\ CheckRules(p) = Nobody))
       /\ UNCHANGED <<assigned_ports, nat_thread>>

(* DIR_OUT: from the inside endpoint i to remote r. *)
TranslateOut(i, r, fin) ==
    LET b == Hash[r]
        k == OfHost(b, i)
    IN /\ k = 0 => HowMany < MaxMappings
       /\ Translate(b, k, New(i, AssignPort, TRUE), "out", fin)
       /\ assigned_ports' = IF k = 0 /\ AssignPort # 0
                            THEN assigned_ports \cup {AssignPort}
                            ELSE assigned_ports
       /\ UNCHANGED <<nat_thread, stray>>
-----------------------------------------------------------------------------
(* nat_timeout. *)

(* A second passes, and sleep(1) ends. *)
Older(age) == IF age > Timeout THEN age ELSE age + 1
Tick ==
    /\ nat_thread' = "awake"
    /\ nat_mapping_list' =
         [b \in Buckets |-> [k \in DOMAIN nat_mapping_list[b] |->
             [nat_mapping_list[b][k] EXCEPT !.idle = Older(@), !.last = Older(@)]]]
    /\ UNCHANGED <<assigned_ports, stray>>

Mutant_IdleUnlessHalfClosed(m) == m.idle > Timeout /\ m.fins # {"out"}
Idle(m) == m.idle > Timeout

(* is_flow_finished, without its two tests of acknowledgments. *)
BothFin(m) == m.fins = {"in", "out"}

Mutant_FreedIfIdle(gone) == {m.ext : m \in {x \in gone : Idle(x)}}
(* Every removed mapping clears the mark of its port. *)
Freed(gone) == {m.ext : m \in gone}

(* finished: the flows with a FIN of each side whose ACKs are found to fit. *)
Sweep ==
    /\ nat_thread = "awake"
    /\ \E finished \in SUBSET {x \in Buckets \X Mappings :
                                  x[2] \in In(x[1]) /\ BothFin(x[2])} :
         LET Gone(b) == {m \in In(b) : Idle(m) \/ <<b, m>> \in finished} IN
         /\ nat_mapping_list' =
              [b \in Buckets |-> Selected(nat_mapping_list[b], In(b) \ Gone(b))]
         /\ assigned_ports' = assigned_ports \ Freed(UNION {Gone(b) : b \in Buckets})
    /\ nat_thread' = "asleep"
    /\ UNCHANGED stray
-----------------------------------------------------------------------------
(* nat_init. *)
Init ==
    /\ nat_mapping_list = [b \in Buckets |-> <<>>]
    /\ assigned_ports = {} /\ nat_thread = "asleep" /\ stray = FALSE

Next ==
    \/ \E r \in Remotes, fin \in BOOLEAN :
           \/ \E p \in Knocked \cup RulePorts \cup {m.ext : m \in In(Hash[r])} :
                  TranslateIn(r, p, fin)
           \/ \E i \in Inside : TranslateOut(i, r, fin)
    \/ Tick \/ Sweep

(* Time passes and the thread runs; nobody has to send anything. *)
Spec == Init /\ [][Next]_vars /\ WF_vars(Tick) /\ WF_vars(Sweep)
-----------------------------------------------------------------------------
(* Types of all variables; only ports of the pool are ever marked. *)
Mapping == [int : Inside \cup {Nobody}, ext : Nat, out : BOOLEAN,
            fins : SUBSET {"in", "out"}, idle : 0..Timeout + 1, last : 0..Timeout + 1]
TypeOK ==
    /\ nat_mapping_list \in [Buckets -> Seq(Mapping)]
    /\ assigned_ports \subseteq Pool
    /\ nat_thread \in {"asleep", "awake"} /\ stray \in BOOLEAN

(* A port marked assigned is used by some mapping: none leaks (nat.c:188,   *)
(* 195 clear the mark of every mapping that goes).                          *)
NoPortLeak == \A p \in assigned_ports : \E m \in Mappings : m.ext = p

(* The types, and no port leaked.                                           *)
NatInv == TypeOK /\ NoPortLeak

(* The answer to a packet that went out through a port of the pool is       *)
(* translated back to the host it came from, unless a packet nobody had     *)
(* asked for has ever come in (nat.c:93-98, 116-131).                       *)
ComesBack(b) ==
    \A m \in In(b) :
        m.out /\ m.ext # 0 => nat_mapping_list[b][OfPort(b, m.ext)].int = m.int
ReplyReachesHost == ~stray => \A b \in Buckets : ComesBack(b)

(* A packet to the port of a rule, the last one if the port has several, is *)
(* sent to the host of that rule, whether the packet finds a mapping or     *)
(* makes one (nat.c:64-72, 93-109).                                         *)
RuleReachesHost ==
    \A b \in Buckets : \A m \in In(b), k \in DOMAIN Rules :
        /\ m.ext = Rules[k].ext
        /\ \A j \in DOMAIN Rules : j > k => Rules[j].ext # Rules[k].ext
        => m.int = Rules[k].int

(* Both of them.                                                            *)
ReachesHost == ReplyReachesHost /\ RuleReachesHost

(* A mapping that carried a packet in the last TCP_ESTABLISHED_TIMEOUT      *)
(* seconds, in whichever direction, stays, unless both sides sent FIN       *)
(* (nat.c:143, 187-194).                                                    *)
KeptWhileActive ==
    [][\A b \in Buckets : \A m \in In(b) :
           m.last <= Timeout /\ ~BothFin(m)
           => \E n \in In(b)' : n.int = m.int /\ n.ext = m.ext]_vars

(* A port is free again and again, or else packets keep coming through it: *)
(* one whose mappings have fallen silent is not kept (nat.c:181-203).       *)
PortsComeBack ==
    \A p \in Pool :
        []<>(p \in assigned_ports => \E m \in Mappings : m.ext = p /\ m.last = 0)
=============================================================================
