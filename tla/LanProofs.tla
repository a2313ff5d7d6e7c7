----------------------------- MODULE LanProofs ------------------------------
(***************************************************************************)
(* Proofs about Lan and Stp, the programs of the bridges.                  *)
(*                                                                         *)
(* Lan: the tables, for every topology, also with loops, and deliveries,   *)
(* for one switch with any number of hubs around it; both for every number *)
(* of hosts and frames, every time-out and every way hosts are moved.      *)
(*                                                                         *)
(* Stp, in the second half: what the ends of a link have told each other,  *)
(* for every network whose switches have up to three ports, and what the   *)
(* switches believe, for every network of switches with up to two.         *)
(***************************************************************************)
EXTENDS Lan, Stp, FiniteSetTheorems, SequenceTheorems, TLAPS

(* Between its two critical sections no entry for the source can appear,    *)
(* as only the packet loop of the switch inserts.                           *)
UnknownYet == \A s \in Switches : pc[s] = "insert" => Entries(s, Source(s)) = {}

Single(s, m) == \A e, f \in Entries(s, m) : e = f
SingleEntries == \A s \in Switches, m \in Hosts : Single(s, m)

IInv == TypeOK /\ UnknownYet /\ SingleEntries

USE DEF At, To
-----------------------------------------------------------------------------
LEMMA CopyExists == AnyCopy \in Copies
<1>1. PICK h \in Hosts : TRUE
  BY ConstantsAssumption
<1>2. PICK n \in Slots : TRUE
  BY ConstantsAssumption
<1>3. [slot |-> n, at |-> Home[h]] \in Copies
  BY <1>1, <1>2, ConstantsAssumption DEF Copies
<1>4. QED
  BY <1>3 DEF AnyCopy

LEMMA AtMostOne ==
    ASSUME NEW S, \A e, f \in S : e = f
    PROVE  Cardinality(S) <= 1
<1>1. CASE S = {}
  BY <1>1, FS_EmptySet
<1>2. CASE S # {}
  <2>1. PICK e \in S : S = {e}
    BY <1>2
  <2>2. QED
    BY <2>1, FS_Singleton
<1>3. QED
  BY <1>1, <1>2

LEMMA InitIInv == Init => IInv
<1> SUFFICES ASSUME Init PROVE IInv
  OBVIOUS
<1> DEFINE h == CHOOSE x \in Hosts : TRUE
<1>1. h \in Hosts
  BY ConstantsAssumption
<1>2. frame \in [Slots -> [src : Hosts, dst : Hosts, from : Ports]]
  BY <1>1, ConstantsAssumption DEF Init
<1>3. TypeOK
  BY <1>2, CopyExists, ConstantsAssumption DEF Init, TypeOK
<1>4. QED
  BY <1>3 DEF Init, IInv, UnknownYet, SingleEntries, Single, Entries
-----------------------------------------------------------------------------
(* A copy sent on stays on the LAN, and the count below 3.                  *)
LEMMA EmitTypes ==
    ASSUME TypeOK, NEW c \in wire, NEW out, Emit(c, out)
    PROVE  wire' \subseteq Copies /\ got' \in [Slots -> 0..3]
<1>1. c \in Copies /\ c.slot \in Slots
  BY DEF TypeOK, Copies
<1>2. wire' \subseteq Copies
  BY <1>1, ConstantsAssumption DEF Emit, TypeOK, Copies
<1>3. got' \in [Slots -> 0..3]
  BY <1>1 DEF Emit, TypeOK
<1>4. QED
  BY <1>2, <1>3

(* Looking an address up keeps the entries and their number.                *)
LEMMA LookedKeeps ==
    ASSUME TypeOK, SingleEntries, NEW s \in Switches, NEW m \in Hosts,
           table' = [table EXCEPT ![s] = Looked(s, m)]
    PROVE  /\ table' \in [Switches -> SUBSET [mac : Hosts, at : Ports, age : 0..Timeout + 1]]
           /\ SingleEntries'
           /\ \A t \in Switches, k \in Hosts : Entries(t, k) = {} => Entries(t, k)' = {}
<1> DEFINE Entry == [mac : Hosts, at : Ports, age : 0..Timeout + 1]
<1>1. table \in [Switches -> SUBSET Entry] /\ 0 \in 0..Timeout + 1
  BY ConstantsAssumption DEF TypeOK
<1>2. \A e \in Entries(s, m) : [e EXCEPT !.age = 0] \in Entry /\ [e EXCEPT !.age = 0].mac = m
  BY <1>1 DEF Entries
<1>3. Looked(s, m) \subseteq Entry
  BY <1>1, <1>2 DEF Looked
<1>4. table' \in [Switches -> SUBSET Entry]
  BY <1>1, <1>3
<1>5. table'[s] = Looked(s, m) /\ \A t \in Switches \ {s} : table'[t] = table[t]
  BY <1>1
<1>6. ASSUME NEW k \in Hosts
      PROVE  /\ k # m => Entries(s, k)' = Entries(s, k)
             /\ k = m => Entries(s, k)' = {[e EXCEPT !.age = 0] : e \in Entries(s, m)}
  BY <1>2, <1>5 DEF Looked, Entries
<1>7. ASSUME NEW t \in Switches, NEW k \in Hosts
      PROVE  Single(t, k)' /\ (Entries(t, k) = {} => Entries(t, k)' = {})
  <2>1. CASE t # s
    BY <1>5, <2>1 DEF Entries, Single, SingleEntries
  <2>2. CASE t = s
    <3>1. Single(s, k)
      BY DEF SingleEntries
    <3>2. CASE k # m
      BY <1>6, <2>2, <3>1, <3>2 DEF Single
    <3>3. CASE k = m
      BY <1>6, <2>2, <3>1, <3>3 DEF Single
    <3>4. QED
      BY <3>2, <3>3
  <2>3. QED
    BY <2>1, <2>2
<1>8. QED
  BY <1>4, <1>7 DEF SingleEntries
-----------------------------------------------------------------------------
(* Each action keeps the invariant.                                         *)

LEMMA HubStep ==
    ASSUME IInv, NEW c \in wire, HubHandle(c)
    PROVE  IInv'
<1>1. TypeOK'
  BY EmitTypes DEF IInv, HubHandle, TypeOK
<1>2. QED
  BY <1>1 DEF IInv, HubHandle, UnknownYet, SingleEntries, Single, Entries, Source

LEMMA ForwardStep ==
    ASSUME IInv, NEW c \in wire, NEW s \in Switches, Forward(s, c)
    PROVE  IInv'
<1> DEFINE m == frame[c.slot].dst
<1>1. c \in Copies /\ m \in Hosts
  BY DEF IInv, TypeOK, Copies
<1>2. wire' \subseteq Copies /\ got' \in [Slots -> 0..3]
  BY EmitTypes DEF IInv, Forward
<1>3. /\ table' \in [Switches -> SUBSET [mac : Hosts, at : Ports, age : 0..Timeout + 1]]
      /\ SingleEntries'
      /\ \A t \in Switches, k \in Hosts : Entries(t, k) = {} => Entries(t, k)' = {}
  BY <1>1, LookedKeeps DEF IInv, Forward
<1>4. TypeOK'
  BY <1>1, <1>2, <1>3 DEF IInv, Forward, TypeOK
<1>5. UnknownYet'
  <2> SUFFICES ASSUME NEW t \in Switches, pc'[t] = "insert"
               PROVE  Entries(t, Source(t))' = {}
    BY DEF UnknownYet
  <2>1. t # s /\ pc[t] = "insert" /\ cur'[t] = cur[t] /\ frame' = frame
    BY DEF IInv, TypeOK, Forward
  <2>2. Source(t) \in Hosts /\ Source(t)' = Source(t)
    BY <2>1 DEF IInv, TypeOK, Source, Copies
  <2>3. Entries(t, Source(t))' = {}
    BY <1>3, <2>1, <2>2 DEF IInv, UnknownYet, Entries
  <2>4. QED
    BY <2>3
<1>6. QED
  BY <1>3, <1>4, <1>5 DEF IInv

LEMMA SourceType ==
    ASSUME TypeOK, NEW s \in Switches
    PROVE  Source(s) \in Hosts /\ cur[s].at \in Ports
BY DEF TypeOK, Source, Copies

LEMMA LearnStep ==
    ASSUME IInv, NEW s \in Switches, Learn(s)
    PROVE  IInv'
<1>1. Source(s) \in Hosts
  BY SourceType DEF IInv
<1>2. /\ table' \in [Switches -> SUBSET [mac : Hosts, at : Ports, age : 0..Timeout + 1]]
      /\ SingleEntries'
      /\ \A t \in Switches, k \in Hosts : Entries(t, k) = {} => Entries(t, k)' = {}
  BY <1>1, LookedKeeps DEF IInv, Learn
<1>3. TypeOK'
  BY <1>2, CopyExists DEF IInv, Learn, Done, TypeOK
<1>4. UnknownYet'
  <2> SUFFICES ASSUME NEW t \in Switches, pc'[t] = "insert"
               PROVE  Entries(t, Source(t))' = {}
    BY DEF UnknownYet
  <2>1. /\ cur'[t] = cur[t] /\ frame' = frame
        /\ pc[t] = "insert" \/ (t = s /\ Entries(s, Source(s)) = {})
    BY DEF IInv, TypeOK, Learn, Done, Unknown
  <2>2. Source(t) \in Hosts /\ Source(t)' = Source(t)
    BY <2>1, SourceType DEF IInv, Source
  <2>3. Entries(t, Source(t)) = {}
    BY <2>1 DEF IInv, UnknownYet
  <2>4. Entries(t, Source(t))' = {}
    BY <1>2, <2>2, <2>3 DEF Entries
  <2>5. QED
    BY <2>4
<1>5. QED
  BY <1>2, <1>3, <1>4 DEF IInv

LEMMA InsertStep ==
    ASSUME IInv, NEW s \in Switches, Insert(s)
    PROVE  IInv'
<1> DEFINE new == [mac |-> Source(s), at |-> cur[s].at, age |-> 0]
<1>1. Source(s) \in Hosts /\ cur[s].at \in Ports /\ 0 \in 0..Timeout + 1
  BY SourceType, ConstantsAssumption DEF IInv
<1>2. /\ table'[s] = table[s] \cup {new}
      /\ \A t \in Switches \ {s} : table'[t] = table[t]
  BY DEF IInv, TypeOK, Insert, LearntAt
<1>3. TypeOK'
  BY <1>1, CopyExists DEF IInv, Insert, Done, LearntAt, TypeOK
<1>4. Entries(s, Source(s)) = {}
  BY DEF IInv, UnknownYet, Insert
<1>5. ASSUME NEW t \in Switches, NEW k \in Hosts
      PROVE  Single(t, k)'
  <2>1. Single(t, k)
    BY DEF IInv, SingleEntries
  <2>2. CASE t # s \/ k # Source(s)
    BY <1>2, <2>1, <2>2 DEF Single, Entries
  <2>3. CASE t = s /\ k = Source(s)
    BY <1>2, <1>4, <2>3 DEF Single, Entries
  <2>4. QED
    BY <2>2, <2>3
<1>6. UnknownYet'
  <2> SUFFICES ASSUME NEW t \in Switches, pc'[t] = "insert"
               PROVE  Entries(t, Source(t))' = {}
    BY DEF UnknownYet
  <2>1. t # s /\ pc[t] = "insert" /\ cur'[t] = cur[t] /\ frame' = frame
    BY DEF IInv, TypeOK, Insert, Done
  <2>2. QED
    BY <1>2, <2>1 DEF IInv, UnknownYet, Entries, Source
<1>7. QED
  BY <1>3, <1>5, <1>6 DEF IInv, SingleEntries

LEMMA SweepStep ==
    ASSUME IInv, NEW s \in Switches, Sweep(s)
    PROVE  IInv'
<1>1. \A t \in Switches : table'[t] \subseteq table[t]
  BY DEF IInv, TypeOK, Sweep
<1>2. TypeOK'
  BY <1>1 DEF IInv, TypeOK, Sweep
<1>3. \A t \in Switches, k \in Hosts : Entries(t, k)' \subseteq Entries(t, k)
  BY <1>1 DEF Entries
<1>4. SingleEntries'
  BY <1>3 DEF IInv, SingleEntries, Single
<1>5. UnknownYet'
  BY <1>1 DEF IInv, UnknownYet, Sweep, Source, Entries
<1>6. QED
  BY <1>2, <1>4, <1>5 DEF IInv

LEMMA TickStep ==
    ASSUME IInv, Tick
    PROVE  IInv'
<1> DEFINE Older(e) == [e EXCEPT !.age = IF @ > Timeout THEN @ ELSE @ + 1]
           Entry == [mac : Hosts, at : Ports, age : 0..Timeout + 1]
<1>1. \A e \in Entry : Older(e) \in Entry /\ Older(e).mac = e.mac
  BY ConstantsAssumption
<1>2. \A t \in Switches : table[t] \subseteq Entry /\ table'[t] = {Older(e) : e \in table[t]}
  BY DEF IInv, TypeOK, Tick
<1>3. TypeOK'
  <2>1. table' \in [Switches -> SUBSET Entry]
    BY <1>1, <1>2 DEF Tick
  <2>2. QED
    BY <2>1 DEF IInv, TypeOK, Tick
<1> HIDE DEF Older
<1>4. \A t \in Switches, k \in Hosts : Entries(t, k)' = {Older(e) : e \in Entries(t, k)}
  BY <1>1, <1>2 DEF Entries
<1>5. SingleEntries'
  BY <1>4 DEF IInv, SingleEntries, Single
<1>6. UnknownYet'
  <2>1. \A t \in Switches : Source(t) \in Hosts /\ Source(t)' = Source(t)
    BY SourceType DEF IInv, Tick, Source
  <2>2. \A t \in Switches : Entries(t, Source(t))' = {Older(e) : e \in Entries(t, Source(t))}
    BY <1>1, <1>2, <2>1 DEF Entries
  <2>3. QED
    BY <2>2 DEF IInv, UnknownYet, Tick
<1>7. QED
  BY <1>3, <1>5, <1>6 DEF IInv

(* A frame is not replaced while a packet loop has hold of it.              *)
LEMMA SendStep ==
    ASSUME IInv, Send
    PROVE  IInv'
<1>1. PICK h \in Hosts, d \in Hosts, n \in Slots :
        /\ Gone(n)
        /\ frame' = [frame EXCEPT ![n] = [src |-> h, dst |-> d, from |-> where[h]]]
        /\ got' = [got EXCEPT ![n] = 0]
        /\ wire' = wire \cup {[slot |-> n, at |-> where[h]]}
        /\ UNCHANGED <<where, table, pc, cur, moves>>
  BY DEF Send
<1>2. where[h] \in Ports
  BY DEF IInv, TypeOK
<1>3. TypeOK'
  BY <1>1, <1>2 DEF IInv, TypeOK, Copies
<1>4. \A t \in Switches : pc[t] = "insert" => Source(t)' = Source(t)
  BY <1>1 DEF Gone, Source, IInv, TypeOK
<1>5. UnknownYet'
  BY <1>1, <1>4 DEF IInv, UnknownYet, Entries
<1>6. SingleEntries'
  BY <1>1 DEF IInv, SingleEntries, Single, Entries
<1>7. QED
  BY <1>3, <1>5, <1>6 DEF IInv

LEMMA MoveStep ==
    ASSUME IInv, Move
    PROVE  IInv'
<1>1. TypeOK'
  BY ConstantsAssumption DEF IInv, TypeOK, Move
<1>2. QED
  BY <1>1 DEF IInv, Move, UnknownYet, SingleEntries, Single, Entries, Source
-----------------------------------------------------------------------------
(* The inductive invariant holds.                                           *)
THEOREM LanInductive == Spec => []IInv
<1>1. IInv /\ [Next]_vars => IInv'
  <2> SUFFICES ASSUME IInv, [Next]_vars PROVE IInv'
    OBVIOUS
  <2>1. CASE UNCHANGED vars
    BY <2>1 DEF vars, IInv, TypeOK, UnknownYet, SingleEntries, Single, Entries, Source
  <2>2. QED
    BY <2>1, HubStep, ForwardStep, LearnStep, InsertStep, SweepStep, TickStep,
       SendStep, MoveStep DEF Next
<1>2. QED
  BY <1>1, InitIInv, PTL DEF Spec

(* A switch never keeps two entries for an address, and every variable has  *)
(* its type (EXP05 main.c:53, mac.c): LanInv for every LAN.                 *)
THEOREM LanCorrect == Spec => []LanInv
<1>1. IInv => LanInv
  BY AtMostOne DEF IInv, LanInv, OneEntry, SingleEntries, Single
<1>2. QED
  BY <1>1, LanInductive, PTL
-----------------------------------------------------------------------------
(* Deliveries, in a LAN of one switch with any number of hubs around it.    *)
(* With two switches a frame may be delivered twice: one has forgotten the  *)
(* destination and broadcasts, the other has not and sends the frame back.  *)

Centre == CHOOSE s \in Switches : TRUE
OneSwitch ==
    /\ Switches = {Centre}
    /\ \A e \in DOMAIN Trunk : e[1] # Centre <=> Trunk[e][1] = Centre
    /\ \A b \in Hubs : \E e \in DOMAIN Trunk :
           e[1] = b /\ \A f \in DOMAIN Trunk : f[1] = b => f = e

(* The end of a hub that leads to the switch; the end of the switch on the  *)
(* side of a link end.                                                      *)
Uplink(b) == CHOOSE e \in DOMAIN Trunk : e[1] = b
Side(e) == IF e[1] = Centre THEN e ELSE Trunk[Uplink(e[1])]

(* Hosts are plugged in apart, and those that stay are at home.             *)
Plugged ==
    /\ \A h \in Hosts \ Movers : where[h] = Home[h]
    /\ \A g, h \in Hosts : where[g] = where[h] => g = h

(* The switch takes frames in on the side of their senders, and so what it  *)
(* knows of a host that stays is right.                                     *)
SideRight ==
    /\ \A n \in Slots : /\ frame[n].from \notin DOMAIN Trunk
                        /\ frame[n].src \notin Movers => frame[n].from = Home[frame[n].src]
    /\ pc[Centre] # "idle" => cur[Centre].at = Side(frame[cur[Centre].slot].from)
    /\ \A e \in table[Centre] : /\ e.at[1] = Centre
                                /\ e.mac \notin Movers => e.at = Side(Home[e.mac])

On(n, e) == [slot |-> n, at |-> e] \in wire
Stays(n) == frame[n].dst \notin Movers
DstEnd(n) == Home[frame[n].dst]
(* Both hosts are on one hub, or at the switch. *)
Near(n) == DstEnd(n)[1] = frame[n].from[1]

(* A frame is on its way into the bridge of its sender; from the hub of its *)
(* sender into the switch; or behind the switch, on its way into hubs.      *)
AtSource(n) ==
    /\ \A e : On(n, e) <=> e = frame[n].from
    /\ Stays(n) => got[n] = 0 /\ frame[n].from # DstEnd(n)
AtSwitch(n) ==
    /\ frame[n].from[1] # Centre
    /\ \A e : On(n, e) <=> e = Side(frame[n].from)
    /\ Stays(n) => got[n] = IF Near(n) THEN 1 ELSE 0
Counted(n) ==
    IF DstEnd(n)[1] = Centre THEN got[n] = 1
    ELSE IF On(n, Uplink(DstEnd(n)[1])) THEN got[n] = (IF Near(n) THEN 1 ELSE 0)
    ELSE got[n] = 1 \/ (got[n] = 2 /\ Near(n))
Behind(n) ==
    /\ \A e : On(n, e) => e \in DOMAIN Trunk /\ e[1] # Centre
    /\ Stays(n) => Counted(n)

OnItsWay == \A n \in Slots : AtSource(n) \/ AtSwitch(n) \/ Behind(n)

StarInv == IInv /\ Plugged /\ SideRight /\ OnItsWay

LEMMA Star ==
    ASSUME OneSwitch
    PROVE  /\ Centre \in Switches /\ Switches = {Centre}
           /\ \A e \in Ports : e[1] # Centre <=> e[1] \in Hubs
           /\ \A e \in DOMAIN Trunk :
                 /\ e \in Ports /\ Trunk[e] \in DOMAIN Trunk /\ Trunk[Trunk[e]] = e
                 /\ e[1] # Centre <=> Trunk[e][1] = Centre
           /\ \A b \in Hubs :
                 /\ Uplink(b) \in DOMAIN Trunk /\ Uplink(b)[1] = b
                 /\ \A e \in DOMAIN Trunk : e[1] = b => e = Uplink(b)
<1>1. Centre \in Switches /\ Switches = {Centre} /\ Centre \notin Hubs
  BY ConstantsAssumption DEF OneSwitch
<1>2. ASSUME NEW e \in Ports PROVE e[1] # Centre <=> e[1] \in Hubs
  <2>1. e[1] \in Switches \cup Hubs
    BY ConstantsAssumption
  <2>2. QED
    BY <1>1, <2>1
<1>3. ASSUME NEW e \in DOMAIN Trunk
      PROVE  /\ e \in Ports /\ Trunk[e] \in DOMAIN Trunk /\ Trunk[Trunk[e]] = e
             /\ e[1] # Centre <=> Trunk[e][1] = Centre
  BY ConstantsAssumption DEF OneSwitch
<1>4. ASSUME NEW b \in Hubs
      PROVE  /\ Uplink(b) \in DOMAIN Trunk /\ Uplink(b)[1] = b
             /\ \A e \in DOMAIN Trunk : e[1] = b => e = Uplink(b)
  <2>1. PICK e \in DOMAIN Trunk :
            e[1] = b /\ \A f \in DOMAIN Trunk : f[1] = b => f = e
    BY DEF OneSwitch
  <2>2. Uplink(b) \in DOMAIN Trunk /\ Uplink(b)[1] = b
    BY <2>1 DEF Uplink
  <2>3. QED
    BY <2>1, <2>2
<1>5. QED
  BY <1>1, <1>2, <1>3, <1>4

(* The side of a link end is an end of the switch, its own where a host is  *)
(* plugged in.                                                              *)
LEMMA Sides ==
    ASSUME OneSwitch, NEW e \in Ports \ DOMAIN Trunk
    PROVE  /\ Side(e) \in Ports /\ Side(e)[1] = Centre
           /\ e[1] = Centre => Side(e) = e
           /\ e[1] # Centre => /\ e[1] \in Hubs /\ Side(e) \in DOMAIN Trunk
                               /\ Side(e) = Trunk[Uplink(e[1])]
                               /\ Trunk[Side(e)] = Uplink(e[1])
<1>1. CASE e[1] = Centre
  BY <1>1 DEF Side
<1>2. CASE e[1] # Centre
  <2>1. e[1] \in Hubs /\ Side(e) = Trunk[Uplink(e[1])]
    BY <1>2, Star DEF Side
  <2>2. Uplink(e[1]) \in DOMAIN Trunk /\ Uplink(e[1])[1] # Centre
    BY <1>2, <2>1, Star
  <2>3. QED
    BY <1>2, <2>1, <2>2, Star
<1>3. QED
  BY <1>1, <1>2

(* What Emit does to the copies of each frame.                              *)
LEMMA Emits ==
    ASSUME TypeOK, NEW c \in wire, NEW out, Emit(c, out)
    PROVE  /\ \A n \in Slots : n # c.slot =>
                 got'[n] = got[n] /\ \A e : On(n, e)' <=> On(n, e)
           /\ \A e : On(c.slot, e)' <=>
                 \/ On(c.slot, e) /\ e # c.at
                 \/ \E o \in out \cap DOMAIN Trunk : Trunk[o] = e
           /\ got'[c.slot] = IF where[frame[c.slot].dst] \in out /\ got[c.slot] < 3
                             THEN got[c.slot] + 1 ELSE got[c.slot]
<1>1. c.slot \in Slots /\ c = [slot |-> c.slot, at |-> c.at]
  BY DEF TypeOK, Copies
<1>2. \A n, e : [slot |-> n, at |-> e] \in wire' <=>
          \/ [slot |-> n, at |-> e] \in wire /\ (n # c.slot \/ e # c.at)
          \/ n = c.slot /\ \E o \in out \cap DOMAIN Trunk : Trunk[o] = e
  <2> SUFFICES ASSUME NEW n, NEW e
               PROVE  [slot |-> n, at |-> e] \in wire' <=>
                        \/ [slot |-> n, at |-> e] \in wire /\ (n # c.slot \/ e # c.at)
                        \/ n = c.slot /\ \E o \in out \cap DOMAIN Trunk : Trunk[o] = e
    OBVIOUS
  <2> DEFINE x == [slot |-> n, at |-> e]
             new == {[slot |-> c.slot, at |-> Trunk[o]] : o \in out \cap DOMAIN Trunk}
  <2>1. wire' = (wire \ {c}) \cup new
    BY DEF Emit
  <2>2. x = c <=> n = c.slot /\ e = c.at
    BY <1>1
  <2>3. x \in new <=> n = c.slot /\ \E o \in out \cap DOMAIN Trunk : Trunk[o] = e
    <3>1. \A o : x = [slot |-> c.slot, at |-> Trunk[o]] <=> n = c.slot /\ e = Trunk[o]
      OBVIOUS
    <3>2. QED
      BY <3>1
  <2> HIDE DEF x, new
  <2>4. x \in wire' <=> (x \in wire /\ x # c) \/ x \in new
    BY <2>1
  <2>5. QED
    BY <2>2, <2>3, <2>4 DEF x
<1>3. got' = [got EXCEPT ![c.slot] = IF where[frame[c.slot].dst] \in out /\ got[c.slot] < 3
                                     THEN got[c.slot] + 1 ELSE got[c.slot]]
  BY DEF Emit
<1>4. got \in [Slots -> 0..3]
  BY DEF TypeOK
<1>5. \A n \in Slots : n # c.slot => got'[n] = got[n] /\ \A e : On(n, e)' <=> On(n, e)
  BY <1>2, <1>3, <1>4 DEF On
<1>6. \A e : On(c.slot, e)' <=> \/ On(c.slot, e) /\ e # c.at
                                \/ \E o \in out \cap DOMAIN Trunk : Trunk[o] = e
  BY <1>2 DEF On
<1>7. QED
  BY <1>1, <1>3, <1>4, <1>5, <1>6

OnWay(n) == AtSource(n) \/ AtSwitch(n) \/ Behind(n)

(* A frame that a step does not touch stays where it is on its way.         *)
LEMMA Untouched ==
    ASSUME NEW n \in Slots, OnWay(n), frame'[n] = frame[n], got'[n] = got[n],
           \A e : On(n, e)' <=> On(n, e)
    PROVE  OnWay(n)'
<1>1. AtSource(n) => AtSource(n)'
  BY DEF AtSource, Stays, DstEnd
<1>2. AtSwitch(n) => AtSwitch(n)'
  BY DEF AtSwitch, Stays, DstEnd, Near
<1>3. Behind(n) => Behind(n)'
  BY DEF Behind, Counted, Stays, DstEnd, Near
<1>4. QED
  BY <1>1, <1>2, <1>3 DEF OnWay

(* The ends of a frame, and the types around it.                            *)
LEMMA FrameEnds ==
    ASSUME OneSwitch, StarInv, NEW n \in Slots
    PROVE  /\ frame[n].from \in Ports \ DOMAIN Trunk /\ frame[n].dst \in Hosts
           /\ DstEnd(n) \in Ports \ DOMAIN Trunk /\ got[n] \in 0..3
           /\ Stays(n) => where[frame[n].dst] = DstEnd(n)
           /\ OnWay(n)
<1>1. TypeOK /\ Plugged /\ SideRight /\ OnItsWay
  BY DEF StarInv, IInv
<1>2. frame[n].from \in Ports /\ frame[n].dst \in Hosts /\ got[n] \in 0..3
  BY <1>1 DEF TypeOK
<1>3. DstEnd(n) \in Ports \ DOMAIN Trunk
  BY <1>2, ConstantsAssumption DEF DstEnd
<1>4. QED
  BY <1>1, <1>2, <1>3 DEF Plugged, SideRight, OnItsWay, OnWay, Stays, DstEnd

(* The hub of the sender passes a frame to the switch, and to the           *)
(* destination if that is on the hub, too.                                  *)
LEMMA HubFirst ==
    ASSUME OneSwitch, StarInv, NEW c \in wire, c.at[1] \in Hubs,
           Emit(c, Broadcast(c.at)), frame' = frame, AtSource(c.slot)
    PROVE  AtSwitch(c.slot)'
<1> DEFINE n == c.slot
           F == frame[n].from
           D == DstEnd(n)
           out == Broadcast(c.at)
<1>1. c \in Copies /\ n \in Slots /\ TypeOK
  BY DEF StarInv, IInv, TypeOK, Copies
<1>2. c = [slot |-> n, at |-> c.at]
  BY <1>1 DEF Copies
<1>3. c.at = F
  BY <1>2 DEF AtSource, On
<1>4. F \in Ports \ DOMAIN Trunk /\ F[1] \in Hubs /\ F[1] # Centre
  BY <1>1, <1>3, FrameEnds, Star
<1>5. D \in Ports \ DOMAIN Trunk /\ got[n] \in 0..3 /\ (Stays(n) => where[frame[n].dst] = D)
  BY <1>1, FrameEnds
<1>6. \A o : o \in out \cap DOMAIN Trunk <=> o = Uplink(F[1])
  BY <1>3, <1>4, Star DEF Broadcast, EndsOf
<1>7. \A e : On(n, e)' <=> e = Side(F)
  <2>1. \A e : On(n, e)' <=> \/ On(n, e) /\ e # c.at
                             \/ \E o \in out \cap DOMAIN Trunk : Trunk[o] = e
    BY <1>1, Emits
  <2>2. \A e : ~(On(n, e) /\ e # c.at)
    BY <1>3 DEF AtSource
  <2>3. Side(F) = Trunk[Uplink(F[1])]
    BY <1>4, Sides
  <2> HIDE DEF n, out, F
  <2>4. QED
    BY <1>6, <2>1, <2>2, <2>3
<1>8. Stays(n) => got'[n] = IF Near(n) THEN 1 ELSE 0
  <2> SUFFICES ASSUME Stays(n) PROVE got'[n] = IF Near(n) THEN 1 ELSE 0
    OBVIOUS
  <2>1. got[n] = 0 /\ F # D
    BY DEF AtSource
  <2>2. D \in out <=> Near(n)
    BY <1>3, <1>5, <2>1 DEF Broadcast, EndsOf, Near
  <2>3. got'[n] = IF where[frame[n].dst] \in out /\ got[n] < 3 THEN got[n] + 1 ELSE got[n]
    BY <1>1, Emits
  <2> HIDE DEF n, D, out, F
  <2>4. QED
    BY <1>5, <2>1, <2>2, <2>3
<1>9. AtSwitch(n)'
  BY <1>4, <1>7, <1>8 DEF AtSwitch, Stays, Near, DstEnd
<1>10. QED
  BY <1>9

(* A hub behind the switch passes a frame to its hosts.                     *)
LEMMA HubLast ==
    ASSUME OneSwitch, StarInv, NEW c \in wire, c.at[1] \in Hubs,
           Emit(c, Broadcast(c.at)), frame' = frame, Behind(c.slot)
    PROVE  Behind(c.slot)'
<1> DEFINE n == c.slot
           D == DstEnd(n)
           b == c.at[1]
           out == Broadcast(c.at)
<1>1. c \in Copies /\ n \in Slots /\ TypeOK
  BY DEF StarInv, IInv, TypeOK, Copies
<1>2. On(n, c.at)
  BY <1>1 DEF Copies, On
<1>3. c.at \in DOMAIN Trunk /\ c.at = Uplink(b) /\ c.at[1] # Centre
  BY <1>2, Star DEF Behind
<1>4. D \in Ports \ DOMAIN Trunk /\ got[n] \in 0..3 /\ (Stays(n) => where[frame[n].dst] = D)
  BY <1>1, FrameEnds
<1>5. out \cap DOMAIN Trunk = {}
  BY <1>3, Star DEF Broadcast, EndsOf
<1>6. \A e : On(n, e)' <=> On(n, e) /\ e # c.at
  <2>1. \A e : On(n, e)' <=> \/ On(n, e) /\ e # c.at
                             \/ \E o \in out \cap DOMAIN Trunk : Trunk[o] = e
    BY <1>1, Emits
  <2> HIDE DEF n, out
  <2>2. QED
    BY <1>5, <2>1
<1>7. \A e : On(n, e)' => e \in DOMAIN Trunk /\ e[1] # Centre
  BY <1>6 DEF Behind
<1>8. Stays(n) => Counted(n)'
  <2> SUFFICES ASSUME Stays(n) PROVE Counted(n)'
    OBVIOUS
  <2>1. Counted(n)
    BY DEF Behind
  <2>2. D \in out <=> D[1] = b
    BY <1>3, <1>4 DEF Broadcast, EndsOf
  <2>3. got'[n] = IF D \in out /\ got[n] < 3 THEN got[n] + 1 ELSE got[n]
    BY <1>1, <1>4, Emits
  <2>4. DstEnd(n)' = D /\ (Near(n)' <=> Near(n))
    BY DEF DstEnd, Near
  <2>5. CASE D[1] = b
    <3>1. D[1] # Centre /\ On(n, Uplink(D[1])) /\ ~On(n, Uplink(D[1]))'
      <4>1. ~On(n, c.at)'
        BY <1>6
      <4>2. D' = D
        BY <2>4
      <4> HIDE DEF D, n
      <4>3. QED
        BY <1>2, <1>3, <2>5, <4>1, <4>2
    <3>2. got[n] = IF Near(n) THEN 1 ELSE 0
      BY <2>1, <3>1 DEF Counted
    <3>3. got'[n] = got[n] + 1
      BY <2>2, <2>3, <2>5, <3>2
    <3>4. QED
      BY <2>4, <3>1, <3>2, <3>3 DEF Counted
  <2>6. CASE D[1] # b
    <3>1. got'[n] = got[n]
      BY <2>2, <2>3, <2>6
    <3>2. D[1] # Centre => Uplink(D[1]) # c.at
      BY <1>4, <2>6, Star
    <3>3. D[1] # Centre => (On(n, Uplink(D[1]))' <=> On(n, Uplink(D[1])))
      <4>1. PICK u : u = Uplink(D[1])
        OBVIOUS
      <4>2. Uplink(D[1])' = u
        BY <2>4, <4>1
      <4>3. u # c.at => (On(n, u)' <=> On(n, u))
        BY <1>6
      <4> HIDE DEF D, n
      <4>4. QED
        BY <3>2, <4>1, <4>2, <4>3 DEF On
    <3>4. QED
      BY <2>1, <2>4, <3>1, <3>3 DEF Counted
  <2>7. QED
    BY <2>5, <2>6
<1>9. Behind(n)'
  BY <1>7, <1>8 DEF Behind, Stays
<1>10. QED
  BY <1>9

LEMMA HubStar ==
    ASSUME OneSwitch, StarInv, NEW c \in wire, HubHandle(c)
    PROVE  StarInv'
<1>1. c.slot \in Slots /\ TypeOK
  BY DEF StarInv, IInv, TypeOK, Copies
<1>2. c.at[1] \in Hubs /\ Emit(c, Broadcast(c.at))
      /\ UNCHANGED <<where, table, pc, cur, frame, moves>>
  BY DEF HubHandle
<1>3. IInv'
  BY HubStep DEF StarInv
<1>4. Plugged' /\ SideRight'
  BY <1>2 DEF StarInv, Plugged, SideRight
<1>5. OnWay(c.slot)'
  <2>1. On(c.slot, c.at) /\ c.at[1] # Centre
    BY <1>2, Star DEF On, StarInv, IInv, TypeOK, Copies
  <2>2. frame[c.slot].from \in Ports \ DOMAIN Trunk
    BY <1>1, FrameEnds
  <2>3. ~AtSwitch(c.slot)
    BY <2>1, <2>2, Sides DEF AtSwitch
  <2>4. AtSource(c.slot) \/ Behind(c.slot)
    BY <1>1, <2>3, FrameEnds DEF OnWay
  <2>5. QED
    BY <1>2, <2>4, HubFirst, HubLast DEF OnWay
<1>6. \A n \in Slots : n # c.slot => OnWay(n)'
  <2> SUFFICES ASSUME NEW n \in Slots, n # c.slot PROVE OnWay(n)'
    OBVIOUS
  <2>1. OnWay(n) /\ got'[n] = got[n] /\ \A e : On(n, e)' <=> On(n, e)
    BY <1>1, <1>2, FrameEnds, Emits
  <2>2. QED
    BY <1>2, <2>1, Untouched
<1>7. OnItsWay'
  BY <1>5, <1>6 DEF OnItsWay, OnWay
<1>8. QED
  BY <1>3, <1>4, <1>7 DEF StarInv

(* Where the switch sends a frame to a host that stays: everywhere but back *)
(* or, if it knows the host, to the side where it is.                       *)
LEMMA SentOn ==
    ASSUME OneSwitch, StarInv, NEW c \in wire, Forward(Centre, c)
    PROVE  \E out : /\ Emit(c, out) /\ out \subseteq EndsOf(Centre)
                    /\ Stays(c.slot) =>
                          \/ out = EndsOf(Centre) \ {c.at}
                          \/ out = {Side(DstEnd(c.slot))}
<1> DEFINE found == Entries(Centre, frame[c.slot].dst)
<1>1. c.at[1] = Centre /\ TypeOK /\ SideRight /\ Centre \in Switches
  BY Star DEF Forward, StarInv, IInv
<1>2. CASE found = {} /\ Emit(c, Broadcast(c.at))
  BY <1>1, <1>2 DEF Broadcast, EndsOf
<1>3. CASE \E e \in found : Emit(c, {e.at})
  <2>1. PICK e \in found : Emit(c, {e.at})
    BY <1>3
  <2>2. e \in table[Centre] /\ e.mac = frame[c.slot].dst /\ e.at \in Ports
    BY <1>1, <2>1 DEF Entries, TypeOK
  <2>3. {e.at} \subseteq EndsOf(Centre)
    BY <1>1, <2>2 DEF SideRight, EndsOf
  <2>4. Stays(c.slot) => e.at = Side(DstEnd(c.slot))
    BY <1>1, <2>2 DEF SideRight, Stays, DstEnd
  <2>5. QED
    BY <2>1, <2>3, <2>4
<1>4. QED
  BY <1>2, <1>3 DEF Forward

(* A frame leaves the switch towards its destination, once.                 *)
LEMMA SwitchPasses ==
    ASSUME OneSwitch, StarInv, NEW c \in wire, c.at[1] = Centre, frame' = frame,
           NEW out, Emit(c, out), out \subseteq EndsOf(Centre),
           Stays(c.slot) => \/ out = EndsOf(Centre) \ {c.at}
                            \/ out = {Side(DstEnd(c.slot))}
    PROVE  Behind(c.slot)'
<1> DEFINE n == c.slot
           F == frame[n].from
           D == DstEnd(n)
<1>1. c \in Copies /\ n \in Slots /\ TypeOK /\ On(n, c.at)
  BY DEF StarInv, IInv, TypeOK, Copies, On
<1>2. /\ F \in Ports \ DOMAIN Trunk /\ OnWay(n)
      /\ D \in Ports \ DOMAIN Trunk /\ got[n] \in 0..3
      /\ Stays(n) => where[frame[n].dst] = D
  BY <1>1, FrameEnds
<1>3. /\ \A e : On(n, e) <=> e = c.at
      /\ c.at = Side(F)
      /\ Stays(n) => /\ got[n] = IF F[1] # Centre /\ Near(n) THEN 1 ELSE 0
                     /\ F[1] = Centre => F # D
  <2>1. ~Behind(n)
    BY <1>1 DEF Behind
  <2>2. CASE AtSource(n)
    <3>1. c.at = F /\ F[1] = Centre
      BY <1>1, <2>2 DEF AtSource
    <3>2. QED
      BY <1>2, <2>2, <3>1, Sides DEF AtSource
  <2>3. CASE AtSwitch(n)
    <3>1. c.at = Side(F) /\ F[1] # Centre
      BY <1>1, <2>3 DEF AtSwitch
    <3>2. QED
      BY <1>2, <2>3, <3>1 DEF AtSwitch
  <2>4. QED
    BY <1>2, <2>1, <2>2, <2>3 DEF OnWay
<1>4. \A e : On(n, e)' <=> \E o \in out \cap DOMAIN Trunk : Trunk[o] = e
  <2>1. \A e : On(n, e)' <=> \/ On(n, e) /\ e # c.at
                             \/ \E o \in out \cap DOMAIN Trunk : Trunk[o] = e
    BY <1>1, Emits
  <2> HIDE DEF n
  <2>2. QED
    BY <1>3, <2>1
<1>5. \A e : On(n, e)' => e \in DOMAIN Trunk /\ e[1] # Centre
  <2>1. \A o \in out \cap DOMAIN Trunk : Trunk[o] \in DOMAIN Trunk /\ Trunk[o][1] # Centre
    BY Star DEF EndsOf
  <2> HIDE DEF n
  <2>2. QED
    BY <1>4, <2>1
<1>6. Stays(n) => Counted(n)'
  <2> SUFFICES ASSUME Stays(n) PROVE Counted(n)'
    OBVIOUS
  <2>1. out = EndsOf(Centre) \ {Side(F)} \/ out = {Side(D)}
    BY <1>3
  <2>2. got'[n] = IF D \in out /\ got[n] < 3 THEN got[n] + 1 ELSE got[n]
    BY <1>1, <1>2, Emits
  <2>3. DstEnd(n)' = D /\ (Near(n)' <=> Near(n))
    BY DEF DstEnd, Near
  <2>4. /\ F[1] # Centre => Side(F) \in DOMAIN Trunk /\ Trunk[Side(F)] = Uplink(F[1])
                            /\ F[1] \in Hubs
        /\ F[1] = Centre => Side(F) = F
    BY <1>2, Sides
  <2>5. CASE D[1] = Centre
    <3>1. Side(D) = D /\ D \in EndsOf(Centre)
      BY <1>2, <2>5, Sides DEF EndsOf
    <3>2. Side(F) # D
      BY <1>2, <1>3, <2>4
    <3>3. D \in out
      BY <2>1, <3>1, <3>2
    <3>4. got[n] = 0
      BY <1>3, <2>5 DEF Near
    <3>5. got'[n] = 1
      BY <2>2, <3>3, <3>4
    <3>6. QED
      BY <2>3, <2>5, <3>5 DEF Counted
  <2>6. CASE D[1] # Centre
    <3>1. /\ D[1] \in Hubs /\ Side(D) \in DOMAIN Trunk /\ Trunk[Side(D)] = Uplink(D[1])
          /\ Side(D) \in EndsOf(Centre)
      BY <1>2, <2>6, Sides DEF EndsOf
    <3>2. D \notin out
      BY <1>2, <2>1, <2>6, <3>1 DEF EndsOf
    <3>3. got'[n] = got[n] /\ got[n] = IF Near(n) THEN 1 ELSE 0
      BY <1>3, <2>2, <2>6, <3>2 DEF Near
    <3>4. PICK u : u = Uplink(D[1])
      OBVIOUS
    <3>5. Near(n) \/ On(n, u)'
      <4>1. CASE Near(n)
        BY <4>1
      <4>2. CASE ~Near(n)
        <5>1. D[1] # F[1]
          BY <4>2 DEF Near
        <5>2. Side(F) # Side(D)
          <6>1. CASE F[1] = Centre
            BY <1>2, <2>4, <3>1, <6>1
          <6>2. CASE F[1] # Centre
            BY <2>4, <3>1, <5>1, <6>2, Star
          <6>3. QED
            BY <6>1, <6>2
        <5>3. Side(D) \in out /\ Trunk[Side(D)] = u
          BY <2>1, <3>1, <3>4, <5>2
        <5> HIDE DEF n, D, F
        <5>4. QED
          BY <1>4, <3>1, <5>3
      <4>3. QED
        BY <4>1, <4>2
    <3>6. Uplink(DstEnd(n)[1])' = u
      BY <2>3, <3>4
    <3>7. QED
      BY <2>3, <2>6, <3>3, <3>5, <3>6 DEF Counted, On
  <2>7. QED
    BY <2>5, <2>6
<1>7. Behind(n)'
  BY <1>5, <1>6 DEF Behind, Stays
<1>8. QED
  BY <1>7

LEMMA ForwardStar ==
    ASSUME OneSwitch, StarInv, NEW c \in wire, Forward(Centre, c)
    PROVE  StarInv'
<1>1. c.slot \in Slots /\ TypeOK /\ Centre \in Switches /\ SideRight
  BY Star DEF StarInv, IInv, TypeOK, Copies
<1>2. /\ c.at[1] = Centre /\ UNCHANGED <<where, frame, moves>>
      /\ cur'[Centre] = c /\ table'[Centre] = Looked(Centre, frame[c.slot].dst)
  BY <1>1 DEF Forward, TypeOK
<1>3. PICK out : /\ Emit(c, out) /\ out \subseteq EndsOf(Centre)
                 /\ Stays(c.slot) => \/ out = EndsOf(Centre) \ {c.at}
                                     \/ out = {Side(DstEnd(c.slot))}
  BY SentOn
<1>4. IInv'
  BY <1>1, ForwardStep DEF StarInv
<1>5. Plugged'
  BY <1>2 DEF StarInv, Plugged
<1>6. c.at = Side(frame[c.slot].from)
  <2>1. OnWay(c.slot) /\ frame[c.slot].from \in Ports \ DOMAIN Trunk /\ On(c.slot, c.at)
    BY <1>1, FrameEnds DEF On, TypeOK, Copies
  <2>2. QED
    BY <1>2, <2>1, Sides DEF OnWay, AtSource, AtSwitch, Behind
<1>7. SideRight'
  <2>1. \A e \in table'[Centre] : \E f \in table[Centre] : e.at = f.at /\ e.mac = f.mac
    <3>1. \A f \in table[Centre] : /\ [f EXCEPT !.age = 0].at = f.at
                                   /\ [f EXCEPT !.age = 0].mac = f.mac
      BY <1>1 DEF TypeOK
    <3>2. \A e \in table'[Centre] :
              e \in table[Centre] \/ \E f \in table[Centre] : e = [f EXCEPT !.age = 0]
      BY <1>2 DEF Looked, Entries
    <3>3. QED
      BY <3>1, <3>2
  <2>2. QED
    BY <1>1, <1>2, <1>6, <2>1 DEF SideRight
<1>8. \A n \in Slots : OnWay(n)'
  <2> SUFFICES ASSUME NEW n \in Slots PROVE OnWay(n)'
    OBVIOUS
  <2>1. CASE n = c.slot
    BY <1>2, <1>3, <2>1, SwitchPasses DEF OnWay
  <2>2. CASE n # c.slot
    <3>1. OnWay(n) /\ got'[n] = got[n] /\ \A e : On(n, e)' <=> On(n, e)
      BY <1>1, <1>3, <2>2, FrameEnds, Emits
    <3>2. QED
      BY <1>2, <3>1, Untouched
  <2>3. QED
    BY <2>1, <2>2
<1>9. QED
  BY <1>4, <1>5, <1>7, <1>8 DEF StarInv, OnItsWay, OnWay
-----------------------------------------------------------------------------
(* A step that touches no frame.                                            *)
LEMMA FramesRest ==
    ASSUME OneSwitch, StarInv, UNCHANGED <<frame, got, wire>>
    PROVE  OnItsWay'
<1>1. ASSUME NEW n \in Slots PROVE OnWay(n)'
  <2>1. OnWay(n) /\ \A e : On(n, e)' <=> On(n, e)
    BY FrameEnds DEF On
  <2>2. QED
    BY <2>1, Untouched
<1>2. QED
  BY <1>1 DEF OnItsWay, OnWay

LEMMA LearnStar ==
    ASSUME OneSwitch, StarInv, Learn(Centre)
    PROVE  StarInv'
<1>1. Centre \in Switches /\ TypeOK /\ SideRight
  BY Star DEF StarInv, IInv
<1>2. /\ UNCHANGED <<where, frame, got, wire, moves>> /\ pc[Centre] = "learn"
      /\ table'[Centre] = Looked(Centre, Source(Centre))
      /\ pc'[Centre] # "idle" => cur'[Centre] = cur[Centre]
  BY <1>1 DEF Learn, Done, TypeOK
<1>3. IInv' /\ Plugged' /\ OnItsWay'
  BY <1>1, <1>2, LearnStep, FramesRest DEF StarInv, Plugged
<1>4. \A e \in table'[Centre] : \E f \in table[Centre] : e.at = f.at /\ e.mac = f.mac
  <2>1. \A f \in table[Centre] : /\ [f EXCEPT !.age = 0].at = f.at
                                 /\ [f EXCEPT !.age = 0].mac = f.mac
    BY <1>1 DEF TypeOK
  <2>2. \A e \in table'[Centre] :
            e \in table[Centre] \/ \E f \in table[Centre] : e = [f EXCEPT !.age = 0]
    BY <1>2 DEF Looked, Entries
  <2>3. QED
    BY <2>1, <2>2
<1>5. SideRight'
  BY <1>1, <1>2, <1>4 DEF SideRight
<1>6. QED
  BY <1>3, <1>5 DEF StarInv

LEMMA InsertStar ==
    ASSUME OneSwitch, StarInv, Insert(Centre)
    PROVE  StarInv'
<1> DEFINE new == [mac |-> Source(Centre), at |-> cur[Centre].at, age |-> 0]
<1>1. Centre \in Switches /\ TypeOK /\ SideRight
  BY Star DEF StarInv, IInv
<1>2. /\ UNCHANGED <<where, frame, got, wire, moves>> /\ pc[Centre] = "insert"
      /\ table'[Centre] = table[Centre] \cup {new} /\ pc'[Centre] = "idle"
  BY <1>1 DEF Insert, Done, LearntAt, TypeOK
<1>3. IInv' /\ Plugged' /\ OnItsWay'
  BY <1>1, <1>2, InsertStep, FramesRest DEF StarInv, Plugged
<1>4. new.at[1] = Centre /\ (new.mac \notin Movers => new.at = Side(Home[new.mac]))
  <2>1. cur[Centre].slot \in Slots
    BY <1>1 DEF TypeOK, Copies
  <2>2. frame[cur[Centre].slot].from \in Ports \ DOMAIN Trunk
    BY <2>1, FrameEnds
  <2>3. cur[Centre].at = Side(frame[cur[Centre].slot].from)
    BY <1>1, <1>2 DEF SideRight
  <2>4. QED
    BY <1>1, <2>1, <2>2, <2>3, Sides DEF SideRight, Source
<1>5. SideRight'
  <2> HIDE DEF new
  <2>1. QED
    BY <1>1, <1>2, <1>4 DEF SideRight
<1>6. QED
  BY <1>3, <1>5 DEF StarInv

LEMMA SweepStar ==
    ASSUME OneSwitch, StarInv, Sweep(Centre)
    PROVE  StarInv'
<1>1. Centre \in Switches /\ TypeOK /\ SideRight
  BY Star DEF StarInv, IInv
<1>2. /\ UNCHANGED <<where, pc, cur, frame, got, wire, moves>>
      /\ table'[Centre] \subseteq table[Centre]
  BY <1>1 DEF Sweep, TypeOK
<1>3. IInv' /\ Plugged' /\ OnItsWay'
  BY <1>1, <1>2, SweepStep, FramesRest DEF StarInv, Plugged
<1>4. SideRight'
  BY <1>1, <1>2 DEF SideRight
<1>5. QED
  BY <1>3, <1>4 DEF StarInv

LEMMA TickStar ==
    ASSUME OneSwitch, StarInv, Tick
    PROVE  StarInv'
<1> DEFINE Older(e) == [e EXCEPT !.age = IF @ > Timeout THEN @ ELSE @ + 1]
<1>1. Centre \in Switches /\ TypeOK /\ SideRight
  BY Star DEF StarInv, IInv
<1>2. /\ UNCHANGED <<where, pc, cur, frame, got, wire, moves>>
      /\ table'[Centre] = {Older(e) : e \in table[Centre]}
  BY <1>1 DEF Tick
<1>3. IInv' /\ Plugged' /\ OnItsWay'
  BY <1>2, TickStep, FramesRest DEF StarInv, Plugged
<1>4. \A f \in table[Centre] : Older(f).at = f.at /\ Older(f).mac = f.mac
  BY <1>1 DEF TypeOK
<1>5. SideRight'
  <2> HIDE DEF Older
  <2>1. QED
    BY <1>1, <1>2, <1>4 DEF SideRight
<1>6. QED
  BY <1>3, <1>5 DEF StarInv

(* A new frame starts at the end where its sender is.                       *)
LEMMA SendStar ==
    ASSUME OneSwitch, StarInv, Send
    PROVE  StarInv'
<1>1. PICK h \in Hosts, d \in Hosts, n \in Slots :
        /\ h # d /\ Gone(n)
        /\ frame' = [frame EXCEPT ![n] = [src |-> h, dst |-> d, from |-> where[h]]]
        /\ got' = [got EXCEPT ![n] = 0]
        /\ wire' = wire \cup {[slot |-> n, at |-> where[h]]}
        /\ UNCHANGED <<where, table, pc, cur, moves>>
  BY DEF Send
<1>2. Centre \in Switches /\ TypeOK /\ Plugged /\ SideRight
  BY Star DEF StarInv, IInv
<1>3. IInv'
  BY SendStep DEF StarInv
<1>4. Plugged'
  BY <1>1, <1>2 DEF Plugged
<1>5. /\ frame'[n] = [src |-> h, dst |-> d, from |-> where[h]] /\ got'[n] = 0
      /\ \A m \in Slots : m # n => frame'[m] = frame[m] /\ got'[m] = got[m]
  BY <1>1, <1>2 DEF TypeOK
<1>6. SideRight'
  <2>1. where[h] \notin DOMAIN Trunk /\ (h \notin Movers => where[h] = Home[h])
    BY <1>2 DEF TypeOK, Plugged
  <2>2. \A m \in Slots : /\ frame'[m].from \notin DOMAIN Trunk
                         /\ frame'[m].src \notin Movers => frame'[m].from = Home[frame'[m].src]
    BY <1>2, <1>5, <2>1 DEF SideRight
  <2>3. pc[Centre] # "idle" => /\ cur[Centre].slot \in Slots
                               /\ frame'[cur[Centre].slot] = frame[cur[Centre].slot]
    BY <1>1, <1>2, <1>5 DEF Gone, TypeOK, Copies
  <2>4. QED
    BY <1>1, <1>2, <2>2, <2>3 DEF SideRight
<1>7. \A m, e : On(m, e)' <=> On(m, e) \/ (m = n /\ e = where[h])
  <2> SUFFICES ASSUME NEW m, NEW e
               PROVE  On(m, e)' <=> On(m, e) \/ (m = n /\ e = where[h])
    OBVIOUS
  <2>1. [slot |-> m, at |-> e] = [slot |-> n, at |-> where[h]] <=> m = n /\ e = where[h]
    OBVIOUS
  <2>2. QED
    BY <1>1, <2>1 DEF On
<1>8. AtSource(n)'
  <2>1. \A e : ~On(n, e)
    BY <1>1 DEF Gone, On
  <2>2. \A e : On(n, e)' <=> e = where[h]
    BY <1>7, <2>1
  <2>3. d \notin Movers => where[h] # Home[d]
    BY <1>1, <1>2 DEF Plugged
  <2>4. QED
    BY <1>5, <2>2, <2>3 DEF AtSource, Stays, DstEnd
<1>9. \A m \in Slots : m # n => OnWay(m)'
  <2> SUFFICES ASSUME NEW m \in Slots, m # n PROVE OnWay(m)'
    OBVIOUS
  <2>1. OnWay(m) /\ \A e : On(m, e)' <=> On(m, e)
    BY <1>7, FrameEnds
  <2>2. QED
    BY <1>5, <2>1, Untouched
<1>10. QED
  BY <1>3, <1>4, <1>6, <1>8, <1>9 DEF StarInv, OnItsWay, OnWay

LEMMA MoveStar ==
    ASSUME OneSwitch, StarInv, Move
    PROVE  StarInv'
<1>1. UNCHANGED <<table, pc, cur, frame, got, wire>>
  BY DEF Move
<1>2. IInv' /\ OnItsWay'
  BY <1>1, MoveStep, FramesRest DEF StarInv
<1>3. SideRight'
  BY <1>1 DEF StarInv, SideRight
<1>4. PICK h \in Movers, e \in Ports \ DOMAIN Trunk :
        (\A g \in Hosts : where[g] # e) /\ where' = [where EXCEPT ![h] = e]
  BY DEF Move
<1>5. Plugged'
  BY <1>4, ConstantsAssumption DEF StarInv, Plugged, IInv, TypeOK
<1>6. QED
  BY <1>2, <1>3, <1>5 DEF StarInv

LEMMA InitStar ==
    ASSUME OneSwitch, Init
    PROVE  StarInv
<1> DEFINE h == CHOOSE x \in Hosts : TRUE
<1>1. h \in Hosts /\ Home[h] \in Ports \ DOMAIN Trunk
  BY ConstantsAssumption
<1>2. IInv
  BY InitIInv
<1>3. Plugged
  BY ConstantsAssumption DEF Init, Plugged
<1>4. \A n \in Slots : /\ frame[n] = [src |-> h, dst |-> h, from |-> Home[h]] /\ got[n] = 1
                       /\ \A e : ~On(n, e)
  BY DEF Init, On
<1> HIDE DEF h
<1>5. SideRight
  BY <1>1, <1>4, Star DEF Init, SideRight
<1>6. \A n \in Slots : Behind(n)
  BY <1>4 DEF Behind, Counted
<1>7. QED
  BY <1>2, <1>3, <1>5, <1>6 DEF StarInv, OnItsWay

(* With one switch (main.c:39-58 of EXP05), each frame is before, in or      *)
(* behind it, and has arrived as often as that place says.                  *)
THEOREM StarInductive == ASSUME OneSwitch PROVE Spec => []StarInv
<1>1. StarInv /\ [Next]_vars => StarInv'
  <2> SUFFICES ASSUME StarInv, [Next]_vars PROVE StarInv'
    OBVIOUS
  <2>1. CASE UNCHANGED vars
    <3>1. UNCHANGED <<where, table, pc, cur, frame, got, wire, moves>>
      BY <2>1 DEF vars
    <3>2. IInv'
      BY <3>1 DEF StarInv, IInv, TypeOK, UnknownYet, SingleEntries, Single, Entries, Source
    <3>3. Plugged' /\ SideRight' /\ OnItsWay'
      BY <3>1, FramesRest DEF StarInv, Plugged, SideRight
    <3>4. QED
      BY <3>2, <3>3 DEF StarInv
  <2>2. \A s \in Switches : s = Centre
    BY Star
  <2>3. ASSUME NEW c \in wire, HubHandle(c) \/ \E s \in Switches : Forward(s, c)
        PROVE  StarInv'
    BY <2>2, <2>3, HubStar, ForwardStar
  <2>4. ASSUME NEW s \in Switches, Learn(s) \/ Insert(s) \/ Sweep(s) PROVE StarInv'
    BY <2>2, <2>4, LearnStar, InsertStar, SweepStar
  <2>5. QED
    BY <2>1, <2>3, <2>4, TickStar, SendStar, MoveStar DEF Next
<1>2. QED
  BY <1>1, InitStar, PTL DEF Spec

(* Around one switch, with any number of hubs, a frame to a host that stays *)
(* where it is reaches it once, or twice when both hosts are on one hub,    *)
(* whatever the switch has learnt, forgotten or learnt wrongly of others    *)
(* (EXP05 main.c:39-58).                                                    *)
THEOREM OnceEach == ASSUME OneSwitch PROVE Spec => []DeliveredOnce
<1>1. ASSUME StarInv PROVE DeliveredOnce
  <2> SUFFICES ASSUME NEW n \in Slots, Gone(n), Stays(n)
               PROVE  got[n] = 1 \/ (got[n] = 2 /\ Near(n) /\ frame[n].from[1] \in Hubs)
    BY DEF DeliveredOnce, Stays, Near, DstEnd
  <2>1. \A e : ~On(n, e)
    BY DEF Gone, On
  <2>2. Counted(n)
    BY <1>1, <2>1, FrameEnds DEF OnWay, AtSource, AtSwitch, Behind
  <2>3. DstEnd(n)[1] # Centre => DstEnd(n)[1] \in Hubs
    BY <1>1, FrameEnds, Star
  <2>4. QED
    BY <2>1, <2>2, <2>3 DEF Counted, Near
<1>2. QED
  BY <1>1, StarInductive, PTL
-----------------------------------------------------------------------------
(***************************************************************************)
(* The spanning tree protocol of Stp, for every network whose switches     *)
(* have no cable to themselves and few ports.                              *)
(***************************************************************************)
NoLoops == \A s \in Bridges : \A i \in PortsOf(s) : Peer[s][i][1] # s
AtMost(n) == \A s \in Bridges : Len(Peer[s]) <= n

Network == StpConstants /\ NoLoops

(* Configurations without a bound on their cost. *)
Configs == Bridges \X Nat \X Bridges \X Nat

(* c is as good as d, or better. *)
AsGood(c, d) == ~Better(d, c)

(* The belief in root r at cost k is no worse than the one in q at cost l.  *)
NoWorse(r, k, q, l) == r < q \/ (r = q /\ k <= l)

LEMMA PeerType ==
    ASSUME Network, NEW s \in Bridges
    PROVE  /\ s \in Nat /\ Len(Peer[s]) \in Nat /\ PortsOf(s) = 1..Len(Peer[s])
           /\ PortsOf(s) \subseteq Nat
           /\ \A i \in PortsOf(s) :
                /\ Peer[s][i] = <<Peer[s][i][1], Peer[s][i][2]>>
                /\ Peer[s][i][1] \in Bridges \ {s}
                /\ Peer[s][i][2] \in PortsOf(Peer[s][i][1])
                /\ Peer[Peer[s][i][1]][Peer[s][i][2]] = <<s, i>>
<1>1. /\ Bridges \subseteq Nat /\ Peer[s] \in Seq(LinkEnds)
      /\ \A p \in LinkEnds : LET q == Peer[p[1]][p[2]] IN Peer[q[1]][q[2]] = p
  BY DEF Network, StpConstants
<1>2. Len(Peer[s]) \in Nat /\ PortsOf(s) = 1..Len(Peer[s])
  BY <1>1, LenProperties DEF PortsOf
<1>3. ASSUME NEW i \in PortsOf(s)
      PROVE  /\ Peer[s][i] = <<Peer[s][i][1], Peer[s][i][2]>>
             /\ Peer[s][i][1] \in Bridges \ {s}
             /\ Peer[s][i][2] \in PortsOf(Peer[s][i][1])
             /\ Peer[Peer[s][i][1]][Peer[s][i][2]] = <<s, i>>
  <2>1. Peer[s][i] \in LinkEnds
    BY <1>1, <1>2, ElementOfSeq
  <2>2. PICK t \in Bridges : Peer[s][i] \in {t} \X PortsOf(t)
    BY <2>1 DEF LinkEnds, PortsOf
  <2>3. <<s, i>> \in LinkEnds
    BY <1>3 DEF LinkEnds, PortsOf
  <2>4. Peer[Peer[s][i][1]][Peer[s][i][2]] = <<s, i>>
    BY <1>1, <2>3
  <2>5. t # s
    BY <1>3, <2>2 DEF Network, NoLoops
  <2>6. QED
    BY <2>2, <2>4, <2>5
<1>4. QED
  BY <1>1, <1>2, <1>3

(* The order of configurations is the lexicographic one. *)
LEMMA Lexicographic ==
    ASSUME NEW c, NEW d
    PROVE  Better(c, d) <=>
              \/ c[1] < d[1]
              \/ c[1] = d[1] /\ c[2] < d[2]
              \/ c[1] = d[1] /\ c[2] = d[2] /\ c[3] < d[3]
              \/ c[1] = d[1] /\ c[2] = d[2] /\ c[3] = d[3] /\ c[4] < d[4]
<1>1. 1..4 = {1, 2, 3, 4} /\ 1..1 - 1 = {} /\ 1..2 - 1 = {1} /\ 1..3 - 1 = {1, 2}
      /\ 1..4 - 1 = {1, 2, 3}
  OBVIOUS
<1>2. Better(c, d) <=> \E k \in {1, 2, 3, 4} : c[k] < d[k] /\ \A j \in 1..k - 1 : c[j] = d[j]
  BY <1>1 DEF Better
<1>3. QED
  BY <1>1, <1>2

LEMMA OrderIsLinear ==
    ASSUME Network, NEW c \in Configs, NEW d \in Configs, NEW e \in Configs
    PROVE  /\ AsGood(c, c)
           /\ Better(c, d) => AsGood(c, d)
           /\ AsGood(c, d) /\ AsGood(d, e) => AsGood(c, e)
           /\ AsGood(c, d) /\ AsGood(d, c) => c[3] = d[3]
           /\ AsGood(c, d) => NoWorse(c[1], c[2], d[1], d[2])
<1>1. /\ c[1] \in Nat /\ c[2] \in Nat /\ c[3] \in Nat /\ c[4] \in Nat
      /\ d[1] \in Nat /\ d[2] \in Nat /\ d[3] \in Nat /\ d[4] \in Nat
      /\ e[1] \in Nat /\ e[2] \in Nat /\ e[3] \in Nat /\ e[4] \in Nat
  BY DEF Configs, Network, StpConstants
<1>2. QED
  BY <1>1, Lexicographic DEF AsGood, NoWorse

(* A better belief makes better configurations of a port. *)
LEMMA BeliefOrders ==
    ASSUME NEW r \in Nat, NEW k \in Nat, NEW q \in Nat, NEW l \in Nat, NEW s \in Nat, NEW i \in Nat,
           NoWorse(r, k, q, l)
    PROVE  AsGood(<<r, k, s, i>>, <<q, l, s, i>>)
BY Lexicographic DEF AsGood, NoWorse
-----------------------------------------------------------------------------
(* What update_root does with one and with two ports, *)
LEMMA PickOfOne ==
    ASSUME NEW conf, NEW k, NEW old
    PROVE  PickRootPort(conf, {k}, old) = k
<1>1. Cardinality({k}) = 1
  BY FS_Singleton
<1>2. QED
  BY <1>1 DEF PickRootPort

LEMMA PickOfTwo ==
    ASSUME Network, NEW conf, NEW a \in Nat, NEW b \in Nat, a < b, conf[a] \in Configs, NEW old
    PROVE  PickRootPort(conf, {a, b}, old) = IF Better(conf[a], conf[b]) THEN a ELSE old
<1> DEFINE non == {a, b}
           After(k, n) == k < n /\ \A m \in non : k < m => n <= m
           BeatsNext(k) == \E n \in non : After(k, n) /\ Better(conf[k], conf[n])
           tried == {k \in non : /\ \E n \in non : k < n
                                 /\ \E j \in non : j <= k /\ BeatsNext(j)}
           Wins(k, j) == Better(conf[k], conf[j])
                         \/ (k <= j /\ ~Better(conf[j], conf[k]))
<1>1. Cardinality(non) # 1
  <2>1. IsFiniteSet(non)
    <3>1. IsFiniteSet(a..b) /\ non \in SUBSET (a..b)
      BY FS_Interval
    <3>2. QED
      BY <3>1, FS_Subset
  <2>2. ~ \E k : non = {k}
    OBVIOUS
  <2>3. QED
    BY <2>1, <2>2, FS_Singleton
<1>2. BeatsNext(a) <=> Better(conf[a], conf[b])
  OBVIOUS
<1>3. tried = IF Better(conf[a], conf[b]) THEN {a} ELSE {}
  BY <1>2
<1>4. ~Better(conf[a], conf[a])
  BY OrderIsLinear DEF AsGood
<1>5. PickRootPort(conf, non, old) =
        IF tried # {} THEN CHOOSE k \in tried : \A j \in tried : Wins(k, j) ELSE old
  BY <1>1 DEF PickRootPort
<1> HIDE DEF tried, non
<1>6. CASE Better(conf[a], conf[b])
  <2>1. tried = {a} /\ Wins(a, a)
    BY <1>3, <1>4, <1>6
  <2>2. QED
    BY <1>5, <1>6, <2>1 DEF non
<1>7. CASE ~Better(conf[a], conf[b])
  BY <1>3, <1>5, <1>7 DEF non
<1>8. QED
  BY <1>6, <1>7

(* and with up to three, of which one has been the root port. *)
LEMMA PickIsOne ==
    ASSUME Network, NEW conf, NEW non \in SUBSET (1..3), \A k \in non : conf[k] \in Configs,
           NEW old \in non
    PROVE  PickRootPort(conf, non, old) \in non
<1> DEFINE After(k, n) == k < n /\ \A m \in non : k < m => n <= m
           BeatsNext(k) == \E n \in non : After(k, n) /\ Better(conf[k], conf[n])
           tried == {k \in non : /\ \E n \in non : k < n
                                 /\ \E j \in non : j <= k /\ BeatsNext(j)}
           Wins(k, j) == Better(conf[k], conf[j])
                         \/ (k <= j /\ ~Better(conf[j], conf[k]))
<1>1. tried \subseteq non /\ tried \subseteq {1, 2}
  <2>1. \A k, n \in non : k < n => k \in {1, 2}
    OBVIOUS
  <2>2. QED
    BY <2>1
<1>2. PickRootPort(conf, non, old) =
        IF Cardinality(non) = 1 THEN CHOOSE k \in non : TRUE
        ELSE IF tried # {} THEN CHOOSE k \in tried : \A j \in tried : Wins(k, j)
        ELSE old
  BY DEF PickRootPort
<1> HIDE DEF tried
<1>3. ASSUME tried # {}
      PROVE  \E k \in tried : \A j \in tried : Wins(k, j)
  <2>1. \A k \in tried : ~Better(conf[k], conf[k])
    BY <1>1, OrderIsLinear DEF AsGood
  <2>2. \A k \in tried : Wins(k, k)
    BY <1>1, <2>1
  <2>3. CASE 1 \in tried /\ 2 \in tried
    <3>1. Better(conf[2], conf[1]) \/ ~Better(conf[2], conf[1])
      OBVIOUS
    <3>2. Wins(1, 2) \/ Wins(2, 1)
      OBVIOUS
    <3> HIDE DEF Wins
    <3>3. QED
      BY <1>1, <2>2, <2>3, <3>2
  <2>4. CASE ~(1 \in tried /\ 2 \in tried)
    <3> HIDE DEF Wins
    <3>1. QED
      BY <1>1, <1>3, <2>2, <2>4
  <2>5. QED
    BY <2>3, <2>4
<1> HIDE DEF Wins
<1>4. QED
  BY <1>1, <1>2, <1>3
-----------------------------------------------------------------------------
(* The configurations under way to port i of s. *)
Items(q) == {q[n] : n \in DOMAIN q}
Under(s, i) == Items(bpdus[s][i])

Queues(w) ==
    DOMAIN w = Bridges /\ \A s \in Bridges : w[s] \in [PortsOf(s) -> Seq(Configs)]

Gives(s, i) == Designated(designated[s][i], s, i)

(* What port p of another switch may tell: a cost of 0 is that of a root.   *)
ToldBy(c, p) == c[3] = p[1] /\ c[4] = p[2] /\ (c[2] = 0 => c[1] = c[3])

Shaped ==
    /\ DOMAIN designated = Bridges /\ DOMAIN root_port = Bridges /\ Queues(bpdus)
    /\ \A s \in Bridges : /\ designated[s] \in [PortsOf(s) -> Configs]
                          /\ root_port[s] \in {0} \cup PortsOf(s)
    /\ designated_root \in [Bridges -> Bridges] /\ root_path_cost \in [Bridges -> Nat]
    /\ hello_timer \in [Bridges -> BOOLEAN] /\ lost \in 0..MaxLost

(* The designated ports of a switch have what it believes, and it believes  *)
(* what its root port has, or that it is the root if it has none.           *)
Coherent(s) ==
    /\ \A i \in PortsOf(s) :
          Gives(s, i) => designated[s][i] = <<designated_root[s], root_path_cost[s], s, i>>
    /\ root_port[s] = 0 => /\ designated_root[s] = s /\ root_path_cost[s] = 0
                           /\ \A i \in PortsOf(s) : Gives(s, i)
    /\ root_port[s] # 0 =>
          /\ ~Gives(s, root_port[s])
          /\ designated_root[s] = designated[s][root_port[s]][1]
          /\ root_path_cost[s] = designated[s][root_port[s]][2] + 1

(* The others have been told by the other end of their link. *)
Sourced(s) ==
    \A i \in PortsOf(s) :
        /\ ~Gives(s, i) => ToldBy(designated[s][i], Peer[s][i])
        /\ \A c \in Under(s, i) : ToldBy(c, Peer[s][i])

(* A switch has taken in a configuration by its port i. *)
LEMMA Updated ==
    ASSUME Network, AtMost(3), Shaped, NEW s \in Bridges, Coherent(s), Sourced(s),
           NEW i \in PortsOf(s), Handle(s, i)
    PROVE  /\ Head(bpdus[s][i]) \in Under(s, i)
           /\ designated'[s] \in [PortsOf(s) -> Configs] /\ root_port'[s] \in PortsOf(s)
           /\ designated_root'[s] \in Bridges /\ root_path_cost'[s] \in Nat
           /\ designated'[s][i] = Head(bpdus[s][i])
           /\ AsGood(designated'[s][i], designated[s][i])
           /\ Coherent(s)' /\ ~Gives(s, i)'
           /\ \A j \in PortsOf(s) \ {i} :
                 IF Gives(s, j) THEN Gives(s, j)' ELSE designated'[s][j] = designated[s][j]
           /\ (Len(Peer[s]) <= 2 \/ \E j \in PortsOf(s) : Gives(s, j)')
                 => NoWorse(designated_root'[s], root_path_cost'[s],
                            designated_root[s], root_path_cost[s])
<1> DEFINE C == designated[s]
           c == Head(bpdus[s][i])
           conf == [C EXCEPT ![i] = c]
           non == {j \in PortsOf(s) : ~Designated(conf[j], s, j)}
           o == root_port[s]
           rp == PickRootPort(conf, non, o)
           root == IF rp = 0 THEN s ELSE conf[rp][1]
           cost == IF rp = 0 THEN 0 ELSE conf[rp][2] + 1
           others == [j \in PortsOf(s) |-> IF Designated(conf[j], s, j)
                                           THEN <<root, cost, s, j>> ELSE conf[j]]
<1> DEFINE n == Len(Peer[s])
<1>1. /\ s \in Nat /\ PortsOf(s) = 1..n /\ n \in Nat /\ n <= 3 /\ PortsOf(s) \subseteq Nat
      /\ PortsOf(s) \subseteq 1..3 /\ Peer[s][i][1] # s
  <2>1. n \in Nat /\ n <= 3
    BY PeerType DEF AtMost
  <2>2. Peer[s][i][1] \in Bridges \ {s}
    BY PeerType
  <2>3. s \in Nat /\ PortsOf(s) = 1..n
    BY PeerType
  <2> HIDE DEF n
  <2>4. QED
    BY <2>1, <2>2, <2>3
<1> HIDE DEF n
<1>2. /\ designated' = [designated EXCEPT ![s] = others]
      /\ root_port' = [root_port EXCEPT ![s] = rp]
      /\ designated_root' = [designated_root EXCEPT ![s] = root]
      /\ root_path_cost' = [root_path_cost EXCEPT ![s] = cost]
      /\ bpdus[s][i] # <<>> /\ AsGood(c, C[i])
  BY DEF Handle, Accept, AsGood, PortsOf
<1>3. /\ designated'[s] = others /\ root_port'[s] = rp
      /\ designated_root'[s] = root /\ root_path_cost'[s] = cost
  BY <1>2 DEF Shaped
<1>4. c \in Under(s, i) /\ c \in Configs /\ C \in [PortsOf(s) -> Configs]
  <2>1. bpdus[s][i] \in Seq(Configs)
    BY DEF Shaped, Queues
  <2>2. c = bpdus[s][i][1] /\ 1 \in DOMAIN bpdus[s][i] /\ c \in Configs
    BY <1>2, <2>1, HeadTailProperties, EmptySeq, LenProperties, ElementOfSeq
  <2>3. QED
    BY <2>2 DEF Under, Items, Shaped
<1>5. ToldBy(c, Peer[s][i]) /\ c[3] # s
  BY <1>1, <1>4 DEF Sourced, ToldBy
<1>6. /\ conf \in [PortsOf(s) -> Configs] /\ conf[i] = c
      /\ \A j \in PortsOf(s) \ {i} : conf[j] = C[j]
  BY <1>4
<1>7. /\ i \in non /\ non \in SUBSET PortsOf(s)
      /\ \A j \in PortsOf(s) : j \in non <=> j = i \/ ~Gives(s, j)
  BY <1>5, <1>6 DEF Designated, Gives
<1> HIDE DEF conf, c
<1>8. /\ others \in [PortsOf(s) -> {others[j] : j \in PortsOf(s)}]
      /\ \A j \in PortsOf(s) : others[j] = IF j \in non THEN conf[j] ELSE <<root, cost, s, j>>
  OBVIOUS
<1>9. \/ o = 0 /\ non = {i}
      \/ o \in non
  BY <1>7 DEF Coherent, Shaped
<1> HIDE DEF non, others, rp
<1>10. rp \in non /\ rp \in PortsOf(s) /\ rp # 0
  <2>1. rp \in non
    <3>1. CASE non = {i}
      BY <3>1, PickOfOne DEF rp
    <3>2. CASE o \in non
      <4>1. non \in SUBSET (1..3) /\ \A k \in non : conf[k] \in Configs
        <5>1. non \in SUBSET (1..3)
          BY <1>1, <1>7
        <5>2. QED
          BY <1>6, <1>7, <5>1
      <4>2. QED
        BY <3>2, <4>1, PickIsOne DEF rp
    <3>3. QED
      BY <1>9, <3>1, <3>2
  <2>2. QED
    BY <1>1, <1>7, <2>1
<1>11. root = conf[rp][1] /\ cost = conf[rp][2] + 1 /\ root \in Bridges /\ cost \in Nat \ {0}
  BY <1>6, <1>10 DEF Configs
<1> HIDE DEF root, cost
<1>12. \A j \in PortsOf(s) : others[j] \in Configs /\ (Designated(others[j], s, j) <=> j \notin non)
  <2> SUFFICES ASSUME NEW j \in PortsOf(s)
               PROVE  others[j] \in Configs /\ (Designated(others[j], s, j) <=> j \notin non)
    OBVIOUS
  <2>1. CASE j \in non
    BY <1>6, <1>8, <2>1 DEF non
  <2>2. CASE j \notin non
    <3>1. others[j] = <<root, cost, s, j>> /\ j \in Nat
      BY <1>1, <1>8, <2>2
    <3>2. QED
      BY <1>11, <2>2, <3>1 DEF Configs, Designated
  <2>3. QED
    BY <2>1, <2>2
<1>13. designated'[s] \in [PortsOf(s) -> Configs]
  BY <1>3, <1>8, <1>12
<1>14. \A j \in PortsOf(s) : Gives(s, j)' <=> j \notin non
  BY <1>3, <1>12 DEF Gives
<1>15. Coherent(s)'
  BY <1>3, <1>8, <1>10, <1>11, <1>14 DEF Coherent
<1>16. ASSUME n <= 2 \/ \E j \in PortsOf(s) : j \notin non
       PROVE  NoWorse(root, cost, designated_root[s], root_path_cost[s])
  <2>1. /\ C[i] \in Configs /\ c[1] \in Nat /\ c[2] \in Nat /\ c[3] \in Nat
        /\ Bridges \subseteq Nat
    BY <1>4 DEF Configs, Network, StpConstants
  <2>2. CASE o = 0
    <3>1. rp = i /\ designated_root[s] = s /\ root_path_cost[s] = 0
      BY <1>1, <1>7, <1>9, <1>10, <2>2 DEF Coherent
    <3>2. C[i] = <<s, 0, s, i>>
      BY <2>2 DEF Coherent
    <3>3. c[1] < s
      BY <1>1, <1>2, <1>5, <2>1, <3>2, Lexicographic DEF AsGood, ToldBy
    <3>4. QED
      BY <1>6, <1>11, <3>1, <3>3 DEF NoWorse
  <2>3. CASE o # 0
    <3>1. /\ o \in non /\ o \in PortsOf(s)
          /\ designated_root[s] = C[o][1] /\ root_path_cost[s] = C[o][2] + 1
      BY <1>7, <1>9, <2>3 DEF Coherent
    <3>2. /\ conf[o] \in Configs /\ C[o] \in Configs /\ conf[rp] \in Configs
          /\ AsGood(conf[o], C[o])
      BY <1>2, <1>4, <1>6, <1>10, <3>1, OrderIsLinear
    <3>3. AsGood(conf[rp], conf[o])
      <4>1. CASE rp = o
        BY <3>2, <4>1, OrderIsLinear
      <4>2. CASE rp # o
        <5>1. non = {rp, o} /\ rp \in Nat /\ o \in Nat
          <6>1. non \in SUBSET (1..3) /\ rp \in 1..3 /\ o \in 1..3
            BY <1>1, <1>7, <1>10, <3>1
          <6>2. \E j \in 1..3 : j \notin non
            BY <1>1, <1>7, <1>16
          <6>3. \A k \in non : k = rp \/ k = o
            <7> SUFFICES ASSUME NEW k \in non PROVE k = rp \/ k = o
              OBVIOUS
            <7>1. PICK j \in 1..3 : j # k /\ j # rp /\ j # o
              BY <1>10, <3>1, <6>2
            <7>2. k \in 1..3
              BY <6>1
            <7>3. QED
              BY <4>2, <6>1, <7>1, <7>2
          <6>4. non = {rp, o}
            BY <1>10, <3>1, <6>3
          <6>5. QED
            BY <6>1, <6>4
        <5>2. CASE rp < o
          <6>1. rp = IF Better(conf[rp], conf[o]) THEN rp ELSE o
            BY <3>2, <5>1, <5>2, PickOfTwo DEF rp
          <6>2. QED
            BY <3>2, <4>2, <6>1, OrderIsLinear
        <5>3. CASE o < rp
          <6>1. rp = IF Better(conf[o], conf[rp]) THEN o ELSE o
            BY <3>2, <5>1, <5>3, PickOfTwo DEF rp
          <6>2. QED
            BY <4>2, <6>1
        <5>4. QED
          BY <4>2, <5>1, <5>2, <5>3
      <4>3. QED
        BY <4>1, <4>2
    <3>4. NoWorse(conf[rp][1], conf[rp][2], C[o][1], C[o][2])
      BY <3>2, <3>3, OrderIsLinear
    <3>5. /\ conf[rp][1] \in Nat /\ conf[rp][2] \in Nat /\ C[o][1] \in Nat /\ C[o][2] \in Nat
      BY <2>1, <3>2 DEF Configs
    <3>6. QED
      BY <1>11, <3>1, <3>4, <3>5 DEF NoWorse
  <2>4. QED
    BY <2>2, <2>3
<1>17. \A j \in PortsOf(s) \ {i} :
          IF Gives(s, j) THEN Gives(s, j)' ELSE designated'[s][j] = designated[s][j]
  BY <1>3, <1>6, <1>7, <1>8, <1>14
<1>18. designated'[s][i] = c /\ ~Gives(s, i)'
  BY <1>3, <1>6, <1>7, <1>8, <1>14
<1>19. QED
  BY <1>2, <1>3, <1>4, <1>10, <1>11, <1>13, <1>14, <1>15, <1>16, <1>17, <1>18 DEF c, n
-----------------------------------------------------------------------------
(* stp_send_config puts what the designated ports say behind what is under  *)
(* way, and taking a frame leaves the others.                               *)
LEMMA QueueType ==
    ASSUME NEW w, Queues(w), NEW s \in Bridges, NEW i \in PortsOf(s)
    PROVE  /\ w[s][i] \in Seq(Configs) /\ Len(w[s][i]) \in Nat
           /\ DOMAIN w[s][i] = 1..Len(w[s][i]) /\ Items(w[s][i]) \subseteq Configs
<1>1. w[s][i] \in Seq(Configs)
  BY DEF Queues
<1>2. QED
  BY <1>1, LenProperties, ElementOfSeq DEF Items

LEMMA SentOut ==
    ASSUME Network, NEW s \in Bridges, Queues(bpdus),
           NEW conf \in [PortsOf(s) -> Configs], NEW root \in Bridges, NEW cost \in Nat
    PROVE  /\ Queues(SendConfig(s, conf, root, cost))
           /\ \A t \in Bridges : \A j \in PortsOf(t) :
                LET new == SendConfig(s, conf, root, cost)[t][j]
                    from == Peer[t][j]
                IN  /\ from[1] # s => new = bpdus[t][j]
                    /\ \A c \in Items(new) :
                          \/ c \in Under(t, j)
                          \/ /\ from[1] = s /\ Designated(conf[from[2]], s, from[2])
                             /\ c = <<root, cost, s, from[2]>>
<1> DEFINE w == SendConfig(s, conf, root, cost)
           Tells(t, j) == /\ Peer[t][j][1] = s
                          /\ Designated(conf[Peer[t][j][2]], s, Peer[t][j][2])
           new(t, j) == <<root, cost, s, Peer[t][j][2]>>
<1>1. w = [t \in Bridges |-> [j \in PortsOf(t) |->
             IF Tells(t, j) THEN Append(bpdus[t][j], new(t, j)) ELSE bpdus[t][j]]]
  BY DEF SendConfig, PortsOf
<1> HIDE DEF w
<1>2. ASSUME NEW t \in Bridges, NEW j \in PortsOf(t)
      PROVE  /\ w[t][j] \in Seq(Configs)
             /\ Peer[t][j][1] # s => w[t][j] = bpdus[t][j]
             /\ \A c \in Items(w[t][j]) : c \in Under(t, j) \/ (Tells(t, j) /\ c = new(t, j))
  <2> DEFINE q == bpdus[t][j]
  <2>1. q \in Seq(Configs) /\ Len(q) \in Nat /\ DOMAIN q = 1..Len(q)
    BY QueueType
  <2>2. w[t][j] = IF Tells(t, j) THEN Append(q, new(t, j)) ELSE q
    BY <1>1
  <2>3. CASE Tells(t, j)
    <3>1. Peer[t][j][2] \in Nat /\ Peer[t][j][1] = s
      BY <2>3, PeerType
    <3>2. new(t, j) \in Configs
      BY <3>1 DEF Configs
    <3> HIDE DEF q, new
    <3>3. /\ Append(q, new(t, j)) \in Seq(Configs)
          /\ DOMAIN Append(q, new(t, j)) = 1..Len(q) + 1
          /\ \A n \in 1..Len(q) : Append(q, new(t, j))[n] = q[n]
          /\ Append(q, new(t, j))[Len(q) + 1] = new(t, j)
      BY <2>1, <3>2, AppendProperties, LenProperties
    <3>4. ASSUME NEW n \in 1..Len(q) + 1
          PROVE  Append(q, new(t, j))[n] \in Items(q) \/ Append(q, new(t, j))[n] = new(t, j)
      <4>1. n \in 1..Len(q) \/ n = Len(q) + 1
        BY <2>1
      <4>2. QED
        BY <2>1, <3>3, <4>1 DEF Items
    <3>5. \A c \in Items(w[t][j]) : c \in Items(q) \/ c = new(t, j)
      BY <2>2, <2>3, <3>3, <3>4 DEF Items
    <3>6. QED
      BY <2>2, <2>3, <3>1, <3>3, <3>5 DEF Under, q
  <2>4. CASE ~Tells(t, j)
    BY <2>1, <2>2, <2>4 DEF Under
  <2>5. QED
    BY <2>3, <2>4
<1>3. Queues(w)
  <2>1. DOMAIN w = Bridges /\ \A t \in Bridges : DOMAIN w[t] = PortsOf(t)
    BY <1>1
  <2>2. \A t \in Bridges : w[t] = [j \in PortsOf(t) |-> w[t][j]]
    BY <1>1
  <2>3. \A t \in Bridges : w[t] \in [PortsOf(t) -> Seq(Configs)]
    BY <1>2, <2>2
  <2>4. QED
    BY <2>1, <2>3 DEF Queues
<1>4. QED
  BY <1>2, <1>3 DEF w

LEMMA Taken ==
    ASSUME NEW w, Queues(w), NEW s \in Bridges, NEW i \in PortsOf(s), w[s][i] # <<>>
    PROVE  /\ Queues([w EXCEPT ![s][i] = Tail(@)])
           /\ \A t \in Bridges : \A j \in PortsOf(t) :
                Items([w EXCEPT ![s][i] = Tail(@)][t][j]) \subseteq Items(w[t][j])
<1> DEFINE q == w[s][i]
           v == [w EXCEPT ![s][i] = Tail(@)]
<1>1. /\ q \in Seq(Configs) /\ Len(q) \in Nat /\ DOMAIN q = 1..Len(q)
      /\ Tail(q) \in Seq(Configs) /\ Items(Tail(q)) \subseteq Items(q)
  <2>1. q \in Seq(Configs) /\ Len(q) \in Nat /\ DOMAIN q = 1..Len(q)
    BY QueueType
  <2>2. Tail(q) \in Seq(Configs) /\ Len(Tail(q)) = Len(q) - 1
        /\ \A n \in 1..Len(Tail(q)) : Tail(q)[n] = q[n + 1]
    BY <2>1, HeadTailProperties
  <2>3. DOMAIN Tail(q) = 1..Len(q) - 1
    BY <2>2, LenProperties
  <2>4. \A n \in DOMAIN Tail(q) : n + 1 \in DOMAIN q /\ Tail(q)[n] = q[n + 1]
    BY <2>1, <2>2, <2>3
  <2>5. QED
    BY <2>1, <2>2, <2>4 DEF Items
<1>2. v = [w EXCEPT ![s] = [w[s] EXCEPT ![i] = Tail(q)]]
  BY DEF Queues
<1> HIDE DEF v
<1>3. /\ DOMAIN v = Bridges /\ \A t \in Bridges : v[t] \in [PortsOf(t) -> Seq(Configs)]
      /\ v[s][i] = Tail(q) /\ \A j \in PortsOf(s) \ {i} : v[s][j] = w[s][j]
      /\ \A t \in Bridges \ {s} : v[t] = w[t]
  BY <1>1, <1>2 DEF Queues
<1>4. \A t \in Bridges : \A j \in PortsOf(t) : Items(v[t][j]) \subseteq Items(w[t][j])
  BY <1>1, <1>3
<1>5. QED
  BY <1>3, <1>4 DEF Queues, v
-----------------------------------------------------------------------------
(* A switch has changed its ports for the better, if at all, and what is    *)
(* under way was so before or is what a designated port says now.           *)
Improved(s) ==
    \A j \in PortsOf(s) :
        /\ AsGood(designated'[s][j], designated[s][j])
        /\ Gives(s, j)' => Gives(s, j)
        /\ ~Gives(s, j)' => \/ ~Gives(s, j) /\ designated'[s][j] = designated[s][j]
                            \/ /\ Accept(designated[s][j], designated'[s][j])
                               /\ designated'[s][j] \in Under(s, j)

Spoken(c, p) == Gives(p[1], p[2]) /\ c = designated[p[1]][p[2]]

Heard ==
    \A t \in Bridges : \A j \in PortsOf(t) : \A c \in Under(t, j)' :
        c \in Under(t, j) \/ Spoken(c, Peer[t][j])'

StepOf(s) ==
    /\ Shaped' /\ Heard /\ Coherent(s)' /\ Improved(s)
    /\ \A t \in Bridges \ {s} : /\ designated'[t] = designated[t] /\ root_port'[t] = root_port[t]
                                /\ designated_root'[t] = designated_root[t]
                                /\ root_path_cost'[t] = root_path_cost[t]

(* What a switch tells by a hello is what its designated ports have. *)
LEMMA SaysWhatItHas ==
    ASSUME Network, Shaped, NEW s \in Bridges, Coherent(s),
           NEW t \in Bridges, NEW j \in PortsOf(t), NEW c,
           Peer[t][j][1] = s, Gives(s, Peer[t][j][2]),
           c = <<designated_root[s], root_path_cost[s], s, Peer[t][j][2]>>
    PROVE  Spoken(c, Peer[t][j])
<1>1. Peer[t][j][2] \in PortsOf(s)
  BY PeerType
<1>2. QED
  BY <1>1 DEF Coherent, Spoken

(* Steps that leave the ports alone. *)
LEMMA QuietStep ==
    ASSUME Network, Shaped, NEW s \in Bridges, Coherent(s),
           UNCHANGED <<designated, designated_root, root_path_cost, root_port, hello_timer>>,
           lost' \in 0..MaxLost, Queues(bpdus'), Heard
    PROVE  StepOf(s)
<1>1. \A j \in PortsOf(s) : designated[s][j] \in Configs
  BY DEF Shaped
<1>2. Improved(s)
  BY <1>1, OrderIsLinear DEF Improved, Gives
<1>3. Shaped' /\ Coherent(s)'
  <2>1. Queues(bpdus)'
    OBVIOUS
  <2>2. Shaped'
    BY <2>1 DEF Shaped
  <2>3. QED
    BY <2>2 DEF Coherent, Gives
<1>4. QED
  BY <1>2, <1>3 DEF StepOf

LEMMA HelloStep ==
    ASSUME Network, Shaped, NEW s \in Bridges, Coherent(s), HelloTimeout(s)
    PROVE  StepOf(s)
<1>1. /\ UNCHANGED <<designated, designated_root, root_path_cost, root_port, hello_timer, lost>>
      /\ bpdus' = SendConfig(s, designated[s], designated_root[s], root_path_cost[s])
  BY DEF HelloTimeout
<1>2. /\ designated[s] \in [PortsOf(s) -> Configs] /\ designated_root[s] \in Bridges
      /\ root_path_cost[s] \in Nat /\ Queues(bpdus) /\ lost \in 0..MaxLost
  BY DEF Shaped
<1>3. Queues(bpdus')
  BY <1>1, <1>2, SentOut
<1>4. ASSUME NEW t \in Bridges, NEW j \in PortsOf(t), NEW c \in Under(t, j)'
      PROVE  c \in Under(t, j) \/ Spoken(c, Peer[t][j])'
  <2>1. c \in Items(bpdus'[t][j])
    BY DEF Under
  <2>2. CASE c \notin Under(t, j)
    <3>1. /\ Peer[t][j][1] = s /\ Gives(s, Peer[t][j][2])
          /\ c = <<designated_root[s], root_path_cost[s], s, Peer[t][j][2]>>
      BY <1>1, <1>2, <2>1, <2>2, SentOut DEF Gives
    <3>2. Spoken(c, Peer[t][j])
      BY <3>1, SaysWhatItHas
    <3>3. QED
      BY <1>1, <3>2 DEF Spoken, Gives
  <2>3. QED
    BY <2>2
<1>5. QED
  BY <1>1, <1>2, <1>3, <1>4, QuietStep DEF Heard

LEMMA TakenStep ==
    ASSUME Network, Shaped, NEW s \in Bridges, Coherent(s), NEW i \in PortsOf(s),
           UNCHANGED <<designated, designated_root, root_path_cost, root_port, hello_timer>>,
           lost' \in 0..MaxLost, bpdus[s][i] # <<>>, bpdus' = [bpdus EXCEPT ![s][i] = Tail(@)]
    PROVE  StepOf(s)
<1>1. Queues(bpdus)
  BY DEF Shaped
<1>2. Queues(bpdus')
  BY <1>1, Taken
<1>3. \A t \in Bridges : \A j \in PortsOf(t) : Items(bpdus'[t][j]) \subseteq Items(bpdus[t][j])
  BY <1>1, Taken
<1>4. Heard
  BY <1>3 DEF Heard, Under
<1>5. QED
  BY <1>2, <1>4, QuietStep

LEMMA IgnoreStep ==
    ASSUME Network, Shaped, NEW s \in Bridges, Coherent(s), NEW i \in PortsOf(s),
           Ignore(s, i) \/ Lose(s, i)
    PROVE  StepOf(s)
<1>1. lost \in 0..MaxLost /\ MaxLost \in Nat
  BY DEF Shaped, Network, StpConstants
<1>2. lost' \in 0..MaxLost
  BY <1>1 DEF Ignore, Lose
<1>3. QED
  BY <1>2, TakenStep DEF Ignore, Lose

LEMMA HandleStep ==
    ASSUME Network, AtMost(3), Shaped, NEW s \in Bridges, Coherent(s), Sourced(s),
           NEW i \in PortsOf(s), Handle(s, i)
    PROVE  StepOf(s)
<1> DEFINE root == designated_root'[s]
           cost == root_path_cost'[s]
           w == IF root = s THEN bpdus ELSE SendConfig(s, designated'[s], root, cost)
<1>1. /\ Head(bpdus[s][i]) \in Under(s, i)
      /\ designated'[s] \in [PortsOf(s) -> Configs] /\ root_port'[s] \in PortsOf(s)
      /\ root \in Bridges /\ cost \in Nat
      /\ designated'[s][i] = Head(bpdus[s][i])
      /\ Coherent(s)' /\ ~Gives(s, i)'
      /\ AsGood(designated'[s][i], designated[s][i])
  BY Updated
<1>2. \A j \in PortsOf(s) \ {i} :
          IF Gives(s, j) THEN Gives(s, j)' ELSE designated'[s][j] = designated[s][j]
  BY Updated
<1>3. (\E j \in PortsOf(s) : Gives(s, j)')
      => NoWorse(root, cost, designated_root[s], root_path_cost[s])
  BY Updated
<1>4. /\ \A t \in Bridges \ {s} : /\ designated'[t] = designated[t] /\ root_port'[t] = root_port[t]
                                  /\ designated_root'[t] = designated_root[t]
                                  /\ root_path_cost'[t] = root_path_cost[t]
      /\ DOMAIN designated' = Bridges /\ DOMAIN root_port' = Bridges
      /\ designated_root' \in [Bridges -> Bridges] /\ root_path_cost' \in [Bridges -> Nat]
      /\ hello_timer' \in [Bridges -> BOOLEAN] /\ lost' = lost
      /\ bpdus[s][i] # <<>> /\ bpdus' = [w EXCEPT ![s][i] = Tail(@)]
  BY <1>1 DEF Shaped, Handle
<1>5. Queues(bpdus) /\ Queues(SendConfig(s, designated'[s], root, cost))
  <2>1. Queues(bpdus)
    BY DEF Shaped
  <2>2. QED
    BY <1>1, <2>1, SentOut
<1>6. Queues(w) /\ w[s][i] # <<>>
  <2>1. Peer[s][i][1] # s
    BY PeerType
  <2>2. SendConfig(s, designated'[s], root, cost)[s][i] = bpdus[s][i]
    BY <1>1, <1>5, <2>1, SentOut
  <2>3. QED
    BY <1>4, <1>5, <2>2
<1>7. ASSUME NEW t \in Bridges, NEW j \in PortsOf(t), NEW c \in Items(w[t][j])
      PROVE  c \in Under(t, j) \/ Spoken(c, Peer[t][j])'
  <2>1. CASE root = s
    BY <1>7, <2>1 DEF Under
  <2>2. CASE root # s /\ c \notin Under(t, j)
    <3> DEFINE k == Peer[t][j][2]
    <3>1. /\ Peer[t][j][1] = s /\ Designated(designated'[s][k], s, k)
          /\ c = <<root, cost, s, k>>
      BY <1>1, <1>5, <1>7, <2>2, SentOut
    <3>2. k \in PortsOf(s)
      BY <3>1, PeerType
    <3>3. designated'[s][k] = <<root, cost, s, k>>
      BY <1>1, <3>1, <3>2 DEF Coherent, Gives
    <3>4. QED
      BY <3>1, <3>3 DEF Spoken, Gives
  <2>3. QED
    BY <2>1, <2>2
<1> HIDE DEF w
<1>8. Queues(bpdus') /\ Heard
  <2>1. Queues(bpdus')
    BY <1>4, <1>6, Taken
  <2>2. \A t \in Bridges : \A j \in PortsOf(t) : Items(bpdus'[t][j]) \subseteq Items(w[t][j])
    BY <1>4, <1>6, Taken
  <2>3. QED
    BY <1>7, <2>1, <2>2 DEF Heard, Under
<1>9. Shaped'
  <2>1. Queues(bpdus)'
    BY <1>8
  <2>2. \A t \in Bridges : /\ designated'[t] \in [PortsOf(t) -> Configs]
                           /\ root_port'[t] \in {0} \cup PortsOf(t)
    BY <1>1, <1>4 DEF Shaped
  <2>3. lost' \in 0..MaxLost
    BY <1>4 DEF Shaped
  <2>4. QED
    BY <1>4, <2>1, <2>2, <2>3 DEF Shaped
<1>10. Improved(s)
  <2> SUFFICES ASSUME NEW j \in PortsOf(s)
               PROVE  /\ AsGood(designated'[s][j], designated[s][j])
                      /\ Gives(s, j)' => Gives(s, j)
                      /\ ~Gives(s, j)' =>
                            \/ ~Gives(s, j) /\ designated'[s][j] = designated[s][j]
                            \/ /\ Accept(designated[s][j], designated'[s][j])
                               /\ designated'[s][j] \in Under(s, j)
    BY DEF Improved
  <2>1. CASE j = i
    BY <1>1, <2>1, Updated DEF AsGood, Accept
  <2>2. CASE j # i /\ Gives(s, j)
    <3>1. Gives(s, j)'
      BY <1>2, <2>2
    <3>2. /\ designated'[s][j] = <<root, cost, s, j>>
          /\ designated[s][j] = <<designated_root[s], root_path_cost[s], s, j>>
      BY <1>1, <2>2, <3>1 DEF Coherent
    <3>3. /\ root \in Nat /\ designated_root[s] \in Nat /\ root_path_cost[s] \in Nat
          /\ s \in Nat /\ j \in Nat
      BY <1>1, PeerType DEF Shaped, Network, StpConstants
    <3>4. AsGood(designated'[s][j], designated[s][j])
      <4>1. NoWorse(root, cost, designated_root[s], root_path_cost[s])
        BY <1>3, <3>1
      <4> HIDE DEF root, cost
      <4>2. AsGood(<<root, cost, s, j>>, <<designated_root[s], root_path_cost[s], s, j>>)
        BY <1>1, <3>3, <4>1, BeliefOrders
      <4>3. QED
        BY <3>2, <4>2
    <3>5. QED
      BY <2>2, <3>1, <3>4
  <2>3. CASE j # i /\ ~Gives(s, j)
    <3>1. designated'[s][j] = designated[s][j] /\ designated[s][j] \in Configs
      BY <1>2, <2>3 DEF Shaped
    <3>2. QED
      BY <2>3, <3>1, OrderIsLinear DEF Gives
  <2>4. QED
    BY <2>1, <2>2, <2>3
<1>11. QED
  BY <1>1, <1>4, <1>8, <1>9, <1>10 DEF StepOf
-----------------------------------------------------------------------------
(* Who has told a configuration has one at least as good at its port: for   *)
(* those under way, and for those that the other end has given way to.      *)
Ahead ==
    \A s \in Bridges : \A i \in PortsOf(s) : \A c \in Under(s, i) :
        AsGood(designated[Peer[s][i][1]][Peer[s][i][2]], c)

GivesWay ==
    \A s \in Bridges : \A i \in PortsOf(s) : ~Gives(s, i) =>
        /\ Gives(Peer[s][i][1], Peer[s][i][2])
        /\ AsGood(designated[Peer[s][i][1]][Peer[s][i][2]], designated[s][i])

LinkInv ==
    /\ Shaped /\ Ahead /\ GivesWay
    /\ \A s \in Bridges : Coherent(s) /\ Sourced(s)

LEMMA PortType ==
    ASSUME Network, Shaped, NEW s \in Bridges, NEW i \in PortsOf(s)
    PROVE  /\ designated[s][i] \in Configs /\ Under(s, i) \subseteq Configs
           /\ designated[Peer[s][i][1]][Peer[s][i][2]] \in Configs
<1>1. Peer[s][i][1] \in Bridges /\ Peer[s][i][2] \in PortsOf(Peer[s][i][1])
  BY PeerType
<1>2. QED
  BY <1>1, QueueType DEF Shaped, Under

(* Nobody accepts what an end has told that gave way itself. *)
LEMMA TellerGives ==
    ASSUME Network, LinkInv, NEW s \in Bridges, NEW i \in PortsOf(s), NEW c \in Under(s, i),
           Accept(designated[s][i], c)
    PROVE  Gives(Peer[s][i][1], Peer[s][i][2])
<1> DEFINE t == Peer[s][i][1]
           j == Peer[s][i][2]
<1>1. SUFFICES ASSUME ~Gives(t, j) PROVE FALSE
  OBVIOUS
<1>2. t \in Bridges \ {s} /\ j \in PortsOf(t) /\ Peer[t][j] = <<s, i>>
  BY PeerType
<1>3. Gives(s, i) /\ AsGood(designated[s][i], designated[t][j])
  BY <1>1, <1>2 DEF LinkInv, GivesWay
<1>4. AsGood(designated[t][j], c) /\ ToldBy(c, Peer[s][i])
  BY DEF LinkInv, Ahead, Sourced
<1>5. AsGood(c, designated[s][i])
  BY DEF Accept, AsGood
<1>6. designated[s][i] \in Configs /\ designated[t][j] \in Configs /\ c \in Configs
  BY PortType DEF LinkInv
<1> HIDE DEF t, j
<1>7. AsGood(designated[s][i], c)
  BY <1>3, <1>4, <1>6, OrderIsLinear
<1>8. c[3] = designated[s][i][3]
  BY <1>5, <1>6, <1>7, OrderIsLinear
<1>9. QED
  BY <1>2, <1>3, <1>4, <1>8 DEF ToldBy, Gives, Designated, t

LEMMA EveryoneImproves ==
    ASSUME Network, LinkInv, NEW s \in Bridges, StepOf(s)
    PROVE  \A t \in Bridges : Improved(t) /\ Coherent(t)'
<1>1. SUFFICES ASSUME NEW t \in Bridges \ {s} PROVE Improved(t) /\ Coherent(t)'
  BY DEF StepOf
<1>2. /\ designated'[t] = designated[t] /\ root_port'[t] = root_port[t]
      /\ designated_root'[t] = designated_root[t] /\ root_path_cost'[t] = root_path_cost[t]
  BY DEF StepOf
<1>3. \A j \in PortsOf(t) : AsGood(designated[t][j], designated[t][j])
  BY PortType, OrderIsLinear DEF LinkInv
<1>4. Improved(t)
  BY <1>2, <1>3 DEF Improved, Gives
<1>5. Coherent(t)
  BY DEF LinkInv
<1>6. Coherent(t)'
  BY <1>2, <1>5 DEF Coherent, Gives
<1>7. QED
  BY <1>4, <1>6

LEMMA AheadStep ==
    ASSUME Network, LinkInv, NEW s \in Bridges, StepOf(s)
    PROVE  Ahead'
<1> SUFFICES ASSUME NEW t \in Bridges, NEW j \in PortsOf(t), NEW c \in Under(t, j)'
             PROVE  AsGood(designated'[Peer[t][j][1]][Peer[t][j][2]], c)
  BY DEF Ahead
<1> DEFINE d == designated[Peer[t][j][1]][Peer[t][j][2]]
<1>1. Peer[t][j][1] \in Bridges /\ Peer[t][j][2] \in PortsOf(Peer[t][j][1])
  BY PeerType
<1>2. d \in Configs /\ d' \in Configs
  BY <1>1, PortType DEF LinkInv, StepOf, Shaped
<1>3. CASE c \in Under(t, j)
  <2>1. AsGood(d, c) /\ c \in Configs
    BY <1>3, PortType DEF LinkInv, Ahead
  <2>2. AsGood(d', d)
    BY <1>1, EveryoneImproves DEF Improved
  <2> HIDE DEF d
  <2>3. AsGood(d', c)
    BY <1>2, <2>1, <2>2, OrderIsLinear
  <2>4. QED
    BY <2>3 DEF d
<1>4. CASE c \notin Under(t, j)
  <2>1. c = d'
    BY <1>4 DEF StepOf, Heard, Spoken
  <2>2. QED
    BY <1>2, <2>1, OrderIsLinear
<1>5. QED
  BY <1>3, <1>4

LEMMA GivesWayStep ==
    ASSUME Network, LinkInv, NEW s \in Bridges, StepOf(s)
    PROVE  GivesWay'
<1> SUFFICES ASSUME NEW t \in Bridges, NEW j \in PortsOf(t), ~Gives(t, j)'
             PROVE  /\ Gives(Peer[t][j][1], Peer[t][j][2])'
                    /\ AsGood(designated'[Peer[t][j][1]][Peer[t][j][2]], designated'[t][j])
  BY DEF GivesWay
<1> DEFINE p == Peer[t][j][1]
           q == Peer[t][j][2]
<1>1. p \in Bridges \ {t} /\ q \in PortsOf(p) /\ Peer[p][q] = <<t, j>>
  BY PeerType
<1>2. /\ designated[p][q] \in Configs /\ designated'[p][q] \in Configs
      /\ designated[t][j] \in Configs
  BY <1>1, PortType DEF LinkInv, StepOf, Shaped
<1>3. CASE t # s
  <2>1. designated'[t] = designated[t] /\ ~Gives(t, j)
    BY <1>3 DEF StepOf, Gives
  <2>2. Gives(p, q) /\ AsGood(designated[p][q], designated[t][j])
    BY <2>1 DEF LinkInv, GivesWay
  <2>3. Improved(p)
    BY <1>1, EveryoneImproves
  <2>4. Gives(p, q)'
    <3>1. SUFFICES ASSUME ~Gives(p, q)' PROVE FALSE
      OBVIOUS
    <3>2. Accept(designated[p][q], designated'[p][q]) /\ designated'[p][q] \in Under(p, q)
      BY <1>1, <2>2, <2>3, <3>1 DEF Improved
    <3>3. Gives(t, j)
      BY <1>1, <3>2, TellerGives
    <3>4. QED
      BY <2>1, <3>3
  <2>5. AsGood(designated'[p][q], designated[p][q])
    BY <1>1, <2>3 DEF Improved
  <2>6. AsGood(designated'[p][q], designated[t][j])
    BY <1>2, <2>2, <2>5, OrderIsLinear
  <2>7. QED
    BY <2>1, <2>4, <2>6
<1>4. CASE t = s
  <2>1. designated'[p] = designated[p]
    BY <1>1, <1>4 DEF StepOf
  <2>2. Improved(t)
    BY EveryoneImproves
  <2>3. CASE ~Gives(t, j) /\ designated'[t][j] = designated[t][j]
    BY <2>1, <2>3 DEF LinkInv, GivesWay, Gives
  <2>4. CASE Accept(designated[t][j], designated'[t][j]) /\ designated'[t][j] \in Under(t, j)
    <3>1. Gives(p, q)
      BY <2>4, TellerGives
    <3>2. AsGood(designated[p][q], designated'[t][j])
      BY <2>4 DEF LinkInv, Ahead
    <3>3. QED
      BY <2>1, <3>1, <3>2 DEF Gives
  <2>5. QED
    BY <2>2, <2>3, <2>4 DEF Improved
<1>5. QED
  BY <1>3, <1>4

LEMMA SourcedStep ==
    ASSUME Network, LinkInv, NEW s \in Bridges, StepOf(s), NEW t \in Bridges
    PROVE  Sourced(t)'
<1>1. Sourced(t) /\ Improved(t)
  BY EveryoneImproves DEF LinkInv
<1>2. ASSUME NEW j \in PortsOf(t), ~Gives(t, j)'
      PROVE  ToldBy(designated'[t][j], Peer[t][j])
  BY <1>1, <1>2 DEF Improved, Sourced
<1>3. ASSUME NEW j \in PortsOf(t), NEW c \in Under(t, j)'
      PROVE  ToldBy(c, Peer[t][j])
  <2>1. CASE c \in Under(t, j)
    BY <1>1, <2>1 DEF Sourced
  <2>2. CASE c \notin Under(t, j)
    <3> DEFINE p == Peer[t][j][1]
               q == Peer[t][j][2]
    <3>1. p \in Bridges /\ q \in PortsOf(p)
      BY PeerType
    <3>2. Gives(p, q)' /\ c = designated'[p][q]
      BY <2>2 DEF StepOf, Heard, Spoken
    <3>3. Coherent(p)' /\ Shaped'
      BY <3>1, EveryoneImproves DEF StepOf
    <3>4. c = <<designated_root'[p], root_path_cost'[p], p, q>>
      BY <3>1, <3>2, <3>3 DEF Coherent
    <3>5. root_path_cost'[p] = 0 => designated_root'[p] = p
      <4>1. CASE root_port'[p] = 0
        BY <3>3, <4>1 DEF Coherent
      <4>2. CASE root_port'[p] # 0
        <5>1. root_port'[p] \in PortsOf(p)
          BY <3>1, <3>3, <4>2 DEF Shaped
        <5>2. designated'[p][root_port'[p]] \in Configs
          BY <3>1, <3>3, <5>1 DEF Shaped
        <5>3. designated'[p][root_port'[p]][2] + 1 # 0
          BY <5>2 DEF Configs
        <5>4. QED
          BY <3>3, <4>2, <5>3 DEF Coherent
      <4>3. QED
        BY <4>1, <4>2
    <3>6. QED
      BY <3>4, <3>5 DEF ToldBy
  <2>3. QED
    BY <2>1, <2>2
<1>4. QED
  BY <1>2, <1>3 DEF Sourced

LEMMA InvStep ==
    ASSUME Network, LinkInv, NEW s \in Bridges, StepOf(s)
    PROVE  LinkInv'
<1>1. Shaped' /\ \A t \in Bridges : Coherent(t)'
  BY EveryoneImproves DEF StepOf
<1>2. QED
  BY <1>1, AheadStep, GivesWayStep, SourcedStep DEF LinkInv
LEMMA InitLinkInv ==
    ASSUME Network, StpInit
    PROVE  /\ LinkInv
           /\ \A s \in Bridges : \A i \in PortsOf(s) : Gives(s, i) /\ Under(s, i) = {}
<1> DEFINE Own(s) == [i \in PortsOf(s) |-> <<s, 0, s, i>>]
           None(s) == [i \in PortsOf(s) |-> <<>>]
<1>1. /\ designated = [s \in Bridges |-> Own(s)] /\ bpdus = [s \in Bridges |-> None(s)]
      /\ designated_root = [s \in Bridges |-> s] /\ root_path_cost = [s \in Bridges |-> 0]
      /\ root_port = [s \in Bridges |-> 0] /\ hello_timer = [s \in Bridges |-> TRUE] /\ lost = 0
  BY DEF StpInit, PortsOf
<1>2. <<>> \in Seq(Configs) /\ Items(<<>>) = {}
  BY EmptySeq DEF Items
<1>3. ASSUME NEW s \in Bridges
      PROVE  /\ designated[s] \in [PortsOf(s) -> Configs] /\ bpdus[s] \in [PortsOf(s) -> Seq(Configs)]
             /\ root_port[s] = 0 /\ designated_root[s] = s /\ root_path_cost[s] = 0
             /\ \A i \in PortsOf(s) : /\ designated[s][i] = <<s, 0, s, i>> /\ Gives(s, i)
                                      /\ Under(s, i) = {}
  <2>1. /\ designated[s] = Own(s) /\ bpdus[s] = None(s)
        /\ root_port[s] = 0 /\ designated_root[s] = s /\ root_path_cost[s] = 0
    BY <1>1
  <2> HIDE DEF Own, None
  <2>2. ASSUME NEW i \in PortsOf(s)
        PROVE  /\ Own(s)[i] = <<s, 0, s, i>> /\ Own(s)[i] \in Configs /\ None(s)[i] = <<>>
    <3>1. i \in Nat
      BY PeerType
    <3>2. Own(s)[i] = <<s, 0, s, i>> /\ None(s)[i] = <<>>
      BY DEF Own, None
    <3>3. QED
      BY <3>1, <3>2 DEF Configs
  <2>3. Own(s) \in [PortsOf(s) -> Configs] /\ None(s) \in [PortsOf(s) -> Seq(Configs)]
    <3>1. Own(s) = [i \in PortsOf(s) |-> Own(s)[i]] /\ None(s) = [i \in PortsOf(s) |-> None(s)[i]]
      BY DEF Own, None
    <3>2. QED
      BY <1>2, <2>2, <3>1
  <2>4. \A i \in PortsOf(s) : Gives(s, i) /\ Under(s, i) = {}
    BY <1>2, <2>1, <2>2 DEF Gives, Designated, Under
  <2>5. QED
    BY <2>1, <2>2, <2>3, <2>4
<1> HIDE DEF Own, None
<1>4. Shaped
  <2>1. DOMAIN bpdus = Bridges /\ DOMAIN designated = Bridges /\ DOMAIN root_port = Bridges
    BY <1>1
  <2>2. Queues(bpdus)
    BY <1>3, <2>1 DEF Queues
  <2>3. /\ designated_root \in [Bridges -> Bridges] /\ root_path_cost \in [Bridges -> Nat]
        /\ hello_timer \in [Bridges -> BOOLEAN] /\ lost \in 0..MaxLost
    BY <1>1 DEF Network, StpConstants
  <2>4. QED
    BY <1>3, <2>1, <2>2, <2>3 DEF Shaped
<1>5. \A s \in Bridges : Coherent(s) /\ Sourced(s)
  BY <1>3 DEF Coherent, Sourced
<1>6. \A s \in Bridges : \A i \in PortsOf(s) :
          LET p == Peer[s][i] IN Gives(p[1], p[2]) /\ Under(p[1], p[2]) = {}
  BY <1>3, PeerType
<1>7. QED
  BY <1>3, <1>4, <1>5, <1>6 DEF LinkInv, Ahead, GivesWay

LEMMA EachStep ==
    ASSUME Network, AtMost(3), LinkInv, StpNext
    PROVE  \E s \in Bridges : StepOf(s) /\ (HelloTimeout(s)
              \/ \E i \in PortsOf(s) : Handle(s, i) \/ Ignore(s, i) \/ Lose(s, i))
<1>1. PICK s \in Bridges : HelloTimeout(s)
          \/ \E i \in PortsOf(s) : Handle(s, i) \/ Ignore(s, i) \/ Lose(s, i)
  BY DEF StpNext, Receive, PortsOf
<1>2. Shaped /\ Coherent(s) /\ Sourced(s)
  BY DEF LinkInv
<1>3. StepOf(s)
  BY <1>1, <1>2, HelloStep, HandleStep, IgnoreStep
<1>4. QED
  BY <1>1, <1>3

LEMMA RestingLinks ==
    ASSUME LinkInv, UNCHANGED stpVars
    PROVE  LinkInv'
<1>1. UNCHANGED <<designated, designated_root, root_path_cost, root_port, hello_timer, bpdus, lost>>
  BY DEF stpVars
<1>2. /\ \A s, i : (Gives(s, i)' <=> Gives(s, i)) /\ Under(s, i)' = Under(s, i)
      /\ Queues(bpdus)' <=> Queues(bpdus)
  BY <1>1 DEF Gives, Under, Queues
<1>3. Shaped'
  BY <1>1, <1>2 DEF LinkInv, Shaped
<1>4. \A s \in Bridges : Coherent(s)' /\ Sourced(s)'
  BY <1>1, <1>2 DEF LinkInv, Coherent, Sourced
<1>5. Ahead' /\ GivesWay'
  BY <1>1, <1>2 DEF LinkInv, Ahead, GivesWay
<1>6. QED
  BY <1>3, <1>4, <1>5 DEF LinkInv

LEMMA LinkInvStep ==
    ASSUME Network, AtMost(3), LinkInv, [StpNext]_stpVars
    PROVE  LinkInv'
BY EachStep, InvStep, RestingLinks

(* With up to three ports at each switch, what the ends of a link have told *)
(* each other and what they have is ordered, so that they do not both give  *)
(* way (stp.c:143-171, 204-209).                                            *)
THEOREM LinksInductive ==
    ASSUME StpConstants, NoLoops, AtMost(3)
    PROVE  StpSpec => []LinkInv
<1>1. Network
  BY DEF Network
<1>2. StpInit => LinkInv
  BY <1>1, InitLinkInv
<1>3. LinkInv /\ [StpNext]_stpVars => LinkInv'
  BY <1>1, LinkInvStep
<1>4. QED
  BY <1>2, <1>3, PTL DEF StpSpec

LEMMA LinksHaveDesignated ==
    ASSUME Network, LinkInv
    PROVE  LinkHasDesignated
<1> SUFFICES ASSUME NEW p \in LinkEnds
             PROVE  IsDesignated(p) \/ IsDesignated(Opposite(p))
  BY DEF LinkHasDesignated
<1>1. p[1] \in Bridges /\ p[2] \in PortsOf(p[1])
  BY DEF LinkEnds, PortsOf
<1>2. Gives(p[1], p[2]) \/ Gives(Peer[p[1]][p[2]][1], Peer[p[1]][p[2]][2])
  BY <1>1 DEF LinkInv, GivesWay
<1>3. QED
  BY <1>2 DEF Gives, IsDesignated, Opposite

(* No link is ever without a designated end, in every network whose         *)
(* switches have up to three ports.                                         *)
THEOREM NoLinkLost ==
    ASSUME StpConstants, NoLoops, AtMost(3)
    PROVE  StpSpec => []LinkHasDesignated
<1>1. Network
  BY DEF Network
<1>2. LinkInv => LinkHasDesignated
  BY <1>1, LinksHaveDesignated
<1>3. QED
  BY <1>2, LinksInductive, PTL
-----------------------------------------------------------------------------
(* A configuration with root r and cost k from switch t stands at the end of*)
(* a path of k + 1 different switches, each of which believes something at  *)
(* least as good as what it passed on.                                      *)
Believes(s, r, k) == NoWorse(designated_root[s], root_path_cost[s], r, k)

PathTo(f, r, k, t) ==
    /\ f \in [0..k -> Bridges] /\ f[k] = t
    /\ \A i, j \in 0..k : f[i] = f[j] => i = j
    /\ \A i \in 0..k : Believes(f[i], r, i)
Chain(r, k, t) == \E f : PathTo(f, r, k, t)

PortsChained ==
    \A s \in Bridges : \A i \in PortsOf(s) : ~Gives(s, i) =>
        Chain(designated[s][i][1], designated[s][i][2], designated[s][i][3])
BeliefsChained == \A s \in Bridges : Chain(designated_root[s], root_path_cost[s], s)
FramesChained ==
    \A s \in Bridges : \A i \in PortsOf(s) : \A c \in Under(s, i) : Chain(c[1], c[2], c[3])
Chained == PortsChained /\ FramesChained

BeliefsKept == \A s \in Bridges : NoWorse(designated_root'[s], root_path_cost'[s],
                                          designated_root[s], root_path_cost[s])

(* A path has no more switches than there are. *)
LEMMA ChainIsShort ==
    ASSUME Network, NEW r, NEW k \in Nat, NEW t, Chain(r, k, t)
    PROVE  k \in 0..Cardinality(Bridges) - 1
<1>1. PICK f : PathTo(f, r, k, t)
  BY DEF Chain
<1>2. IsFiniteSet(Bridges)
  BY DEF Network, StpConstants
<1>3. f \in Injection(0..k, Bridges)
  BY <1>1 DEF PathTo, Injection, IsInjective
<1>4. Cardinality(0..k) <= Cardinality(Bridges)
  BY <1>2, <1>3, FS_Injection
<1>5. Cardinality(0..k) = k + 1
  <2>1. Cardinality(0..k) = IF 0 > k THEN 0 ELSE k - 0 + 1
    BY FS_Interval
  <2>2. QED
    BY <2>1
<1>6. Cardinality(Bridges) \in Nat
  BY <1>2, FS_CardinalityType
<1>7. QED
  BY <1>4, <1>5, <1>6

LEMMA ChainKept ==
    ASSUME Network, Shaped, Shaped', BeliefsKept, NEW r \in Bridges, NEW k \in Nat, NEW t,
           Chain(r, k, t)
    PROVE  Chain(r, k, t)'
<1>1. PICK f : PathTo(f, r, k, t)
  BY DEF Chain
<1>2. ASSUME NEW i \in 0..k
      PROVE  Believes(f[i], r, i)'
  <2>1. f[i] \in Bridges /\ Believes(f[i], r, i)
    BY <1>1 DEF PathTo
  <2>2. NoWorse(designated_root'[f[i]], root_path_cost'[f[i]],
                designated_root[f[i]], root_path_cost[f[i]])
    BY <2>1 DEF BeliefsKept
  <2>3. /\ designated_root'[f[i]] \in Nat /\ designated_root[f[i]] \in Nat /\ r \in Nat
        /\ root_path_cost'[f[i]] \in Nat /\ root_path_cost[f[i]] \in Nat
    BY <2>1 DEF Shaped, Network, StpConstants
  <2>4. QED
    BY <2>1, <2>2, <2>3 DEF Believes, NoWorse
<1>3. PathTo(f, r, k, t)'
  BY <1>1, <1>2 DEF PathTo
<1>4. QED
  BY <1>3 DEF Chain

(* What a switch believes stands at the end of a path too: the one of its   *)
(* root port, and itself.                                                   *)
LEMMA BeliefChain ==
    ASSUME Network, LinkInv, PortsChained, NEW s \in Bridges
    PROVE  Chain(designated_root[s], root_path_cost[s], s)
<1>1. /\ Coherent(s) /\ Sourced(s) /\ root_port[s] \in {0} \cup PortsOf(s)
      /\ Bridges \subseteq Nat /\ designated_root[s] \in Nat /\ root_path_cost[s] \in Nat
  BY DEF LinkInv, Shaped, Network, StpConstants
<1>2. CASE root_port[s] = 0
  <2> DEFINE f == [i \in 0..0 |-> s]
  <2>1. designated_root[s] = s /\ root_path_cost[s] = 0 /\ 0..0 = {0}
    BY <1>1, <1>2 DEF Coherent
  <2>2. PathTo(f, s, 0, s)
    BY <1>1, <2>1 DEF PathTo, Believes, NoWorse
  <2>3. QED
    BY <2>1, <2>2 DEF Chain
<1>3. CASE root_port[s] # 0
  <2> DEFINE p == root_port[s]
             d == designated[s][p]
  <2>1. /\ p \in PortsOf(s) /\ ~Gives(s, p) /\ d \in Configs
        /\ designated_root[s] = d[1] /\ root_path_cost[s] = d[2] + 1
    BY <1>1, <1>3 DEF Coherent, LinkInv, Shaped
  <2>2. d[3] # s /\ d[1] \in Nat /\ d[2] \in Nat
    BY <1>1, <2>1, PeerType DEF Sourced, ToldBy, Configs
  <2>3. PICK f : PathTo(f, d[1], d[2], d[3])
    BY <2>1 DEF PortsChained, Chain
  <2> HIDE DEF d, p
  <2> DEFINE k == d[2]
             g == [i \in 0..k + 1 |-> IF i = k + 1 THEN s ELSE f[i]]
  <2>4. ASSUME NEW i \in 0..k
        PROVE  f[i] # s /\ f[i] \in Bridges
    <3>1. f[i] \in Bridges /\ Believes(f[i], d[1], i)
      BY <2>3 DEF PathTo
    <3>2. ~Believes(s, d[1], i)
      BY <2>1, <2>2 DEF Believes, NoWorse
    <3>3. QED
      BY <3>1, <3>2
  <2>5. \A i \in 0..k + 1 : i \in 0..k \/ i = k + 1
    BY <2>2
  <2>6. /\ g[k + 1] = s /\ \A i \in 0..k : i \in 0..k + 1 /\ g[i] = f[i] /\ i # k + 1
        /\ k + 1 \in 0..k + 1
    BY <2>2
  <2>7. g \in [0..k + 1 -> Bridges]
    BY <2>4, <2>5
  <2> HIDE DEF g
  <2>8. ASSUME NEW i \in 0..k + 1, NEW j \in 0..k + 1, g[i] = g[j]
        PROVE  i = j
    <3>1. CASE i \in 0..k /\ j \in 0..k
      BY <2>3, <2>6, <2>8, <3>1 DEF PathTo
    <3>2. CASE i = k + 1
      BY <2>4, <2>5, <2>6, <2>8, <3>2
    <3>3. CASE j = k + 1
      BY <2>4, <2>5, <2>6, <2>8, <3>3
    <3>4. QED
      BY <2>5, <3>1, <3>2, <3>3
  <2>9. ASSUME NEW i \in 0..k + 1
        PROVE  Believes(g[i], d[1], i)
    <3>1. CASE i \in 0..k
      BY <2>3, <2>6, <3>1 DEF PathTo
    <3>2. CASE i = k + 1
      BY <2>1, <2>2, <2>6, <3>2 DEF Believes, NoWorse
    <3>3. QED
      BY <2>5, <3>1, <3>2
  <2>10. PathTo(g, d[1], k + 1, s)
    BY <2>6, <2>7, <2>8, <2>9 DEF PathTo
  <2>11. QED
    BY <2>1, <2>10 DEF Chain
<1>4. QED
  BY <1>2, <1>3

LEMMA BeliefsNext ==
    ASSUME Network
    PROVE  LinkInv' /\ PortsChained' => BeliefsChained'
<1>1. LinkInv /\ PortsChained => BeliefsChained
  BY BeliefChain DEF BeliefsChained
<1>2. QED
  BY <1>1, PTL

(* With up to two ports at each switch no step makes a belief worse. *)
LEMMA BeliefStep ==
    ASSUME Network, AtMost(2), LinkInv, StpNext
    PROVE  BeliefsKept
<1>1. AtMost(3)
  BY PeerType DEF AtMost
<1>2. PICK s \in Bridges : StepOf(s) /\ (HelloTimeout(s)
         \/ \E i \in PortsOf(s) : Handle(s, i) \/ Ignore(s, i) \/ Lose(s, i))
  BY <1>1, EachStep
<1>3. \A t \in Bridges : designated_root[t] \in Nat /\ root_path_cost[t] \in Nat
  BY DEF LinkInv, Shaped, Network, StpConstants
<1>4. NoWorse(designated_root'[s], root_path_cost'[s], designated_root[s], root_path_cost[s])
  <2>1. CASE \E i \in PortsOf(s) : Handle(s, i)
    <3>1. Shaped /\ Coherent(s) /\ Sourced(s) /\ Len(Peer[s]) <= 2
      BY DEF LinkInv, AtMost
    <3>2. QED
      BY <1>1, <2>1, <3>1, Updated
  <2>2. CASE \/ HelloTimeout(s)
             \/ \E i \in PortsOf(s) : Ignore(s, i) \/ Lose(s, i)
    <3>1. UNCHANGED <<designated_root, root_path_cost>>
      BY <2>2 DEF HelloTimeout, Ignore, Lose
    <3>2. QED
      BY <1>3, <3>1 DEF NoWorse
  <2>3. QED
    BY <1>2, <2>1, <2>2
<1>5. ASSUME NEW t \in Bridges \ {s}
      PROVE  NoWorse(designated_root'[t], root_path_cost'[t], designated_root[t], root_path_cost[t])
  BY <1>2, <1>3 DEF StepOf, NoWorse
<1>6. QED
  BY <1>4, <1>5 DEF BeliefsKept

LEMMA ChainedStep ==
    ASSUME Network, AtMost(2), LinkInv, Chained, StpNext
    PROVE  Chained'
<1>1. AtMost(3)
  BY PeerType DEF AtMost
<1>2. PICK s \in Bridges : StepOf(s)
  BY <1>1, EachStep
<1>3. BeliefsKept /\ Shaped /\ LinkInv' /\ Shaped'
  BY <1>1, BeliefStep, LinkInvStep DEF LinkInv
<1>4. ASSUME NEW c \in Configs, Chain(c[1], c[2], c[3])
      PROVE  Chain(c[1], c[2], c[3])'
  BY <1>3, <1>4, ChainKept DEF Configs
<1>5. ASSUME NEW t \in Bridges, NEW i \in PortsOf(t), ~Gives(t, i)'
      PROVE  Chain(designated[t][i][1], designated[t][i][2], designated[t][i][3])'
  <2>1. Improved(t) /\ designated[t][i] \in Configs /\ Under(t, i) \subseteq Configs
    BY <1>2, <1>3, EveryoneImproves, PortType
  <2>2. \/ ~Gives(t, i) /\ designated'[t][i] = designated[t][i]
        \/ designated'[t][i] \in Under(t, i)
    BY <1>5, <2>1 DEF Improved
  <2>3. /\ designated'[t][i] \in Configs
        /\ Chain(designated'[t][i][1], designated'[t][i][2], designated'[t][i][3])
    BY <2>1, <2>2 DEF Chained, PortsChained, FramesChained
  <2>4. QED
    BY <1>4, <2>3
<1>6. ASSUME NEW t \in Bridges
      PROVE  Chain(designated_root[t], root_path_cost[t], t)'
  <2>1. PortsChained'
    BY <1>5 DEF PortsChained
  <2>2. BeliefsChained'
    BY <1>3, <2>1, BeliefsNext
  <2>3. QED
    BY <2>2 DEF BeliefsChained
<1>7. ASSUME NEW t \in Bridges, NEW i \in PortsOf(t), NEW c \in Under(t, i)'
      PROVE  Chain(c[1], c[2], c[3])'
  <2>1. CASE c \in Under(t, i)
    BY <1>3, <1>4, <2>1, PortType DEF Chained, FramesChained
  <2>2. CASE Spoken(c, Peer[t][i])'
    <3> DEFINE p == Peer[t][i]
    <3>1. p[1] \in Bridges /\ p[2] \in PortsOf(p[1]) /\ Coherent(p[1])'
      BY <1>2, EveryoneImproves, PeerType
    <3>2. c = <<designated_root'[p[1]], root_path_cost'[p[1]], p[1], p[2]>>
      BY <2>2, <3>1 DEF Spoken, Coherent
    <3>3. QED
      BY <1>6, <3>1, <3>2
  <2>3. QED
    BY <1>2, <2>1, <2>2 DEF StepOf, Heard
<1>8. QED
  BY <1>5, <1>7 DEF Chained, PortsChained, FramesChained

LEMMA InitChained ==
    ASSUME Network, StpInit
    PROVE  Chained
BY InitLinkInv DEF Chained, PortsChained, FramesChained

LEMMA RestingChains ==
    ASSUME LinkInv, Chained, UNCHANGED stpVars
    PROVE  Chained'
<1>1. UNCHANGED <<designated, designated_root, root_path_cost, bpdus>>
  BY DEF stpVars
<1>2. \A r, k, t : Chain(r, k, t)' <=> Chain(r, k, t)
  BY <1>1 DEF Chain, PathTo, Believes
<1>3. \A s, i : (Gives(s, i)' <=> Gives(s, i)) /\ Under(s, i)' = Under(s, i)
  BY <1>1 DEF Gives, Under
<1>4. PortsChained'
  BY <1>1, <1>2, <1>3 DEF Chained, PortsChained
<1>5. FramesChained'
  BY <1>2, <1>3 DEF Chained, FramesChained
<1>6. QED
  BY <1>4, <1>5 DEF Chained

(* Nobody believes in a path that the network does not have room for, and   *)
(* nobody tells of one (stp.c:143-171, 211-245).                            *)
THEOREM ChainsInductive ==
    ASSUME StpConstants, NoLoops, AtMost(2)
    PROVE  StpSpec => [](LinkInv /\ Chained)
<1>1. Network /\ AtMost(3)
  BY PeerType DEF Network, AtMost
<1>2. StpInit => LinkInv /\ Chained
  BY <1>1, InitLinkInv, InitChained
<1>3. LinkInv /\ Chained /\ [StpNext]_stpVars => LinkInv' /\ Chained'
  BY <1>1, LinkInvStep, ChainedStep, RestingChains
<1>4. QED
  BY <1>2, <1>3, PTL DEF StpSpec

LEMMA CostsFit ==
    ASSUME Network, LinkInv, Chained
    PROVE  StpTypes
<1> DEFINE Costs == 0..Cardinality(Bridges) - 1
<1>1. Config = Bridges \X Costs \X Bridges \X Nat
  BY DEF Config
<1>2. ASSUME NEW c \in Configs, Chain(c[1], c[2], c[3])
      PROVE  c \in Config
  <2>1. c[2] \in Costs
    BY <1>2, ChainIsShort DEF Configs
  <2> HIDE DEF Costs
  <2>2. QED
    BY <1>1, <2>1 DEF Configs
<1>3. ASSUME NEW s \in Bridges
      PROVE  root_path_cost[s] \in Costs /\ Chain(designated_root[s], root_path_cost[s], s)
  <2>1. Chain(designated_root[s], root_path_cost[s], s) /\ root_path_cost[s] \in Nat
    BY BeliefChain DEF Chained, LinkInv, Shaped
  <2>2. QED
    BY <2>1, ChainIsShort
<1> HIDE DEF Costs
<1>4. ASSUME NEW s \in Bridges
      PROVE  /\ designated[s] \in [PortsOf(s) -> Config]
             /\ bpdus[s] \in [PortsOf(s) -> Seq(Config)]
             /\ root_port[s] \in {0} \cup PortsOf(s)
  <2>1. /\ designated[s] \in [PortsOf(s) -> Configs] /\ bpdus[s] \in [PortsOf(s) -> Seq(Configs)]
        /\ root_port[s] \in {0} \cup PortsOf(s) /\ Coherent(s)
    BY DEF LinkInv, Shaped, Queues
  <2>2. ASSUME NEW i \in PortsOf(s)
        PROVE  designated[s][i] \in Config
    <3>1. CASE Gives(s, i)
      <4>1. designated[s][i] = <<designated_root[s], root_path_cost[s], s, i>>
        BY <2>1, <3>1 DEF Coherent
      <4>2. QED
        BY <1>2, <1>3, <2>1, <4>1
    <3>2. CASE ~Gives(s, i)
      BY <1>2, <2>1, <3>2 DEF Chained, PortsChained
    <3>3. QED
      BY <3>1, <3>2
  <2>3. ASSUME NEW i \in PortsOf(s)
        PROVE  bpdus[s][i] \in Seq(Config)
    <3> DEFINE q == bpdus[s][i]
    <3>1. q \in Seq(Configs) /\ Len(q) \in Nat /\ DOMAIN q = 1..Len(q)
      BY <2>1, LenProperties
    <3>2. \A n \in 1..Len(q) : q[n] \in Config
      BY <1>2, <3>1, ElementOfSeq DEF Chained, FramesChained, Under, Items
    <3> HIDE DEF q
    <3>3. q \in [1..Len(q) -> Config]
      BY <3>1, <3>2, LenProperties
    <3>4. QED
      BY <3>1, <3>3, SeqDef DEF q
  <2>4. QED
    BY <2>1, <2>2, <2>3
<1>5. /\ designated_root \in [Bridges -> Bridges] /\ root_path_cost \in [Bridges -> Costs]
      /\ hello_timer \in [Bridges -> BOOLEAN] /\ lost \in 0..MaxLost
  BY <1>3 DEF LinkInv, Shaped
<1>6. QED
  BY <1>1, <1>4, <1>5 DEF StpTypes, PortsOf, Costs

(* In every network whose switches have up to two ports, lines and rings of *)
(* any length, no cost exceeds the longest simple path and no link is ever  *)
(* without a designated end.                                                *)
THEOREM SpanningTreeSafe ==
    ASSUME StpConstants, NoLoops, AtMost(2)
    PROVE  StpSpec => []StpInv
<1>1. Network
  BY DEF Network
<1>2. LinkInv /\ Chained => StpInv
  BY <1>1, CostsFit, LinksHaveDesignated DEF StpInv
<1>3. QED
  BY <1>2, ChainsInductive, PTL

(* There, what a switch believes never gets worse, although it picks its    *)
(* root port anew whenever any port has changed (stp.c:211-245).            *)
THEOREM NeverBelievesWorse ==
    ASSUME StpConstants, NoLoops, AtMost(2)
    PROVE  StpSpec => BeliefsOnlyImprove
<1>1. Network /\ AtMost(3)
  BY PeerType DEF Network, AtMost
<1>2. LinkInv /\ [StpNext]_stpVars =>
         [\A s \in Bridges : \/ designated_root'[s] < designated_root[s]
                             \/ /\ designated_root'[s] = designated_root[s]
                                /\ root_path_cost'[s] <= root_path_cost[s]]_stpVars
  BY <1>1, BeliefStep DEF BeliefsKept, NoWorse
<1>3. StpSpec => []LinkInv
  BY <1>1, LinksInductive DEF Network
<1>4. QED
  BY <1>2, <1>3, PTL DEF StpSpec, BeliefsOnlyImprove
=============================================================================
