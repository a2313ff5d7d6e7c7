--------------------------- MODULE TcpConnProofs ----------------------------
(***************************************************************************)
(* Proofs about TcpConn for every number of segments, of retransmissions   *)
(* and of packets under way, and every backlog.                            *)
(***************************************************************************)
EXTENDS TcpConn, SequenceTheorems, WellFoundedInduction, TLAPS

(* < is well-founded on the naturals. *)
LEMMA LeastOfNats ==
    ASSUME NEW S \in SUBSET Nat, S # {}
    PROVE  \E x \in S : \A y \in S : x <= y
<1>1. PICK x \in S : \A y \in S : <<y, x>> \notin OpToRel(<, Nat)
  BY NatLessThanWellFounded, WFMin
<1>2. \A y \in S : y < x => <<y, x>> \in OpToRel(<, Nat)
  BY DEF OpToRel
<1>3. \A y \in S : ~(y < x)
  BY <1>1, <1>2, Zenon
<1>4. QED
  BY <1>3

(* A bounded set of naturals has a greatest element. *)
LEMMA GreatestOfBounded ==
    ASSUME NEW S \in SUBSET Nat, S # {}, NEW b \in Nat, \A x \in S : x <= b
    PROVE  \E m \in S : \A a \in S : a <= m
<1> DEFINE Gaps == {b - x : x \in S}
<1>1. Gaps \in SUBSET Nat /\ Gaps # {} /\ \A a \in S : b - a \in Gaps
  <2>1. \A x \in S : x \in Nat /\ b - x \in Nat
    OBVIOUS
  <2>2. QED
    BY <2>1
<1>2. PICK g \in Gaps : \A y \in Gaps : g <= y
  BY <1>1, LeastOfNats
<1>3. PICK m \in S : g = b - m
  BY <1>2
<1>4. \A a \in S : a <= m
  BY <1>1, <1>2, <1>3
<1>5. QED
  BY <1>4
-----------------------------------------------------------------------------
(* What is under way to e or in the hands of its handler. *)
Towards(e) == ToldTo(e) \cup {cur[e]}
(* All copies of packets that e has made. *)
Made(e) == Towards(Other(e)) \cup send_buf[e]

(* TypeOK without the bounds on sequence numbers and the backlog, which     *)
(* need more.                                                               *)
AnyPacket == [type : PacketTypes, seq : Nat, ack : Nat, seg : 0..D]
Entry == [seq : Nat, seg : 1..D]
ClientApp == {"connect", "syn_sent", "connecting", "write", "draining", "close",
              "last_ack", "fin", "done"}
ServerApp == {"accept", "read", "close", "last_ack", "fin", "done"}
SockTypes ==
    /\ state \in [Ends -> States]
    /\ snd_nxt \in [Ends -> Nat] /\ rcv_nxt \in [Ends -> Nat]
    /\ send_buf \in [Ends -> SUBSET AnyPacket]
    /\ retrans_time \in [Ends -> NoTimer..MaxRetrans]
    /\ hashed \in [Ends -> BOOLEAN] /\ crashed \in [Ends -> BOOLEAN]
PassiveTypes ==
    /\ listener \in {"LISTEN", "SYN_RECV", "CLOSED"}
    /\ queued \in BOOLEAN /\ accept_backlog \in 0..Backlog
    /\ queued => accept_backlog >= 1
DataTypes ==
    /\ rcv_ofo_buf \in Seq(Entry) /\ Len(rcv_ofo_buf) <= MaxOfo
    /\ ring \in Seq(1..D) /\ got \in Seq(1..D) /\ written \in 0..D
ThreadTypes ==
    /\ wait_connect \in {"quiet", "notified", "dead"}
    /\ wait_send \in {"quiet", "notified", "dead"}
    /\ app \in [Ends -> ClientApp \cup ServerApp]
    /\ app["client"] \in ClientApp /\ app["server"] \in ServerApp
    /\ handler \in [Ends -> {"idle", "est", "closing"}] /\ cur \in [Ends -> AnyPacket]
WireTypes ==
    /\ net \in [Ends -> Seq(AnyPacket)] /\ \A e \in Ends : Len(net[e]) <= NetMax
    /\ acked \in [Ends -> Nat]
Types == SockTypes /\ PassiveTypes /\ DataTypes /\ ThreadTypes /\ WireTypes

(* Before the first SYN the server has no connection, and before connect    *)
(* or accept is done an end has no open one.                                *)
Beginning(e) == app[e] \in {"connect", "syn_sent", "accept"}
Unused ==
    listener = "LISTEN" =>
        /\ app["server"] = "accept" /\ state["server"] = "CLOSED" /\ ~queued
        /\ snd_nxt["server"] = 0 /\ acked["server"] = 0 /\ rcv_nxt["server"] = 0
Starts ==
    /\ state["server"] # "SYN_SENT" /\ state["client"] # "SYN_RECV"
    /\ \A e \in Ends : Beginning(e) => state[e] \in {"CLOSED", "SYN_RECV"}
    /\ Beginning("client") \/ state["client"] = "SYN_SENT" =>
           wait_connect = "quiet" /\ written = 0
    /\ state["client"] = "SYN_SENT" => app["client"] = "connecting"
    /\ state["server"] = "SYN_RECV" => app["server"] = "accept"
    /\ \A e \in Ends : app[e] = "fin" => state[e] # "CLOSE_WAIT"

(* What is under way from e has been sent and acknowledges what e has; only *)
(* packets with a sequence number of their own are buffered.                *)
Reliable(p) == p.ack = 0 /\ p.type # "ACK"
Numbers ==
    \A e \in Ends :
        /\ \A p \in Made(e) : SeqEnd(p) <= snd_nxt[e]
        /\ \A p \in Towards(Other(e)) : /\ HasAck(p) => p.ack <= acked[e]
                                        /\ p.ack <= snd_nxt[Other(e)]
        /\ \A p \in send_buf[e] : Reliable(p)
        /\ acked[e] <= snd_nxt[Other(e)] /\ rcv_nxt[e] <= snd_nxt[Other(e)]

(* How many FINs e may have sent: none before it closes, a second one when  *)
(* a RST comes while the thread is in tcp_sock_close.                       *)
MaxFins(e) ==
    IF Beginning(e) \/ app[e] = "fin" \/ state[e] \in {"SYN_SENT", "SYN_RECV", "ESTABLISHED"}
    THEN 0
    ELSE IF state[e] = "CLOSE_WAIT" THEN (IF app[e] = "last_ack" THEN 1 ELSE 0) ELSE 2
Counted ==
    /\ snd_nxt["client"] <= (IF app["client"] = "connect" THEN 0 ELSE 1)
                            + written + MaxFins("client")
    /\ snd_nxt["server"] <= (IF listener = "LISTEN" THEN 0 ELSE 1) + MaxFins("server")

(* An end of whose FIN there is any trace has closed for good.              *)
Open == {"SYN_SENT", "SYN_RECV", "ESTABLISHED"}
Closed(e) == state[e] \notin Open /\ ~Beginning(e)
FinTrace(e) ==
    \/ \E p \in Made(e) : p.type = "FIN"
    \/ state[Other(e)] \in {"CLOSE_WAIT", "LAST_ACK", "TIME_WAIT"}
    \/ app[Other(e)] = "last_ack"
    \/ app[e] = "fin"
FinMeansClosed == \A e \in Ends : FinTrace(e) => Closed(e)

(* Data flows one way; a later segment has a higher sequence number.        *)
DataSent == {p \in Made("client") : p.type = "DATA"}
Held == {rcv_ofo_buf[i] : i \in 1..Len(rcv_ofo_buf)}
Traces == DataSent \cup Held
OneWay ==
    /\ \A p \in Made("client") : p.type # "SYNACK"
    /\ \A p \in Made("server") : p.type # "DATA"
    /\ \A x \in Traces : x.seg \in 1..written /\ x.seq < snd_nxt["client"]
    /\ \A x, y \in Traces : x.seq < y.seq => x.seg < y.seg

(* What is stored precedes what may be stored later.                        *)
Stored == got \o ring
Accepting == app["server"] = "accept" \/ state["server"] = "ESTABLISHED"
StoredInOrder ==
    /\ \A i \in 1..Len(Stored) : Stored[i] <= written
    /\ \A i, j \in 1..Len(Stored) : i < j => Stored[i] < Stored[j]
    /\ app["server"] = "accept" => Stored = <<>> /\ rcv_ofo_buf = <<>>
    /\ state["server"] = "ESTABLISHED" =>
           \A x \in Traces : x.seq >= rcv_nxt["server"] =>
               \A i \in 1..Len(Stored) : Stored[i] < x.seg

(* The ACK of the handshake, which sets rcv_nxt whatever it was, is ahead   *)
(* of all data.                                                             *)
HandshakeFirst ==
    Accepting =>
        /\ cur["server"].type = "ACK" => Stored = <<>>
        /\ \A i \in 1..Len(net["server"]) : net["server"][i].type = "ACK" =>
               /\ Stored = <<>> /\ cur["server"].type # "DATA"
               /\ \A j \in 1..i - 1 : net["server"][j].type # "DATA"

IInv == /\ Types /\ Unused /\ Starts /\ Numbers /\ Counted /\ FinMeansClosed
        /\ OneWay /\ StoredInOrder /\ HandshakeFirst /\ UnackedIsKept
-----------------------------------------------------------------------------
LEMMA TheEnds ==
    /\ "client" \in Ends /\ "server" \in Ends
    /\ Other("client") = "server" /\ Other("server") = "client"
    /\ \A e \in Ends : /\ Other(e) \in Ends /\ Other(e) # e /\ Other(Other(e)) = e
                       /\ e = "client" \/ e = "server"
                       /\ \A f \in Ends : f = e \/ f = Other(e)
BY DEF Ends, Other

(* What Transmit puts on the wire, and what it says is acknowledged.        *)
Appended(q, new, ps) ==
    \A i \in 1..Len(new) :
        \/ i <= Len(q) /\ new[i] = q[i]
        \/ i > Len(q) /\ \E k \in 1..Len(ps) : new[i] = ps[k]

LEMMA TransmitEffect ==
    ASSUME Types, Numbers, NEW e \in Ends,
           NEW ps \in Seq(AnyPacket), NEW in \in Seq(AnyPacket), Len(in) <= NetMax,
           \A i \in 1..Len(ps) : ps[i].ack <= snd_nxt[Other(e)],
           Transmit(e, ps, in)
    PROVE  /\ WireTypes'
           /\ net'[e] = in /\ acked'[Other(e)] = acked[Other(e)]
           /\ acked[e] <= acked'[e] /\ acked'[e] <= snd_nxt[Other(e)]
           /\ \A i \in 1..Len(ps) : HasAck(ps[i]) => ps[i].ack <= acked'[e]
           /\ Appended(net[Other(e)], net'[Other(e)], ps)
<1> DEFINE o == Other(e)
           all == net[o] \o ps
           m == IF Len(all) < NetMax THEN Len(all) ELSE NetMax
           acks == {ps[i].ack : i \in {k \in DOMAIN ps : HasAck(ps[k])}} \cup {acked[e]}
           top == CHOOSE x \in acks : \A a \in acks : a <= x
<1>1. o \in Ends /\ o # e /\ \A f \in Ends : f = e \/ f = o
  BY TheEnds
<1>2. net \in [Ends -> Seq(AnyPacket)] /\ acked \in [Ends -> Nat] /\ snd_nxt \in [Ends -> Nat]
  BY DEF Types, WireTypes, SockTypes
<1>3. /\ all \in Seq(AnyPacket) /\ Len(all) = Len(net[o]) + Len(ps)
      /\ \A i \in 1..Len(net[o]) + Len(ps) :
             all[i] = IF i <= Len(net[o]) THEN net[o][i] ELSE ps[i - Len(net[o])]
  BY <1>1, <1>2, ConcatProperties
<1>4. m \in Nat /\ m <= NetMax /\ m <= Len(all)
  BY <1>3, ConstantsAssumption
<1>5. \A i \in 1..m : all[i] \in AnyPacket
  BY <1>3, <1>4
<1> HIDE DEF all, m, o
<1>6. /\ SubSeq(all, 1, m) \in Seq(AnyPacket) /\ Len(SubSeq(all, 1, m)) = m
      /\ \A i \in 1..m : SubSeq(all, 1, m)[i] = all[i]
  BY <1>4, <1>5, SubSeqProperties
<1>7. net' = [net EXCEPT ![e] = in, ![o] = SubSeq(all, 1, m)]
  BY DEF Transmit, all, m, o
<1>8. net'[e] = in /\ net'[o] = SubSeq(all, 1, m) /\ net' \in [Ends -> Seq(AnyPacket)]
  BY <1>1, <1>2, <1>6, <1>7
<1>9. \A f \in Ends : Len(net'[f]) <= NetMax
  BY <1>1, <1>4, <1>6, <1>8
<1>10. Appended(net[o], net'[o], ps)
  <2> SUFFICES ASSUME NEW i \in 1..m
               PROVE  \/ i <= Len(net[o]) /\ all[i] = net[o][i]
                      \/ i > Len(net[o]) /\ \E k \in 1..Len(ps) : all[i] = ps[k]
    BY <1>6, <1>8 DEF Appended
  <2>1. i \in 1..Len(net[o]) + Len(ps) /\ Len(net[o]) \in Nat /\ Len(ps) \in Nat
    BY <1>1, <1>2, <1>3, <1>4
  <2>2. CASE i <= Len(net[o])
    BY <1>3, <2>1, <2>2
  <2>3. CASE i > Len(net[o])
    <3>1. i - Len(net[o]) \in 1..Len(ps) /\ all[i] = ps[i - Len(net[o])]
      BY <1>3, <2>1, <2>3
    <3>2. QED
      BY <2>3, <3>1
  <2>4. QED
    BY <2>1, <2>2, <2>3
<1>11. \A i \in 1..Len(ps) : ps[i].ack \in Nat
  <2>1. \A i \in 1..Len(ps) : ps[i] \in AnyPacket
    BY ElementOfSeq
  <2>2. QED
    BY <2>1 DEF AnyPacket
<1>12. acks \in SUBSET Nat /\ acks # {} /\ \A a \in acks : a <= snd_nxt[o]
  <2>1. acked[e] <= snd_nxt[o]
    BY DEF Numbers, o
  <2>2. \A i \in {k \in DOMAIN ps : HasAck(ps[k])} : ps[i].ack \in Nat /\ ps[i].ack <= snd_nxt[o]
    BY <1>11 DEF o
  <2>3. QED
    BY <1>2, <2>1, <2>2
<1>13. \E x \in acks : \A a \in acks : a <= x
  <2> HIDE DEF acks
  <2> QED
    BY <1>1, <1>2, <1>12, GreatestOfBounded
<1>14. top \in acks /\ \A a \in acks : a <= top
  <2> HIDE DEF acks
  <2> QED
    BY <1>13
<1>15. acked' = [acked EXCEPT ![e] = top]
  BY DEF Transmit
<1> HIDE DEF top
<1>16. acked'[e] = top /\ acked'[o] = acked[o] /\ acked' \in [Ends -> Nat]
  BY <1>1, <1>2, <1>12, <1>14, <1>15
<1>17. \A i \in 1..Len(ps) : HasAck(ps[i]) => ps[i].ack <= top
  BY <1>14
<1>18. QED
  BY <1>8, <1>9, <1>10, <1>12, <1>14, <1>16, <1>17 DEF WireTypes, o
-----------------------------------------------------------------------------
(* A handler that is idle needs a packet to begin.                          *)
Ready(e) == handler[e] = "idle" => net[e] # <<>>

LEMMA Received ==
    ASSUME Types, NEW e \in Ends, Ready(e)
    PROVE  /\ Packet(e) \in AnyPacket /\ Packet(e) \in Towards(e)
           /\ Rest(e) \in Seq(AnyPacket) /\ Len(Rest(e)) <= NetMax
           /\ handler[e] = "idle" =>
                  /\ Len(net[e]) \in Nat /\ Len(net[e]) >= 1 /\ Packet(e) = net[e][1]
                  /\ Len(Rest(e)) = Len(net[e]) - 1
                  /\ \A i \in 1..Len(Rest(e)) : Rest(e)[i] = net[e][i + 1]
           /\ handler[e] # "idle" => Packet(e) = cur[e] /\ Rest(e) = net[e]
<1>1. net[e] \in Seq(AnyPacket) /\ Len(net[e]) <= NetMax /\ Len(net[e]) \in Nat
  BY DEF Types, WireTypes
<1>2. cur[e] \in AnyPacket
  BY DEF Types, ThreadTypes
<1>3. CASE handler[e] = "idle"
  <2>1. net[e] # <<>>
    BY <1>3 DEF Ready
  <2>2. /\ Head(net[e]) \in AnyPacket /\ Tail(net[e]) \in Seq(AnyPacket)
        /\ Len(Tail(net[e])) = Len(net[e]) - 1
        /\ \A i \in 1..Len(Tail(net[e])) : Tail(net[e])[i] = net[e][i + 1]
    BY <1>1, <2>1, HeadTailProperties
  <2>3. Len(net[e]) >= 1 /\ Head(net[e]) = net[e][1]
    BY <1>1, <2>1, EmptySeq
  <2>4. Packet(e) = Head(net[e]) /\ Rest(e) = Tail(net[e])
    BY <1>3 DEF Packet, Rest
  <2>5. net[e][1] \in ToldTo(e)
    BY <1>1, <2>3 DEF ToldTo
  <2>6. Len(Rest(e)) <= NetMax
    BY <1>1, <2>2, <2>4, ConstantsAssumption
  <2>7. QED
    BY <1>1, <1>3, <2>2, <2>3, <2>4, <2>5, <2>6 DEF Towards
<1>4. CASE handler[e] # "idle"
  BY <1>1, <1>2, <1>4 DEF Packet, Rest, Towards
<1>5. QED
  BY <1>3, <1>4

(* e is the only end whose socket changes; it may lose or take packets, and *)
(* send packets N.                                                          *)
Inputs(e) ==
    \/ net'[e] = net[e] /\ cur'[e] = cur[e]
    \/ Ready(e) /\ net'[e] = Rest(e) /\ cur'[e] \in {Packet(e), NoPacket, cur[e]}
Flow(e, N) ==
    /\ Towards(e)' \subseteq Towards(e) \cup {NoPacket}
    /\ Towards(Other(e))' \subseteq Towards(Other(e)) \cup N
Local(e) ==
    LET o == Other(e) IN
    /\ state'[o] = state[o] /\ snd_nxt'[o] = snd_nxt[o] /\ rcv_nxt'[o] = rcv_nxt[o]
    /\ send_buf'[o] = send_buf[o] /\ acked'[o] = acked[o] /\ app'[o] = app[o]

LEMMA InputsFlow ==
    ASSUME Types, NEW e \in Ends, Inputs(e)
    PROVE  Towards(e)' \subseteq Towards(e) \cup {NoPacket}
<1>1. CASE net'[e] = net[e] /\ cur'[e] = cur[e]
  BY <1>1 DEF Towards, ToldTo
<1>2. CASE Ready(e) /\ net'[e] = Rest(e) /\ cur'[e] \in {Packet(e), NoPacket, cur[e]}
  <2>1. Packet(e) \in Towards(e) /\ Rest(e) \in Seq(AnyPacket)
    BY <1>2, Received
  <2>2. net[e] \in Seq(AnyPacket) /\ Len(net[e]) \in Nat
    BY DEF Types, WireTypes
  <2>3. ASSUME NEW i \in 1..Len(Rest(e)) PROVE Rest(e)[i] \in ToldTo(e)
    <3>1. CASE handler[e] = "idle"
      <4>1. Len(net[e]) >= 1 /\ Len(Rest(e)) = Len(net[e]) - 1 /\ Rest(e)[i] = net[e][i + 1]
        BY <1>2, <3>1, Received
      <4>2. i + 1 \in DOMAIN net[e]
        BY <2>2, <4>1
      <4>3. QED
        BY <4>1, <4>2 DEF ToldTo
    <3>2. CASE handler[e] # "idle"
      BY <1>2, <2>2, <3>2, Received DEF ToldTo
    <3>3. QED
      BY <3>1, <3>2
  <2>4. ToldTo(e)' \subseteq ToldTo(e)
    BY <1>2, <2>1, <2>3 DEF ToldTo
  <2>5. QED
    BY <1>2, <2>1, <2>4 DEF Towards
<1>3. QED
  BY <1>1, <1>2 DEF Inputs

LEMMA AppendedFlow ==
    ASSUME Types, NEW e \in Ends, NEW ps \in Seq(AnyPacket), Inputs(e),
           WireTypes', Appended(net[Other(e)], net'[Other(e)], ps),
           cur'[Other(e)] = cur[Other(e)]
    PROVE  Flow(e, {ps[k] : k \in 1..Len(ps)})
<1> DEFINE o == Other(e)
<1>1. o \in Ends
  BY TheEnds
<1>2. net[o] \in Seq(AnyPacket) /\ net'[o] \in Seq(AnyPacket) /\ Len(net[o]) \in Nat
  BY <1>1 DEF Types, WireTypes
<1>3. \A i \in DOMAIN net'[o] : net'[o][i] \in ToldTo(o) \cup {ps[k] : k \in 1..Len(ps)}
  <2> SUFFICES ASSUME NEW i \in DOMAIN net'[o]
               PROVE  net'[o][i] \in ToldTo(o) \cup {ps[k] : k \in 1..Len(ps)}
    OBVIOUS
  <2>1. i \in 1..Len(net'[o])
    BY <1>2
  <2>2. CASE i <= Len(net[o]) /\ net'[o][i] = net[o][i]
    <3>1. i \in DOMAIN net[o]
      BY <1>2, <2>1, <2>2
    <3>2. QED
      BY <2>2, <3>1 DEF ToldTo
  <2>3. CASE \E k \in 1..Len(ps) : net'[o][i] = ps[k]
    BY <2>3
  <2>4. QED
    BY <2>1, <2>2, <2>3 DEF Appended
<1>4. ToldTo(o)' \subseteq ToldTo(o) \cup {ps[k] : k \in 1..Len(ps)}
  BY <1>3 DEF ToldTo
<1>5. QED
  BY <1>4, InputsFlow DEF Flow, Towards

LEMMA SilentFlow ==
    ASSUME Types, NEW e \in Ends, Inputs(e),
           net'[Other(e)] = net[Other(e)], cur'[Other(e)] = cur[Other(e)]
    PROVE  Flow(e, {})
BY InputsFlow DEF Flow, Towards, ToldTo

LEMMA PacketTypesOfMade ==
    ASSUME Types
    PROVE  /\ \A e \in Ends : Towards(e) \subseteq AnyPacket /\ Made(e) \subseteq AnyPacket
           /\ NoPacket \in AnyPacket /\ NoPacket.type = "RST" /\ SeqEnd(NoPacket) = 0
           /\ NoPacket.ack = 0 /\ ~HasAck(NoPacket)
<1>1. \A e \in Ends : Towards(e) \subseteq AnyPacket
  <2> SUFFICES ASSUME NEW e \in Ends PROVE Towards(e) \subseteq AnyPacket
    OBVIOUS
  <2>1. net[e] \in Seq(AnyPacket) /\ cur[e] \in AnyPacket
    BY DEF Types, WireTypes, ThreadTypes
  <2>2. \A i \in DOMAIN net[e] : net[e][i] \in AnyPacket
    BY <2>1
  <2>3. QED
    BY <2>1, <2>2 DEF Towards, ToldTo
<1>2. \A e \in Ends : send_buf[e] \subseteq AnyPacket
  BY DEF Types, SockTypes
<1>3. NoPacket \in AnyPacket
  BY ConstantsAssumption DEF NoPacket, AnyPacket, PacketTypes
<1>4. QED
  BY <1>1, <1>2, <1>3, TheEnds DEF Made, NoPacket, SeqEnd, HasAck
-----------------------------------------------------------------------------
(* What each part of the invariant needs of a step of e that sends N.       *)

LEMMA NumbersStep ==
    ASSUME IInv, NEW e \in Ends, NEW N, Local(e), Flow(e, N),
           snd_nxt'[e] \in Nat, snd_nxt[e] <= snd_nxt'[e],
           acked'[e] \in Nat, acked[e] <= acked'[e], acked'[e] <= snd_nxt[Other(e)],
           rcv_nxt'[e] <= snd_nxt[Other(e)],
           \A p \in N : /\ p \in AnyPacket /\ SeqEnd(p) <= snd_nxt'[e]
                        /\ HasAck(p) => p.ack <= acked'[e]
                        /\ p.ack <= snd_nxt[Other(e)],
           \A p \in send_buf'[e] : SeqEnd(p) <= snd_nxt'[e] /\ Reliable(p)
    PROVE  Numbers'
<1> DEFINE o == Other(e)
<1>1. o \in Ends /\ Other(o) = e /\ \A f \in Ends : f = e \/ f = o
  BY TheEnds
<1>2. /\ snd_nxt[e] \in Nat /\ snd_nxt[o] \in Nat /\ acked[e] \in Nat /\ acked[o] \in Nat
      /\ rcv_nxt[o] \in Nat
  BY <1>1 DEF IInv, Types, SockTypes, WireTypes
<1>3. \A p \in AnyPacket : SeqEnd(p) \in Nat /\ p.ack \in Nat
  BY DEF AnyPacket, SeqEnd
<1>4. Towards(o) \subseteq AnyPacket /\ Towards(e) \subseteq AnyPacket
  BY <1>1, PacketTypesOfMade DEF IInv
<1>5. /\ snd_nxt'[o] = snd_nxt[o] /\ rcv_nxt'[o] = rcv_nxt[o] /\ acked'[o] = acked[o]
      /\ send_buf'[o] = send_buf[o]
  BY DEF Local
<1>6. ASSUME NEW p \in Towards(o)'
      PROVE  /\ SeqEnd(p) <= snd_nxt'[e]
             /\ HasAck(p) => p.ack <= acked'[e]
             /\ p.ack <= snd_nxt[o]
  <2>1. CASE p \in N
    BY <2>1
  <2>2. CASE p \in Towards(o)
    <3>1. SeqEnd(p) <= snd_nxt[e] /\ (HasAck(p) => p.ack <= acked[e]) /\ p.ack <= snd_nxt[o]
      BY <2>2 DEF IInv, Numbers, Made
    <3>2. QED
      BY <1>2, <1>3, <1>4, <2>2, <3>1
  <2>3. QED
    BY <2>1, <2>2 DEF Flow
<1>7. ASSUME NEW p \in Towards(e)'
      PROVE  /\ SeqEnd(p) <= snd_nxt[o]
             /\ HasAck(p) => p.ack <= acked[o]
             /\ p.ack <= snd_nxt'[e]
  <2>1. CASE p = NoPacket
    BY <1>2, <2>1, PacketTypesOfMade DEF IInv
  <2>2. CASE p \in Towards(e)
    <3>1. SeqEnd(p) <= snd_nxt[o] /\ (HasAck(p) => p.ack <= acked[o]) /\ p.ack <= snd_nxt[e]
      BY <1>1, <2>2 DEF IInv, Numbers, Made
    <3>2. QED
      BY <1>2, <1>3, <1>4, <2>2, <3>1
  <2>3. QED
    BY <2>1, <2>2 DEF Flow
<1>8. \A p \in send_buf[o] : SeqEnd(p) <= snd_nxt[o] /\ Reliable(p)
  BY <1>1 DEF IInv, Numbers, Made
<1>9. acked[o] <= snd_nxt'[e] /\ rcv_nxt[o] <= snd_nxt'[e]
  <2>1. acked[o] <= snd_nxt[e] /\ rcv_nxt[o] <= snd_nxt[e]
    BY <1>1 DEF IInv, Numbers
  <2>2. QED
    BY <1>2, <2>1
<1>10. ASSUME NEW f \in Ends
       PROVE  /\ \A p \in Made(f)' : SeqEnd(p) <= snd_nxt'[f]
              /\ \A p \in Towards(Other(f))' : /\ HasAck(p) => p.ack <= acked'[f]
                                               /\ p.ack <= snd_nxt'[Other(f)]
              /\ \A p \in send_buf'[f] : Reliable(p)
              /\ acked'[f] <= snd_nxt'[Other(f)] /\ rcv_nxt'[f] <= snd_nxt'[Other(f)]
  <2>1. CASE f = e
    BY <1>5, <1>6, <2>1 DEF Made
  <2>2. CASE f = o
    BY <1>1, <1>5, <1>7, <1>8, <1>9, <2>2 DEF Made
  <2>3. QED
    BY <1>1, <2>1, <2>2
<1>11. QED
  BY <1>10 DEF Numbers, Made

LEMMA UnackedStep ==
    ASSUME IInv, NEW e \in Ends, Local(e), snd_nxt'[e] \in Nat,
           acked'[e] \in Nat, acked[e] <= acked'[e],
           \A s \in 0..(snd_nxt'[e] - 1) :
               (\A b \in send_buf'[e] : b.seq # s) =>
                   \/ acked[Other(e)] > s
                   \/ s < snd_nxt[e] /\ \A b \in send_buf[e] : b.seq # s
    PROVE  UnackedIsKept'
<1> DEFINE o == Other(e)
<1>1. o \in Ends /\ Other(o) = e /\ \A f \in Ends : f = e \/ f = o
  BY TheEnds
<1>2. snd_nxt[e] \in Nat /\ snd_nxt[o] \in Nat /\ acked[e] \in Nat /\ acked[o] \in Nat
  BY <1>1 DEF IInv, Types, SockTypes, WireTypes
<1>3. snd_nxt'[o] = snd_nxt[o] /\ acked'[o] = acked[o] /\ send_buf'[o] = send_buf[o]
  BY DEF Local
<1> SUFFICES ASSUME NEW f \in Ends, NEW s \in 0..(snd_nxt'[f] - 1),
                    \A b \in send_buf'[f] : b.seq # s
             PROVE  acked'[Other(f)] > s
  BY DEF UnackedIsKept
<1>4. CASE f = e
  <2>1. CASE acked[o] > s
    BY <1>3, <1>4, <2>1
  <2>2. CASE s < snd_nxt[e] /\ \A b \in send_buf[e] : b.seq # s
    <3>1. s \in 0..(snd_nxt[e] - 1)
      BY <1>2, <1>4, <2>2
    <3>2. acked[o] > s
      BY <2>2, <3>1 DEF IInv, UnackedIsKept
    <3>3. QED
      BY <1>3, <1>4, <3>2
  <2>3. QED
    BY <1>4, <2>1, <2>2
<1>5. CASE f = o
  <2>1. s \in 0..(snd_nxt[o] - 1)
    BY <1>3, <1>5
  <2>2. \A b \in send_buf[o] : b.seq # s
    BY <1>3, <1>5
  <2>3. acked[e] > s
    BY <1>1, <2>1, <2>2 DEF IInv, UnackedIsKept
  <2>4. QED
    BY <1>1, <1>2, <1>5, <2>1, <2>3
<1>6. QED
  BY <1>1, <1>4, <1>5

LEMMA FinStep ==
    ASSUME IInv, NEW e \in Ends, NEW N, Local(e), Flow(e, N),
           \A p \in N \cup send_buf'[e] :
               p.type = "FIN" => Closed(e)' \/ \E b \in Made(e) : b.type = "FIN",
           Closed(e) => Closed(e)',
           state'[e] \in {"CLOSE_WAIT", "LAST_ACK", "TIME_WAIT"} =>
               \/ state[e] \in {"CLOSE_WAIT", "LAST_ACK", "TIME_WAIT"}
               \/ app[e] = "last_ack" \/ Closed(Other(e)),
           app'[e] = "last_ack" => app[e] = "last_ack" \/ state[e] = "CLOSE_WAIT",
           app'[e] = "fin" => Closed(e)'
    PROVE  FinMeansClosed'
<1> DEFINE o == Other(e)
<1>1. o \in Ends /\ Other(o) = e /\ \A f \in Ends : f = e \/ f = o
  BY TheEnds
<1>2. state'[o] = state[o] /\ app'[o] = app[o] /\ send_buf'[o] = send_buf[o]
  BY DEF Local
<1>3. Closed(o)' <=> Closed(o)
  BY <1>2 DEF Closed, Beginning
<1>4. FinTrace(e)' => Closed(e)'
  <2> SUFFICES ASSUME FinTrace(e)' PROVE Closed(e)'
    OBVIOUS
  <2>1. FinTrace(e) => Closed(e)'
    BY DEF IInv, FinMeansClosed
  <2>2. CASE \E p \in Made(e)' : p.type = "FIN"
    <3>1. PICK p \in Made(e)' : p.type = "FIN"
      BY <2>2
    <3>2. p \in Towards(o) \/ p \in N \cup send_buf'[e]
      BY <3>1 DEF Made, Flow
    <3>3. p \in Towards(o) => p \in Made(e)
      BY DEF Made
    <3>4. Closed(e)' \/ \E b \in Made(e) : b.type = "FIN"
      BY <3>1, <3>2, <3>3
    <3>5. QED
      BY <2>1, <3>4 DEF FinTrace
  <2>3. CASE state'[o] \in {"CLOSE_WAIT", "LAST_ACK", "TIME_WAIT"} \/ app'[o] = "last_ack"
    BY <1>2, <2>1, <2>3 DEF FinTrace
  <2>4. QED
    BY <2>2, <2>3 DEF FinTrace
<1>5. FinTrace(o)' => Closed(o)
  <2> SUFFICES ASSUME FinTrace(o)' PROVE Closed(o)
    OBVIOUS
  <2>1. FinTrace(o) => Closed(o)
    BY <1>1 DEF IInv, FinMeansClosed
  <2>2. CASE \E p \in Made(o)' : p.type = "FIN"
    <3>1. PICK p \in Made(o)' : p.type = "FIN"
      BY <2>2
    <3>2. p \in Towards(e) \cup {NoPacket} \/ p \in send_buf[o]
      BY <1>1, <1>2, <3>1 DEF Made, Flow
    <3>3. p \in Made(o)
      BY <1>1, <3>1, <3>2 DEF Made, NoPacket
    <3>4. QED
      BY <2>1, <3>1, <3>3 DEF FinTrace
  <2>3. CASE state'[e] \in {"CLOSE_WAIT", "LAST_ACK", "TIME_WAIT"}
    BY <1>1, <2>1, <2>3 DEF FinTrace
  <2>4. CASE app'[e] = "last_ack"
    BY <1>1, <2>1, <2>4 DEF FinTrace
  <2>5. CASE app'[o] = "fin"
    BY <1>2, <2>1, <2>5 DEF FinTrace
  <2>6. QED
    BY <1>1, <2>2, <2>3, <2>4, <2>5 DEF FinTrace
<1>6. QED
  BY <1>1, <1>3, <1>4, <1>5 DEF FinMeansClosed

Copied(X, Y) == \A x \in X : \E y \in Y : x.seq = y.seq /\ x.seg = y.seg

LEMMA TraceTypes ==
    ASSUME Types, NEW x \in Traces PROVE x.seq \in Nat /\ x.seg \in 0..D
<1>1. CASE x \in DataSent
  BY <1>1, PacketTypesOfMade, TheEnds DEF DataSent, AnyPacket
<1>2. CASE x \in Held
  <2>1. x \in Entry
    BY <1>2, ElementOfSeq DEF Held, Types, DataTypes
  <2>2. QED
    BY <2>1, ConstantsAssumption DEF Entry
<1>3. QED
  BY <1>1, <1>2 DEF Traces

LEMMA OneWayStep ==
    ASSUME IInv, NEW e \in Ends, NEW N, Local(e), Flow(e, N),
           written' \in Nat, written <= written',
           snd_nxt'["client"] \in Nat, snd_nxt["client"] <= snd_nxt'["client"],
           \A p \in N \cup send_buf'[e] :
               /\ p.type = "SYNACK" => e = "server"
               /\ p.type = "DATA" => e = "client" /\ \E b \in Made("client") :
                      b.type = "DATA" /\ b.seq = p.seq /\ b.seg = p.seg,
           Copied(Held', Traces)
    PROVE  OneWay' /\ Copied(Traces', Traces)
<1> DEFINE o == Other(e)
<1>1. o \in Ends /\ Other(o) = e /\ (\A f \in Ends : f = e \/ f = o) /\ e # o
  BY TheEnds
<1>2. Made(e)' \subseteq Made(e) \cup N \cup send_buf'[e]
  BY DEF Made, Flow
<1>3. Made(o)' \subseteq Made(o) \cup {NoPacket}
  BY <1>1 DEF Made, Flow, Local
<1>4. NoPacket.type = "RST"
  BY DEF NoPacket
<1>5. \A p \in Made("client")' : p.type # "SYNACK"
  <2>1. CASE e = "client"
    BY <1>2, <2>1 DEF IInv, OneWay
  <2>2. CASE o = "client"
    BY <1>3, <1>4, <2>2 DEF IInv, OneWay
  <2>3. QED
    BY <1>1, <2>1, <2>2, TheEnds
<1>6. \A p \in Made("server")' : p.type # "DATA"
  <2>1. CASE e = "server"
    BY <1>2, <2>1 DEF IInv, OneWay
  <2>2. CASE o = "server"
    BY <1>3, <1>4, <2>2 DEF IInv, OneWay
  <2>3. QED
    BY <1>1, <2>1, <2>2, TheEnds
<1>7. \A p \in DataSent' : \E y \in DataSent : p.seq = y.seq /\ p.seg = y.seg
  <2> SUFFICES ASSUME NEW p \in DataSent' PROVE \E y \in DataSent : p.seq = y.seq /\ p.seg = y.seg
    OBVIOUS
  <2>1. p \in Made("client")' /\ p.type = "DATA"
    BY DEF DataSent
  <2>2. CASE p \in Made("client")
    BY <2>1, <2>2 DEF DataSent
  <2>3. CASE p \in N \cup send_buf'[e]
    BY <2>1, <2>3 DEF DataSent
  <2>4. QED
    BY <1>1, <1>2, <1>3, <1>4, <2>1, <2>2, <2>3, TheEnds
<1>8. Copied(Traces', Traces)
  BY <1>7 DEF Copied, Traces
<1>9. ASSUME NEW x \in Traces'
      PROVE  x.seg \in 1..written' /\ x.seq < snd_nxt'["client"]
  <2>1. PICK y \in Traces : x.seq = y.seq /\ x.seg = y.seg
    BY <1>8 DEF Copied
  <2>2. y.seg \in 1..written /\ y.seq < snd_nxt["client"]
    BY DEF IInv, OneWay
  <2>3. y.seq \in Nat /\ snd_nxt["client"] \in Nat /\ written \in Nat
    BY TraceTypes, TheEnds DEF IInv, Types, SockTypes, DataTypes
  <2>4. QED
    BY <2>1, <2>2, <2>3
<1>10. ASSUME NEW x \in Traces', NEW y \in Traces', x.seq < y.seq
       PROVE  x.seg < y.seg
  <2>1. PICK u \in Traces : x.seq = u.seq /\ x.seg = u.seg
    BY <1>8 DEF Copied
  <2>2. PICK v \in Traces : y.seq = v.seq /\ y.seg = v.seg
    BY <1>8 DEF Copied
  <2>3. QED
    BY <1>10, <2>1, <2>2 DEF IInv, OneWay
<1>11. QED
  BY <1>5, <1>6, <1>8, <1>9, <1>10 DEF OneWay

LEMMA StoredStep ==
    ASSUME IInv, Copied(Traces', Traces), Stored' = Stored,
           written' \in Nat, written <= written', rcv_nxt'["server"] \in Nat,
           app'["server"] = "accept" =>
               app["server"] = "accept" /\ rcv_ofo_buf' = rcv_ofo_buf,
           state'["server"] = "ESTABLISHED" =>
               \/ Stored = <<>>
               \/ state["server"] = "ESTABLISHED" /\ rcv_nxt["server"] <= rcv_nxt'["server"]
    PROVE  StoredInOrder'
<1>1. Stored \in Seq(1..D) /\ written \in Nat /\ rcv_nxt["server"] \in Nat /\ Len(Stored) \in Nat
  BY ConcatProperties, TheEnds DEF IInv, Types, DataTypes, SockTypes, Stored
<1>2. \A i \in 1..Len(Stored) : Stored[i] \in Nat
  BY <1>1, ElementOfSeq, ConstantsAssumption
<1> HIDE DEF Stored
<1>3. \A i \in 1..Len(Stored) : Stored[i] <= written'
  <2>1. \A i \in 1..Len(Stored) : Stored[i] <= written
    BY DEF IInv, StoredInOrder
  <2>2. QED
    BY <1>1, <1>2, <2>1
<1>4. ASSUME state'["server"] = "ESTABLISHED", NEW x \in Traces', x.seq >= rcv_nxt'["server"],
             NEW i \in 1..Len(Stored)
      PROVE  Stored[i] < x.seg
  <2>1. Stored # <<>>
    BY <1>1
  <2>2. state["server"] = "ESTABLISHED" /\ rcv_nxt["server"] <= rcv_nxt'["server"]
    BY <1>4, <2>1
  <2>3. PICK y \in Traces : x.seq = y.seq /\ x.seg = y.seg
    BY DEF Copied
  <2>4. y.seq \in Nat
    BY TraceTypes DEF IInv
  <2>5. y.seq >= rcv_nxt["server"]
    BY <1>1, <1>4, <2>2, <2>3, <2>4
  <2>6. QED
    BY <2>2, <2>3, <2>5 DEF IInv, StoredInOrder
<1>5. QED
  BY <1>3, <1>4 DEF IInv, StoredInOrder

LEMMA HandshakeTaken ==
    ASSUME IInv, Inputs("server"), Stored' = Stored, Accepting' => Accepting
    PROVE  HandshakeFirst'
<1> DEFINE s == "server"
<1> SUFFICES ASSUME Accepting
             PROVE  /\ cur'[s].type = "ACK" => Stored = <<>>
                    /\ \A i \in 1..Len(net'[s]) : net'[s][i].type = "ACK" =>
                           /\ Stored = <<>> /\ cur'[s].type # "DATA"
                           /\ \A j \in 1..i - 1 : net'[s][j].type # "DATA"
  BY DEF HandshakeFirst
<1>1. /\ cur[s].type = "ACK" => Stored = <<>>
      /\ \A i \in 1..Len(net[s]) : net[s][i].type = "ACK" =>
             /\ Stored = <<>> /\ cur[s].type # "DATA"
             /\ \A j \in 1..i - 1 : net[s][j].type # "DATA"
  BY DEF IInv, HandshakeFirst
<1>2. CASE net'[s] = net[s] /\ cur'[s] = cur[s]
  BY <1>1, <1>2
<1>3. CASE Ready(s) /\ net'[s] = Rest(s) /\ cur'[s] \in {Packet(s), NoPacket, cur[s]}
  <2>1. NoPacket.type = "RST"
    BY DEF NoPacket
  <2>2. CASE handler[s] = "idle"
    <3>1. /\ Len(net[s]) \in Nat /\ Len(net[s]) >= 1 /\ Packet(s) = net[s][1]
          /\ Len(net'[s]) = Len(net[s]) - 1
          /\ \A i \in 1..Len(net'[s]) : net'[s][i] = net[s][i + 1]
      BY <1>3, <2>2, Received, TheEnds DEF IInv
    <3>2. cur'[s].type = "ACK" => Stored = <<>>
      BY <1>1, <1>3, <2>1, <3>1
    <3>3. ASSUME NEW i \in 1..Len(net'[s]), net'[s][i].type = "ACK"
          PROVE  /\ Stored = <<>> /\ cur'[s].type # "DATA"
                 /\ \A j \in 1..i - 1 : net'[s][j].type # "DATA"
      <4>1. i + 1 \in 1..Len(net[s]) /\ net[s][i + 1].type = "ACK"
        BY <3>1, <3>3
      <4>2. /\ Stored = <<>> /\ cur[s].type # "DATA"
            /\ \A j \in 1..i : net[s][j].type # "DATA"
        BY <1>1, <4>1
      <4>3. Packet(s).type # "DATA"
        BY <3>1, <4>2
      <4>4. \A j \in 1..i - 1 : j \in 1..Len(net'[s]) /\ j + 1 \in 1..i
        BY <3>1
      <4>5. QED
        BY <1>3, <2>1, <3>1, <4>2, <4>3, <4>4
    <3>4. QED
      BY <3>2, <3>3
  <2>3. CASE handler[s] # "idle"
    <3>1. Packet(s) = cur[s] /\ Rest(s) = net[s]
      BY <1>3, <2>3, Received, TheEnds DEF IInv
    <3>2. QED
      BY <1>1, <1>3, <2>1, <3>1
  <2>4. QED
    BY <2>2, <2>3
<1>4. QED
  BY <1>2, <1>3 DEF Inputs

LEMMA HandshakeSent ==
    ASSUME IInv, NEW ps \in Seq(AnyPacket), WireTypes',
           Appended(net["server"], net'["server"], ps), cur'["server"] = cur["server"],
           Stored' = Stored, Accepting' => Accepting,
           \/ \A k \in 1..Len(ps) : ps[k].type # "ACK"
           \/ Accepting => /\ Stored = <<>>
                           /\ \A p \in Towards("server") : p.type # "DATA"
                           /\ \A k \in 1..Len(ps) : ps[k].type # "DATA"
    PROVE  HandshakeFirst'
<1> DEFINE s == "server"
<1> SUFFICES ASSUME Accepting
             PROVE  /\ cur[s].type = "ACK" => Stored = <<>>
                    /\ \A i \in 1..Len(net'[s]) : net'[s][i].type = "ACK" =>
                           /\ Stored = <<>> /\ cur[s].type # "DATA"
                           /\ \A j \in 1..i - 1 : net'[s][j].type # "DATA"
  BY DEF HandshakeFirst
<1>1. /\ cur[s].type = "ACK" => Stored = <<>>
      /\ \A i \in 1..Len(net[s]) : net[s][i].type = "ACK" =>
             /\ Stored = <<>> /\ cur[s].type # "DATA"
             /\ \A j \in 1..i - 1 : net[s][j].type # "DATA"
  BY DEF IInv, HandshakeFirst
<1>2. /\ Len(net[s]) \in Nat /\ Len(net'[s]) \in Nat /\ DOMAIN net[s] = 1..Len(net[s])
  BY TheEnds DEF IInv, Types, WireTypes
<1>3. ASSUME NEW i \in 1..Len(net'[s]), net'[s][i].type = "ACK"
      PROVE  /\ Stored = <<>> /\ cur[s].type # "DATA"
             /\ \A j \in 1..i - 1 : net'[s][j].type # "DATA"
  <2>1. CASE i <= Len(net[s]) /\ net'[s][i] = net[s][i]
    <3>1. /\ Stored = <<>> /\ cur[s].type # "DATA"
          /\ \A j \in 1..i - 1 : net[s][j].type # "DATA"
      BY <1>1, <1>2, <1>3, <2>1
    <3>2. \A j \in 1..i - 1 : net'[s][j] = net[s][j]
      BY <1>2, <2>1 DEF Appended
    <3>3. QED
      BY <3>1, <3>2
  <2>2. CASE i > Len(net[s]) /\ \E k \in 1..Len(ps) : net'[s][i] = ps[k]
    <3>1. /\ Stored = <<>> /\ \A p \in Towards("server") : p.type # "DATA"
          /\ \A k \in 1..Len(ps) : ps[k].type # "DATA"
      BY <1>3, <2>2
    <3>2. cur[s].type # "DATA" /\ \A j \in 1..Len(net[s]) : net[s][j].type # "DATA"
      BY <1>2, <3>1 DEF Towards, ToldTo
    <3>3. \A j \in 1..i - 1 : net'[s][j].type # "DATA"
      <4> SUFFICES ASSUME NEW j \in 1..i - 1 PROVE net'[s][j].type # "DATA"
        OBVIOUS
      <4>1. j \in 1..Len(net'[s])
        BY <1>2
      <4>2. \/ j <= Len(net[s]) /\ net'[s][j] = net[s][j]
            \/ \E k \in 1..Len(ps) : net'[s][j] = ps[k]
        BY <4>1 DEF Appended
      <4>3. CASE j <= Len(net[s]) /\ net'[s][j] = net[s][j]
        BY <1>2, <3>2, <4>1, <4>3
      <4>4. CASE \E k \in 1..Len(ps) : net'[s][j] = ps[k]
        BY <3>1, <4>4
      <4>5. QED
        BY <4>2, <4>3, <4>4
    <3>4. QED
      BY <3>1, <3>2, <3>3
  <2>3. QED
    BY <2>1, <2>2 DEF Appended
<1>4. QED
  BY <1>1, <1>3
-----------------------------------------------------------------------------
(* A step of e that sends packets ps and takes in one packet or none.       *)
Output(e, ps) ==
    LET o == Other(e) IN
    /\ ps \in Seq(AnyPacket) /\ WireTypes' /\ Inputs(e) /\ cur'[o] = cur[o]
    /\ Flow(e, {ps[k] : k \in 1..Len(ps)}) /\ Appended(net[o], net'[o], ps)
    /\ acked'[o] = acked[o] /\ acked[e] <= acked'[e] /\ acked'[e] <= snd_nxt[o]
    /\ \A k \in 1..Len(ps) : /\ HasAck(ps[k]) => ps[k].ack <= acked'[e]
                             /\ ps[k].ack <= snd_nxt[o]

LEMMA TransmitOutput ==
    ASSUME IInv, NEW e \in Ends, NEW ps \in Seq(AnyPacket), NEW in,
           \A i \in 1..Len(ps) : ps[i].ack <= snd_nxt[Other(e)],
           \/ in = net[e] /\ cur'[e] = cur[e]
           \/ Ready(e) /\ in = Rest(e) /\ cur'[e] \in {Packet(e), NoPacket, cur[e]},
           cur'[Other(e)] = cur[Other(e)], Transmit(e, ps, in)
    PROVE  Output(e, ps)
<1>1. Types /\ Numbers
  BY DEF IInv
<1>2. in \in Seq(AnyPacket) /\ Len(in) <= NetMax
  <2>1. CASE in = net[e]
    BY <1>1, <2>1 DEF Types, WireTypes
  <2>2. CASE Ready(e) /\ in = Rest(e)
    BY <1>1, <2>2, Received
  <2>3. QED
    BY <2>1, <2>2
<1>3. /\ WireTypes'
      /\ net'[e] = in /\ acked'[Other(e)] = acked[Other(e)]
      /\ acked[e] <= acked'[e] /\ acked'[e] <= snd_nxt[Other(e)]
      /\ \A i \in 1..Len(ps) : HasAck(ps[i]) => ps[i].ack <= acked'[e]
      /\ Appended(net[Other(e)], net'[Other(e)], ps)
  BY <1>1, <1>2, TransmitEffect
<1>4. Inputs(e)
  BY <1>3 DEF Inputs
<1>5. Flow(e, {ps[k] : k \in 1..Len(ps)})
  BY <1>1, <1>3, <1>4, AppendedFlow
<1>6. QED
  BY <1>3, <1>4, <1>5 DEF Output

LEMMA SilentOutput ==
    ASSUME IInv, NEW e \in Ends, Inputs(e), net' = [net EXCEPT ![e] = net'[e]],
           acked' = acked, cur'[Other(e)] = cur[Other(e)]
    PROVE  Output(e, <<>>)
<1> DEFINE o == Other(e)
<1>1. Types /\ Numbers
  BY DEF IInv
<1>2. o \in Ends /\ o # e /\ \A f \in Ends : f = e \/ f = o
  BY TheEnds
<1>3. net \in [Ends -> Seq(AnyPacket)] /\ \A f \in Ends : Len(net[f]) <= NetMax
  BY <1>1 DEF Types, WireTypes
<1>4. net'[e] \in Seq(AnyPacket) /\ Len(net'[e]) <= NetMax
  BY <1>1, <1>3, Received DEF Inputs
<1>5. net'[o] = net[o] /\ net' \in [Ends -> Seq(AnyPacket)]
  BY <1>2, <1>3, <1>4
<1>6. WireTypes'
  BY <1>1, <1>2, <1>3, <1>4, <1>5 DEF WireTypes, Types
<1>7. Flow(e, {})
  BY <1>1, <1>5, SilentFlow
<1>8. <<>> \in Seq(AnyPacket) /\ Len(<<>>) = 0 /\ {<<>>[k] : k \in 1..Len(<<>>)} = {}
  OBVIOUS
<1>9. Appended(net[o], net'[o], <<>>)
  BY <1>2, <1>3, <1>5 DEF Appended
<1>10. acked[e] <= acked[e] /\ acked[e] <= snd_nxt[o]
  BY <1>1 DEF Types, WireTypes, Numbers
<1>11. QED
  BY <1>6, <1>7, <1>8, <1>9, <1>10 DEF Output

LEMMA OutputNumbers ==
    ASSUME IInv, NEW e \in Ends, NEW ps, Local(e), Output(e, ps),
           snd_nxt'[e] \in Nat, snd_nxt[e] <= snd_nxt'[e],
           rcv_nxt'[e] <= snd_nxt[Other(e)],
           \A k \in 1..Len(ps) : SeqEnd(ps[k]) <= snd_nxt'[e],
           \A p \in send_buf'[e] : SeqEnd(p) <= snd_nxt'[e] /\ Reliable(p)
    PROVE  Numbers'
<1> DEFINE N == {ps[k] : k \in 1..Len(ps)}
<1>1. acked'[e] \in Nat
  BY DEF Output, WireTypes
<1>2. \A k \in 1..Len(ps) : ps[k] \in AnyPacket
  BY ElementOfSeq DEF Output
<1>3. \A p \in N : /\ p \in AnyPacket /\ SeqEnd(p) <= snd_nxt'[e]
                   /\ HasAck(p) => p.ack <= acked'[e]
                   /\ p.ack <= snd_nxt[Other(e)]
  BY <1>2 DEF Output
<1>4. Flow(e, N) /\ acked[e] <= acked'[e] /\ acked'[e] <= snd_nxt[Other(e)]
  BY DEF Output
<1> HIDE DEF N
<1>5. QED
  BY <1>1, <1>3, <1>4, NumbersStep

Made1(t, e, k) == [type |-> t, seq |-> snd_nxt[e], ack |-> rcv_nxt[e], seg |-> k]

(* A packet that is buffered until it is acknowledged.                      *)
LEMMA ReliableEffect ==
    ASSUME IInv, NEW e \in Ends, NEW t \in {"SYN", "DATA", "FIN"}, NEW k \in 0..D, NEW in,
           \/ in = net[e]
           \/ Ready(e) /\ in = Rest(e),
           cur' = cur, rcv_nxt' = rcv_nxt,
           state'[Other(e)] = state[Other(e)], app'[Other(e)] = app[Other(e)],
           SendReliable(e, t, k, in)
    PROVE  /\ Output(e, <<Made1(t, e, k)>>) /\ Local(e)
           /\ snd_nxt' \in [Ends -> Nat] /\ snd_nxt'[e] = snd_nxt[e] + 1
           /\ send_buf' \in [Ends -> SUBSET AnyPacket]
           /\ send_buf'[e] = send_buf[e] \cup {[Made1(t, e, k) EXCEPT !.ack = 0]}
           /\ retrans_time' \in [Ends -> NoTimer..MaxRetrans]
           /\ Numbers' /\ UnackedIsKept'
<1> DEFINE o == Other(e)
           p == Made1(t, e, k)
           b == [p EXCEPT !.ack = 0]
<1>1. o \in Ends /\ o # e /\ \A f \in Ends : f = e \/ f = o
  BY TheEnds
<1>2. /\ snd_nxt \in [Ends -> Nat] /\ rcv_nxt \in [Ends -> Nat] /\ acked \in [Ends -> Nat]
      /\ send_buf \in [Ends -> SUBSET AnyPacket]
      /\ retrans_time \in [Ends -> NoTimer..MaxRetrans]
      /\ rcv_nxt[e] <= snd_nxt[o]
  BY DEF IInv, Types, SockTypes, WireTypes, Numbers
<1>3. p \in AnyPacket /\ b \in AnyPacket /\ SeqEnd(p) = snd_nxt[e] + 1 /\ SeqEnd(b) = snd_nxt[e] + 1
  BY <1>2 DEF AnyPacket, PacketTypes, SeqEnd, Made1
<1>4. p.ack = rcv_nxt[e] /\ Reliable(b) /\ b.seq = snd_nxt[e]
  BY DEF Made1, Reliable
<1>5. /\ Transmit(e, <<p>>, in)
      /\ snd_nxt' = [snd_nxt EXCEPT ![e] = @ + 1]
      /\ send_buf' = [send_buf EXCEPT ![e] = @ \cup {b}]
      /\ retrans_time' = [retrans_time EXCEPT ![e] = 0]
  BY DEF SendReliable, Made1
<1> HIDE DEF p, b
<1>6. <<p>> \in Seq(AnyPacket) /\ Len(<<p>>) = 1 /\ <<p>>[1] = p
  BY <1>3
<1>7. Output(e, <<p>>)
  <2>1. \A i \in 1..Len(<<p>>) : <<p>>[i].ack <= snd_nxt[o]
    BY <1>2, <1>4, <1>6
  <2>2. \/ in = net[e] /\ cur'[e] = cur[e]
        \/ Ready(e) /\ in = Rest(e) /\ cur'[e] \in {Packet(e), NoPacket, cur[e]}
    OBVIOUS
  <2>3. cur'[o] = cur[o]
    OBVIOUS
  <2>4. QED
    BY <1>5, <1>6, <2>1, <2>2, <2>3, TransmitOutput
<1>8. /\ snd_nxt' \in [Ends -> Nat] /\ snd_nxt'[e] = snd_nxt[e] + 1 /\ snd_nxt'[o] = snd_nxt[o]
      /\ send_buf' \in [Ends -> SUBSET AnyPacket] /\ send_buf'[e] = send_buf[e] \cup {b}
      /\ send_buf'[o] = send_buf[o]
  BY <1>1, <1>2, <1>3, <1>5
<1>9. retrans_time' \in [Ends -> NoTimer..MaxRetrans]
  BY <1>2, <1>5, ConstantsAssumption DEF NoTimer
<1>10. Local(e)
  BY <1>7, <1>8 DEF Local, Output
<1>11. \A q \in send_buf[e] : SeqEnd(q) \in Nat /\ SeqEnd(q) <= snd_nxt[e] /\ Reliable(q)
  BY <1>2 DEF IInv, Numbers, Made, AnyPacket, SeqEnd
<1>12. Numbers'
  <2>1. \A i \in 1..Len(<<p>>) : SeqEnd(<<p>>[i]) <= snd_nxt'[e]
    BY <1>2, <1>3, <1>6, <1>8
  <2>2. \A q \in send_buf'[e] : SeqEnd(q) <= snd_nxt'[e] /\ Reliable(q)
    BY <1>2, <1>3, <1>4, <1>8, <1>11
  <2>3. snd_nxt[e] <= snd_nxt'[e] /\ snd_nxt'[e] \in Nat /\ rcv_nxt'[e] <= snd_nxt[o]
    BY <1>2, <1>8
  <2>4. QED
    BY <1>7, <1>10, <2>1, <2>2, <2>3, OutputNumbers
<1>13. UnackedIsKept'
  <2>1. \A s \in 0..(snd_nxt'[e] - 1) :
            (\A q \in send_buf'[e] : q.seq # s) =>
                s < snd_nxt[e] /\ \A q \in send_buf[e] : q.seq # s
    BY <1>2, <1>4, <1>8
  <2>2. acked'[e] \in Nat /\ acked[e] <= acked'[e] /\ snd_nxt'[e] \in Nat
    BY <1>2, <1>7, <1>8 DEF Output, WireTypes
  <2>3. QED
    BY <1>10, <2>1, <2>2, UnackedStep
<1>14. QED
  BY <1>7, <1>8, <1>9, <1>10, <1>12, <1>13 DEF p, b

(* The handler acknowledges with packets ps, and what its packet acknowl-   *)
(* edges may leave send_buf.                                                *)
LEMMA AnswerEffect ==
    ASSUME IInv, NEW e \in Ends, NEW ps, Ready(e), Local(e), Output(e, ps),
           snd_nxt'[e] = snd_nxt[e], rcv_nxt'[e] <= snd_nxt[Other(e)],
           \A k \in 1..Len(ps) : ps[k].type = "ACK" /\ ps[k].seq = snd_nxt[e],
           \/ send_buf'[e] = send_buf[e]
           \/ HasAck(Packet(e)) /\ send_buf'[e] = Unacked(e, Packet(e).ack)
    PROVE  Numbers' /\ UnackedIsKept' /\ send_buf'[e] \subseteq send_buf[e]
<1> DEFINE o == Other(e)
           p == Packet(e)
<1>1. o \in Ends /\ Other(o) = e
  BY TheEnds
<1>2. /\ snd_nxt[e] \in Nat /\ acked[e] \in Nat /\ acked[o] \in Nat /\ acked'[e] \in Nat
      /\ send_buf[e] \subseteq AnyPacket /\ acked[e] <= acked'[e]
  BY <1>1 DEF IInv, Types, SockTypes, WireTypes, Output
<1>3. send_buf'[e] \subseteq send_buf[e]
  BY DEF Unacked
<1>4. \A k \in 1..Len(ps) : SeqEnd(ps[k]) <= snd_nxt'[e]
  BY <1>2 DEF SeqEnd
<1>5. \A q \in send_buf'[e] : SeqEnd(q) <= snd_nxt'[e] /\ Reliable(q)
  BY <1>3 DEF IInv, Numbers, Made
<1>6. Numbers'
  BY <1>2, <1>4, <1>5, OutputNumbers
<1>7. ASSUME NEW s \in 0..(snd_nxt'[e] - 1), \A b \in send_buf'[e] : b.seq # s
      PROVE  acked[o] > s \/ (s < snd_nxt[e] /\ \A b \in send_buf[e] : b.seq # s)
  <2>1. CASE send_buf'[e] = send_buf[e]
    BY <1>2, <1>7, <2>1
  <2>2. CASE HasAck(p) /\ send_buf'[e] = Unacked(e, p.ack)
    <3>1. p \in Towards(e) /\ p \in AnyPacket
      BY Received DEF IInv
    <3>2. p.ack <= acked[o] /\ p.ack \in Nat
      BY <1>1, <2>2, <3>1 DEF IInv, Numbers, AnyPacket
    <3>3. CASE \E b \in send_buf[e] : b.seq = s
      <4>1. s < p.ack
        BY <1>7, <2>2, <3>3 DEF Unacked
      <4>2. QED
        BY <1>2, <3>2, <4>1
    <3>4. CASE \A b \in send_buf[e] : b.seq # s
      BY <1>2, <3>4
    <3>5. QED
      BY <3>3, <3>4
  <2>3. QED
    BY <2>1, <2>2
<1>8. UnackedIsKept'
  BY <1>2, <1>7, UnackedStep
<1>9. QED
  BY <1>3, <1>6, <1>8
-----------------------------------------------------------------------------
LEMMA InitIInv == Init => IInv
<1> SUFFICES ASSUME Init PROVE IInv
  OBVIOUS
<1>1. ConstantsAssumption /\ NoPacket \in AnyPacket
  BY ConstantsAssumption DEF NoPacket, AnyPacket, PacketTypes
<1>2. /\ state["client"] = "CLOSED" /\ state["server"] = "CLOSED"
      /\ app["client"] = "connect" /\ app["server"] = "accept"
      /\ snd_nxt["client"] = 0 /\ snd_nxt["server"] = 0
  BY TheEnds DEF Init
<1>3. \A e \in Ends : Towards(e) = {NoPacket} /\ Made(e) = {NoPacket} /\ send_buf[e] = {}
  <2>1. \A e \in Ends : ToldTo(e) = {} /\ cur[e] = NoPacket /\ send_buf[e] = {}
    BY DEF Init, ToldTo
  <2>2. QED
    BY <2>1, TheEnds DEF Towards, Made
<1>4. Types
  <2>1. SockTypes
    BY <1>1 DEF Init, SockTypes, States, NoTimer
  <2>2. PassiveTypes
    <3>1. listener = "LISTEN" /\ queued = FALSE /\ accept_backlog = 0
      BY DEF Init
    <3>2. accept_backlog \in 0..Backlog
      BY <3>1, ConstantsAssumption
    <3>3. QED
      BY <3>1, <3>2 DEF PassiveTypes
  <2>3. DataTypes
    BY <1>1 DEF Init, DataTypes
  <2>4. ThreadTypes
    BY <1>1, TheEnds DEF Init, ThreadTypes, ClientApp, ServerApp, Ends
  <2>5. WireTypes
    BY <1>1 DEF Init, WireTypes
  <2>6. QED
    BY <2>1, <2>2, <2>3, <2>4, <2>5 DEF Types
<1>5. Unused
  BY <1>2, TheEnds DEF Init, Unused
<1>6. Starts
  BY <1>2, TheEnds DEF Init, Starts
<1>7. Numbers
  <2>1. \A e \in Ends : snd_nxt[e] = 0 /\ acked[e] = 0 /\ rcv_nxt[e] = 0 /\ Other(e) \in Ends
    BY TheEnds DEF Init
  <2>2. NoPacket.ack = 0 /\ SeqEnd(NoPacket) = 0 /\ ~HasAck(NoPacket)
    BY DEF NoPacket, SeqEnd, HasAck
  <2>3. QED
    BY <1>3, <2>1, <2>2 DEF Numbers
<1>8. Counted
  BY <1>2 DEF Init, Counted, MaxFins, Beginning
<1>9. FinMeansClosed
  <2>1. \A e \in Ends : state[Other(e)] = "CLOSED" /\ app[Other(e)] \in {"connect", "accept"}
                        /\ app[e] \in {"connect", "accept"}
    BY <1>2, TheEnds
  <2>2. QED
    BY <1>3, <2>1 DEF FinMeansClosed, FinTrace, NoPacket
<1>10. Stored = <<>> /\ Traces = {}
  BY <1>3, TheEnds DEF Init, Stored, Traces, DataSent, Held, NoPacket
<1>11. OneWay
  BY <1>3, <1>10, TheEnds DEF OneWay, NoPacket
<1>12. StoredInOrder
  BY <1>2, <1>10 DEF Init, StoredInOrder
<1>13. HandshakeFirst
  BY TheEnds DEF Init, HandshakeFirst, NoPacket
<1>14. UnackedIsKept
  BY DEF Init, UnackedIsKept
<1>15. QED
  BY <1>4, <1>5, <1>6, <1>7, <1>8, <1>9, <1>11, <1>12, <1>13, <1>14 DEF IInv
-----------------------------------------------------------------------------
(* Steps that send and take nothing.                                        *)

LEMMA QuietEffect ==
    ASSUME IInv, NEW e \in Ends,
           UNCHANGED <<net, acked, send_buf, snd_nxt, rcv_nxt, cur>>,
           state'[Other(e)] = state[Other(e)], app'[Other(e)] = app[Other(e)]
    PROVE  /\ Local(e) /\ Flow(e, {}) /\ WireTypes' /\ Numbers' /\ UnackedIsKept'
           /\ \A f \in Ends : Inputs(f) /\ Made(f)' = Made(f) /\ Towards(f)' = Towards(f)
           /\ send_buf'[e] \subseteq Made(e)
<1>1. \A f : Towards(f)' = Towards(f)
  BY DEF Towards, ToldTo
<1>2. \A f : Made(f)' = Made(f)
  BY <1>1 DEF Made
<1>3. Numbers'
  BY <1>1, <1>2 DEF IInv, Numbers
<1>4. UnackedIsKept'
  BY DEF IInv, UnackedIsKept
<1>5. QED
  BY <1>1, <1>2, <1>3, <1>4 DEF IInv, Types, WireTypes, Local, Flow, Made, Inputs

(* Packets without data, and copies of old ones, leave the data alone.      *)
Harmless(e, p) ==
    \/ p.type \notin {"DATA", "SYNACK"}
    \/ p.type = "SYNACK" /\ e = "server"
    \/ \E b \in Made(e) : b.type = p.type /\ b.seq = p.seq /\ b.seg = p.seg

LEMMA NoDataStep ==
    ASSUME IInv, NEW e \in Ends, NEW N, Local(e), Flow(e, N),
           UNCHANGED <<rcv_ofo_buf, ring, got, written>>,
           snd_nxt'["client"] \in Nat, snd_nxt["client"] <= snd_nxt'["client"],
           rcv_nxt'["server"] \in Nat,
           \A p \in N \cup send_buf'[e] : Harmless(e, p),
           app'["server"] = "accept" => app["server"] = "accept",
           state'["server"] = "ESTABLISHED" =>
               \/ Stored = <<>>
               \/ state["server"] = "ESTABLISHED" /\ rcv_nxt["server"] <= rcv_nxt'["server"]
    PROVE  OneWay' /\ StoredInOrder'
<1>1. written \in Nat /\ written <= written'
  BY DEF IInv, Types, DataTypes
<1>2. ASSUME NEW p \in N \cup send_buf'[e]
      PROVE  /\ p.type = "SYNACK" => e = "server"
             /\ p.type = "DATA" => e = "client" /\ \E b \in Made("client") :
                    b.type = "DATA" /\ b.seq = p.seq /\ b.seg = p.seg
  <2>1. Harmless(e, p)
    OBVIOUS
  <2>2. CASE \E b \in Made(e) : b.type = p.type /\ b.seq = p.seq /\ b.seg = p.seg
    <3>1. e = "client" \/ e = "server"
      BY TheEnds
    <3>2. CASE e = "client"
      BY <2>2, <3>2 DEF IInv, OneWay
    <3>3. CASE e = "server"
      BY <2>2, <3>3 DEF IInv, OneWay
    <3>4. QED
      BY <3>1, <3>2, <3>3
  <2>3. QED
    BY <2>1, <2>2 DEF Harmless
<1>3. Copied(Held', Traces)
  BY DEF Copied, Held, Traces
<1>4. OneWay' /\ Copied(Traces', Traces)
  BY <1>1, <1>2, <1>3, OneWayStep
<1>5. Stored' = Stored
  BY DEF Stored
<1>6. StoredInOrder'
  BY <1>1, <1>4, <1>5, StoredStep
<1>7. QED
  BY <1>4, <1>6

LEMMA OldIsHarmless ==
    ASSUME NEW e, NEW p \in Made(e)
    PROVE  Harmless(e, p)
BY DEF Harmless

LEMMA QuietData ==
    ASSUME IInv, NEW e \in Ends, Local(e), Flow(e, {}), send_buf'[e] \subseteq Made(e),
           UNCHANGED <<rcv_ofo_buf, ring, got, written, snd_nxt, rcv_nxt>>,
           app'["server"] = "accept" => app["server"] = "accept",
           state'["server"] = "ESTABLISHED" => Stored = <<>> \/ state["server"] = "ESTABLISHED"
    PROVE  OneWay' /\ StoredInOrder'
<1>1. snd_nxt["client"] \in Nat /\ rcv_nxt["server"] \in Nat
  BY TheEnds DEF IInv, Types, SockTypes
<1>2. \A p \in {} \cup send_buf'[e] : Harmless(e, p)
  BY OldIsHarmless
<1>3. snd_nxt["client"] <= snd_nxt["client"] /\ rcv_nxt["server"] <= rcv_nxt["server"]
  BY <1>1
<1>4. QED
  BY <1>1, <1>2, <1>3, NoDataStep

LEMMA ConnectStateStep == ASSUME IInv, ConnectState PROVE IInv'
<1> DEFINE c == "client"
<1>1. /\ app[c] = "syn_sent" /\ app' = [app EXCEPT ![c] = "connecting"]
      /\ state' = [state EXCEPT ![c] = "SYN_SENT"]
  BY DEF ConnectState, Step
<1>2. /\ app'[c] = "connecting" /\ app'["server"] = app["server"]
      /\ state'[c] = "SYN_SENT" /\ state'["server"] = state["server"]
  BY <1>1, TheEnds DEF IInv, Types, SockTypes, ThreadTypes
<1>3. /\ Local(c) /\ Flow(c, {}) /\ WireTypes' /\ Numbers' /\ UnackedIsKept'
      /\ Inputs("server") /\ send_buf'[c] \subseteq Made(c)
  BY <1>2, QuietEffect, TheEnds DEF ConnectState, wire
<1>4. Types'
  BY <1>1, <1>2, <1>3, TheEnds
  DEF ConnectState, IInv, Types, SockTypes, PassiveTypes, DataTypes, ThreadTypes, States,
      ClientApp, passive, data, file, waits
<1>5. Unused'
  BY <1>2 DEF IInv, Unused, ConnectState, passive, wire
<1>6. Starts'
  BY <1>1, <1>2, TheEnds DEF IInv, Starts, Beginning, ConnectState, file, waits
<1>7. Counted'
  BY <1>1, <1>2, TheEnds DEF IInv, Counted, MaxFins, Beginning, ConnectState, file, passive
<1>8. FinMeansClosed'
  <2>1. ~Closed(c)
    BY <1>1 DEF Closed, Beginning
  <2>2. \A p \in {} \cup send_buf'[c] : p.type = "FIN" => \E b \in Made(c) : b.type = "FIN"
    BY <1>3
  <2>3. QED
    BY <1>2, <1>3, <2>1, <2>2, FinStep, TheEnds
<1>9. OneWay' /\ StoredInOrder'
  BY <1>2, <1>3, QuietData, TheEnds DEF ConnectState, data, file
<1>10. HandshakeFirst'
  BY <1>2, <1>3, HandshakeTaken DEF ConnectState, Stored, data, file, Accepting
<1>11. QED
  BY <1>3, <1>4, <1>5, <1>6, <1>7, <1>8, <1>9, <1>10 DEF IInv

(* The client's thread between connect and close.                           *)
LEMMA ClientMoves ==
    ASSUME IInv, NEW a \in {"write", "draining", "close"},
           app["client"] \in {"connecting", "write", "draining"},
           app' = [app EXCEPT !["client"] = a], state["client"] # "SYN_SENT",
           wait_connect' \in {"quiet", "notified", "dead"},
           wait_send' \in {"quiet", "notified", "dead"},
           UNCHANGED <<sock, passive, data, file, handler, cur, crashed, wire>>
    PROVE  IInv'
<1> DEFINE c == "client"
<1>1. app'[c] = a /\ app'["server"] = app["server"]
  BY TheEnds DEF IInv, Types, ThreadTypes
<1>2. /\ Local(c) /\ Flow(c, {}) /\ WireTypes' /\ Numbers' /\ UnackedIsKept'
      /\ Inputs("server") /\ send_buf'[c] \subseteq Made(c)
  BY <1>1, QuietEffect, TheEnds DEF sock, wire
<1>3. Types'
  BY <1>1, <1>2, TheEnds
  DEF IInv, Types, SockTypes, PassiveTypes, DataTypes, ThreadTypes, sock, passive, data, file,
      ClientApp
<1>4. Unused'
  BY <1>1 DEF IInv, Unused, sock, passive, wire
<1>5. Starts'
  BY <1>1, TheEnds DEF IInv, Starts, Beginning, sock, file
<1>6. Counted'
  BY <1>1, TheEnds DEF IInv, Counted, MaxFins, Beginning, sock, file, passive
<1>7. FinMeansClosed'
  <2>1. \A p \in {} \cup send_buf'[c] : p.type = "FIN" => \E b \in Made(c) : b.type = "FIN"
    BY <1>2
  <2>2. state' = state
    BY DEF sock
  <2>3. Closed(c) => Closed(c)'
    BY <1>1, <2>2 DEF Closed, Beginning
  <2>4. QED
    BY <1>1, <1>2, <2>1, <2>2, <2>3, FinStep, TheEnds
<1>8. OneWay' /\ StoredInOrder'
  BY <1>1, <1>2, QuietData, TheEnds DEF sock, data, file
<1>9. HandshakeFirst'
  BY <1>1, <1>2, HandshakeTaken DEF Stored, data, file, sock, Accepting
<1>10. QED
  BY <1>2, <1>3, <1>4, <1>5, <1>6, <1>7, <1>8, <1>9 DEF IInv

LEMMA ConnectReturnStep == ASSUME IInv, ConnectReturn PROVE IInv'
<1>1. /\ app["client"] = "connecting" /\ app' = [app EXCEPT !["client"] = "write"]
      /\ wait_connect # "quiet" /\ wait_connect' = Slept(wait_connect)
      /\ UNCHANGED <<sock, passive, data, file, wait_send, handler, cur, crashed, wire>>
  BY DEF ConnectReturn, Step
<1>2. state["client"] # "SYN_SENT"
  BY <1>1 DEF IInv, Starts
<1>3. wait_connect' \in {"quiet", "notified", "dead"} /\ wait_send' \in {"quiet", "notified", "dead"}
  BY <1>1 DEF IInv, Types, ThreadTypes, Slept
<1>4. QED
  BY <1>1, <1>2, <1>3, ClientMoves

LEMMA WriteTestStep == ASSUME IInv, WriteTest PROVE IInv'
<1> DEFINE a == IF send_buf["client"] = {} THEN "close" ELSE "draining"
<1>1. /\ app["client"] = "write" /\ app' = [app EXCEPT !["client"] = a]
      /\ UNCHANGED <<sock, passive, data, file, waits, handler, cur, crashed, wire>>
  BY DEF WriteTest
<1>2. state["client"] # "SYN_SENT"
  BY <1>1 DEF IInv, Starts
<1>3. wait_connect' \in {"quiet", "notified", "dead"} /\ wait_send' \in {"quiet", "notified", "dead"}
  BY <1>1 DEF IInv, Types, ThreadTypes, waits
<1>4. QED
  BY <1>1, <1>2, <1>3, ClientMoves

LEMMA WriteWokenStep == ASSUME IInv, WriteWoken PROVE IInv'
<1>1. /\ app["client"] = "draining" /\ app' = [app EXCEPT !["client"] = "write"]
      /\ wait_send' = Slept(wait_send)
      /\ UNCHANGED <<sock, passive, data, file, wait_connect, handler, cur, crashed, wire>>
  BY DEF WriteWoken, Step
<1>2. state["client"] # "SYN_SENT"
  BY <1>1 DEF IInv, Starts
<1>3. wait_connect' \in {"quiet", "notified", "dead"} /\ wait_send' \in {"quiet", "notified", "dead"}
  BY <1>1 DEF IInv, Types, ThreadTypes, Slept
<1>4. QED
  BY <1>1, <1>2, <1>3, ClientMoves

LEMMA AcceptStep == ASSUME IInv, Accept PROVE IInv'
<1> DEFINE s == "server"
<1>1. /\ app[s] = "accept" /\ app' = [app EXCEPT ![s] = "read"]
      /\ queued /\ queued' = FALSE /\ accept_backlog' = accept_backlog - 1
      /\ state' = [state EXCEPT ![s] = "ESTABLISHED"]
      /\ UNCHANGED <<snd_nxt, rcv_nxt, send_buf, retrans_time, hashed,
                     listener, data, file, waits, handler, cur, crashed, wire>>
  BY DEF Accept, Step
<1>2. /\ app'[s] = "read" /\ app'["client"] = app["client"]
      /\ state'[s] = "ESTABLISHED" /\ state'["client"] = state["client"]
  BY <1>1, TheEnds DEF IInv, Types, SockTypes, ThreadTypes
<1>3. /\ Local(s) /\ Flow(s, {}) /\ WireTypes' /\ Numbers' /\ UnackedIsKept'
      /\ Inputs(s) /\ send_buf'[s] \subseteq Made(s)
  BY <1>1, <1>2, QuietEffect, TheEnds DEF wire
<1>4. Types'
  <2>1. SockTypes'
    BY <1>1, TheEnds DEF IInv, Types, SockTypes, States
  <2>2. accept_backlog \in 0..Backlog /\ accept_backlog >= 1
    BY <1>1 DEF IInv, Types, PassiveTypes
  <2>3. accept_backlog' \in 0..Backlog
    BY <1>1, <2>2, ConstantsAssumption
  <2>4. PassiveTypes'
    BY <1>1, <2>3 DEF IInv, Types, PassiveTypes
  <2>5. DataTypes' /\ ThreadTypes'
    BY <1>1, <1>2 DEF IInv, Types, DataTypes, ThreadTypes, ServerApp, data, file, waits
  <2>6. QED
    BY <1>3, <2>1, <2>4, <2>5 DEF Types
<1>5. Unused'
  BY <1>1 DEF IInv, Unused
<1>6. Starts'
  BY <1>1, <1>2, TheEnds DEF IInv, Starts, Beginning, waits, file
<1>7. Counted'
  BY <1>1, <1>2, TheEnds DEF IInv, Counted, MaxFins, Beginning, file
<1>8. FinMeansClosed'
  <2>1. \A p \in {} \cup send_buf'[s] : p.type = "FIN" => \E b \in Made(s) : b.type = "FIN"
    BY <1>3
  <2>2. ~Closed(s)
    BY <1>1 DEF Closed, Beginning
  <2>3. QED
    BY <1>2, <1>3, <2>1, <2>2, FinStep, TheEnds
<1>9. OneWay' /\ StoredInOrder'
  <2>1. Stored = <<>>
    BY <1>1 DEF IInv, StoredInOrder
  <2>2. QED
    BY <1>1, <1>2, <1>3, <2>1, QuietData, TheEnds DEF data, file
<1>10. HandshakeFirst'
  <2>1. Accepting
    BY <1>1 DEF Accepting
  <2>2. QED
    BY <1>1, <1>3, <2>1, HandshakeTaken DEF Stored, data, file
<1>11. QED
  BY <1>3, <1>4, <1>5, <1>6, <1>7, <1>8, <1>9, <1>10 DEF IInv

LEMMA ReadStep == ASSUME IInv, Read PROVE IInv'
<1> DEFINE s == "server"
           a == IF ring = <<D>> THEN "close" ELSE app[s]
<1>1. /\ app[s] = "read" /\ got' = got \o ring /\ ring' = <<>>
      /\ app' = [app EXCEPT ![s] = a]
      /\ UNCHANGED <<sock, passive, rcv_ofo_buf, written, waits, handler, cur, crashed, wire>>
  BY DEF Read
<1>2. a \in {"read", "close"} /\ app'[s] = a /\ app'["client"] = app["client"]
  BY <1>1, TheEnds DEF IInv, Types, ThreadTypes
<1>3. /\ Local(s) /\ Flow(s, {}) /\ WireTypes' /\ Numbers' /\ UnackedIsKept'
      /\ Inputs(s) /\ send_buf'[s] \subseteq Made(s)
  BY <1>1, <1>2, QuietEffect, TheEnds DEF wire, sock
<1> HIDE DEF a
<1>4. got \in Seq(1..D) /\ ring \in Seq(1..D)
  BY DEF IInv, Types, DataTypes
<1>5. got' \in Seq(1..D) /\ Stored' = Stored
  <2>1. got \o ring \in Seq(1..D)
    BY <1>4, ConcatProperties
  <2>2. (got \o ring) \o <<>> = got \o ring
    BY <2>1, ConcatEmptySeq
  <2>3. QED
    BY <1>1, <2>1, <2>2 DEF Stored
<1>6. Types'
  <2>1. SockTypes' /\ PassiveTypes' /\ ThreadTypes'
    BY <1>1, <1>2, TheEnds
    DEF IInv, Types, SockTypes, PassiveTypes, ThreadTypes, ServerApp, sock, passive, waits
  <2>2. DataTypes'
    BY <1>1, <1>5 DEF IInv, Types, DataTypes
  <2>3. QED
    BY <1>3, <2>1, <2>2 DEF Types
<1>7. Unused'
  BY <1>1 DEF IInv, Unused, passive
<1>8. Starts'
  BY <1>1, <1>2, TheEnds DEF IInv, Starts, Beginning, waits, sock
<1>9. Counted'
  BY <1>1, <1>2, TheEnds DEF IInv, Counted, MaxFins, Beginning, sock, passive
<1>10. FinMeansClosed'
  <2>1. \A p \in {} \cup send_buf'[s] : p.type = "FIN" => \E b \in Made(s) : b.type = "FIN"
    BY <1>3
  <2>2. state' = state
    BY <1>1 DEF sock
  <2>3. Closed(s) => Closed(s)'
    BY <1>1, <1>2, <2>2 DEF Closed, Beginning
  <2>4. QED
    BY <1>2, <1>3, <2>1, <2>2, <2>3, FinStep, TheEnds
<1>11. OneWay' /\ Copied(Traces', Traces)
  <2>1. \A p \in {} \cup send_buf'[s] :
            /\ p.type = "SYNACK" => s = "server"
            /\ p.type = "DATA" => s = "client" /\ \E b \in Made("client") :
                   b.type = "DATA" /\ b.seq = p.seq /\ b.seg = p.seg
    BY <1>3 DEF IInv, OneWay
  <2>2. Copied(Held', Traces)
    BY <1>1 DEF Copied, Held, Traces
  <2>3. /\ written' \in Nat /\ written <= written'
        /\ snd_nxt'["client"] \in Nat /\ snd_nxt["client"] <= snd_nxt'["client"]
    BY <1>1, TheEnds DEF IInv, Types, DataTypes, SockTypes, sock
  <2>4. QED
    BY <1>3, <2>1, <2>2, <2>3, OneWayStep, TheEnds
<1>12. StoredInOrder'
  <2>1. /\ written' \in Nat /\ written <= written' /\ rcv_nxt'["server"] \in Nat
        /\ rcv_nxt["server"] <= rcv_nxt'["server"] /\ state' = state
    BY <1>1, TheEnds DEF IInv, Types, DataTypes, SockTypes, sock
  <2>2. QED
    BY <1>1, <1>2, <1>5, <1>11, <2>1, StoredStep
<1>13. HandshakeFirst'
  <2>1. Accepting' => Accepting
    BY <1>1, <1>2 DEF Accepting, sock
  <2>2. QED
    BY <1>3, <1>5, <2>1, HandshakeTaken
<1>14. QED
  BY <1>3, <1>6, <1>7, <1>8, <1>9, <1>10, <1>11, <1>12, <1>13 DEF IInv
-----------------------------------------------------------------------------
(* Steps of e in which its state or its thread moves on.                    *)

(* Packets may be taken, but none is sent and none leaves send_buf.         *)
LEMMA SilentEffect ==
    ASSUME IInv, NEW e \in Ends, Inputs(e), net' = [net EXCEPT ![e] = net'[e]],
           UNCHANGED <<acked, snd_nxt, rcv_nxt, send_buf>>,
           cur'[Other(e)] = cur[Other(e)],
           state'[Other(e)] = state[Other(e)], app'[Other(e)] = app[Other(e)]
    PROVE  /\ Local(e) /\ Flow(e, {}) /\ WireTypes' /\ Numbers' /\ UnackedIsKept'
           /\ send_buf'[e] \subseteq Made(e)
           /\ Inputs("server")
<1> DEFINE o == Other(e)
<1>1. Output(e, <<>>)
  BY SilentOutput
<1>2. {<<>>[k] : k \in 1..Len(<<>>)} = {} /\ Len(<<>>) = 0
  OBVIOUS
<1>3. Local(e) /\ Flow(e, {}) /\ WireTypes'
  BY <1>1, <1>2 DEF Output, Local
<1>4. snd_nxt[e] \in Nat /\ rcv_nxt[e] <= snd_nxt[o] /\ snd_nxt[e] <= snd_nxt[e]
  BY DEF IInv, Types, SockTypes, Numbers
<1>5. \A p \in send_buf[e] : SeqEnd(p) <= snd_nxt[e] /\ Reliable(p)
  BY DEF IInv, Numbers, Made
<1>6. Numbers'
  BY <1>1, <1>2, <1>3, <1>4, <1>5, OutputNumbers
<1>7. UnackedIsKept'
  BY DEF IInv, UnackedIsKept
<1>8. Inputs("server")
  <2>1. CASE e = "server"
    BY <2>1
  <2>2. CASE e = "client"
    <3>1. net'["server"] = net["server"] /\ cur'["server"] = cur["server"]
      BY <2>2, TheEnds DEF IInv, Types, WireTypes
    <3>2. QED
      BY <3>1 DEF Inputs
  <2>3. QED
    BY <2>1, <2>2, TheEnds
<1>9. QED
  BY <1>3, <1>6, <1>7, <1>8 DEF Made

LEMMA MovesOn ==
    ASSUME IInv, NEW e \in Ends, NEW st \in {"CLOSED", "LAST_ACK", "FIN_WAIT_1"},
           NEW a \in {app[e], "fin", "done"},
           state' = [state EXCEPT ![e] = st], app' = [app EXCEPT ![e] = a],
           a # app[e] => app[e] \in {"close", "last_ack"},
           st # "CLOSED" => app[e] \in {"close", "last_ack"},
           st = "LAST_ACK" => app[e] = "last_ack",
           st = "FIN_WAIT_1" => a = "fin" /\ state[e] = "ESTABLISHED",
           a = "fin" => st = "FIN_WAIT_1" \/ app[e] = "fin",
           Inputs(e), net' = [net EXCEPT ![e] = net'[e]], hashed' \in [Ends -> BOOLEAN],
           UNCHANGED <<snd_nxt, rcv_nxt, send_buf, retrans_time, passive, data, file, waits,
                       handler, cur, crashed, acked>>
    PROVE  IInv'
<1> DEFINE o == Other(e)
<1>1. o \in Ends /\ o # e /\ \A f \in Ends : f = e \/ f = o
  BY TheEnds
<1>2. /\ app'[e] = a /\ app'[o] = app[o] /\ state'[e] = st /\ state'[o] = state[o]
      /\ state' \in [Ends -> States]
  BY <1>1 DEF IInv, Types, SockTypes, ThreadTypes, States
<1>3. /\ Local(e) /\ Flow(e, {}) /\ WireTypes' /\ Numbers' /\ UnackedIsKept'
      /\ send_buf'[e] \subseteq Made(e) /\ Inputs("server")
  BY <1>2, SilentEffect
<1>4. Types'
  <2>1. SockTypes' /\ PassiveTypes' /\ DataTypes'
    BY <1>2 DEF IInv, Types, SockTypes, PassiveTypes, DataTypes, passive, data, file
  <2>2. ThreadTypes'
    <3>1. app' \in [Ends -> ClientApp \cup ServerApp]
      BY DEF IInv, Types, ThreadTypes, ClientApp, ServerApp
    <3>2. app'["client"] \in ClientApp /\ app'["server"] \in ServerApp
      BY <1>1, <1>2, TheEnds DEF IInv, Types, ThreadTypes, ClientApp, ServerApp
    <3>3. QED
      BY <3>1, <3>2 DEF IInv, Types, ThreadTypes, waits
  <2>3. QED
    BY <1>3, <2>1, <2>2 DEF Types
<1>5. Unused'
  BY <1>1, <1>2, TheEnds DEF IInv, Unused, passive
<1>6. Starts'
  BY <1>1, <1>2, TheEnds DEF IInv, Starts, Beginning, file, waits
<1>7. Counted'
  <2>1. MaxFins(o)' = MaxFins(o)
    BY <1>2 DEF MaxFins, Beginning
  <2>2. MaxFins(e) <= MaxFins(e)' /\ MaxFins(e) \in Nat /\ MaxFins(e)' \in Nat
    BY <1>2 DEF MaxFins, Beginning
  <2>3. /\ snd_nxt["client"] \in Nat /\ snd_nxt["server"] \in Nat /\ written \in Nat
        /\ MaxFins(o) \in Nat
    BY TheEnds DEF IInv, Types, SockTypes, DataTypes, MaxFins
  <2>4. app["client"] # "connect" => app'["client"] # "connect"
    BY <1>1, <1>2, TheEnds
  <2>5. app["client"] = "connect" => app'["client"] = "connect"
    BY <1>1, <1>2, TheEnds
  <2>6. listener' = listener /\ written' = written /\ snd_nxt' = snd_nxt
    BY DEF passive, file
  <2>7. /\ MaxFins("client") <= MaxFins("client")' /\ MaxFins("server") <= MaxFins("server")'
        /\ MaxFins("client") \in Nat /\ MaxFins("server") \in Nat
        /\ MaxFins("client")' \in Nat /\ MaxFins("server")' \in Nat
    BY <1>1, <2>1, <2>2, <2>3, TheEnds
  <2> HIDE DEF MaxFins
  <2>8. QED
    BY <2>3, <2>4, <2>5, <2>6, <2>7 DEF IInv, Counted
<1>8. FinMeansClosed'
  <2>1. \A p \in {} \cup send_buf'[e] : p.type = "FIN" => \E b \in Made(e) : b.type = "FIN"
    BY <1>3
  <2>2. Closed(e) => Closed(e)'
    BY <1>2 DEF Closed, Beginning, Open
  <2>3. app'[e] = "fin" => Closed(e)'
    <3>1. app[e] = "fin" => Closed(e)
      BY DEF IInv, FinMeansClosed, FinTrace
    <3>2. QED
      BY <1>2, <2>2, <3>1 DEF Closed, Beginning, Open
  <2>4. QED
    BY <1>2, <1>3, <2>1, <2>2, <2>3, FinStep
<1>9. app'["server"] = "accept" => app["server"] = "accept"
  BY <1>1, <1>2, TheEnds
<1>10. state'["server"] = "ESTABLISHED" => state["server"] = "ESTABLISHED"
  BY <1>1, <1>2, TheEnds
<1>11. OneWay' /\ StoredInOrder'
  BY <1>3, <1>9, <1>10, QuietData DEF data, file
<1>12. HandshakeFirst'
  BY <1>3, <1>9, <1>10, HandshakeTaken DEF Stored, data, file, Accepting
<1>13. QED
  BY <1>3, <1>4, <1>5, <1>6, <1>7, <1>8, <1>11, <1>12 DEF IInv

(* tcp_sock_close sends a FIN, from the thread or from the handler.         *)
LEMMA FinSent ==
    ASSUME IInv, NEW e \in Ends, NEW st \in States, NEW a, NEW in,
           \/ in = net[e]
           \/ Ready(e) /\ in = Rest(e),
           SendReliable(e, "FIN", 0, in),
           state' = [state EXCEPT ![e] = st], app' = [app EXCEPT ![e] = a],
           \/ state[e] = "CLOSE_WAIT" /\ st = "CLOSE_WAIT" /\ app[e] = "close" /\ a = "last_ack"
           \/ app[e] = "fin" /\ a = "done" /\ st = state[e]
           \/ state[e] = "CLOSE_WAIT" /\ st = "LAST_ACK" /\ a = app[e]
           \/ state[e] = "ESTABLISHED" /\ st = "FIN_WAIT_1" /\ a = app[e],
           UNCHANGED <<rcv_nxt, hashed, passive, data, file, waits, handler, cur, crashed>>
    PROVE  IInv'
<1> DEFINE o == Other(e)
           p == Made1("FIN", e, 0)
<1>1. o \in Ends /\ o # e /\ \A f \in Ends : f = e \/ f = o
  BY TheEnds
<1>2. /\ app'[e] = a /\ app'[o] = app[o] /\ state'[e] = st /\ state'[o] = state[o]
      /\ state' \in [Ends -> States]
  BY <1>1 DEF IInv, Types, SockTypes, ThreadTypes
<1>3. 0 \in 0..D
  BY ConstantsAssumption
<1>4. /\ Output(e, <<p>>) /\ Local(e)
      /\ snd_nxt' \in [Ends -> Nat] /\ snd_nxt'[e] = snd_nxt[e] + 1
      /\ send_buf' \in [Ends -> SUBSET AnyPacket]
      /\ send_buf'[e] = send_buf[e] \cup {[p EXCEPT !.ack = 0]}
      /\ retrans_time' \in [Ends -> NoTimer..MaxRetrans]
      /\ Numbers' /\ UnackedIsKept'
  BY <1>2, <1>3, ReliableEffect
<1>5. Len(<<p>>) = 1 /\ <<p>>[1] = p /\ {<<p>>[k] : k \in 1..Len(<<p>>)} = {p}
  OBVIOUS
<1>6. p.type = "FIN" /\ [p EXCEPT !.ack = 0].type = "FIN"
  BY DEF Made1
<1> HIDE DEF p
<1>7. Flow(e, {p}) /\ WireTypes'
  BY <1>4, <1>5 DEF Output
(* An end that gets here has closed. *)
<1>8. /\ ~Beginning(e) /\ st \notin Open /\ a \notin {"connect", "syn_sent", "accept", "fin"}
      /\ app[e] = "fin" => st # "CLOSE_WAIT"
  <2>1. app[e] = "fin" => state[e] \notin Open /\ state[e] # "CLOSE_WAIT" /\ ~Beginning(e)
    BY DEF IInv, FinMeansClosed, FinTrace, Closed, Starts
  <2>2. Beginning(e) => state[e] \in {"CLOSED", "SYN_RECV"}
    BY DEF IInv, Starts
  <2>3. state[e] \in Open <=> state[e] \in {"SYN_SENT", "SYN_RECV", "ESTABLISHED"}
    BY DEF Open
  <2>4. a = "fin" => FALSE
    BY <2>1, <2>3
  <2>5. st \notin Open
    BY <2>1 DEF Open
  <2>6. ~Beginning(e)
    BY <2>1, <2>2, <2>3 DEF Beginning
  <2>7. QED
    BY <2>1, <2>4, <2>5, <2>6 DEF Beginning
<1>9. Types'
  <2>1. SockTypes' /\ PassiveTypes' /\ DataTypes'
    BY <1>2, <1>4 DEF IInv, Types, SockTypes, PassiveTypes, DataTypes, passive, data, file
  <2>2. ThreadTypes'
    <3>1. a \in {app[e], "last_ack", "done"}
      OBVIOUS
    <3>2. app' \in [Ends -> ClientApp \cup ServerApp]
      BY <3>1 DEF IInv, Types, ThreadTypes, ClientApp, ServerApp
    <3>3. app'["client"] \in ClientApp /\ app'["server"] \in ServerApp
      BY <3>1, <1>1, <1>2, TheEnds DEF IInv, Types, ThreadTypes, ClientApp, ServerApp
    <3>4. QED
      BY <3>2, <3>3 DEF IInv, Types, ThreadTypes, waits
  <2>3. QED
    BY <1>7, <2>1, <2>2 DEF Types
<1>10. Unused'
  <2>1. e = "server" => listener # "LISTEN"
    BY <1>8 DEF IInv, Unused, Beginning
  <2>2. CASE e = "server"
    BY <2>1, <2>2 DEF passive, Unused
  <2>3. CASE o = "server"
    BY <1>2, <1>4, <2>3 DEF IInv, Unused, passive, Local
  <2>4. QED
    BY <1>1, <2>2, <2>3, TheEnds
<1>11. Starts'
  BY <1>1, <1>2, <1>8, TheEnds DEF IInv, Starts, Beginning, file, waits, Open
<1>12. Counted'
  <2>1. MaxFins(o)' = MaxFins(o)
    BY <1>2 DEF MaxFins, Beginning
  <2>2. MaxFins(e) + 1 <= MaxFins(e)' /\ MaxFins(e) \in Nat /\ MaxFins(e)' \in Nat
    BY <1>2, <1>8 DEF MaxFins, Beginning, Open
  <2>3. /\ snd_nxt["client"] \in Nat /\ snd_nxt["server"] \in Nat /\ written \in Nat
        /\ MaxFins(o) \in Nat
    BY TheEnds DEF IInv, Types, SockTypes, DataTypes, MaxFins
  <2>4. listener' = listener /\ written' = written /\ snd_nxt'[o] = snd_nxt[o]
    BY <1>4 DEF passive, file, Local
  <2>5. CASE e = "client"
    <3>1. o = "server" /\ app["client"] # "connect" /\ app'["client"] # "connect"
      BY <1>2, <1>8, <2>5, TheEnds DEF Beginning
    <3> HIDE DEF MaxFins
    <3>2. QED
      BY <1>4, <2>1, <2>2, <2>3, <2>4, <2>5, <3>1 DEF IInv, Counted
  <2>6. CASE e = "server"
    <3>1. o = "client" /\ app'["client"] = app["client"]
      BY <1>2, <2>6, TheEnds
    <3> HIDE DEF MaxFins
    <3>2. QED
      BY <1>4, <2>1, <2>2, <2>3, <2>4, <2>6, <3>1 DEF IInv, Counted
  <2>7. QED
    BY <2>5, <2>6, TheEnds
<1>13. FinMeansClosed'
  <2>1. Closed(e)'
    BY <1>2, <1>8 DEF Closed, Beginning
  <2>2. state[e] = "CLOSE_WAIT" => st \in {"CLOSE_WAIT", "LAST_ACK"}
    BY <1>8
  <2>3. \/ state'[e] \notin {"CLOSE_WAIT", "LAST_ACK", "TIME_WAIT"}
        \/ state[e] \in {"CLOSE_WAIT", "LAST_ACK", "TIME_WAIT"}
    BY <1>2
  <2>4. app'[e] = "last_ack" => app[e] = "last_ack" \/ state[e] = "CLOSE_WAIT"
    BY <1>2
  <2>5. QED
    BY <1>4, <1>7, <2>1, <2>3, <2>4, FinStep
<1>14. app'["server"] = "accept" => app["server"] = "accept"
  BY <1>1, <1>2, <1>8, TheEnds
<1>15. state'["server"] = "ESTABLISHED" => state["server"] = "ESTABLISHED"
  BY <1>1, <1>2, <1>8, TheEnds DEF Open
<1>16. OneWay' /\ StoredInOrder'
  <2>1. \A q \in {p} \cup send_buf'[e] : Harmless(e, q)
    BY <1>4, <1>6, OldIsHarmless DEF Harmless, Made
  <2>2. /\ snd_nxt'["client"] \in Nat /\ snd_nxt["client"] <= snd_nxt'["client"]
        /\ rcv_nxt'["server"] \in Nat /\ rcv_nxt["server"] <= rcv_nxt'["server"]
    BY <1>1, <1>4, TheEnds DEF IInv, Types, SockTypes, Local
  <2>3. UNCHANGED <<rcv_ofo_buf, ring, got, written>>
    BY DEF data, file
  <2>4. QED
    BY <1>4, <1>7, <1>14, <1>15, <2>1, <2>2, <2>3, NoDataStep
<1>17. HandshakeFirst'
  <2>1. Accepting' => Accepting
    BY <1>14, <1>15 DEF Accepting
  <2>2. Stored' = Stored
    BY DEF Stored, data, file
  <2>3. CASE e = "server"
    BY <1>4, <2>1, <2>2, <2>3, HandshakeTaken DEF Output
  <2>4. CASE o = "server"
    <3>1. \A k \in 1..Len(<<p>>) : <<p>>[k].type # "ACK"
      BY <1>5, <1>6
    <3>2. <<p>> \in Seq(AnyPacket) /\ Appended(net[o], net'[o], <<p>>) /\ cur'["server"] = cur["server"]
      BY <1>4 DEF Output
    <3>3. QED
      BY <1>7, <2>1, <2>2, <2>4, <3>1, <3>2, HandshakeSent
  <2>5. QED
    BY <1>1, <2>3, <2>4, TheEnds
<1>18. QED
  BY <1>4, <1>9, <1>10, <1>11, <1>12, <1>13, <1>16, <1>17 DEF IInv

LEMMA CloseSocketCases ==
    ASSUME NEW e, NEW in, CloseSocket(e, in)
    PROVE  /\ state[e] \in {"CLOSE_WAIT", "ESTABLISHED"} =>
                  /\ SendReliable(e, "FIN", 0, in)
                  /\ state' = [state EXCEPT ![e] = IF @ = "CLOSE_WAIT" THEN "LAST_ACK"
                                                                       ELSE "FIN_WAIT_1"]
                  /\ UNCHANGED hashed
           /\ state[e] \notin {"CLOSE_WAIT", "ESTABLISHED"} =>
                  /\ hashed' = [hashed EXCEPT ![e] = @ /\ state[e] = "CLOSED"]
                  /\ state' = [state EXCEPT ![e] = "CLOSED"]
                  /\ net' = [net EXCEPT ![e] = in]
                  /\ UNCHANGED <<snd_nxt, send_buf, retrans_time, acked>>
<1>1. CASE state[e] \in {"CLOSE_WAIT", "ESTABLISHED"}
  BY <1>1 DEF CloseSocket
<1>2. CASE state[e] \notin {"CLOSE_WAIT", "ESTABLISHED"}
  BY <1>2 DEF CloseSocket
<1>3. QED
  BY <1>1, <1>2

LEMMA Functions ==
    ASSUME Types, NEW e \in Ends
    PROVE  /\ net = [net EXCEPT ![e] = net[e]] /\ app = [app EXCEPT ![e] = app[e]]
           /\ state = [state EXCEPT ![e] = state[e]] /\ state[e] \in States
           /\ app[e] \in ClientApp \cup ServerApp
           /\ \A x : [net EXCEPT ![e] = x][e] = x
BY DEF Types, WireTypes, ThreadTypes, SockTypes

LEMMA CloseSocketStep ==
    ASSUME IInv, NEW e \in Ends, NEW a, NEW in,
           \/ in = net[e]
           \/ Ready(e) /\ in = Rest(e),
           CloseSocket(e, in), app' = [app EXCEPT ![e] = a],
           \/ a = app[e]
           \/ a = "done" /\ app[e] = "close" /\ state[e] \notin {"CLOSE_WAIT", "ESTABLISHED"},
           UNCHANGED <<rcv_nxt, passive, data, file, waits, handler, cur, crashed>>
    PROVE  IInv'
<1>1. CASE state[e] \in {"CLOSE_WAIT", "ESTABLISHED"}
  <2> DEFINE st == IF state[e] = "CLOSE_WAIT" THEN "LAST_ACK" ELSE "FIN_WAIT_1"
  <2>1. SendReliable(e, "FIN", 0, in) /\ state' = [state EXCEPT ![e] = st] /\ UNCHANGED hashed
    BY <1>1, CloseSocketCases
  <2>2. st \in States
    BY DEF States
  <2>3. \/ state[e] = "CLOSE_WAIT" /\ st = "LAST_ACK" /\ a = app[e]
        \/ state[e] = "ESTABLISHED" /\ st = "FIN_WAIT_1" /\ a = app[e]
    BY <1>1
  <2> HIDE DEF st
  <2>4. QED
    BY <2>1, <2>2, <2>3, FinSent
<1>2. CASE state[e] \notin {"CLOSE_WAIT", "ESTABLISHED"}
  <2>1. /\ hashed' = [hashed EXCEPT ![e] = @ /\ state[e] = "CLOSED"]
        /\ state' = [state EXCEPT ![e] = "CLOSED"]
        /\ net' = [net EXCEPT ![e] = in]
        /\ UNCHANGED <<snd_nxt, send_buf, retrans_time, acked>>
    BY <1>2, CloseSocketCases
  <2>2. hashed' \in [Ends -> BOOLEAN]
    <3>1. hashed \in [Ends -> BOOLEAN] /\ (hashed[e] /\ state[e] = "CLOSED") \in BOOLEAN
      BY DEF IInv, Types, SockTypes
    <3>2. QED
      BY <2>1, <3>1
  <2>3. net'[e] = in
    BY <2>1, Functions DEF IInv
  <2>4. Inputs(e)
    BY <2>3 DEF Inputs
  <2>5. a \in {app[e], "fin", "done"} /\ (a # app[e] => app[e] \in {"close", "last_ack"})
        /\ (a = "fin" => app[e] = "fin")
    OBVIOUS
  <2>6. QED
    BY <2>1, <2>2, <2>3, <2>4, <2>5, MovesOn
<1>3. QED
  BY <1>1, <1>2

LEMMA CloseStartStep == ASSUME IInv, NEW e \in Ends, CloseStart(e) PROVE IInv'
<1>1. /\ app[e] = "close"
      /\ UNCHANGED <<rcv_nxt, passive, data, file, waits, handler, cur, crashed>>
  BY DEF CloseStart
<1>2. CASE /\ state[e] = "CLOSE_WAIT"
           /\ SendReliable(e, "FIN", 0, net[e])
           /\ app' = [app EXCEPT ![e] = "last_ack"]
           /\ UNCHANGED <<state, hashed>>
  <2>1. state' = [state EXCEPT ![e] = "CLOSE_WAIT"] /\ "CLOSE_WAIT" \in States
    BY <1>2, Functions DEF IInv, States
  <2>2. QED
    BY <1>1, <1>2, <2>1, FinSent
<1>3. CASE /\ state[e] = "ESTABLISHED"
           /\ state' = [state EXCEPT ![e] = "FIN_WAIT_1"]
           /\ app' = [app EXCEPT ![e] = "fin"]
           /\ UNCHANGED <<snd_nxt, send_buf, retrans_time, hashed, wire>>
  <2>1. net' = [net EXCEPT ![e] = net'[e]] /\ Inputs(e) /\ acked' = acked
    BY <1>1, <1>3, Functions DEF IInv, Inputs, wire
  <2>2. hashed' \in [Ends -> BOOLEAN]
    BY <1>3 DEF IInv, Types, SockTypes
  <2>3. QED
    BY <1>1, <1>3, <2>1, <2>2, MovesOn
<1>4. CASE /\ state[e] \notin {"CLOSE_WAIT", "ESTABLISHED"}
           /\ CloseSocket(e, net[e])
           /\ app' = [app EXCEPT ![e] = "done"]
  BY <1>1, <1>4, CloseSocketStep
<1>5. QED
  BY <1>2, <1>3, <1>4 DEF CloseStart

LEMMA CloseFinishStep == ASSUME IInv, NEW e \in Ends, CloseFinish(e) PROVE IInv'
<1>1. UNCHANGED <<rcv_nxt, hashed, passive, data, file, waits, handler, cur, crashed>>
  BY DEF CloseFinish
<1>2. CASE /\ Step(e, "last_ack", "done")
           /\ state' = [state EXCEPT ![e] = "LAST_ACK"]
           /\ UNCHANGED <<snd_nxt, send_buf, retrans_time, wire>>
  <2>1. net' = [net EXCEPT ![e] = net'[e]] /\ Inputs(e) /\ acked' = acked
    BY <1>1, <1>2, Functions DEF IInv, Inputs, wire
  <2>2. hashed' \in [Ends -> BOOLEAN]
    BY <1>1 DEF IInv, Types, SockTypes
  <2>3. app[e] = "last_ack" /\ app' = [app EXCEPT ![e] = "done"]
    BY <1>2 DEF Step
  <2>4. QED
    BY <1>1, <1>2, <2>1, <2>2, <2>3, MovesOn
<1>3. CASE /\ Step(e, "fin", "done")
           /\ SendReliable(e, "FIN", 0, net[e])
           /\ UNCHANGED state
  <2>1. state' = [state EXCEPT ![e] = state[e]] /\ state[e] \in States
    BY <1>3, Functions DEF IInv
  <2>2. app[e] = "fin" /\ app' = [app EXCEPT ![e] = "done"]
    BY <1>3 DEF Step
  <2>3. QED
    BY <1>1, <1>3, <2>1, <2>2, FinSent
<1>4. QED
  BY <1>2, <1>3 DEF CloseFinish

LEMMA TimeWaitOverStep == ASSUME IInv, NEW e \in Ends, TimeWaitOver(e) PROVE IInv'
<1>1. /\ state' = [state EXCEPT ![e] = "CLOSED"]
      /\ UNCHANGED <<snd_nxt, rcv_nxt, send_buf, retrans_time, hashed,
                     passive, data, file, waits, app, handler, cur, crashed, wire>>
  BY DEF TimeWaitOver
<1>2. net' = [net EXCEPT ![e] = net'[e]] /\ Inputs(e) /\ acked' = acked
  BY <1>1, Functions DEF IInv, Inputs, wire
<1>3. hashed' \in [Ends -> BOOLEAN] /\ app' = [app EXCEPT ![e] = app[e]]
  BY <1>1, Functions DEF IInv, Types, SockTypes
<1>4. QED
  BY <1>1, <1>2, <1>3, MovesOn

LEMMA TestFacts ==
    ASSUME Types, NEW e \in Ends, NEW t \in {"rst", "syn_sent", "syn_recv", "est", "closing"},
           Testing(e, t)
    PROVE  /\ Ready(e)
           /\ t \in {"rst", "syn_sent", "syn_recv"} => handler[e] = "idle"
           /\ t = "rst" => Packet(e).type = "RST"
           /\ t = "syn_sent" => state[e] = "SYN_SENT"
           /\ t = "syn_recv" => state[e] = "SYN_RECV" /\ HasAck(Packet(e))
<1>1. handler[e] \in {"idle", "est", "closing"}
  BY DEF Types, ThreadTypes
<1>2. CASE handler[e] = "idle" /\ net[e] # <<>> /\ FirstTest(e, Head(net[e])) = t
  <2> DEFINE p == Head(net[e])
  <2>1. Packet(e) = p /\ Ready(e)
    BY <1>2 DEF Packet, Ready
  <2>2. CASE p.type = "RST"
    BY <1>2, <2>1, <2>2 DEF FirstTest
  <2>3. CASE p.type # "RST" /\ state[e] = "SYN_SENT"
    BY <1>2, <2>1, <2>3 DEF FirstTest
  <2>4. CASE p.type # "RST" /\ state[e] = "SYN_RECV" /\ HasAck(p)
    BY <1>2, <2>1, <2>4 DEF FirstTest
  <2>5. CASE p.type # "RST" /\ state[e] = "ESTABLISHED" /\ p.type # "SYN"
    BY <1>2, <2>1, <2>5 DEF FirstTest
  <2>6. CASE /\ p.type # "RST" /\ state[e] # "SYN_SENT" /\ ~(state[e] = "SYN_RECV" /\ HasAck(p))
             /\ ~(state[e] = "ESTABLISHED" /\ p.type # "SYN")
    <3>1. t = "closing"
      BY <1>2, <2>6 DEF FirstTest
    <3>2. QED
      BY <2>1, <3>1
  <2>7. QED
    BY <2>2, <2>3, <2>4, <2>5, <2>6
<1>3. CASE handler[e] = t
  BY <1>1, <1>3 DEF Ready
<1>4. QED
  BY <1>2, <1>3 DEF Testing

LEMMA HandleRstStep == ASSUME IInv, NEW e \in Ends, HandleRst(e) PROVE IInv'
<1>1. /\ Testing(e, "rst") /\ CloseSocket(e, Rest(e))
      /\ UNCHANGED <<rcv_nxt, passive, data, file, waits, app, handler, cur, crashed>>
  BY DEF HandleRst
<1>2. Ready(e) /\ app' = [app EXCEPT ![e] = app[e]]
  BY <1>1, TestFacts, Functions DEF IInv
<1>3. QED
  BY <1>1, <1>2, CloseSocketStep
-----------------------------------------------------------------------------
(* The client sends its SYN and its data.                                   *)

LEMMA ConnectStep == ASSUME IInv, Connect PROVE IInv'
<1> DEFINE c == "client"
           p == Made1("SYN", c, 0)
<1>1. /\ app[c] = "connect" /\ app' = [app EXCEPT ![c] = "syn_sent"]
      /\ SendReliable(c, "SYN", 0, net[c])
      /\ UNCHANGED <<state, rcv_nxt, hashed, passive, data, file, waits,
                     handler, cur, crashed>>
  BY DEF Connect, Step
<1>2. app'[c] = "syn_sent" /\ app'["server"] = app["server"]
  BY <1>1, TheEnds DEF IInv, Types, ThreadTypes
<1>3. 0 \in 0..D
  BY ConstantsAssumption
<1>4. /\ Output(c, <<p>>) /\ Local(c)
      /\ snd_nxt' \in [Ends -> Nat] /\ snd_nxt'[c] = snd_nxt[c] + 1
      /\ send_buf' \in [Ends -> SUBSET AnyPacket]
      /\ send_buf'[c] = send_buf[c] \cup {[p EXCEPT !.ack = 0]}
      /\ retrans_time' \in [Ends -> NoTimer..MaxRetrans]
      /\ Numbers' /\ UnackedIsKept'
  BY <1>1, <1>2, <1>3, ReliableEffect, TheEnds
<1>5. Len(<<p>>) = 1 /\ <<p>>[1] = p /\ {<<p>>[k] : k \in 1..Len(<<p>>)} = {p}
  OBVIOUS
<1>6. p.type = "SYN" /\ [p EXCEPT !.ack = 0].type = "SYN"
  BY DEF Made1
<1> HIDE DEF p
<1>7. Flow(c, {p}) /\ WireTypes'
  BY <1>4, <1>5 DEF Output
<1>8. Types'
  <2>1. SockTypes' /\ PassiveTypes' /\ DataTypes'
    BY <1>1, <1>4 DEF IInv, Types, SockTypes, PassiveTypes, DataTypes, passive, data, file
  <2>2. ThreadTypes'
    BY <1>1, <1>2 DEF IInv, Types, ThreadTypes, ClientApp, waits
  <2>3. QED
    BY <1>7, <2>1, <2>2 DEF Types
<1>9. Unused'
  BY <1>1, <1>2, <1>4, TheEnds DEF IInv, Unused, passive, Local
<1>10. Starts'
  BY <1>1, <1>2, TheEnds DEF IInv, Starts, Beginning, file, waits
<1>11. Counted'
  <2>1. snd_nxt[c] <= 0 + written + 0
    BY <1>1 DEF IInv, Counted, MaxFins, Beginning
  <2>2. snd_nxt'[c] <= 1 + written' + 0
    BY <1>1, <1>4, <2>1, TheEnds DEF file, IInv, Types, SockTypes, DataTypes
  <2>3. MaxFins(c)' = 0 /\ MaxFins("server")' = MaxFins("server")
    BY <1>1, <1>2 DEF MaxFins, Beginning
  <2>4. snd_nxt'["server"] = snd_nxt["server"] /\ listener' = listener
    BY <1>1, <1>4, TheEnds DEF Local, passive
  <2>5. app'[c] # "connect"
    BY <1>2
  <2> HIDE DEF MaxFins
  <2>6. QED
    BY <2>2, <2>3, <2>4, <2>5 DEF IInv, Counted
<1>12. FinMeansClosed'
  <2>1. ~Closed(c)
    BY <1>1 DEF Closed, Beginning
  <2>2. \A q \in {p} \cup send_buf'[c] : q.type = "FIN" => \E b \in Made(c) : b.type = "FIN"
    BY <1>4, <1>6 DEF Made
  <2>3. QED
    BY <1>1, <1>2, <1>4, <1>7, <2>1, <2>2, FinStep, TheEnds
<1>13. OneWay' /\ StoredInOrder'
  <2>1. \A q \in {p} \cup send_buf'[c] : Harmless(c, q)
    BY <1>4, <1>6, OldIsHarmless DEF Harmless, Made
  <2>2. /\ snd_nxt'["client"] \in Nat /\ snd_nxt["client"] <= snd_nxt'["client"]
        /\ rcv_nxt'["server"] \in Nat /\ rcv_nxt["server"] <= rcv_nxt'["server"]
    BY <1>1, <1>4, TheEnds DEF IInv, Types, SockTypes, Local
  <2>3. UNCHANGED <<rcv_ofo_buf, ring, got, written>>
    BY <1>1 DEF data, file
  <2>4. QED
    BY <1>1, <1>2, <1>4, <1>7, <2>1, <2>2, <2>3, NoDataStep, TheEnds
<1>14. HandshakeFirst'
  <2>1. Accepting' => Accepting
    BY <1>1, <1>2 DEF Accepting
  <2>2. Stored' = Stored
    BY <1>1 DEF Stored, data, file
  <2>3. \A k \in 1..Len(<<p>>) : <<p>>[k].type # "ACK"
    BY <1>5, <1>6
  <2>4. /\ <<p>> \in Seq(AnyPacket) /\ Appended(net["server"], net'["server"], <<p>>)
        /\ cur'["server"] = cur["server"]
    BY <1>4, TheEnds DEF Output
  <2>5. QED
    BY <1>7, <2>1, <2>2, <2>3, <2>4, HandshakeSent
<1>15. QED
  BY <1>4, <1>8, <1>9, <1>10, <1>11, <1>12, <1>13, <1>14 DEF IInv

LEMMA WriteStep == ASSUME IInv, Write PROVE IInv'
<1> DEFINE c == "client"
           p == Made1("DATA", c, written + 1)
           b == [p EXCEPT !.ack = 0]
<1>1. /\ app[c] = "write" /\ written < D /\ written' = written + 1
      /\ SendReliable(c, "DATA", written + 1, net[c])
      /\ UNCHANGED <<state, rcv_nxt, hashed, passive, data, got, waits, app,
                     handler, cur, crashed>>
  BY DEF Write
<1>2. written \in Nat /\ written + 1 \in 0..D /\ snd_nxt[c] \in Nat
  BY <1>1, ConstantsAssumption, TheEnds DEF IInv, Types, DataTypes, SockTypes
<1>3. /\ Output(c, <<p>>) /\ Local(c)
      /\ snd_nxt' \in [Ends -> Nat] /\ snd_nxt'[c] = snd_nxt[c] + 1
      /\ send_buf' \in [Ends -> SUBSET AnyPacket]
      /\ send_buf'[c] = send_buf[c] \cup {b}
      /\ retrans_time' \in [Ends -> NoTimer..MaxRetrans]
      /\ Numbers' /\ UnackedIsKept'
  BY <1>1, <1>2, ReliableEffect, TheEnds
<1>4. Len(<<p>>) = 1 /\ <<p>>[1] = p /\ {<<p>>[k] : k \in 1..Len(<<p>>)} = {p}
  OBVIOUS
<1>5. /\ p.type = "DATA" /\ b.type = "DATA" /\ p.seq = snd_nxt[c] /\ b.seq = snd_nxt[c]
      /\ p.seg = written + 1 /\ b.seg = written + 1
  BY DEF Made1
<1> HIDE DEF p, b
<1>6. Flow(c, {p}) /\ WireTypes'
  BY <1>3, <1>4 DEF Output
<1>7. Types'
  <2>1. SockTypes' /\ PassiveTypes' /\ ThreadTypes'
    BY <1>1, <1>3 DEF IInv, Types, SockTypes, PassiveTypes, ThreadTypes, passive, waits
  <2>2. DataTypes'
    BY <1>1, <1>2 DEF IInv, Types, DataTypes, data
  <2>3. QED
    BY <1>6, <2>1, <2>2 DEF Types
<1>8. Unused'
  BY <1>1, <1>3, TheEnds DEF IInv, Unused, passive, Local
<1>9. state[c] # "SYN_SENT" /\ ~Beginning(c)
  BY <1>1 DEF IInv, Starts, Beginning
<1>10. Starts'
  BY <1>1, <1>9, TheEnds DEF IInv, Starts, Beginning, waits
<1>11. Counted'
  <2>1. MaxFins(c)' = MaxFins(c) /\ MaxFins("server")' = MaxFins("server") /\ MaxFins(c) \in Nat
    BY <1>1 DEF MaxFins, Beginning
  <2>2. snd_nxt[c] <= 1 + written + MaxFins(c)
    BY <1>1 DEF IInv, Counted
  <2>3. snd_nxt'["server"] = snd_nxt["server"] /\ listener' = listener /\ app' = app
    BY <1>1, <1>3, TheEnds DEF Local, passive
  <2> HIDE DEF MaxFins
  <2>4. snd_nxt'[c] <= 1 + written' + MaxFins(c)
    BY <1>1, <1>2, <1>3, <2>1, <2>2
  <2>5. QED
    BY <1>1, <2>1, <2>3, <2>4 DEF IInv, Counted
<1>12. FinMeansClosed'
  <2>1. Closed(c)' <=> Closed(c)
    BY <1>1 DEF Closed, Beginning
  <2>2. \A q \in {p} \cup send_buf'[c] : q.type = "FIN" => \E d \in Made(c) : d.type = "FIN"
    BY <1>3, <1>5 DEF Made
  <2>3. QED
    BY <1>1, <1>3, <1>6, <2>1, <2>2, FinStep, TheEnds
(* A new trace comes after all there are, in number and in segment. *)
<1>13. /\ \A x \in Traces : x.seq \in Nat /\ x.seg \in Nat /\ x.seq < snd_nxt[c] /\ x.seg <= written
       /\ \A x \in Traces' : x \in Traces \/ (x.seq = snd_nxt[c] /\ x.seg = written + 1)
  <2>1. ASSUME NEW x \in Traces
        PROVE  x.seq \in Nat /\ x.seg \in Nat /\ x.seq < snd_nxt[c] /\ x.seg <= written
    BY <1>2, TraceTypes DEF IInv, OneWay
  <2>2. Held' = Held
    BY <1>1 DEF Held, data
  <2>3. Made(c)' \subseteq Made(c) \cup {p, b}
    BY <1>3, <1>6 DEF Made, Flow
  <2>4. DataSent' \subseteq DataSent \cup {p, b}
    BY <2>3 DEF DataSent
  <2>5. QED
    BY <1>5, <2>1, <2>2, <2>4 DEF Traces
<1>14. OneWay'
  <2>1. \A q \in Made(c)' : q.type # "SYNACK"
    BY <1>3, <1>5, <1>6 DEF IInv, OneWay, Made, Flow
  <2>2. \A q \in Made("server")' : q.type # "DATA"
    BY <1>3, <1>6, TheEnds DEF IInv, OneWay, Made, Flow, Local, NoPacket
  <2>3. \A x \in Traces' : x.seg \in 1..written' /\ x.seq < snd_nxt'[c]
    <3>1. \A x \in Traces : x.seg >= 1
      BY DEF IInv, OneWay
    <3>2. QED
      BY <1>1, <1>2, <1>3, <1>13, <3>1
  <2>4. ASSUME NEW x \in Traces', NEW y \in Traces', x.seq < y.seq
        PROVE  x.seg < y.seg
    <3>1. CASE x \in Traces /\ y \in Traces
      BY <2>4, <3>1 DEF IInv, OneWay
    <3>2. CASE y.seq = snd_nxt[c] /\ y.seg = written + 1
      BY <1>2, <1>13, <2>4, <3>2
    <3>3. CASE x.seq = snd_nxt[c] /\ x.seg = written + 1
      BY <1>2, <1>13, <2>4, <3>3
    <3>4. QED
      BY <1>13, <3>1, <3>2, <3>3
  <2>5. QED
    BY <2>1, <2>2, <2>3, <2>4 DEF OneWay
<1>15. StoredInOrder'
  <2>1. Stored' = Stored /\ rcv_ofo_buf' = rcv_ofo_buf
    BY <1>1 DEF Stored, data
  <2>2. \A i \in 1..Len(Stored) : Stored[i] \in Nat /\ Stored[i] <= written
    <3>1. Stored \in Seq(1..D)
      BY ConcatProperties DEF Stored, IInv, Types, DataTypes
    <3>2. \A i \in 1..Len(Stored) : Stored[i] \in 1..D
      BY <3>1, ElementOfSeq
    <3>3. QED
      BY <3>2, ConstantsAssumption DEF IInv, StoredInOrder
  <2> HIDE DEF Stored
  <2>3. \A i \in 1..Len(Stored) : Stored[i] <= written'
    BY <1>1, <1>2, <2>2
  <2>4. ASSUME state'["server"] = "ESTABLISHED", NEW x \in Traces', x.seq >= rcv_nxt'["server"],
               NEW i \in 1..Len(Stored)
        PROVE  Stored[i] < x.seg
    <3>1. CASE x \in Traces
      BY <1>1, <2>4, <3>1 DEF IInv, StoredInOrder
    <3>2. CASE x.seg = written + 1
      BY <1>2, <2>2, <3>2
    <3>3. QED
      BY <1>13, <3>1, <3>2
  <2>5. QED
    BY <1>1, <2>1, <2>3, <2>4 DEF IInv, StoredInOrder
<1>16. HandshakeFirst'
  <2>1. Accepting' => Accepting
    BY <1>1 DEF Accepting
  <2>2. Stored' = Stored
    BY <1>1 DEF Stored, data
  <2>3. \A k \in 1..Len(<<p>>) : <<p>>[k].type # "ACK"
    BY <1>4, <1>5
  <2>4. /\ <<p>> \in Seq(AnyPacket) /\ Appended(net["server"], net'["server"], <<p>>)
        /\ cur'["server"] = cur["server"]
    BY <1>3, TheEnds DEF Output
  <2>5. QED
    BY <1>6, <2>1, <2>2, <2>3, <2>4, HandshakeSent
<1>17. QED
  BY <1>3, <1>7, <1>8, <1>10, <1>11, <1>12, <1>14, <1>15, <1>16 DEF IInv
-----------------------------------------------------------------------------
(* The timer and the network.                                               *)

LEMMA LoseStep == ASSUME IInv, NEW e \in Ends, Lose(e) PROVE IInv'
<1> DEFINE o == Other(e)
<1>1. /\ net[e] # <<>> /\ net' = [net EXCEPT ![e] = Tail(net[e])]
      /\ UNCHANGED <<sock, passive, data, file, waits, app, handler, cur, crashed, acked>>
  BY DEF Lose
<1>2. o \in Ends /\ o # e /\ \A f \in Ends : f = e \/ f = o
  BY TheEnds
<1>3. net \in [Ends -> Seq(AnyPacket)] /\ Len(net[e]) <= NetMax /\ Len(net[e]) \in Nat
  BY DEF IInv, Types, WireTypes
<1>4. /\ net'[e] \in Seq(AnyPacket) /\ Len(net'[e]) = Len(net[e]) - 1
      /\ \A i \in 1..Len(net'[e]) : net'[e][i] = net[e][i + 1]
      /\ net'[o] = net[o] /\ net' \in [Ends -> Seq(AnyPacket)]
  BY <1>1, <1>2, <1>3, HeadTailProperties
<1>5. WireTypes'
  <2>1. Len(net'[e]) <= NetMax
    BY <1>3, <1>4, ConstantsAssumption
  <2>2. QED
    BY <1>1, <1>2, <1>4, <2>1 DEF IInv, Types, WireTypes
<1>6. Towards(e)' \subseteq Towards(e) /\ Towards(o)' = Towards(o)
  <2>1. \A i \in DOMAIN net'[e] : net'[e][i] \in ToldTo(e)
    <3> SUFFICES ASSUME NEW i \in DOMAIN net'[e] PROVE net'[e][i] \in ToldTo(e)
      OBVIOUS
    <3>1. i \in 1..Len(net'[e])
      BY <1>4
    <3>2. i + 1 \in DOMAIN net[e] /\ net'[e][i] = net[e][i + 1]
      BY <1>3, <1>4, <3>1
    <3>3. QED
      BY <3>2 DEF ToldTo
  <2>2. ToldTo(e)' \subseteq ToldTo(e)
    BY <2>1 DEF ToldTo
  <2>3. ToldTo(o)' = ToldTo(o)
    BY <1>4 DEF ToldTo
  <2>4. cur' = cur
    BY <1>1
  <2>5. QED
    BY <2>2, <2>3, <2>4 DEF Towards
<1>7. Flow(e, {}) /\ Local(e) /\ send_buf'[e] \subseteq Made(e)
  BY <1>1, <1>6 DEF Flow, Local, Made, sock
<1>8. \A f \in Ends : Made(f)' \subseteq Made(f) /\ Towards(f)' \subseteq Towards(f)
  BY <1>1, <1>2, <1>6, TheEnds DEF Made, sock
<1>9. Numbers'
  <2>1. UNCHANGED <<snd_nxt, rcv_nxt, send_buf, acked>>
    BY <1>1 DEF sock
  <2>2. QED
    BY <1>8, <2>1, TheEnds DEF IInv, Numbers
<1>10. Types'
  BY <1>1, <1>5
  DEF IInv, Types, SockTypes, PassiveTypes, DataTypes, ThreadTypes, sock, passive, data, file, waits
<1>11. Unused' /\ Starts' /\ Counted' /\ UnackedIsKept'
  BY <1>1 DEF IInv, Unused, Starts, Counted, MaxFins, Beginning, UnackedIsKept, sock, passive,
              data, file, waits
<1>12. state' = state /\ app' = app
  BY <1>1 DEF sock
<1>13. FinMeansClosed'
  <2>1. Closed(e)' <=> Closed(e)
    BY <1>12 DEF Closed, Beginning
  <2>2. \A p \in {} \cup send_buf'[e] : p.type = "FIN" => \E b \in Made(e) : b.type = "FIN"
    BY <1>7
  <2>3. app[e] = "fin" => Closed(e)
    BY DEF IInv, FinMeansClosed, FinTrace
  <2>4. QED
    BY <1>7, <1>12, <2>1, <2>2, <2>3, FinStep
<1>14. OneWay' /\ StoredInOrder'
  BY <1>1, <1>7, <1>12, QuietData DEF data, file, sock
<1>15. HandshakeFirst'
  <2>1. Accepting' <=> Accepting
    BY <1>12 DEF Accepting
  <2>2. Stored' = Stored /\ cur' = cur
    BY <1>1 DEF Stored, data, file
  <2>3. CASE o = "server"
    <3>1. net'["server"] = net["server"]
      BY <1>4, <2>3
    <3>2. QED
      BY <2>1, <2>2, <3>1 DEF IInv, HandshakeFirst
  <2>4. CASE e = "server"
    <3>1. ASSUME Accepting, NEW i \in 1..Len(net'[e]), net'[e][i].type = "ACK"
          PROVE  /\ Stored = <<>> /\ cur[e].type # "DATA"
                 /\ \A j \in 1..i - 1 : net'[e][j].type # "DATA"
      <4>1. i + 1 \in 1..Len(net[e]) /\ net[e][i + 1].type = "ACK"
        BY <1>3, <1>4, <3>1
      <4>2. /\ Stored = <<>> /\ cur[e].type # "DATA"
            /\ \A j \in 1..(i + 1) - 1 : net[e][j].type # "DATA"
        BY <2>4, <3>1, <4>1 DEF IInv, HandshakeFirst
      <4>3. \A j \in 1..i - 1 : j \in 1..Len(net'[e]) /\ j + 1 \in 1..(i + 1) - 1
        BY <1>3, <1>4
      <4>4. QED
        BY <1>4, <4>2, <4>3
    <3>2. QED
      BY <2>1, <2>2, <2>4, <3>1 DEF IInv, HandshakeFirst
  <2>5. QED
    BY <1>2, <2>3, <2>4, TheEnds
<1>16. QED
  BY <1>9, <1>10, <1>11, <1>13, <1>14, <1>15 DEF IInv

(* What the timer sends is a copy of what is buffered, or a RST.            *)
CopyOrRst(e, p) ==
    \/ p.type = "RST"
    \/ \E b \in send_buf[e] : b.type = p.type /\ b.seq = p.seq /\ b.seg = p.seg
LEMMA TimerSends ==
    ASSUME IInv, NEW e \in Ends, NEW p \in AnyPacket,
           p.ack = rcv_nxt[e], SeqEnd(p) <= snd_nxt[e],
           CopyOrRst(e, p), p.type # "ACK", state[e] # "CLOSED",
           Transmit(e, <<p>>, net[e]),
           state' = state \/ state' = [state EXCEPT ![e] = "CLOSED"],
           retrans_time' \in [Ends -> NoTimer..MaxRetrans],
           wait_connect' \in {"quiet", "notified", "dead"},
           wait_send' \in {"quiet", "notified", "dead"},
           wait_connect' = wait_connect \/ (e = "client" /\ state'[e] = "CLOSED"),
           UNCHANGED <<snd_nxt, rcv_nxt, send_buf, hashed, passive, data, file, app, handler,
                       cur, crashed>>
    PROVE  IInv'
<1> DEFINE o == Other(e)
<1>1. o \in Ends /\ o # e /\ \A f \in Ends : f = e \/ f = o
  BY TheEnds
<1>2. /\ state'[e] \in {state[e], "CLOSED"} /\ state'[o] = state[o]
      /\ state' \in [Ends -> States]
  BY <1>1 DEF IInv, Types, SockTypes, States
<1>3. <<p>> \in Seq(AnyPacket) /\ Len(<<p>>) = 1 /\ <<p>>[1] = p
      /\ {<<p>>[k] : k \in 1..Len(<<p>>)} = {p}
  OBVIOUS
<1>4. Output(e, <<p>>)
  <2>1. \A k \in 1..Len(<<p>>) : <<p>>[k].ack <= snd_nxt[o]
    BY <1>3 DEF IInv, Numbers
  <2>2. QED
    BY <1>3, <2>1, TransmitOutput
<1>5. Flow(e, {p}) /\ WireTypes' /\ Local(e)
  BY <1>2, <1>3, <1>4 DEF Output, Local
<1>6. snd_nxt[e] \in Nat /\ snd_nxt[e] <= snd_nxt[e]
  BY DEF IInv, Types, SockTypes
<1>7. Numbers'
  <2>1. \A q \in send_buf'[e] : SeqEnd(q) <= snd_nxt'[e] /\ Reliable(q)
    BY DEF IInv, Numbers, Made
  <2>2. \A k \in 1..Len(<<p>>) : SeqEnd(<<p>>[k]) <= snd_nxt'[e]
    BY <1>3
  <2>3. rcv_nxt'[e] <= snd_nxt[o]
    BY DEF IInv, Numbers
  <2>4. QED
    BY <1>4, <1>5, <1>6, <2>1, <2>2, <2>3, OutputNumbers
<1>8. UnackedIsKept'
  <2>1. \A s \in 0..(snd_nxt'[e] - 1) :
            (\A b \in send_buf'[e] : b.seq # s) =>
                s < snd_nxt[e] /\ \A b \in send_buf[e] : b.seq # s
    BY <1>6
  <2>2. acked'[e] \in Nat /\ acked[e] <= acked'[e]
    BY <1>4 DEF Output, WireTypes
  <2>3. QED
    BY <1>5, <1>6, <2>1, <2>2, UnackedStep
<1>9. Types'
  <2>1. SockTypes' /\ PassiveTypes' /\ DataTypes'
    BY <1>2 DEF IInv, Types, SockTypes, PassiveTypes, DataTypes, passive, data, file
  <2>2. ThreadTypes'
    BY DEF IInv, Types, ThreadTypes
  <2>3. QED
    BY <1>5, <2>1, <2>2 DEF Types
<1>10. Unused'
  <2>1. CASE e = "server"
    BY <2>1 DEF IInv, Unused, passive
  <2>2. CASE o = "server"
    BY <1>2, <1>5, <2>2 DEF IInv, Unused, passive, Local
  <2>3. QED
    BY <1>1, <2>1, <2>2, TheEnds
<1>11. Starts'
  <2>1. e = "client" => ~Beginning(e)
    BY DEF IInv, Starts
  <2>2. QED
    BY <1>1, <1>2, <2>1, TheEnds DEF IInv, Starts, Beginning, file
<1>12. Counted'
  <2>1. /\ MaxFins(o)' = MaxFins(o) /\ MaxFins(o) \in Nat
        /\ MaxFins(e) <= MaxFins(e)' /\ MaxFins(e) \in Nat /\ MaxFins(e)' \in Nat
    BY <1>2 DEF MaxFins, Beginning
  <2>2. /\ MaxFins("client") <= MaxFins("client")' /\ MaxFins("server") <= MaxFins("server")'
        /\ MaxFins("client") \in Nat /\ MaxFins("server") \in Nat
        /\ MaxFins("client")' \in Nat /\ MaxFins("server")' \in Nat
    BY <1>1, <2>1, TheEnds
  <2>3. snd_nxt["client"] \in Nat /\ snd_nxt["server"] \in Nat /\ written \in Nat
    BY TheEnds DEF IInv, Types, SockTypes, DataTypes
  <2> HIDE DEF MaxFins
  <2>4. QED
    BY <2>2, <2>3 DEF IInv, Counted, passive, file
<1>13. FinMeansClosed'
  <2>1. Closed(e) => Closed(e)'
    BY <1>2 DEF Closed, Beginning, Open
  <2>2. \A q \in {p} \cup send_buf'[e] : q.type = "FIN" => \E b \in Made(e) : b.type = "FIN"
    BY DEF Made, CopyOrRst
  <2>3. app'[e] = "fin" => Closed(e)'
    BY <2>1 DEF IInv, FinMeansClosed, FinTrace
  <2>4. QED
    BY <1>2, <1>5, <2>1, <2>2, <2>3, FinStep
<1>14. state'["server"] = "ESTABLISHED" => state["server"] = "ESTABLISHED"
  BY <1>1, <1>2, TheEnds
<1>15. OneWay' /\ StoredInOrder'
  <2>1. \A q \in {p} \cup send_buf'[e] : Harmless(e, q)
    BY DEF Harmless, Made, CopyOrRst
  <2>2. /\ snd_nxt'["client"] \in Nat /\ snd_nxt["client"] <= snd_nxt'["client"]
        /\ rcv_nxt'["server"] \in Nat /\ rcv_nxt["server"] <= rcv_nxt'["server"]
    BY TheEnds DEF IInv, Types, SockTypes
  <2>3. UNCHANGED <<rcv_ofo_buf, ring, got, written>>
    BY DEF data, file
  <2>4. QED
    BY <1>5, <1>14, <2>1, <2>2, <2>3, NoDataStep
<1>16. HandshakeFirst'
  <2>1. Accepting' => Accepting
    BY <1>14 DEF Accepting
  <2>2. Stored' = Stored
    BY DEF Stored, data, file
  <2>3. CASE e = "server"
    BY <1>4, <2>1, <2>2, <2>3, HandshakeTaken DEF Output
  <2>4. CASE o = "server"
    <3>1. \A k \in 1..Len(<<p>>) : <<p>>[k].type # "ACK"
      BY <1>3
    <3>2. Appended(net[o], net'[o], <<p>>) /\ cur'["server"] = cur["server"]
      BY <1>4 DEF Output
    <3>3. QED
      BY <1>3, <1>5, <2>1, <2>2, <2>4, <3>1, <3>2, HandshakeSent
  <2>5. QED
    BY <1>1, <2>3, <2>4, TheEnds
<1>17. QED
  BY <1>7, <1>8, <1>9, <1>10, <1>11, <1>12, <1>13, <1>15, <1>16 DEF IInv

LEMMA RetransmitStep == ASSUME IInv, NEW e \in Ends, Retransmit(e) PROVE IInv'
<1>1. /\ state[e] # "CLOSED" /\ ~Exhausted(e) /\ Linked(e)
      /\ retrans_time' = [retrans_time EXCEPT ![e] = @ + 1]
      /\ UNCHANGED <<state, snd_nxt, rcv_nxt, send_buf, hashed, passive,
                     data, file, waits, app, handler, cur, crashed>>
  BY DEF Retransmit
<1>2. retrans_time' \in [Ends -> NoTimer..MaxRetrans]
  <2>1. retrans_time \in [Ends -> NoTimer..MaxRetrans]
    BY DEF IInv, Types, SockTypes
  <2>2. retrans_time[e] + 1 \in NoTimer..MaxRetrans
    BY <1>1, <2>1, ConstantsAssumption DEF Exhausted, NoTimer
  <2>3. QED
    BY <1>1, <2>1, <2>2
<1>3. CASE send_buf[e] = {}
  <2>1. UNCHANGED <<net, acked>>
    BY <1>3 DEF Retransmit, wire
  <2>2. /\ Local(e) /\ Flow(e, {}) /\ WireTypes' /\ Numbers' /\ UnackedIsKept'
        /\ Inputs("server") /\ send_buf'[e] \subseteq Made(e)
    BY <1>1, <2>1, QuietEffect, TheEnds
  <2>3. Types'
    BY <1>1, <1>2, <2>2
    DEF IInv, Types, SockTypes, PassiveTypes, DataTypes, ThreadTypes, passive, data, file, waits
  <2>4. Unused' /\ Starts' /\ Counted'
    BY <1>1, <2>1 DEF IInv, Unused, Starts, Counted, MaxFins, Beginning, passive, data, file, waits
  <2>5. FinMeansClosed'
    BY <1>1, <2>1
    DEF IInv, FinMeansClosed, FinTrace, Closed, Beginning, Made, Towards, ToldTo
  <2>6. OneWay' /\ StoredInOrder'
    BY <1>1, <2>2, QuietData DEF data, file
  <2>7. HandshakeFirst'
    BY <1>1, <2>2, HandshakeTaken DEF Stored, data, file, Accepting
  <2>8. QED
    BY <2>2, <2>3, <2>4, <2>5, <2>6, <2>7 DEF IInv
<1>4. CASE send_buf[e] # {}
  <2> DEFINE first == CHOOSE b \in send_buf[e] : \A c \in send_buf[e] : b.seq <= c.seq
             p == [first EXCEPT !.ack = rcv_nxt[e]]
  <2>1. send_buf[e] \subseteq AnyPacket /\ rcv_nxt[e] \in Nat
    BY DEF IInv, Types, SockTypes
  <2>2. first \in send_buf[e]
    <3> DEFINE S == {b.seq : b \in send_buf[e]}
    <3>1. S \in SUBSET Nat /\ S # {}
      BY <1>4, <2>1 DEF AnyPacket
    <3>2. PICK x \in S : \A y \in S : x <= y
      BY <3>1, LeastOfNats
    <3>3. PICK b \in send_buf[e] : b.seq = x
      BY <3>2
    <3>4. \A c \in send_buf[e] : b.seq <= c.seq
      BY <3>2, <3>3
    <3>5. QED
      BY <3>4
  <2>3. Transmit(e, <<p>>, net[e])
    BY <1>4 DEF Retransmit
  <2> HIDE DEF first
  <2>4. /\ p \in AnyPacket /\ p.ack = rcv_nxt[e]
        /\ p.type = first.type /\ p.seq = first.seq /\ p.seg = first.seg
    BY <2>1, <2>2 DEF AnyPacket
  <2>5. SeqEnd(p) <= snd_nxt[e]
    BY <2>2, <2>4 DEF IInv, Numbers, Made, SeqEnd
  <2>6. p.type # "ACK"
    BY <2>2, <2>4 DEF IInv, Numbers, Reliable
  <2>7. state' = state
    BY <1>1
  <2>8. /\ wait_connect' \in {"quiet", "notified", "dead"} /\ wait_send' \in {"quiet", "notified", "dead"}
        /\ wait_connect' = wait_connect
    BY <1>1 DEF IInv, Types, ThreadTypes, waits
  <2>9. CopyOrRst(e, p)
    BY <2>2, <2>4 DEF CopyOrRst
  <2>10. p \in AnyPacket /\ p.ack = rcv_nxt[e]
    BY <2>4
  <2>11. /\ state[e] # "CLOSED"
         /\ UNCHANGED <<snd_nxt, rcv_nxt, send_buf, hashed, passive, data, file, app, handler,
                        cur, crashed>>
    BY <1>1
  <2> HIDE DEF p
  <2>12. QED
    BY <1>2, <2>3, <2>5, <2>6, <2>7, <2>8, <2>9, <2>10, <2>11, TimerSends
<1>5. QED
  BY <1>3, <1>4

LEMMA GiveUpStep == ASSUME IInv, NEW e \in Ends, GiveUp(e) PROVE IInv'
<1> DEFINE p == [type |-> "RST", seq |-> snd_nxt[e], ack |-> rcv_nxt[e], seg |-> 0]
<1>1. /\ state[e] # "CLOSED" /\ state' = [state EXCEPT ![e] = "CLOSED"]
      /\ Transmit(e, <<p>>, net[e]) /\ WaitExit(e)
      /\ UNCHANGED <<snd_nxt, rcv_nxt, send_buf, retrans_time, hashed,
                     passive, data, file, app, handler, cur, crashed>>
  BY DEF GiveUp
<1>2. snd_nxt[e] \in Nat /\ rcv_nxt[e] \in Nat
  BY DEF IInv, Types, SockTypes
<1>3. /\ p \in AnyPacket /\ p.ack = rcv_nxt[e] /\ SeqEnd(p) <= snd_nxt[e] /\ p.type = "RST"
      /\ CopyOrRst(e, p)
  BY <1>2, ConstantsAssumption DEF AnyPacket, PacketTypes, SeqEnd, CopyOrRst
<1> HIDE DEF p
<1>4. retrans_time' \in [Ends -> NoTimer..MaxRetrans]
  BY <1>1 DEF IInv, Types, SockTypes
<1>5. /\ wait_connect' \in {"quiet", "notified", "dead"}
      /\ wait_send' \in {"quiet", "notified", "dead"}
      /\ wait_connect' = wait_connect \/ (e = "client" /\ state'[e] = "CLOSED")
  BY <1>1 DEF IInv, Types, ThreadTypes, SockTypes, WaitExit
<1>6. QED
  BY <1>1, <1>3, <1>4, <1>5, TimerSends
-----------------------------------------------------------------------------
(* The handler: it takes a packet and sends nothing but acknowledgments.    *)

Advances(s, t) ==
    \/ s = t
    \/ s = "SYN_SENT" /\ t = "ESTABLISHED"
    \/ s = "ESTABLISHED" /\ t = "CLOSE_WAIT"
    \/ s = "LAST_ACK" /\ t = "CLOSED"
    \/ s = "FIN_WAIT_1" /\ t \in {"FIN_WAIT_2", "TIME_WAIT"}
    \/ s = "FIN_WAIT_2" /\ t = "TIME_WAIT"

Sleepers == {"quiet", "notified", "dead"}
(* What the handler may do to the rest.                                     *)
Beside(e) ==
    /\ PassiveTypes' /\ retrans_time' \in [Ends -> NoTimer..MaxRetrans]
    /\ hashed' \in [Ends -> BOOLEAN] /\ crashed' \in [Ends -> BOOLEAN]
    /\ handler' \in [Ends -> {"idle", "est", "closing"}] /\ cur' \in [Ends -> AnyPacket]
    /\ wait_connect' \in Sleepers /\ wait_send' \in Sleepers
    /\ \/ wait_connect' = wait_connect
       \/ e = "client" /\ state[e] = "SYN_SENT" /\ state'[e] # "SYN_SENT"
    /\ listener' = "LISTEN" =>
           /\ listener = "LISTEN"
           /\ e = "server" => UNCHANGED <<state, rcv_nxt, acked, queued>>
           /\ e = "client" => UNCHANGED queued
    /\ UNCHANGED <<snd_nxt, app, rcv_ofo_buf, ring, got, written>>

(* Whatever is taken, the connection and the counts stay sound.             *)
LEMMA HandlerStep ==
    ASSUME IInv, NEW e \in Ends, NEW ps, NEW st \in States, NEW r \in Nat, NEW B,
           Ready(e), Output(e, ps), Beside(e),
           \A k \in 1..Len(ps) : ps[k].type = "ACK" /\ ps[k].seq = snd_nxt[e],
           state' = [state EXCEPT ![e] = st], Advances(state[e], st),
           rcv_nxt' = [rcv_nxt EXCEPT ![e] = r], r <= snd_nxt[Other(e)],
           send_buf' = [send_buf EXCEPT ![e] = B],
           B = send_buf[e] \/ (HasAck(Packet(e)) /\ B = Unacked(e, Packet(e).ack)),
           st \in {"CLOSE_WAIT", "TIME_WAIT"} => st = state[e] \/ Closed(Other(e)),
           e = "server" /\ st = "ESTABLISHED" => Stored = <<>> \/ rcv_nxt[e] <= r,
           e = "client" =>
               \/ Len(ps) = 0
               \/ Accepting => Stored = <<>> /\ \A p \in Towards("server") : p.type # "DATA"
    PROVE  IInv'
<1> DEFINE o == Other(e)
           N == {ps[k] : k \in 1..Len(ps)}
<1>1. o \in Ends /\ o # e /\ \A f \in Ends : f = e \/ f = o
  BY TheEnds
<1>2. /\ state'[e] = st /\ state'[o] = state[o] /\ state' \in [Ends -> States]
      /\ rcv_nxt'[e] = r /\ rcv_nxt'[o] = rcv_nxt[o] /\ rcv_nxt' \in [Ends -> Nat]
      /\ send_buf'[e] = B /\ send_buf'[o] = send_buf[o]
  BY <1>1 DEF IInv, Types, SockTypes
<1>3. UNCHANGED <<snd_nxt, app, rcv_ofo_buf, ring, got, written>>
  BY DEF Beside
<1>4. Local(e)
  BY <1>2, <1>3 DEF Local, Output
<1>5. Flow(e, N) /\ WireTypes' /\ ps \in Seq(AnyPacket)
  BY DEF Output
<1>6. Numbers' /\ UnackedIsKept' /\ B \subseteq send_buf[e]
  BY <1>2, <1>3, <1>4, AnswerEffect
<1>7. Types'
  <2>1. send_buf' \in [Ends -> SUBSET AnyPacket]
    BY <1>6 DEF IInv, Types, SockTypes
  <2>2. SockTypes'
    BY <1>2, <1>3, <2>1 DEF IInv, Types, SockTypes, Beside
  <2>3. DataTypes' /\ ThreadTypes' /\ PassiveTypes'
    BY <1>3 DEF IInv, Types, DataTypes, ThreadTypes, Beside, Sleepers
  <2>4. QED
    BY <1>5, <2>2, <2>3 DEF Types
<1>8. Unused'
  <2> SUFFICES ASSUME listener' = "LISTEN"
               PROVE  /\ app'["server"] = "accept" /\ state'["server"] = "CLOSED" /\ ~queued'
                      /\ snd_nxt'["server"] = 0 /\ acked'["server"] = 0 /\ rcv_nxt'["server"] = 0
    BY DEF Unused
  <2>1. CASE e = "server"
    BY <1>3, <2>1 DEF IInv, Unused, Beside
  <2>2. CASE o = "server"
    <3>1. e = "client"
      BY <2>2, TheEnds
    <3>2. acked'["server"] = acked["server"]
      BY <2>2 DEF Output
    <3>3. QED
      BY <1>2, <1>3, <2>2, <3>1, <3>2 DEF IInv, Unused, Beside
  <2>3. QED
    BY <1>1, <2>1, <2>2, TheEnds
<1>9. app[e] = "fin" => state[e] \notin Open
  BY DEF IInv, FinMeansClosed, FinTrace, Closed
<1>10. Starts'
  <2>1. ASSUME Beginning(e) PROVE st = state[e] /\ st \in {"CLOSED", "SYN_RECV"}
    BY <2>1 DEF IInv, Starts, Advances
  <2>2. st = "SYN_SENT" \/ st = "SYN_RECV" => st = state[e]
    BY DEF Advances
  <2>3. app[e] = "fin" => st # "CLOSE_WAIT"
    BY <1>9 DEF IInv, Starts, Advances, Open
  <2>4. app' = app /\ written' = written
    BY <1>3
  <2>5. \A f \in Ends : Beginning(f)' <=> Beginning(f)
    BY <2>4 DEF Beginning
  <2>6. /\ state'["server"] # "SYN_SENT" /\ state'["client"] # "SYN_RECV"
        /\ state'["client"] = "SYN_SENT" => state["client"] = "SYN_SENT"
        /\ state'["server"] = "SYN_RECV" => state["server"] = "SYN_RECV"
    BY <1>1, <1>2, <2>2, TheEnds DEF IInv, Starts
  <2>7. \A f \in Ends : Beginning(f) => state'[f] \in {"CLOSED", "SYN_RECV"}
    BY <1>1, <1>2, <2>1 DEF IInv, Starts
  <2>8. \A f \in Ends : app[f] = "fin" => state'[f] # "CLOSE_WAIT"
    BY <1>1, <1>2, <2>3 DEF IInv, Starts
  <2>9. Beginning("client") \/ state'["client"] = "SYN_SENT" => wait_connect' = "quiet"
    <3>1. CASE wait_connect' = wait_connect
      BY <2>6, <3>1 DEF IInv, Starts
    <3>2. CASE e = "client" /\ state[e] = "SYN_SENT" /\ state'[e] # "SYN_SENT"
      BY <2>1, <3>2 DEF IInv, Starts
    <3>3. QED
      BY <3>1, <3>2 DEF Beside
  <2>10. Beginning("client") \/ state'["client"] = "SYN_SENT" => written = 0
    BY <2>6 DEF IInv, Starts
  <2>11. /\ state'["client"] = "SYN_SENT" => app["client"] = "connecting"
         /\ state'["server"] = "SYN_RECV" => app["server"] = "accept"
    BY <2>6 DEF IInv, Starts
  <2>12. QED
    BY <2>4, <2>5, <2>6, <2>7, <2>8, <2>9, <2>10, <2>11, TheEnds DEF Starts
<1>11. Counted'
  <2>1. /\ MaxFins(o)' = MaxFins(o) /\ MaxFins(o) \in Nat
        /\ MaxFins(e) <= MaxFins(e)' /\ MaxFins(e) \in Nat /\ MaxFins(e)' \in Nat
    BY <1>2, <1>3 DEF MaxFins, Beginning, Advances
  <2>2. /\ MaxFins("client") <= MaxFins("client")' /\ MaxFins("server") <= MaxFins("server")'
        /\ MaxFins("client") \in Nat /\ MaxFins("server") \in Nat
        /\ MaxFins("client")' \in Nat /\ MaxFins("server")' \in Nat
    BY <1>1, <2>1, TheEnds
  <2>3. snd_nxt["client"] \in Nat /\ snd_nxt["server"] \in Nat /\ written \in Nat
    BY TheEnds DEF IInv, Types, SockTypes, DataTypes
  <2>4. listener' = "LISTEN" => listener = "LISTEN"
    BY DEF Beside
  <2> HIDE DEF MaxFins
  <2>5. QED
    BY <1>3, <2>2, <2>3, <2>4 DEF IInv, Counted
<1>12. FinMeansClosed'
  <2>1. Closed(e) => Closed(e)'
    BY <1>2, <1>3 DEF Closed, Beginning, Open, Advances
  <2>2. \A q \in N \cup send_buf'[e] : q.type = "FIN" => \E b \in Made(e) : b.type = "FIN"
    BY <1>2, <1>6 DEF Made
  <2>3. app'[e] = "fin" => Closed(e)'
    BY <1>3, <2>1 DEF IInv, FinMeansClosed, FinTrace
  <2>4. state'[e] \in {"CLOSE_WAIT", "LAST_ACK", "TIME_WAIT"} =>
            state[e] \in {"CLOSE_WAIT", "LAST_ACK", "TIME_WAIT"} \/ Closed(o)
    BY <1>2 DEF Advances
  <2>5. app'[e] = app[e]
    BY <1>3
  <2> HIDE DEF N
  <2>6. QED
    BY <1>4, <1>5, <2>1, <2>2, <2>3, <2>4, <2>5, FinStep
<1>13. state'["server"] = "ESTABLISHED" =>
           \/ Stored = <<>>
           \/ state["server"] = "ESTABLISHED" /\ rcv_nxt["server"] <= rcv_nxt'["server"]
  <2>1. CASE e = "server"
    <3>1. st = "ESTABLISHED" => state[e] = "ESTABLISHED"
      BY <2>1 DEF Advances, IInv, Starts
    <3>2. QED
      BY <1>2, <2>1, <3>1
  <2>2. CASE o = "server"
    <3>1. rcv_nxt["server"] \in Nat
      BY TheEnds DEF IInv, Types, SockTypes
    <3>2. QED
      BY <1>2, <2>2, <3>1
  <2>3. QED
    BY <1>1, <2>1, <2>2, TheEnds
<1>14. OneWay' /\ StoredInOrder'
  <2>1. \A q \in N \cup send_buf'[e] : Harmless(e, q)
    BY <1>2, <1>6, OldIsHarmless DEF Harmless, Made
  <2>2. /\ snd_nxt'["client"] \in Nat /\ snd_nxt["client"] <= snd_nxt'["client"]
        /\ rcv_nxt'["server"] \in Nat
    BY <1>2, <1>3, TheEnds DEF IInv, Types, SockTypes
  <2>3. app'["server"] = "accept" => app["server"] = "accept"
    BY <1>3
  <2> HIDE DEF N
  <2>4. QED
    BY <1>3, <1>4, <1>5, <1>13, <2>1, <2>2, <2>3, NoDataStep
<1>15. HandshakeFirst'
  <2>1. Accepting' => Accepting
    <3>1. state'["server"] = "ESTABLISHED" => state["server"] = "ESTABLISHED"
      BY <1>1, <1>2, TheEnds DEF Advances, IInv, Starts
    <3>2. QED
      BY <1>3, <3>1 DEF Accepting
  <2>2. Stored' = Stored
    BY <1>3 DEF Stored
  <2>3. CASE e = "server"
    BY <2>1, <2>2, <2>3, HandshakeTaken DEF Output
  <2>4. CASE o = "server"
    <3>1. Appended(net[o], net'[o], ps) /\ cur'["server"] = cur["server"]
      BY <2>4 DEF Output
    <3>2. e = "client"
      BY <2>4, TheEnds
    <3>3. \/ \A k \in 1..Len(ps) : ps[k].type # "ACK"
          \/ Accepting => /\ Stored = <<>>
                          /\ \A p \in Towards("server") : p.type # "DATA"
                          /\ \A k \in 1..Len(ps) : ps[k].type # "DATA"
      BY <3>2
    <3>4. QED
      BY <1>5, <2>1, <2>2, <2>4, <3>1, <3>3, HandshakeSent
  <2>5. QED
    BY <1>1, <2>3, <2>4, TheEnds
<1>16. QED
  BY <1>6, <1>7, <1>8, <1>10, <1>11, <1>12, <1>14, <1>15 DEF IInv

LEMMA ThreadEffect ==
    ASSUME Types, NEW e \in Ends, Ready(e),
           \/ Finish(e)
           \/ Continue(e, "est")
           \/ Continue(e, "closing")
           \/ UNCHANGED <<handler, cur>>
    PROVE  /\ handler' \in [Ends -> {"idle", "est", "closing"}] /\ cur' \in [Ends -> AnyPacket]
           /\ cur'[e] \in {Packet(e), NoPacket, cur[e]} /\ cur'[Other(e)] = cur[Other(e)]
<1>1. /\ handler \in [Ends -> {"idle", "est", "closing"}] /\ cur \in [Ends -> AnyPacket]
      /\ Packet(e) \in AnyPacket /\ NoPacket \in AnyPacket
      /\ Other(e) \in Ends /\ Other(e) # e
  BY Received, PacketTypesOfMade, TheEnds DEF Types, ThreadTypes
<1>2. QED
  BY <1>1 DEF Finish, Continue

LEMMA TakeOutput ==
    ASSUME IInv, NEW e \in Ends, Ready(e), Take(e), acked' = acked,
           cur'[e] \in {Packet(e), NoPacket, cur[e]}, cur'[Other(e)] = cur[Other(e)]
    PROVE  /\ Output(e, <<>>) /\ Len(<<>>) = 0
           /\ \A k \in 1..Len(<<>>) : <<>>[k].type = "ACK" /\ <<>>[k].seq = snd_nxt[e]
<1>1. net' = [net EXCEPT ![e] = Rest(e)]
  BY DEF Take
<1>2. net'[e] = Rest(e)
  BY <1>1, Functions DEF IInv
<1>3. Inputs(e)
  BY <1>2 DEF Inputs
<1>4. Output(e, <<>>)
  BY <1>1, <1>2, <1>3, SilentOutput
<1>5. Len(<<>>) = 0 /\ 1..Len(<<>>) = {}
  OBVIOUS
<1>6. QED
  BY <1>4, <1>5

LEMMA AckOutput ==
    ASSUME IInv, NEW e \in Ends, Ready(e), NEW n \in Nat, n <= snd_nxt[Other(e)],
           SendAck(e, n, Rest(e)),
           cur'[e] \in {Packet(e), NoPacket, cur[e]}, cur'[Other(e)] = cur[Other(e)]
    PROVE  /\ Output(e, <<Ack(e, n)>>)
           /\ \A k \in 1..Len(<<Ack(e, n)>>) :
                  /\ <<Ack(e, n)>>[k].type = "ACK"
                  /\ <<Ack(e, n)>>[k].seq = snd_nxt[e]
<1> DEFINE a == Ack(e, n)
<1>1. a \in AnyPacket /\ a.ack = n /\ a.type = "ACK" /\ a.seq = snd_nxt[e]
  BY ConstantsAssumption DEF Ack, AnyPacket, PacketTypes, IInv, Types, SockTypes
<1>2. Transmit(e, <<a>>, Rest(e))
  BY DEF SendAck
<1> HIDE DEF a
<1>3. <<a>> \in Seq(AnyPacket) /\ Len(<<a>>) = 1 /\ <<a>>[1] = a
  BY <1>1
<1>4. \A i \in 1..Len(<<a>>) : <<a>>[i].ack <= snd_nxt[Other(e)]
  BY <1>1, <1>3
<1>5. Output(e, <<a>>)
  BY <1>2, <1>3, <1>4, TransmitOutput
<1>6. QED
  BY <1>1, <1>3, <1>5 DEF a

LEMMA SockFunctions ==
    ASSUME Types, NEW e \in Ends
    PROVE  /\ rcv_nxt = [rcv_nxt EXCEPT ![e] = rcv_nxt[e]] /\ rcv_nxt[e] \in Nat
           /\ send_buf = [send_buf EXCEPT ![e] = send_buf[e]]
           /\ state = [state EXCEPT ![e] = state[e]] /\ state[e] \in States
BY DEF Types, SockTypes

(* A packet of the other end is honest.                                     *)
LEMMA PacketFacts ==
    ASSUME IInv, NEW e \in Ends, Ready(e)
    PROVE  LET p == Packet(e) IN
           /\ p \in AnyPacket /\ p \in Made(Other(e)) /\ p.seq \in Nat
           /\ p.seq <= SeqEnd(p) /\ SeqEnd(p) <= snd_nxt[Other(e)]
           /\ p.seq <= snd_nxt[Other(e)]
           /\ p.type \notin {"ACK", "RST"} => p.seq + 1 = SeqEnd(p)
           /\ p.type = "FIN" => Closed(Other(e))
<1> DEFINE p == Packet(e)
           o == Other(e)
<1>1. o \in Ends /\ Other(o) = e
  BY TheEnds
<1>2. p \in AnyPacket /\ p \in Towards(e)
  BY Received DEF IInv
<1>3. p \in Made(o)
  BY <1>1, <1>2 DEF Made
<1>4. p.seq \in Nat /\ snd_nxt[o] \in Nat
  BY <1>1, <1>2 DEF AnyPacket, IInv, Types, SockTypes
<1>5. SeqEnd(p) <= snd_nxt[o]
  BY <1>1, <1>3 DEF IInv, Numbers
<1>6. /\ SeqEnd(p) \in Nat /\ p.seq <= SeqEnd(p)
      /\ p.type \notin {"ACK", "RST"} => p.seq + 1 = SeqEnd(p)
  BY <1>4 DEF SeqEnd
<1>7. p.type = "FIN" => Closed(o)
  BY <1>1, <1>3 DEF IInv, FinMeansClosed, FinTrace
<1>8. p.seq <= snd_nxt[o]
  BY <1>4, <1>5, <1>6
<1>9. QED
  BY <1>2, <1>3, <1>4, <1>5, <1>6, <1>7, <1>8

LEMMA HandleSynSentStep == ASSUME IInv, NEW e \in Ends, HandleSynSent(e) PROVE IInv'
<1> DEFINE p == Packet(e)
           o == Other(e)
<1>1. /\ Testing(e, "syn_sent")
      /\ UNCHANGED <<snd_nxt, retrans_time, hashed, passive, data, file, wait_send,
                     app, handler, cur, crashed>>
  BY DEF HandleSynSent
<1>2. Ready(e) /\ state[e] = "SYN_SENT"
  BY <1>1, TestFacts DEF IInv
<1>3. e = "client" /\ o = "server" /\ app[e] = "connecting"
  BY <1>2, TheEnds DEF IInv, Starts
<1>4. /\ handler' \in [Ends -> {"idle", "est", "closing"}] /\ cur' \in [Ends -> AnyPacket]
      /\ cur'[e] \in {Packet(e), NoPacket, cur[e]} /\ cur'[Other(e)] = cur[Other(e)]
  BY <1>1, <1>2, ThreadEffect DEF IInv
<1>5. /\ PassiveTypes' /\ retrans_time' \in [Ends -> NoTimer..MaxRetrans]
      /\ hashed' \in [Ends -> BOOLEAN] /\ crashed' \in [Ends -> BOOLEAN]
      /\ wait_send' \in Sleepers /\ wait_connect \in Sleepers
      /\ UNCHANGED <<snd_nxt, app, rcv_ofo_buf, ring, got, written, listener, queued>>
  BY <1>1 DEF IInv, Types, SockTypes, PassiveTypes, ThreadTypes, passive, data, file, Sleepers
<1>6. CASE p.type = "SYNACK"
  <2>1. /\ rcv_nxt' = [rcv_nxt EXCEPT ![e] = p.seq + 1]
        /\ send_buf' = [send_buf EXCEPT ![e] = Unacked(e, p.ack)]
        /\ state' = [state EXCEPT ![e] = "ESTABLISHED"]
        /\ SendAck(e, p.seq + 1, Rest(e))
        /\ wait_connect' = WakeUp(wait_connect)
    BY <1>6 DEF HandleSynSent
  <2>2. p.seq + 1 \in Nat /\ p.seq + 1 <= snd_nxt[o]
    BY <1>2, <1>6, PacketFacts
  <2>3. /\ Output(e, <<Ack(e, p.seq + 1)>>)
        /\ \A k \in 1..Len(<<Ack(e, p.seq + 1)>>) :
               /\ <<Ack(e, p.seq + 1)>>[k].type = "ACK"
               /\ <<Ack(e, p.seq + 1)>>[k].seq = snd_nxt[e]
    BY <1>2, <1>4, <2>1, <2>2, AckOutput
  <2>4. state'[e] = "ESTABLISHED"
    BY <2>1 DEF IInv, Types, SockTypes
  <2>5. Beside(e)
    BY <1>2, <1>3, <1>4, <1>5, <2>1, <2>4 DEF Beside, WakeUp, Sleepers
  <2>6. HasAck(p)
    BY <1>6 DEF HasAck
  <2>7. "ESTABLISHED" \in States /\ Advances(state[e], "ESTABLISHED")
    BY <1>2 DEF States, Advances
  (* Nothing has been written, so that there is no data anywhere. *)
  <2>8. Stored = <<>> /\ \A q \in Towards("server") : q.type # "DATA"
    <3>1. written = 0
      BY <1>2, <1>3 DEF IInv, Starts
    <3>2. \A q \in Towards("server") : q.type # "DATA"
      BY <3>1, TheEnds DEF IInv, OneWay, Traces, DataSent, Made
    <3>3. Stored \in Seq(1..D)
      BY ConcatProperties DEF Stored, IInv, Types, DataTypes
    <3> HIDE DEF Stored
    <3>4. ASSUME Stored # <<>> PROVE FALSE
      <4>1. 1 \in 1..Len(Stored)
        BY <3>3, <3>4, EmptySeq
      <4>2. Stored[1] \in 1..D
        BY <3>3, <4>1, ElementOfSeq
      <4>3. Stored[1] <= 0
        BY <3>1, <4>1 DEF IInv, StoredInOrder
      <4>4. QED
        BY <4>2, <4>3, ConstantsAssumption
    <3>5. QED
      BY <3>2, <3>4
  <2>9. QED
    BY <1>2, <1>3, <2>1, <2>2, <2>3, <2>5, <2>6, <2>7, <2>8, HandlerStep
<1>7. CASE p.type # "SYNACK"
  <2>1. Take(e) /\ UNCHANGED <<rcv_nxt, send_buf, state, acked, wait_connect>>
    BY <1>7 DEF HandleSynSent
  <2>2. Beside(e)
    BY <1>3, <1>4, <1>5, <2>1 DEF Beside
  <2>3. /\ Output(e, <<>>) /\ Len(<<>>) = 0
        /\ \A k \in 1..Len(<<>>) : <<>>[k].type = "ACK" /\ <<>>[k].seq = snd_nxt[e]
    BY <1>2, <1>4, <2>1, TakeOutput
  <2>4. rcv_nxt[e] <= snd_nxt[o] /\ rcv_nxt[e] <= rcv_nxt[e]
    BY DEF IInv, Numbers, Types, SockTypes
  <2>5. Advances(state[e], state[e])
    BY DEF Advances
  <2>6. QED
    BY <1>2, <1>3, <2>1, <2>2, <2>3, <2>4, <2>5, SockFunctions, HandlerStep DEF IInv
<1>8. QED
  BY <1>6, <1>7

(* The server's listening socket has done its part before the child opens.  *)
LEMMA ListenFacts ==
    ASSUME IInv, NEW e \in Ends
    PROVE  /\ e = "server" /\ state[e] # "CLOSED" => listener # "LISTEN"
           /\ state[e] = "SYN_RECV" => e = "server"
           /\ rcv_nxt[e] \in Nat /\ rcv_nxt[e] <= snd_nxt[Other(e)] /\ rcv_nxt[e] <= rcv_nxt[e]
BY TheEnds DEF IInv, Unused, Starts, Numbers, Types, SockTypes

LEMMA HandleSynRecvStep == ASSUME IInv, NEW e \in Ends, HandleSynRecv(e) PROVE IInv'
<1> DEFINE p == Packet(e)
           o == Other(e)
<1>1. /\ Testing(e, "syn_recv") /\ Take(e)
      /\ IF AcceptQueueFull \/ SeqValid(e, p) THEN Continue(e, "est") ELSE Finish(e)
      /\ UNCHANGED <<data, file, waits, app, crashed, acked>>
  BY DEF HandleSynRecv
<1>2. Ready(e) /\ state[e] = "SYN_RECV" /\ HasAck(p)
  BY <1>1, TestFacts DEF IInv
<1>3. e = "server" /\ listener # "LISTEN"
  BY <1>2, ListenFacts
<1>4. /\ handler' \in [Ends -> {"idle", "est", "closing"}] /\ cur' \in [Ends -> AnyPacket]
      /\ cur'[e] \in {Packet(e), NoPacket, cur[e]} /\ cur'[Other(e)] = cur[Other(e)]
  BY <1>1, <1>2, ThreadEffect DEF IInv
<1>5. /\ Output(e, <<>>) /\ Len(<<>>) = 0
      /\ \A k \in 1..Len(<<>>) : <<>>[k].type = "ACK" /\ <<>>[k].seq = snd_nxt[e]
  BY <1>1, <1>2, <1>4, TakeOutput
<1>6. Advances(state[e], state[e]) /\ state[e] # "ESTABLISHED"
  BY <1>2 DEF Advances
<1>7. CASE AcceptQueueFull \/ ~SeqValid(e, p)
  <2>1. UNCHANGED <<sock, passive>>
    BY <1>7 DEF HandleSynRecv
  <2>2. Beside(e)
    BY <1>1, <1>3, <1>4, <2>1
    DEF Beside, IInv, Types, SockTypes, PassiveTypes, ThreadTypes, sock, passive, data, file,
        waits, Sleepers
  <2>3. state' = state /\ rcv_nxt' = rcv_nxt /\ send_buf' = send_buf
    BY <2>1 DEF sock
  <2>4. QED
    BY <1>2, <1>3, <1>5, <1>6, <2>2, <2>3, ListenFacts, SockFunctions, HandlerStep DEF IInv
<1>8. CASE ~(AcceptQueueFull \/ ~SeqValid(e, p))
  <2>1. /\ rcv_nxt' = [rcv_nxt EXCEPT ![e] = p.seq]
        /\ send_buf' = [send_buf EXCEPT ![e] = Unacked(e, p.ack)]
        /\ queued' = TRUE /\ accept_backlog' = accept_backlog + 1
        /\ UNCHANGED <<state, snd_nxt, retrans_time, hashed, listener>>
    BY <1>8 DEF HandleSynRecv
  <2>2. PassiveTypes'
    <3>1. accept_backlog \in 0..Backlog /\ ~(accept_backlog >= Backlog)
      BY <1>8 DEF IInv, Types, PassiveTypes, AcceptQueueFull
    <3>2. accept_backlog' \in 0..Backlog /\ accept_backlog' >= 1
      BY <2>1, <3>1, ConstantsAssumption
    <3>3. QED
      BY <2>1, <3>2 DEF IInv, Types, PassiveTypes
  <2>3. Beside(e)
    BY <1>1, <1>3, <1>4, <2>1, <2>2
    DEF Beside, IInv, Types, SockTypes, ThreadTypes, data, file, waits, Sleepers
  <2>4. p.seq \in Nat /\ p.seq <= snd_nxt[o]
    BY <1>2, PacketFacts
  <2>5. QED
    BY <1>2, <1>3, <1>5, <1>6, <2>1, <2>3, <2>4, SockFunctions, HandlerStep DEF IInv
<1>9. QED
  BY <1>7, <1>8

LEMMA HandleFinStep == ASSUME IInv, NEW e \in Ends, HandleFin(e) PROVE IInv'
<1> DEFINE p == Packet(e)
           o == Other(e)
<1>1. /\ Testing(e, "est") /\ state[e] = "ESTABLISHED" /\ p.type = "FIN"
      /\ UNCHANGED <<snd_nxt, send_buf, retrans_time, hashed, passive, data, file,
                     waits, app, crashed>>
  BY DEF HandleFin
<1>2. Ready(e)
  BY <1>1, TestFacts DEF IInv
<1>3. /\ handler' \in [Ends -> {"idle", "est", "closing"}] /\ cur' \in [Ends -> AnyPacket]
      /\ cur'[e] \in {Packet(e), NoPacket, cur[e]} /\ cur'[Other(e)] = cur[Other(e)]
  <2>1. Continue(e, "closing") \/ Finish(e)
    BY DEF HandleFin
  <2>2. QED
    BY <1>2, <2>1, ThreadEffect DEF IInv
<1>4. Beside(e)
  <2>1. /\ e = "server" => listener # "LISTEN"
        /\ listener' = listener /\ queued' = queued
    BY <1>1, ListenFacts DEF passive
  <2>2. QED
    BY <1>1, <1>3, <2>1
    DEF Beside, IInv, Types, SockTypes, PassiveTypes, ThreadTypes, passive, data, file, waits, Sleepers
<1>5. CASE SeqValid(e, p)
  <2>1. /\ state' = [state EXCEPT ![e] = "CLOSE_WAIT"]
        /\ rcv_nxt' = [rcv_nxt EXCEPT ![e] = p.seq + 1]
        /\ SendAck(e, p.seq + 1, Rest(e))
    BY <1>5 DEF HandleFin
  <2>2. p.seq + 1 \in Nat /\ p.seq + 1 <= snd_nxt[o] /\ Closed(o)
    BY <1>1, <1>2, PacketFacts
  <2>3. /\ Output(e, <<Ack(e, p.seq + 1)>>)
        /\ \A k \in 1..Len(<<Ack(e, p.seq + 1)>>) :
               /\ <<Ack(e, p.seq + 1)>>[k].type = "ACK"
               /\ <<Ack(e, p.seq + 1)>>[k].seq = snd_nxt[e]
    BY <1>2, <1>3, <2>1, <2>2, AckOutput
  <2>4. "CLOSE_WAIT" \in States /\ Advances(state[e], "CLOSE_WAIT")
    BY <1>1 DEF States, Advances
  <2>5. e = "client" => ~Accepting
    BY <2>2, TheEnds DEF Closed, Beginning, Open, Accepting
  <2>6. send_buf' = [send_buf EXCEPT ![e] = send_buf[e]]
    BY <1>1, SockFunctions DEF IInv
  <2>7. QED
    BY <1>2, <1>4, <2>1, <2>2, <2>3, <2>4, <2>5, <2>6, HandlerStep
<1>6. CASE ~SeqValid(e, p)
  <2>1. Take(e) /\ UNCHANGED <<state, rcv_nxt, acked>>
    BY <1>6 DEF HandleFin
  <2>2. /\ Output(e, <<>>) /\ Len(<<>>) = 0
        /\ \A k \in 1..Len(<<>>) : <<>>[k].type = "ACK" /\ <<>>[k].seq = snd_nxt[e]
    BY <1>2, <1>3, <2>1, TakeOutput
  <2>3. Advances(state[e], state[e])
    BY DEF Advances
  <2>4. QED
    BY <1>1, <1>2, <1>4, <2>1, <2>2, <2>3, ListenFacts, SockFunctions, HandlerStep DEF IInv
<1>7. QED
  BY <1>5, <1>6

(* Only the ACK of the handshake comes to the server as a bare ACK.         *)
LEMMA HandleAckStep == ASSUME IInv, NEW e \in Ends, HandleAck(e) PROVE IInv'
<1> DEFINE p == Packet(e)
           o == Other(e)
<1>1. /\ Testing(e, "est") /\ state[e] = "ESTABLISHED" /\ p.type \in {"ACK", "SYNACK"}
      /\ rcv_nxt' = [rcv_nxt EXCEPT ![e] = p.seq]
      /\ send_buf' = [send_buf EXCEPT ![e] = Unacked(e, p.ack)]
      /\ retrans_time' = [retrans_time EXCEPT ![e] = 0]
      /\ wait_send' = IF e = "client" THEN WakeUp(wait_send) ELSE wait_send
      /\ Take(e) /\ Continue(e, "closing")
      /\ UNCHANGED <<state, snd_nxt, hashed, passive, data, file, wait_connect, app,
                     crashed, acked>>
  BY DEF HandleAck
<1>2. Ready(e)
  BY <1>1, TestFacts DEF IInv
<1>3. /\ handler' \in [Ends -> {"idle", "est", "closing"}] /\ cur' \in [Ends -> AnyPacket]
      /\ cur'[e] \in {Packet(e), NoPacket, cur[e]} /\ cur'[Other(e)] = cur[Other(e)]
  BY <1>1, <1>2, ThreadEffect DEF IInv
<1>4. Beside(e)
  <2>1. /\ e = "server" => listener # "LISTEN"
        /\ listener' = listener /\ queued' = queued
    BY <1>1, ListenFacts DEF passive
  <2>2. retrans_time' \in [Ends -> NoTimer..MaxRetrans]
    BY <1>1, ConstantsAssumption DEF IInv, Types, SockTypes, NoTimer
  <2>3. QED
    BY <1>1, <1>3, <2>1, <2>2
    DEF Beside, IInv, Types, SockTypes, PassiveTypes, ThreadTypes, passive, data, file, Sleepers,
        WakeUp
<1>5. /\ Output(e, <<>>) /\ Len(<<>>) = 0
      /\ \A k \in 1..Len(<<>>) : <<>>[k].type = "ACK" /\ <<>>[k].seq = snd_nxt[e]
  BY <1>1, <1>2, <1>3, TakeOutput
<1>6. HasAck(p) /\ p.seq \in Nat /\ p.seq <= snd_nxt[o] /\ p \in Made(o)
  BY <1>1, <1>2, PacketFacts DEF HasAck
<1>7. ASSUME e = "server" PROVE Stored = <<>>
  <2>1. p.type = "ACK"
    BY <1>1, <1>6, <1>7, TheEnds DEF IInv, OneWay
  <2>2. Accepting
    BY <1>1, <1>7 DEF Accepting
  <2>3. CASE handler[e] = "idle"
    <3>1. 1 \in 1..Len(net[e]) /\ p = net[e][1]
      BY <1>2, <2>3, Received DEF IInv
    <3>2. QED
      BY <1>7, <2>1, <2>2, <3>1 DEF IInv, HandshakeFirst
  <2>4. CASE handler[e] # "idle"
    <3>1. p = cur[e]
      BY <1>2, <2>4, Received DEF IInv
    <3>2. QED
      BY <1>7, <2>1, <2>2, <3>1 DEF IInv, HandshakeFirst
  <2>5. QED
    BY <2>3, <2>4
<1>8. /\ state' = [state EXCEPT ![e] = state[e]] /\ state[e] \in States
      /\ Advances(state[e], state[e])
  BY <1>1, SockFunctions DEF IInv, Advances
<1>9. QED
  BY <1>1, <1>2, <1>4, <1>5, <1>6, <1>7, <1>8, HandlerStep

LEMMA HandleClosingStep == ASSUME IInv, NEW e \in Ends, HandleClosing(e) PROVE IInv'
<1> DEFINE p == Packet(e)
           o == Other(e)
           leaves == state[e] \in {"LAST_ACK", "FIN_WAIT_1"} /\ HasAck(p) /\ SeqValid(e, p)
           then == IF leaves THEN AfterAck(state[e]) ELSE state[e]
           fin == then = "FIN_WAIT_2" /\ p.type = "FIN"
           st == IF fin THEN "TIME_WAIT" ELSE then
           B == IF leaves THEN Unacked(e, p.ack) ELSE send_buf[e]
<1>1. /\ \/ Testing(e, "closing")
         \/ handler[e] = "est" /\ state[e] # "ESTABLISHED"
      /\ send_buf' = [send_buf EXCEPT ![e] = B]
      /\ hashed' = [hashed EXCEPT ![e] = @ /\ ~(leaves /\ then = "CLOSED")]
      /\ state' = [state EXCEPT ![e] = st]
      /\ IF fin
         THEN /\ rcv_nxt' = [rcv_nxt EXCEPT ![e] = p.seq + 1]
              /\ SendAck(e, p.seq + 1, Rest(e))
         ELSE Take(e) /\ UNCHANGED <<rcv_nxt, acked>>
      /\ Finish(e)
      /\ UNCHANGED <<snd_nxt, retrans_time, passive, data, file, waits, app, crashed>>
  BY DEF HandleClosing
<1>2. Ready(e)
  <2>1. CASE Testing(e, "closing")
    BY <2>1, TestFacts DEF IInv
  <2>2. CASE handler[e] = "est"
    BY <2>2 DEF Ready
  <2>3. QED
    BY <1>1, <2>1, <2>2
<1>3. /\ handler' \in [Ends -> {"idle", "est", "closing"}] /\ cur' \in [Ends -> AnyPacket]
      /\ cur'[e] \in {Packet(e), NoPacket, cur[e]} /\ cur'[Other(e)] = cur[Other(e)]
  BY <1>1, <1>2, ThreadEffect DEF IInv
<1>4. state[e] \in States
  BY DEF IInv, Types, SockTypes
<1>5. /\ leaves => \/ state[e] = "LAST_ACK" /\ then = "CLOSED"
                   \/ state[e] = "FIN_WAIT_1" /\ then = "FIN_WAIT_2"
      /\ ~leaves => then = state[e]
  BY DEF AfterAck
<1>6. st \in States /\ Advances(state[e], st)
  BY <1>4, <1>5 DEF States, Advances
<1>7. st # state[e] => state[e] \in {"LAST_ACK", "FIN_WAIT_1", "FIN_WAIT_2"}
  BY <1>5
<1>8. B = send_buf[e] \/ (HasAck(p) /\ B = Unacked(e, p.ack))
  OBVIOUS
<1>9. hashed' \in [Ends -> BOOLEAN]
  <2>1. hashed \in [Ends -> BOOLEAN] /\ (hashed[e] /\ ~(leaves /\ then = "CLOSED")) \in BOOLEAN
    BY DEF IInv, Types, SockTypes
  <2>2. QED
    BY <1>1, <2>1
<1>10. st = "ESTABLISHED" => state[e] = "ESTABLISHED" /\ ~fin
  BY <1>5
<1>11. fin => st = "TIME_WAIT" /\ state[e] \in {"FIN_WAIT_1", "FIN_WAIT_2"}
  BY <1>5
<1>12. ~fin => (st \in {"CLOSE_WAIT", "TIME_WAIT"} => st = state[e])
  BY <1>5
<1>13. fin => p.type = "FIN"
  OBVIOUS
<1>14. state'[e] = st
  BY <1>1, <1>6 DEF IInv, Types, SockTypes
<1>15. CASE fin
  <2>1. /\ rcv_nxt' = [rcv_nxt EXCEPT ![e] = p.seq + 1]
        /\ SendAck(e, p.seq + 1, Rest(e))
    BY <1>1, <1>15
  <2>2. p.seq + 1 \in Nat /\ p.seq + 1 <= snd_nxt[o] /\ Closed(o)
    BY <1>2, <1>13, <1>15, PacketFacts
  <2>3. /\ Output(e, <<Ack(e, p.seq + 1)>>)
        /\ \A k \in 1..Len(<<Ack(e, p.seq + 1)>>) :
               /\ <<Ack(e, p.seq + 1)>>[k].type = "ACK"
               /\ <<Ack(e, p.seq + 1)>>[k].seq = snd_nxt[e]
    BY <1>2, <1>3, <2>1, <2>2, AckOutput
  <2>4. e = "client" => ~Accepting
    BY <2>2, TheEnds DEF Closed, Beginning, Open, Accepting
  <2>5. state[e] # "CLOSED" /\ state[e] # "SYN_SENT"
    BY <1>11, <1>15
  <2> HIDE DEF st, fin, then, leaves, B
  <2>6. Beside(e)
    <3>1. /\ e = "server" => listener # "LISTEN"
          /\ listener' = listener /\ queued' = queued
      BY <1>1, <2>5, ListenFacts DEF passive
    <3>2. QED
      BY <1>1, <1>3, <1>9, <3>1
      DEF Beside, IInv, Types, SockTypes, PassiveTypes, ThreadTypes, passive, data, file, waits,
          Sleepers
  <2>7. st # "ESTABLISHED"
    BY <1>10, <1>15
  <2>8. QED
    BY <1>1, <1>2, <1>6, <1>8, <2>1, <2>2, <2>3, <2>4, <2>6, <2>7, HandlerStep
<1>16. CASE ~fin
  <2>1. Take(e) /\ UNCHANGED <<rcv_nxt, acked>>
    BY <1>1, <1>16
  <2>2. /\ Output(e, <<>>) /\ Len(<<>>) = 0
        /\ \A k \in 1..Len(<<>>) : <<>>[k].type = "ACK" /\ <<>>[k].seq = snd_nxt[e]
    BY <1>2, <1>3, <2>1, TakeOutput
  <2>3. state[e] = "CLOSED" => st = state[e]
    BY <1>7
  <2> HIDE DEF st, fin, then, leaves, B
  <2>4. Beside(e)
    <3>1. listener' = listener /\ queued' = queued
      BY <1>1 DEF passive
    <3>2. e = "server" /\ listener = "LISTEN" => state' = state
      BY <1>1, <2>3, ListenFacts, SockFunctions DEF IInv
    <3>3. QED
      BY <1>1, <1>3, <1>9, <2>1, <3>1, <3>2
      DEF Beside, IInv, Types, SockTypes, PassiveTypes, ThreadTypes, passive, data, file, waits,
          Sleepers
  <2>5. /\ rcv_nxt' = [rcv_nxt EXCEPT ![e] = rcv_nxt[e]]
        /\ rcv_nxt[e] \in Nat /\ rcv_nxt[e] <= snd_nxt[o] /\ rcv_nxt[e] <= rcv_nxt[e]
    BY <2>1, ListenFacts, SockFunctions DEF IInv
  <2>6. st \in {"CLOSE_WAIT", "TIME_WAIT"} => st = state[e]
    BY <1>12, <1>16
  <2>7. QED
    BY <1>1, <1>2, <1>6, <1>8, <2>2, <2>4, <2>5, <2>6, HandlerStep
<1>17. QED
  BY <1>15, <1>16
-----------------------------------------------------------------------------
(* Packets for no socket and for the listening one.                         *)

LEMMA RecvNobodyStep == ASSUME IInv, NEW e \in Ends, RecvNobody(e) PROVE IInv'
<1>1. /\ handler[e] = "idle" /\ net[e] # <<>> /\ Take(e)
      /\ crashed' = [crashed EXCEPT ![e] = TRUE]
      /\ UNCHANGED <<sock, passive, data, file, waits, app, handler, cur, acked>>
  BY DEF RecvNobody
<1>2. Ready(e) /\ cur' = cur
  BY <1>1 DEF Ready
<1>3. /\ Output(e, <<>>) /\ Len(<<>>) = 0
      /\ \A k \in 1..Len(<<>>) : <<>>[k].type = "ACK" /\ <<>>[k].seq = snd_nxt[e]
  BY <1>1, <1>2, TakeOutput
<1>4. Beside(e)
  BY <1>1
  DEF Beside, IInv, Types, SockTypes, PassiveTypes, ThreadTypes, sock, passive, data, file,
      waits, Sleepers
<1>5. UNCHANGED <<state, rcv_nxt, send_buf>> /\ Advances(state[e], state[e])
  BY <1>1 DEF sock, Advances
<1>6. QED
  BY <1>2, <1>3, <1>4, <1>5, ListenFacts, SockFunctions, HandlerStep DEF IInv

(* The first SYN makes the child.                                           *)
LEMMA FirstSyn ==
    ASSUME IInv, RecvListener, listener = "LISTEN", Packet("server").type = "SYN"
    PROVE  IInv'
<1> DEFINE e == "server"
           p == Packet(e)
           reply == [type |-> "SYNACK", seq |-> 0, ack |-> p.seq + 1, seg |-> 0]
           b == [reply EXCEPT !.ack = 0]
<1>1. /\ handler[e] = "idle" /\ net[e] # <<>>
      /\ listener' = "SYN_RECV"
      /\ state' = [state EXCEPT ![e] = "SYN_RECV"]
      /\ hashed' = [hashed EXCEPT ![e] = TRUE]
      /\ snd_nxt' = [snd_nxt EXCEPT ![e] = 1]
      /\ rcv_nxt' = [rcv_nxt EXCEPT ![e] = p.seq + 1]
      /\ send_buf' = [send_buf EXCEPT ![e] = {b}]
      /\ retrans_time' = [retrans_time EXCEPT ![e] = 0]
      /\ Transmit(e, <<reply>>, Rest(e))
      /\ UNCHANGED <<queued, accept_backlog, data, file, waits, app, handler, cur,
                     crashed>>
  BY DEF RecvListener
<1>2. /\ e \in Ends /\ Other(e) = "client" /\ "client" \in Ends /\ e # "client"
      /\ \A f \in Ends : f = e \/ f = "client"
  BY TheEnds
<1>3. Ready(e)
  BY <1>1 DEF Ready
<1>4. /\ app[e] = "accept" /\ state[e] = "CLOSED" /\ ~queued
      /\ snd_nxt[e] = 0 /\ acked[e] = 0 /\ rcv_nxt[e] = 0
  BY DEF IInv, Unused
<1>5. p.seq + 1 \in Nat /\ p.seq + 1 <= snd_nxt["client"]
  BY <1>2, <1>3, PacketFacts
<1>6. /\ reply \in AnyPacket /\ b \in AnyPacket /\ SeqEnd(reply) = 1 /\ SeqEnd(b) = 1
      /\ reply.ack = p.seq + 1 /\ reply.type = "SYNACK" /\ b.type = "SYNACK" /\ b.seq = 0
      /\ Reliable(b)
  BY <1>5, ConstantsAssumption DEF AnyPacket, PacketTypes, SeqEnd, Reliable
<1> HIDE DEF reply, b
<1>7. /\ <<reply>> \in Seq(AnyPacket) /\ Len(<<reply>>) = 1 /\ <<reply>>[1] = reply
      /\ {<<reply>>[k] : k \in 1..Len(<<reply>>)} = {reply}
  BY <1>6
<1>8. Output(e, <<reply>>)
  <2>1. \A i \in 1..Len(<<reply>>) : <<reply>>[i].ack <= snd_nxt[Other(e)]
    BY <1>2, <1>5, <1>6, <1>7
  <2>2. cur'[e] \in {Packet(e), NoPacket, cur[e]} /\ cur'[Other(e)] = cur[Other(e)]
    BY <1>1
  <2>3. QED
    BY <1>1, <1>2, <1>3, <1>7, <2>1, <2>2, TransmitOutput
<1>9. /\ state'[e] = "SYN_RECV" /\ state'["client"] = state["client"] /\ state' \in [Ends -> States]
      /\ snd_nxt'[e] = 1 /\ snd_nxt'["client"] = snd_nxt["client"] /\ snd_nxt' \in [Ends -> Nat]
      /\ rcv_nxt'[e] = p.seq + 1 /\ rcv_nxt'["client"] = rcv_nxt["client"]
      /\ rcv_nxt' \in [Ends -> Nat]
      /\ send_buf'[e] = {b} /\ send_buf'["client"] = send_buf["client"]
      /\ send_buf' \in [Ends -> SUBSET AnyPacket]
      /\ snd_nxt["client"] \in Nat
  BY <1>1, <1>2, <1>5, <1>6 DEF IInv, Types, SockTypes, States
<1>10. Local(e)
  BY <1>1, <1>2, <1>8, <1>9 DEF Local, Output
<1>11. Flow(e, {reply}) /\ WireTypes'
  BY <1>7, <1>8 DEF Output
<1>12. Numbers'
  <2>1. \A k \in 1..Len(<<reply>>) : SeqEnd(<<reply>>[k]) <= snd_nxt'[e]
    BY <1>6, <1>7, <1>9
  <2>2. \A q \in send_buf'[e] : SeqEnd(q) <= snd_nxt'[e] /\ Reliable(q)
    BY <1>6, <1>9
  <2>3. QED
    BY <1>2, <1>4, <1>5, <1>8, <1>9, <1>10, <2>1, <2>2, OutputNumbers
<1>13. UnackedIsKept'
  <2>1. \A s \in 0..(snd_nxt'[e] - 1) : \E q \in send_buf'[e] : q.seq = s
    BY <1>6, <1>9
  <2>2. acked'[e] \in Nat /\ acked[e] <= acked'[e] /\ snd_nxt'[e] \in Nat
    BY <1>2, <1>8, <1>9 DEF Output, WireTypes
  <2>3. QED
    BY <1>2, <1>10, <2>1, <2>2, UnackedStep
<1>14. Types'
  <2>1. hashed' \in [Ends -> BOOLEAN]
    BY <1>1 DEF IInv, Types, SockTypes
  <2>2. retrans_time' \in [Ends -> NoTimer..MaxRetrans]
    <3>1. 0 \in NoTimer..MaxRetrans
      BY ConstantsAssumption DEF NoTimer
    <3>2. QED
      BY <1>1, <3>1 DEF IInv, Types, SockTypes
  <2>3. SockTypes' /\ PassiveTypes'
    BY <1>1, <1>9, <2>1, <2>2 DEF IInv, Types, SockTypes, PassiveTypes
  <2>4. DataTypes' /\ ThreadTypes'
    BY <1>1 DEF IInv, Types, DataTypes, ThreadTypes, data, file, waits
  <2>5. QED
    BY <1>11, <2>3, <2>4 DEF Types
<1>15. Unused'
  BY <1>1 DEF Unused
<1>16. Starts'
  <2>1. app' = app /\ written' = written /\ wait_connect' = wait_connect
    BY <1>1 DEF file, waits
  <2>2. QED
    BY <1>2, <1>4, <1>9, <2>1 DEF IInv, Starts, Beginning
<1>17. Counted'
  <2>1. MaxFins("client")' = MaxFins("client") /\ app' = app /\ written' = written
    BY <1>1, <1>9 DEF MaxFins, Beginning, file
  <2>2. MaxFins(e)' \in Nat
    BY DEF MaxFins
  <2>3. listener' # "LISTEN"
    BY <1>1
  <2> HIDE DEF MaxFins
  <2>4. QED
    BY <1>9, <2>1, <2>2, <2>3 DEF IInv, Counted
<1>18. FinMeansClosed'
  <2>1. ~Closed(e) /\ app'[e] = "accept"
    BY <1>1, <1>4 DEF Closed, Beginning
  <2>2. \A q \in {reply} \cup send_buf'[e] : q.type # "FIN"
    BY <1>6, <1>9
  <2>3. state'[e] \notin {"CLOSE_WAIT", "LAST_ACK", "TIME_WAIT"}
    BY <1>9
  <2>4. QED
    BY <1>2, <1>10, <1>11, <2>1, <2>2, <2>3, FinStep
<1>19. OneWay' /\ StoredInOrder'
  <2>1. \A q \in {reply} \cup send_buf'[e] : Harmless(e, q)
    BY <1>6, <1>9 DEF Harmless
  <2>2. UNCHANGED <<rcv_ofo_buf, ring, got, written>>
    BY <1>1 DEF data, file
  <2>3. snd_nxt'["client"] \in Nat /\ snd_nxt["client"] <= snd_nxt'["client"]
    BY <1>9
  <2>4. state'[e] # "ESTABLISHED" /\ rcv_nxt'[e] \in Nat
    BY <1>5, <1>9
  <2>5. QED
    BY <1>1, <1>2, <1>10, <1>11, <2>1, <2>2, <2>3, <2>4, NoDataStep
<1>20. HandshakeFirst'
  <2>1. Stored' = Stored /\ Accepting
    BY <1>1, <1>4 DEF Stored, Accepting, data, file
  <2>2. QED
    BY <1>8, <2>1, HandshakeTaken DEF Output
<1>21. QED
  BY <1>12, <1>13, <1>14, <1>15, <1>16, <1>17, <1>18, <1>19, <1>20 DEF IInv

LEMMA RecvListenerStep == ASSUME IInv, RecvListener PROVE IInv'
<1> DEFINE e == "server"
<1>1. /\ handler[e] = "idle" /\ net[e] # <<>>
      /\ UNCHANGED <<queued, accept_backlog, data, file, waits, app, handler, cur,
                     crashed>>
  BY DEF RecvListener
<1>2. Ready(e) /\ cur' = cur /\ e \in Ends
  BY <1>1, TheEnds DEF Ready
<1>3. CASE ~(listener = "LISTEN" /\ Packet(e).type = "SYN")
  <2>1. /\ listener' = IF Packet(e).type = "RST" THEN "CLOSED" ELSE listener
        /\ Take(e) /\ UNCHANGED <<sock, acked>>
    BY <1>3 DEF RecvListener
  <2>2. /\ Output(e, <<>>) /\ Len(<<>>) = 0
        /\ \A k \in 1..Len(<<>>) : <<>>[k].type = "ACK" /\ <<>>[k].seq = snd_nxt[e]
    BY <1>2, <2>1, TakeOutput
  <2>3. Beside(e)
    BY <1>1, <2>1
    DEF Beside, IInv, Types, SockTypes, PassiveTypes, ThreadTypes, sock, data, file,
        waits, Sleepers
  <2>4. UNCHANGED <<state, rcv_nxt, send_buf>> /\ Advances(state[e], state[e])
    BY <2>1 DEF sock, Advances
  <2>5. QED
    BY <1>2, <2>2, <2>3, <2>4, ListenFacts, SockFunctions, HandlerStep DEF IInv
<1>4. QED
  BY <1>3, FirstSyn
-----------------------------------------------------------------------------
(* Data: the list of segments and the ring buffer.                          *)

(* An insertion adds x and nothing else.                                    *)
LEMMA Inserted ==
    ASSUME NEW S, NEW q \in Seq(S), NEW x \in S, NEW r \in SortedInsert(q, x)
    PROVE  /\ r \in Seq(S) /\ Len(r) = Len(q) + 1
           /\ \A k \in 1..Len(r) : r[k] = x \/ \E j \in 1..Len(q) : r[k] = q[j]
<1>1. PICK i \in 0..Len(q) : r = SubSeq(q, 1, i) \o <<x>> \o SubSeq(q, i + 1, Len(q))
  BY DEF SortedInsert
<1>2. Len(q) \in Nat /\ \A j \in 1..Len(q) : q[j] \in S
  BY LenProperties, ElementOfSeq
<1> DEFINE a == SubSeq(q, 1, i)
           c == SubSeq(q, i + 1, Len(q))
<1>3. /\ a \in Seq(S) /\ Len(a) = i /\ \A k \in 1..i : a[k] = q[k]
  <2>1. \A j \in 1..i : q[j] \in S
    BY <1>2
  <2>2. /\ a \in Seq(S) /\ Len(a) = IF 1 <= i THEN i - 1 + 1 ELSE 0
        /\ \A k \in 1..i - 1 + 1 : a[k] = q[1 + k - 1]
    BY <1>2, <2>1, SubSeqProperties
  <2> HIDE DEF a
  <2>3. QED
    BY <1>2, <2>2
<1>4. /\ c \in Seq(S) /\ Len(c) = Len(q) - i
      /\ \A k \in 1..Len(q) - i : c[k] = q[i + k]
  <2>1. \A j \in i + 1..Len(q) : q[j] \in S
    BY <1>2
  <2>2. /\ c \in Seq(S) /\ Len(c) = IF i + 1 <= Len(q) THEN Len(q) - (i + 1) + 1 ELSE 0
        /\ \A k \in 1..Len(q) - (i + 1) + 1 : c[k] = q[i + 1 + k - 1]
    BY <1>2, <2>1, SubSeqProperties
  <2> HIDE DEF c
  <2>3. QED
    BY <1>2, <2>2
<1> HIDE DEF a, c
<1>5. <<x>> \in Seq(S) /\ Len(<<x>>) = 1 /\ <<x>>[1] = x
  OBVIOUS
<1> DEFINE y == <<x>>
<1> HIDE DEF y
<1>6. y \in Seq(S) /\ Len(y) = 1 /\ y[1] = x
  BY <1>5 DEF y
<1>7. /\ a \o y \in Seq(S) /\ Len(a \o y) = Len(a) + Len(y)
      /\ \A k \in 1..Len(a) + Len(y) : (a \o y)[k] = IF k <= Len(a) THEN a[k] ELSE y[k - Len(a)]
  BY <1>3, <1>6, ConcatProperties
<1> DEFINE b == a \o y
<1> HIDE DEF b
<1>8. b \in Seq(S) /\ Len(b) = i + 1 /\ \A k \in 1..i + 1 : b[k] = IF k <= i THEN a[k] ELSE y[k - i]
  BY <1>3, <1>6, <1>7 DEF b
<1>9. /\ b \o c \in Seq(S) /\ Len(b \o c) = Len(b) + Len(c)
      /\ \A k \in 1..Len(b) + Len(c) :
             (b \o c)[k] = IF k <= Len(b) THEN b[k] ELSE c[k - Len(b)]
  BY <1>4, <1>8, ConcatProperties
<1>10. r = b \o c
  BY <1>1 DEF a, b, c, y
<1>11. Len(r) = Len(q) + 1 /\ r \in Seq(S) /\ Len(b) + Len(c) = Len(q) + 1
  BY <1>2, <1>4, <1>8, <1>9, <1>10
<1>12. ASSUME NEW k \in 1..Len(r)
       PROVE  r[k] = x \/ \E j \in 1..Len(q) : r[k] = q[j]
  <2>1. r[k] = IF k <= i + 1 THEN b[k] ELSE c[k - (i + 1)]
    BY <1>8, <1>9, <1>10, <1>11
  <2>2. CASE k <= i
    <3>1. k \in 1..Len(q) /\ r[k] = q[k]
      BY <1>2, <1>3, <1>8, <1>11, <2>1, <2>2
    <3>2. QED
      BY <3>1
  <2>3. CASE k = i + 1
    BY <1>6, <1>8, <2>1, <2>3
  <2>4. CASE k > i + 1
    <3>1. k - 1 \in 1..Len(q) /\ k - (i + 1) \in 1..Len(q) - i /\ i + (k - (i + 1)) = k - 1
      BY <1>2, <1>11, <2>4
    <3>2. r[k] = c[k - (i + 1)]
      BY <1>2, <1>11, <2>1, <2>4
    <3>3. c[k - (i + 1)] = q[i + (k - (i + 1))]
      BY <1>4, <3>1
    <3>4. QED
      BY <3>1, <3>2, <3>3
  <2>5. QED
    BY <2>2, <2>3, <2>4
<1>13. QED
  BY <1>11, <1>12

(* What is moved to the ring buffer: the longest part without a hole.       *)
LEMMA ContiguousPart ==
    ASSUME NEW q \in Seq(Entry), NEW nxt \in Nat
    PROVE  LET n == Contiguous(q, nxt) IN
           /\ n \in 0..Len(q)
           /\ \A i \in 1..n : q[i].seq = nxt + i - 1
           /\ n < Len(q) => q[n + 1].seq # nxt + n
<1>1. Len(q) \in Nat
  BY LenProperties
<1> DEFINE Ends0 == {n \in 0..Len(q) : n = Len(q) \/ q[n + 1].seq # nxt + n}
           Good(n) == /\ \A i \in 1..n : q[i].seq = nxt + i - 1
                      /\ n < Len(q) => q[n + 1].seq # nxt + n
<1>2. Ends0 \in SUBSET Nat /\ Ends0 # {}
  <2>1. Len(q) \in Ends0
    BY <1>1
  <2>2. QED
    BY <1>1, <2>1
<1>3. PICK n \in Ends0 : \A m \in Ends0 : n <= m
  <2> HIDE DEF Ends0
  <2> QED
    BY <1>2, LeastOfNats
<1>4. ASSUME NEW i \in 1..n PROVE q[i].seq = nxt + i - 1
  <2>1. i - 1 \in 0..Len(q) /\ i - 1 < n /\ i - 1 # Len(q) /\ (i - 1) + 1 = i
    BY <1>1, <1>3
  <2>2. ASSUME i - 1 \in Ends0 PROVE FALSE
    <3>1. n <= i - 1
      BY <1>3, <2>2
    <3>2. QED
      BY <1>1, <1>3, <2>1, <3>1
  <2>3. q[(i - 1) + 1].seq = nxt + (i - 1)
    BY <2>1, <2>2
  <2>4. QED
    BY <2>1, <2>3
<1>5. n \in 0..Len(q) /\ Good(n)
  BY <1>1, <1>3, <1>4
<1> HIDE DEF Good, Ends0
<1>6. Contiguous(q, nxt) = CHOOSE m \in 0..Len(q) : Good(m)
  BY DEF Contiguous, Good
<1>7. Contiguous(q, nxt) \in 0..Len(q) /\ Good(Contiguous(q, nxt))
  BY <1>5, <1>6
<1>8. QED
  BY <1>7 DEF Good

(* Old data is answered by an ACK.                                          *)
LEMMA OldData ==
    ASSUME IInv, NEW e \in Ends, HandleData(e), Packet(e).seq < rcv_nxt[e]
    PROVE  IInv'
<1> DEFINE p == Packet(e)
           a == Ack(e, rcv_nxt[e])
<1>1. /\ Testing(e, "est") /\ state[e] = "ESTABLISHED" /\ p.type = "DATA"
      /\ SendAck(e, rcv_nxt[e], Rest(e))
      /\ UNCHANGED <<rcv_nxt, retrans_time, data>>
      /\ Continue(e, "closing")
      /\ UNCHANGED <<state, snd_nxt, send_buf, hashed, passive, file, waits, app,
                     crashed>>
  BY DEF HandleData
<1>2. Ready(e)
  BY <1>1, TestFacts DEF IInv
<1>3. e = "server"
  BY <1>1, <1>2, PacketFacts, TheEnds DEF IInv, OneWay
<1>4. /\ handler' \in [Ends -> {"idle", "est", "closing"}] /\ cur' \in [Ends -> AnyPacket]
      /\ cur'[e] \in {Packet(e), NoPacket, cur[e]} /\ cur'[Other(e)] = cur[Other(e)]
  BY <1>1, <1>2, ThreadEffect DEF IInv
<1>5. rcv_nxt[e] \in Nat /\ rcv_nxt[e] <= snd_nxt[Other(e)]
  BY ListenFacts
<1>6. /\ Output(e, <<a>>)
      /\ \A k \in 1..Len(<<a>>) : <<a>>[k].type = "ACK" /\ <<a>>[k].seq = snd_nxt[e]
  BY <1>1, <1>2, <1>4, <1>5, AckOutput
<1> HIDE DEF a
<1>7. Beside(e)
  <2>1. listener # "LISTEN" /\ listener' = listener
    BY <1>1, <1>3, ListenFacts DEF passive
  <2>2. QED
    BY <1>1, <1>4, <2>1
    DEF Beside, IInv, Types, SockTypes, PassiveTypes, ThreadTypes, passive, data, file, waits,
        Sleepers
<1>8. Advances(state[e], state[e])
  BY DEF Advances
<1>9. QED
  BY <1>1, <1>2, <1>3, <1>5, <1>6, <1>7, <1>8, ListenFacts, SockFunctions, HandlerStep DEF IInv

(* New segments: what is inserted, moved and acknowledged.                  *)
Moved(q, n) == [i \in 1..n |-> q[i].seg]
Acks(e, n) == [i \in 1..n |-> Ack(e, rcv_nxt[e] + i)]

LEMMA NewData ==
    ASSUME IInv, NEW e \in Ends, HandleData(e), ~(Packet(e).seq < rcv_nxt[e])
    PROVE  IInv'
<1> DEFINE p == Packet(e)
           c == "client"
           x == [seq |-> p.seq, seg |-> p.seg]
<1>1. /\ Testing(e, "est") /\ state[e] = "ESTABLISHED" /\ p.type = "DATA"
      /\ Continue(e, "closing")
      /\ UNCHANGED <<state, snd_nxt, send_buf, hashed, passive, file, waits, app,
                     crashed>>
  BY DEF HandleData
<1>2. PICK q \in SortedInsert(rcv_ofo_buf, x) :
         LET n == Contiguous(q, rcv_nxt[e])
         IN /\ Len(rcv_ofo_buf) < MaxOfo
            /\ rcv_ofo_buf' = SubSeq(q, n + 1, Len(q))
            /\ ring' = ring \o [i \in 1..n |-> q[i].seg]
            /\ rcv_nxt' = [rcv_nxt EXCEPT ![e] = @ + n]
            /\ Transmit(e, [i \in 1..n |-> Ack(e, rcv_nxt[e] + i)], Rest(e))
            /\ retrans_time' = [retrans_time EXCEPT ![e] = 0]
  BY DEF HandleData
<1> DEFINE n == Contiguous(q, rcv_nxt[e])
<1>3. /\ Len(rcv_ofo_buf) < MaxOfo
      /\ rcv_ofo_buf' = SubSeq(q, n + 1, Len(q))
      /\ ring' = ring \o Moved(q, n)
      /\ rcv_nxt' = [rcv_nxt EXCEPT ![e] = @ + n]
      /\ Transmit(e, Acks(e, n), Rest(e))
      /\ retrans_time' = [retrans_time EXCEPT ![e] = 0]
  BY <1>2 DEF Moved, Acks
<1>4. Ready(e)
  BY <1>1, TestFacts DEF IInv
<1>5. p \in AnyPacket /\ p.seq \in Nat /\ p \in Made(Other(e))
  BY <1>4, PacketFacts
<1>6. e = "server" /\ Other(e) = c /\ c \in Ends /\ e # c /\ \A f \in Ends : f = e \/ f = c
  BY <1>1, <1>5, TheEnds DEF IInv, OneWay
<1>7. /\ rcv_nxt[e] \in Nat /\ snd_nxt[e] \in Nat /\ snd_nxt[c] \in Nat /\ written \in 0..D
      /\ rcv_ofo_buf \in Seq(Entry) /\ ring \in Seq(1..D) /\ got \in Seq(1..D)
      /\ Len(rcv_ofo_buf) \in Nat
  BY <1>6 DEF IInv, Types, SockTypes, DataTypes
<1>8. p \in Traces /\ p.seg \in 1..D
  <2>1. p \in Traces
    BY <1>1, <1>5, <1>6 DEF Traces, DataSent
  <2>2. p.seg \in 1..written
    BY <2>1 DEF IInv, OneWay
  <2>3. QED
    BY <1>7, <2>1, <2>2, ConstantsAssumption
<1>9. x \in Entry /\ x.seq = p.seq /\ x.seg = p.seg
  BY <1>5, <1>8 DEF Entry
<1> HIDE DEF x
<1>10. /\ q \in Seq(Entry) /\ Len(q) = Len(rcv_ofo_buf) + 1
       /\ \A k \in 1..Len(q) : q[k] = x \/ \E j \in 1..Len(rcv_ofo_buf) : q[k] = rcv_ofo_buf[j]
  BY <1>7, <1>9, Inserted
<1>11. /\ n \in 0..Len(q) /\ n \in Nat
       /\ \A i \in 1..n : q[i].seq = rcv_nxt[e] + i - 1
  <2>1. n \in 0..Len(q) /\ \A i \in 1..n : q[i].seq = rcv_nxt[e] + i - 1
    BY <1>7, <1>10, ContiguousPart
  <2> HIDE DEF n
  <2>2. QED
    BY <1>7, <1>10, <2>1
<1> HIDE DEF n
<1>12. \A i \in 1..n : i \in 1..Len(q)
  BY <1>7, <1>10, <1>11
<1>13. ASSUME NEW k \in 1..Len(q)
       PROVE  \E y \in Traces : q[k].seq = y.seq /\ q[k].seg = y.seg
  <2>1. CASE q[k] = x
    BY <1>8, <1>9, <2>1
  <2>2. CASE \E j \in 1..Len(rcv_ofo_buf) : q[k] = rcv_ofo_buf[j]
    BY <2>2 DEF Traces, Held
  <2>3. QED
    BY <1>10, <2>1, <2>2
<1>14. \A k \in 1..Len(q) : /\ q[k] \in Entry /\ q[k].seq \in Nat /\ q[k].seg \in 1..D
                            /\ q[k].seq < snd_nxt[c] /\ q[k].seg \in 1..written
  <2> SUFFICES ASSUME NEW k \in 1..Len(q)
               PROVE  /\ q[k] \in Entry /\ q[k].seq \in Nat /\ q[k].seg \in 1..D
                      /\ q[k].seq < snd_nxt[c] /\ q[k].seg \in 1..written
    OBVIOUS
  <2>1. q[k] \in Entry
    BY <1>10, ElementOfSeq
  <2>2. q[k].seq < snd_nxt[c] /\ q[k].seg \in 1..written
    BY <1>13 DEF IInv, OneWay
  <2>3. QED
    BY <2>1, <2>2 DEF Entry
<1>15. rcv_nxt[e] + n <= snd_nxt[c]
  <2>1. CASE n = 0
    BY <1>6, <1>7, <2>1 DEF IInv, Numbers
  <2>2. CASE n # 0
    <3>1. n \in 1..n /\ n \in 1..Len(q)
      BY <1>11, <2>2
    <3>2. q[n].seq = rcv_nxt[e] + n - 1 /\ q[n].seq < snd_nxt[c]
      BY <1>11, <1>14, <3>1
    <3>3. QED
      BY <1>7, <1>11, <3>2
  <2>3. QED
    BY <2>1, <2>2
(* The acknowledgments. *)
<1> DEFINE ps == Acks(e, n)
<1>16. /\ ps \in Seq(AnyPacket) /\ Len(ps) = n
       /\ \A k \in 1..n : ps[k] = Ack(e, rcv_nxt[e] + k)
  <2>1. \A k \in 1..n : Ack(e, rcv_nxt[e] + k) \in AnyPacket
    BY <1>7, <1>11, ConstantsAssumption DEF Ack, AnyPacket, PacketTypes
  <2>2. QED
    BY <1>11, <2>1 DEF Acks
<1>17. \A k \in 1..Len(ps) : /\ ps[k].type = "ACK" /\ ps[k].seq = snd_nxt[e]
                             /\ ps[k].ack <= snd_nxt[c]
  BY <1>7, <1>11, <1>15, <1>16 DEF Ack
<1> HIDE DEF ps
<1>18. /\ handler' \in [Ends -> {"idle", "est", "closing"}] /\ cur' \in [Ends -> AnyPacket]
       /\ cur'[e] \in {Packet(e), NoPacket, cur[e]} /\ cur'[Other(e)] = cur[Other(e)]
       /\ cur'[e] = p
  <2>1. cur' = [cur EXCEPT ![e] = p] /\ cur \in [Ends -> AnyPacket]
    BY <1>1 DEF Continue, IInv, Types, ThreadTypes
  <2>2. QED
    BY <1>1, <1>4, <2>1, ThreadEffect DEF IInv
<1>19. Output(e, ps)
  BY <1>3, <1>4, <1>6, <1>16, <1>17, <1>18, TransmitOutput DEF ps
<1>20. WireTypes' /\ Inputs(e) /\ Flow(e, {ps[k] : k \in 1..Len(ps)})
  BY <1>19 DEF Output
<1>21. /\ rcv_nxt'[e] = rcv_nxt[e] + n /\ rcv_nxt'[c] = rcv_nxt[c] /\ rcv_nxt' \in [Ends -> Nat]
  BY <1>3, <1>6, <1>7, <1>11 DEF IInv, Types, SockTypes
<1>22. Local(e)
  BY <1>1, <1>6, <1>19, <1>21 DEF Local, Output
<1>23. Numbers' /\ UnackedIsKept'
  <2>1. \A k \in 1..Len(ps) : ps[k].type = "ACK" /\ ps[k].seq = snd_nxt[e]
    BY <1>17
  <2>2. QED
    BY <1>1, <1>4, <1>6, <1>15, <1>19, <1>21, <1>22, <2>1, AnswerEffect
(* What stays in the list. *)
<1>24. /\ rcv_ofo_buf' \in Seq(Entry) /\ Len(rcv_ofo_buf') <= MaxOfo
       /\ \A i \in 1..Len(rcv_ofo_buf') : \E k \in 1..Len(q) : rcv_ofo_buf'[i] = q[k]
  <2>1. \A i \in n + 1..Len(q) : q[i] \in Entry
    BY <1>11, <1>14
  <2>2. /\ rcv_ofo_buf' \in Seq(Entry)
        /\ Len(rcv_ofo_buf') = IF n + 1 <= Len(q) THEN Len(q) - (n + 1) + 1 ELSE 0
        /\ \A i \in 1..Len(q) - (n + 1) + 1 : rcv_ofo_buf'[i] = q[n + 1 + i - 1]
    BY <1>3, <1>7, <1>10, <1>11, <2>1, SubSeqProperties
  <2>3. Len(rcv_ofo_buf') = Len(q) - n /\ \A i \in 1..Len(q) - n : rcv_ofo_buf'[i] = q[n + i]
    BY <1>7, <1>10, <1>11, <2>2
  <2>4. Len(rcv_ofo_buf') <= MaxOfo
    BY <1>3, <1>7, <1>10, <1>11, <2>3, ConstantsAssumption
  <2>5. \A i \in 1..Len(q) - n : n + i \in 1..Len(q)
    BY <1>7, <1>10, <1>11
  <2>6. QED
    BY <2>2, <2>3, <2>4, <2>5
<1>25. Copied(Held', Traces)
  <2> SUFFICES ASSUME NEW i \in 1..Len(rcv_ofo_buf')
               PROVE  \E y \in Traces : rcv_ofo_buf'[i].seq = y.seq /\ rcv_ofo_buf'[i].seg = y.seg
    BY DEF Copied, Held
  <2>1. PICK k \in 1..Len(q) : rcv_ofo_buf'[i] = q[k]
    BY <1>24
  <2>2. QED
    BY <1>13, <2>1
<1>26. OneWay' /\ Copied(Traces', Traces)
  <2>1. \A b \in {ps[k] : k \in 1..Len(ps)} : b.type = "ACK"
    BY <1>17
  <2>2. \A b \in send_buf'[e] : b \in Made("server")
    BY <1>1, <1>6 DEF Made
  <2>3. \A b \in send_buf'[e] : b.type # "DATA"
    BY <2>2 DEF IInv, OneWay
  <2>4. written' \in Nat /\ written <= written'
    BY <1>1, <1>7 DEF file
  <2>5. snd_nxt'[c] \in Nat /\ snd_nxt[c] <= snd_nxt'[c]
    BY <1>1, <1>7
  <2> DEFINE N == {ps[k] : k \in 1..Len(ps)}
  <2> HIDE DEF N
  <2>6. Flow(e, N) /\ \A b \in N \cup send_buf'[e] : b.type # "DATA" /\ e = "server"
    BY <1>6, <1>20, <2>1, <2>3 DEF N
  <2>7. QED
    BY <1>22, <1>25, <2>4, <2>5, <2>6, OneWayStep
(* What is stored. *)
<1> DEFINE new == Moved(q, n)
           L == Len(Stored)
<1>27. new \in Seq(1..D) /\ Len(new) = n /\ \A i \in 1..n : new[i] = q[i].seg
  <2>1. \A i \in 1..n : q[i].seg \in 1..D
    BY <1>14, <1>12
  <2>2. QED
    BY <1>11, <2>1 DEF Moved
<1> HIDE DEF new
<1>28. Stored \in Seq(1..D) /\ L \in Nat /\ \A k \in 1..L : Stored[k] \in 1..D
  <2>1. Stored \in Seq(1..D)
    BY <1>7, ConcatProperties DEF Stored
  <2> HIDE DEF Stored
  <2>2. QED
    BY <2>1, LenProperties, ElementOfSeq
<1>29. /\ Stored' \in Seq(1..D) /\ Len(Stored') = L + n
       /\ \A k \in 1..L + n : Stored'[k] = IF k <= L THEN Stored[k] ELSE new[k - L]
       /\ ring' \in Seq(1..D)
  <2>1. ring' = ring \o new /\ got' = got
    BY <1>1, <1>3 DEF file, new
  <2>2. Stored' = Stored \o new
    <3>1. got \in Seq(1..D) /\ ring \in Seq(1..D) /\ new \in Seq(1..D)
      BY <1>7, <1>27
    <3>2. (got \o ring) \o new = got \o (ring \o new)
      BY <3>1, ConcatAssociative, SMT
    <3>3. QED
      BY <2>1, <3>2 DEF Stored
  <2>3. ring' \in Seq(1..D)
    BY <1>7, <1>27, <2>1, ConcatProperties
  <2> HIDE DEF Stored
  <2>4. /\ Stored \o new \in Seq(1..D) /\ Len(Stored \o new) = L + Len(new)
        /\ \A k \in 1..L + Len(new) :
               (Stored \o new)[k] = IF k <= L THEN Stored[k] ELSE new[k - L]
    BY <1>27, <1>28, ConcatProperties
  <2>5. QED
    BY <1>27, <2>2, <2>3, <2>4
<1> HIDE DEF L
<1>30. \A k \in 1..L : Stored[k] <= written
  BY DEF IInv, StoredInOrder, L
<1>31. \A k, m \in 1..L : k < m => Stored[k] < Stored[m]
  BY DEF IInv, StoredInOrder, L
(* What is expected next comes after all that is stored. *)
<1>32. ASSUME NEW y \in Traces, y.seq >= rcv_nxt[e], NEW k \in 1..L
       PROVE  Stored[k] < y.seg
  BY <1>1, <1>6, <1>32 DEF IInv, StoredInOrder, L
<1>33. ASSUME NEW i \in 1..n, NEW k \in 1..L
       PROVE  Stored[k] < new[i]
  <2>1. PICK y \in Traces : q[i].seq = y.seq /\ q[i].seg = y.seg
    BY <1>13, <1>12
  <2>2. y.seq >= rcv_nxt[e]
    BY <1>7, <1>11, <2>1
  <2>3. QED
    BY <1>27, <1>32, <2>1, <2>2
<1>34. ASSUME NEW i \in 1..n, NEW y \in Traces, y.seq > q[i].seq
       PROVE  new[i] < y.seg
  <2>1. PICK z \in Traces : q[i].seq = z.seq /\ q[i].seg = z.seg
    BY <1>13, <1>12
  <2>2. z.seq < y.seq
    BY <1>34, <2>1, TraceTypes DEF IInv
  <2>3. QED
    BY <1>27, <2>1, <2>2 DEF IInv, OneWay
<1>35. ASSUME NEW i \in 1..n, NEW j \in 1..n, i < j
       PROVE  new[i] < new[j]
  <2>1. PICK z \in Traces : q[j].seq = z.seq /\ q[j].seg = z.seg
    BY <1>13, <1>12
  <2>2. q[i].seq < z.seq
    <3>1. q[i].seq = rcv_nxt[e] + i - 1 /\ q[j].seq = rcv_nxt[e] + j - 1
      BY <1>11
    <3>2. QED
      BY <1>7, <1>35, <2>1, <3>1
  <2>3. new[i] < z.seg
    BY <1>11, <1>14, <1>34, <2>1, <2>2, TraceTypes DEF IInv
  <2>4. QED
    BY <1>27, <2>1, <2>3
<1>36. \A i \in 1..n : new[i] <= written
  <2> SUFFICES ASSUME NEW i \in 1..n PROVE new[i] <= written
    OBVIOUS
  <2>1. q[i].seg \in 1..written
    BY <1>11, <1>14
  <2>2. QED
    BY <1>7, <1>27, <2>1
<1>37. StoredInOrder'
  <2>1. \A k \in 1..L + n : k > L => k - L \in 1..n
    BY <1>11, <1>28 DEF L
  <2>2. \A k \in 1..Len(Stored') : Stored'[k] <= written'
    <3> SUFFICES ASSUME NEW k \in 1..L + n PROVE Stored'[k] <= written
      BY <1>1, <1>29 DEF file
    <3>1. CASE k <= L
      BY <1>28, <1>29, <1>30, <3>1 DEF L
    <3>2. CASE k > L
      BY <1>28, <1>29, <1>36, <2>1, <3>2 DEF L
    <3>3. QED
      BY <1>28, <3>1, <3>2 DEF L
  <2>3. ASSUME NEW k \in 1..Len(Stored'), NEW m \in 1..Len(Stored'), k < m
        PROVE  Stored'[k] < Stored'[m]
    <3>1. k \in 1..L + n /\ m \in 1..L + n /\ L \in Nat
      BY <1>28, <1>29 DEF L
    <3>2. CASE m <= L
      BY <1>29, <1>31, <2>3, <3>1, <3>2
    <3>3. CASE k <= L /\ m > L
      BY <1>29, <1>33, <2>1, <3>1, <3>3
    <3>4. CASE k > L /\ m > L
      <4>1. k - L \in 1..n /\ m - L \in 1..n /\ k - L < m - L
        BY <2>1, <2>3, <3>1, <3>4
      <4>2. new[k - L] < new[m - L]
        BY <1>35, <4>1
      <4>3. Stored'[k] = new[k - L] /\ Stored'[m] = new[m - L]
        BY <1>29, <3>1, <3>4
      <4>4. QED
        BY <4>2, <4>3
    <3>5. QED
      BY <2>3, <3>1, <3>2, <3>3, <3>4
  <2>4. app'[e] # "accept"
    BY <1>1 DEF IInv, Starts, Beginning
  <2>5. ASSUME NEW u \in Traces', u.seq >= rcv_nxt'[e], NEW k \in 1..Len(Stored')
        PROVE  Stored'[k] < u.seg
    <3>1. PICK y \in Traces : u.seq = y.seq /\ u.seg = y.seg
      BY <1>26 DEF Copied
    <3>2. y.seq \in Nat /\ y.seq >= rcv_nxt[e] + n /\ y.seq >= rcv_nxt[e]
      BY <1>7, <1>11, <1>21, <2>5, <3>1, TraceTypes DEF IInv
    <3>3. k \in 1..L + n /\ L \in Nat
      BY <1>28, <1>29 DEF L
    <3>4. CASE k <= L
      BY <1>29, <1>32, <3>1, <3>2, <3>3, <3>4
    <3>5. CASE k > L
      <4>1. k - L \in 1..n /\ Stored'[k] = new[k - L]
        BY <1>29, <2>1, <3>3, <3>5
      <4>2. q[k - L].seq = rcv_nxt[e] + (k - L) - 1
        BY <1>11, <4>1
      <4> DEFINE m == k - L
      <4> HIDE DEF m
      <4>3. y.seq > q[m].seq
        <5>1. m \in 1..n /\ q[m].seq = rcv_nxt[e] + m - 1
          BY <4>1, <4>2 DEF m
        <5>2. QED
          BY <1>7, <1>11, <3>2, <5>1
      <4>4. QED
        BY <1>34, <3>1, <4>1, <4>3 DEF m
    <3>6. QED
      BY <3>3, <3>4, <3>5
  <2>6. QED
    BY <1>6, <2>2, <2>3, <2>4, <2>5 DEF StoredInOrder
(* Data in hand leaves no ACK of the handshake under way. *)
<1>38. HandshakeFirst'
  <2>1. Accepting
    BY <1>1, <1>6 DEF Accepting
  <2>2. \A i \in 1..Len(net[e]) : net[e][i].type # "ACK"
    <3>1. CASE handler[e] = "idle"
      <4>1. Len(net[e]) \in Nat /\ p = net[e][1]
        BY <1>4, <3>1, Received DEF IInv
      <4> SUFFICES ASSUME NEW i \in 1..Len(net[e]), net[e][i].type = "ACK" PROVE FALSE
        OBVIOUS
      <4>2. i # 1
        BY <1>1, <4>1
      <4>3. 1 \in 1..i - 1
        BY <4>1, <4>2
      <4>4. net[e][1].type # "DATA"
        BY <1>6, <2>1, <4>3 DEF IInv, HandshakeFirst
      <4>5. QED
        BY <1>1, <4>1, <4>4
    <3>2. CASE handler[e] # "idle"
      <4>1. p = cur[e]
        BY <1>4, <3>2, Received DEF IInv
      <4>2. QED
        BY <1>1, <1>6, <2>1, <4>1 DEF IInv, HandshakeFirst
    <3>3. QED
      BY <3>1, <3>2
  <2>3. net'[e] = Rest(e)
    <3>1. net' = [net EXCEPT ![e] = Rest(e), ![Other(e)] = net'[Other(e)]]
      BY <1>3, <1>6 DEF Transmit, IInv, Types, WireTypes
    <3>2. QED
      BY <1>6, <3>1 DEF IInv, Types, WireTypes
  <2>4. \A i \in 1..Len(net'[e]) : net'[e][i].type # "ACK"
    <3>1. CASE handler[e] = "idle"
      <4>1. /\ Len(net[e]) \in Nat /\ Len(Rest(e)) = Len(net[e]) - 1
            /\ \A i \in 1..Len(Rest(e)) : Rest(e)[i] = net[e][i + 1]
        BY <1>4, <3>1, Received DEF IInv
      <4>2. \A i \in 1..Len(Rest(e)) : i + 1 \in 1..Len(net[e])
        BY <4>1
      <4>3. QED
        BY <2>2, <2>3, <4>1, <4>2
    <3>2. CASE handler[e] # "idle"
      BY <1>4, <2>2, <2>3, <3>2, Received DEF IInv
    <3>3. QED
      BY <3>1, <3>2
  <2>5. cur'[e].type # "ACK"
    BY <1>1, <1>18
  <2>6. QED
    BY <1>6, <2>4, <2>5 DEF HandshakeFirst
<1>39. Types'
  <2>1. retrans_time' \in [Ends -> NoTimer..MaxRetrans]
    <3>1. 0 \in NoTimer..MaxRetrans
      BY ConstantsAssumption DEF NoTimer
    <3>2. QED
      BY <1>3, <3>1 DEF IInv, Types, SockTypes
  <2>2. SockTypes' /\ PassiveTypes'
    BY <1>1, <1>21, <2>1 DEF IInv, Types, SockTypes, PassiveTypes, passive
  <2>3. DataTypes'
    BY <1>1, <1>24, <1>29 DEF IInv, Types, DataTypes, file
  <2>4. ThreadTypes'
    BY <1>1, <1>18 DEF IInv, Types, ThreadTypes, waits
  <2>5. QED
    BY <1>20, <2>2, <2>3, <2>4 DEF Types
<1>40. Unused'
  <2>1. listener' # "LISTEN"
    BY <1>1, <1>6, ListenFacts DEF passive
  <2>2. QED
    BY <2>1 DEF Unused
<1>41. Starts' /\ Counted'
  BY <1>1 DEF IInv, Starts, Counted, MaxFins, Beginning, file, waits, passive
<1>42. FinMeansClosed'
  <2>1. Closed(e)' <=> Closed(e)
    BY <1>1 DEF Closed, Beginning
  <2> DEFINE N == {ps[k] : k \in 1..Len(ps)}
  <2> HIDE DEF N
  <2>2. \A b \in N \cup send_buf'[e] : b.type = "FIN" => \E d \in Made(e) : d.type = "FIN"
    BY <1>1, <1>17 DEF Made, N
  <2>3. ~Closed(e)
    BY <1>1 DEF Closed, Open
  <2>4. app'[e] # "fin" /\ (app'[e] = "last_ack" => app[e] = "last_ack")
    BY <1>1, <2>3 DEF IInv, FinMeansClosed, FinTrace
  <2>5. state'[e] = "ESTABLISHED" /\ Flow(e, N)
    BY <1>1, <1>20 DEF N
  <2>6. QED
    BY <1>22, <2>1, <2>2, <2>4, <2>5, FinStep
<1>43. QED
  BY <1>23, <1>26, <1>37, <1>38, <1>39, <1>40, <1>41, <1>42 DEF IInv

LEMMA HandleDataStep == ASSUME IInv, NEW e \in Ends, HandleData(e) PROVE IInv'
BY OldData, NewData
-----------------------------------------------------------------------------
LEMMA AppStep == ASSUME IInv, NEW e \in Ends, App(e) PROVE IInv'
BY CloseStartStep, CloseFinishStep, ConnectStep, ConnectStateStep, ConnectReturnStep,
   WriteStep, WriteTestStep, WriteWokenStep, AcceptStep, ReadStep DEF App

LEMMA HandlerThreadStep == ASSUME IInv, NEW e \in Ends, Handler(e) PROVE IInv'
BY RecvNobodyStep, HandleRstStep, HandleSynSentStep, HandleSynRecvStep, HandleFinStep,
   HandleAckStep, HandleDataStep, HandleClosingStep, RecvListenerStep DEF Handler

LEMMA NextIInv == IInv /\ [Next]_vars => IInv'
<1> SUFFICES ASSUME IInv, [Next]_vars PROVE IInv'
  OBVIOUS
<1>1. CASE Next
  <2>1. PICK e \in Ends : App(e) \/ Handler(e) \/ Timer(e) \/ Lose(e)
    BY <1>1 DEF Next
  <2>2. CASE Timer(e)
    BY <2>2, RetransmitStep, GiveUpStep, TimeWaitOverStep DEF Timer
  <2>3. QED
    BY <2>1, <2>2, AppStep, HandlerThreadStep, LoseStep
<1>2. CASE UNCHANGED vars
  <2>1. /\ UNCHANGED <<state, snd_nxt, rcv_nxt, send_buf, retrans_time, hashed>>
        /\ UNCHANGED <<listener, queued, accept_backlog, rcv_ofo_buf, ring, written, got>>
        /\ UNCHANGED <<wait_connect, wait_send, app, handler, cur, crashed, net, acked>>
    BY <1>2 DEF vars, sock, passive, data, file, waits, wire
  <2>2. Types' /\ Unused' /\ Starts' /\ Counted'
    BY <2>1 DEF IInv, Types, SockTypes, PassiveTypes, DataTypes, ThreadTypes, WireTypes,
                Unused, Starts, Counted, MaxFins, Beginning
  <2>3. \A f : Towards(f)' = Towards(f) /\ Made(f)' = Made(f)
    BY <2>1 DEF Towards, ToldTo, Made
  <2>4. Numbers' /\ FinMeansClosed'
    BY <2>1, <2>3 DEF IInv, Numbers, FinMeansClosed, FinTrace, Closed, Beginning
  <2>5. Traces' = Traces /\ Stored' = Stored
    BY <2>1, <2>3 DEF Traces, DataSent, Held, Stored
  <2>6. OneWay' /\ StoredInOrder'
    BY <2>1, <2>3, <2>5 DEF IInv, OneWay, StoredInOrder
  <2>7. HandshakeFirst' /\ UnackedIsKept'
    BY <2>1, <2>5 DEF IInv, HandshakeFirst, Accepting, UnackedIsKept
  <2>8. QED
    BY <2>2, <2>4, <2>6, <2>7 DEF IInv
<1>3. QED
  BY <1>1, <1>2

(* The inductive invariant: types; what an end has before the first SYN and *)
(* before connect and accept are through; that packets and acknowledgments  *)
(* number only what was sent; how many packets that can be; that a FIN      *)
(* means a closed end; that data goes one way, later segments having later  *)
(* numbers; that what is stored precedes what can still be stored; and that *)
(* the ACK of the handshake is ahead of all data.                           *)
THEOREM Inductive == Spec => []IInv
<1>1. QED
  BY InitIInv, NextIInv, PTL DEF Spec

(* No sequence number is higher than that of a second FIN after all data.   *)
LEMMA BoundedNumbers ==
    ASSUME IInv
    PROVE  /\ \A e \in Ends : snd_nxt[e] \in Seqs /\ rcv_nxt[e] \in Seqs /\ acked[e] \in Seqs
           /\ \A e \in Ends : Made(e) \subseteq Packets
           /\ \A x \in Held : x.seq \in Seqs
<1>1. /\ \A e \in Ends : snd_nxt[e] \in Nat /\ rcv_nxt[e] \in Nat /\ acked[e] \in Nat
      /\ written \in 0..D
  BY DEF IInv, Types, SockTypes, WireTypes, DataTypes
<1>2. MaxFins("client") \in 0..2 /\ MaxFins("server") \in 0..2
  BY DEF MaxFins
<1>3. snd_nxt["client"] <= D + 4 /\ snd_nxt["server"] <= D + 4
  <2> HIDE DEF MaxFins
  <2>1. /\ snd_nxt["client"] <= (IF app["client"] = "connect" THEN 0 ELSE 1)
                                + written + MaxFins("client")
        /\ snd_nxt["server"] <= (IF listener = "LISTEN" THEN 0 ELSE 1) + MaxFins("server")
    BY DEF IInv, Counted
  <2>2. QED
    BY <1>1, <1>2, <2>1, TheEnds, ConstantsAssumption
<1>4. \A e \in Ends : /\ snd_nxt[e] <= D + 4
                      /\ acked[e] <= snd_nxt[Other(e)] /\ rcv_nxt[e] <= snd_nxt[Other(e)]
                      /\ snd_nxt[Other(e)] <= D + 4 /\ snd_nxt[Other(e)] \in Nat
  BY <1>1, <1>3, TheEnds DEF IInv, Numbers
<1>5. \A e \in Ends : snd_nxt[e] \in Seqs /\ rcv_nxt[e] \in Seqs /\ acked[e] \in Seqs
  BY <1>1, <1>4, ConstantsAssumption DEF Seqs
<1>6. ASSUME NEW e \in Ends, NEW p \in Made(e)
      PROVE  p \in Packets
  <2>1. p \in AnyPacket /\ SeqEnd(p) <= snd_nxt[e]
    BY PacketTypesOfMade DEF IInv, Numbers
  <2>2. p.seq \in Nat /\ p.ack \in Nat /\ p.seq <= SeqEnd(p) /\ SeqEnd(p) \in Nat
    BY <2>1 DEF AnyPacket, SeqEnd
  <2>3. p.ack <= snd_nxt[Other(e)]
    <3>1. CASE p \in Towards(Other(e))
      BY <3>1 DEF IInv, Numbers
    <3>2. CASE p \in send_buf[e]
      BY <1>4, <3>2 DEF IInv, Numbers, Reliable
    <3>3. QED
      BY <3>1, <3>2 DEF Made
  <2>4. p.seq \in Seqs /\ p.ack \in Seqs
    BY <1>1, <1>4, <2>1, <2>2, <2>3, ConstantsAssumption DEF Seqs
  <2>5. QED
    BY <2>1, <2>4 DEF AnyPacket, Packets
<1>7. ASSUME NEW x \in Held PROVE x.seq \in Seqs
  <2>1. x \in Traces
    BY DEF Traces
  <2>2. x.seq \in Nat /\ x.seq < snd_nxt["client"]
    BY <2>1, TraceTypes DEF IInv, OneWay
  <2>3. QED
    BY <1>1, <1>3, <2>2, TheEnds, ConstantsAssumption DEF Seqs
<1>8. QED
  BY <1>5, <1>6, <1>7

LEMMA TypesHold == IInv => TypeOK
<1> SUFFICES ASSUME IInv PROVE TypeOK
  OBVIOUS
<1>1. /\ \A e \in Ends : snd_nxt[e] \in Seqs /\ rcv_nxt[e] \in Seqs /\ acked[e] \in Seqs
      /\ \A e \in Ends : Made(e) \subseteq Packets
      /\ \A x \in Held : x.seq \in Seqs
  BY BoundedNumbers
<1>2. \A e \in Ends : ToldTo(e) \subseteq Packets /\ cur[e] \in Packets /\ send_buf[e] \subseteq Packets
  BY <1>1, TheEnds DEF Made, Towards
<1>3. /\ state \in [Ends -> States]
      /\ retrans_time \in [Ends -> NoTimer..MaxRetrans]
      /\ hashed \in [Ends -> BOOLEAN] /\ crashed \in [Ends -> BOOLEAN]
      /\ snd_nxt \in [Ends -> Seqs] /\ rcv_nxt \in [Ends -> Seqs]
  BY <1>1 DEF IInv, Types, SockTypes
<1>4. send_buf \in [Ends -> SUBSET Packets] /\ acked \in [Ends -> Seqs] /\ cur \in [Ends -> Packets]
  BY <1>1, <1>2 DEF IInv, Types, SockTypes, WireTypes, ThreadTypes
<1>5. /\ listener \in {"LISTEN", "SYN_RECV", "CLOSED"}
      /\ queued \in BOOLEAN /\ accept_backlog \in -1..Backlog
  BY ConstantsAssumption DEF IInv, Types, PassiveTypes
<1>6. /\ Len(rcv_ofo_buf) <= MaxOfo
      /\ \A i \in DOMAIN rcv_ofo_buf : rcv_ofo_buf[i] \in [seq : Seqs, seg : 1..D]
  <2>1. rcv_ofo_buf \in Seq(Entry) /\ Len(rcv_ofo_buf) <= MaxOfo
    BY DEF IInv, Types, DataTypes
  <2>2. ASSUME NEW i \in DOMAIN rcv_ofo_buf
        PROVE  rcv_ofo_buf[i] \in [seq : Seqs, seg : 1..D]
    <3>1. i \in 1..Len(rcv_ofo_buf)
      BY <2>1
    <3>2. rcv_ofo_buf[i] \in Entry /\ rcv_ofo_buf[i] \in Held
      BY <2>1, <3>1, ElementOfSeq DEF Held
    <3>3. QED
      BY <1>1, <3>2 DEF Entry
  <2>3. QED
    BY <2>1, <2>2
<1>7. /\ ring \in Seq(1..D) /\ got \in Seq(1..D) /\ written \in 0..D
      /\ {wait_connect, wait_send} \subseteq {"quiet", "notified", "dead"}
      /\ app["client"] \in ClientApp /\ app["server"] \in ServerApp
      /\ handler \in [Ends -> {"idle", "est", "closing"}]
      /\ \A e \in Ends : Len(net[e]) <= NetMax
  BY DEF IInv, Types, DataTypes, ThreadTypes, WireTypes
<1>8. QED
  BY <1>2, <1>3, <1>4, <1>5, <1>6, <1>7 DEF TypeOK, ClientApp, ServerApp

(* Whatever the network loses and the threads interleave, an end never      *)
(* acknowledges what the other has not sent (tcp_in.c:209, 231), at most    *)
(* Backlog children are counted and one that waits is counted               *)
(* (tcp_sock.c:324-352), and sequence numbers stay bounded.                 *)
THEOREM ConnectionSound == Spec => []ConnInv
<1>1. IInv => ConnInv
  <2> SUFFICES ASSUME IInv PROVE ConnInv
    OBVIOUS
  <2>1. TypeOK
    BY TypesHold
  <2>2. AckOnlySent
    BY TheEnds DEF IInv, Numbers, AckOnlySent
  <2>3. BacklogCovers
    BY ConstantsAssumption DEF IInv, Types, PassiveTypes, BacklogCovers
  <2>4. QED
    BY <2>1, <2>2, <2>3 DEF ConnInv
<1>2. QED
  BY <1>1, Inductive, PTL

(* The server's application reads what the client wrote, in order and       *)
(* nothing twice (tcp_in.c:66-81, tcp_sock.c:534-559).                      *)
THEOREM DataInOrder == Spec => []InOrder
<1>1. IInv => InOrder
  <2> SUFFICES ASSUME IInv PROVE InOrder
    OBVIOUS
  <2>1. Stored \in Seq(1..D)
    BY ConcatProperties DEF IInv, Types, DataTypes, Stored
  <2>2. DOMAIN Stored = 1..Len(Stored)
    <3> HIDE DEF Stored
    <3> QED
      BY <2>1, LenProperties
  <2>3. /\ \A i \in DOMAIN Stored : Stored[i] <= written
        /\ \A i, j \in DOMAIN Stored : i < j => Stored[i] < Stored[j]
    BY <2>2 DEF IInv, StoredInOrder
  <2>4. QED
    BY <2>3 DEF InOrder, Stored
<1>2. QED
  BY <1>1, Inductive, PTL

(* A packet stays in send_buf until the other end has acknowledged it       *)
(* (tcp_sock.c:476-491).                                                    *)
THEOREM LossIsRepairable == Spec => []UnackedIsKept
<1>1. IInv => UnackedIsKept
  BY DEF IInv
<1>2. QED
  BY <1>1, Inductive, PTL

(* An end that believes that its peer has closed is right                   *)
(* (tcp_in.c:219-227, 268-275; tcp_sock.c:382).                             *)
THEOREM FinIsTrue == Spec => []NoPhantomFin
<1>1. IInv => NoPhantomFin
  <2> SUFFICES ASSUME IInv, NEW e \in Ends,
                      state[e] \in {"CLOSE_WAIT", "LAST_ACK", "TIME_WAIT"}
               PROVE  state[Other(e)] \notin {"SYN_SENT", "SYN_RECV", "ESTABLISHED"}
    BY DEF NoPhantomFin
  <2>1. FinTrace(Other(e)) /\ Other(e) \in Ends
    BY TheEnds DEF FinTrace
  <2>2. Closed(Other(e))
    BY <2>1 DEF IInv, FinMeansClosed
  <2>3. QED
    BY <2>2 DEF Closed, Open
<1>2. QED
  BY <1>1, Inductive, PTL
=============================================================================
