------------------------------ MODULE TcpConn -------------------------------
(***************************************************************************)
(* One connection of the EXP18 stack from connect to close, both ends      *)
(* running the same code over a network that may lose packets:             *)
(*                                                                         *)
(*   the application threads of tcp_apps.c: the client connects, writes    *)
(*     and closes; the server accepts, reads and closes                    *)
(*   the handler thread of each end: tcp_process for each packet; it tests *)
(*     the state again and again on its way down, and the application and  *)
(*     timer threads may change it between two tests                       *)
(*   the timer thread of each end: retransmission, giving up, TIME_WAIT    *)
(*                                                                         *)
(* Initial sequence numbers are 0 and a data segment counts as one.        *)
(* Windows are left out: they are wider than D. tcp_set_retrans_timer      *)
(* initialises and inserts a list node that is already in the list, which  *)
(* makes the node its own predecessor; every packet sent does so a second  *)
(* time, and from then on tcp_unset_retrans_timer unlinks nothing: it has  *)
(* no effect in this module. Definitions named Mutant_... are faulty       *)
(* variants that the specification does not use.                           *)
(***************************************************************************)
EXTENDS Integers, Sequences, FiniteSets

CONSTANTS
    D,              (* data segments the client writes; only the last is short *)
    MaxRetrans,     (* retransmissions before the timer gives up (8)           *)
    Backlog,        (* argument of tcp_sock_listen (3)                         *)
    NetMax,         (* bound: packets under way to one end; more are lost      *)
    MaxOfo          (* bound: entries of rcv_ofo_buf; no steps go beyond it    *)

ASSUME ConstantsAssumption ==
    /\ D \in Nat \ {0} /\ MaxRetrans \in Nat /\ Backlog \in Nat \ {0}
    /\ NetMax \in Nat \ {0} /\ MaxOfo \in Nat

VARIABLES
    state, snd_nxt, rcv_nxt, send_buf, (* of the socket of each end *)
    retrans_time,       (* of its retransmission timer                       *)
    hashed,             (* it is in the established table                    *)
    listener,           (* state of the server's listening socket            *)
    queued,             (* the child is in the accept queue                  *)
    accept_backlog,
    rcv_ofo_buf, ring,  (* the server's received segments                    *)
    got,                (* those its application has read                    *)
    written,            (* segments the client has sent                      *)
    wait_connect, wait_send,    (* the client's                              *)
    app, handler, cur,  (* where the threads are; the handler's packet       *)
    crashed,            (* the process went through a null pointer           *)
    net,                (* packets under way to each end                     *)
    acked               (* the highest ack number each end has sent          *)

sock == <<state, snd_nxt, rcv_nxt, send_buf, retrans_time, hashed>>
passive == <<listener, queued, accept_backlog>>
data == <<rcv_ofo_buf, ring>>
file == <<written, got>>
waits == <<wait_connect, wait_send>>
wire == <<net, acked>>
vars == <<sock, passive, data, file, waits, app, handler, cur, crashed, wire>>

Ends == {"client", "server"}
Other(e) == IF e = "client" THEN "server" ELSE "client"

(* Packets; every type but SYN and RST carries the ACK flag. *)
PacketTypes == {"SYN", "SYNACK", "ACK", "DATA", "FIN", "RST"}
NoPacket == [type |-> "RST", seq |-> 0, ack |-> 0, seg |-> 0]
HasAck(p) == p.type \notin {"SYN", "RST"}
SeqEnd(p) == p.seq + (IF p.type \in {"ACK", "RST"} THEN 0 ELSE 1)

NoTimer == -1      (* retrans_time of a timer that was never started *)

(* synch_wait with a single sleeper: dead stays, notified is consumed. *)
WakeUp(w) == IF w = "dead" THEN w ELSE "notified"
Slept(w) == IF w = "dead" THEN w ELSE "quiet"

Most(a, b) == IF a >= b THEN a ELSE b
-----------------------------------------------------------------------------
(* Output. *)

(* Packets ps leave end e; what does not fit on the wire is lost. in is what *)
(* is under way to e itself after the step.                                  *)
Transmit(e, ps, in) ==
    LET all == net[Other(e)] \o ps
        acks == {ps[i].ack : i \in {k \in DOMAIN ps : HasAck(ps[k])}} \cup {acked[e]}
    IN /\ net' = [net EXCEPT ![e] = in,
                     ![Other(e)] = SubSeq(all, 1, IF Len(all) < NetMax
                                                  THEN Len(all) ELSE NetMax)]
       /\ acked' = [acked EXCEPT ![e] = CHOOSE m \in acks : \A a \in acks : a <= m]

Mutant_AckTooHigh(e, nxt) ==
    [type |-> "ACK", seq |-> snd_nxt[e], ack |-> nxt + 1, seg |-> 0]
(* tcp_send_control_packet with flags ACK: neither buffered nor counted. *)
Ack(e, nxt) == [type |-> "ACK", seq |-> snd_nxt[e], ack |-> nxt, seg |-> 0]
SendAck(e, nxt, in) == Transmit(e, <<Ack(e, nxt)>>, in)

(* tcp_send_packet and tcp_send_control_packet for DATA, SYN, SYN|ACK and   *)
(* FIN|ACK: buffered until acknowledged, and the timer starts again.        *)
SendReliable(e, t, k, in) ==
    LET p == [type |-> t, seq |-> snd_nxt[e], ack |-> rcv_nxt[e], seg |-> k] IN
    /\ Transmit(e, <<p>>, in)
    /\ snd_nxt' = [snd_nxt EXCEPT ![e] = @ + 1]
    /\ send_buf' = [send_buf EXCEPT ![e] = @ \cup {[p EXCEPT !.ack = 0]}]
    /\ retrans_time' = [retrans_time EXCEPT ![e] = 0]

Mutant_UnackedTooMany(e, ack) == {b \in send_buf[e] : b.seq > ack}
(* delete_send_buffer_entry: what is left of send_buf. *)
Unacked(e, ack) == {b \in send_buf[e] : ~(b.seq < ack)}
-----------------------------------------------------------------------------
(* tcp_sock_close, in one go, as the handler calls it for a RST. *)
CloseSocket(e, in) ==
    CASE state[e] \in {"CLOSE_WAIT", "ESTABLISHED"} ->
            /\ SendReliable(e, "FIN", 0, in)
            /\ state' = [state EXCEPT ![e] = IF @ = "CLOSE_WAIT" THEN "LAST_ACK"
                                                                  ELSE "FIN_WAIT_1"]
            /\ UNCHANGED hashed
      [] state[e] \notin {"CLOSE_WAIT", "ESTABLISHED"} ->
            /\ hashed' = [hashed EXCEPT ![e] = @ /\ state[e] = "CLOSED"]
            /\ state' = [state EXCEPT ![e] = "CLOSED"]
            /\ net' = [net EXCEPT ![e] = in]
            /\ UNCHANGED <<snd_nxt, send_buf, retrans_time, acked>>
-----------------------------------------------------------------------------
(* The client's application thread. *)
Step(e, from, to) == app[e] = from /\ app' = [app EXCEPT ![e] = to]

(* tcp_sock_connect: the SYN leaves before the state changes and before the *)
(* socket can be found.                                                     *)
Connect ==
    /\ Step("client", "connect", "syn_sent")
    /\ SendReliable("client", "SYN", 0, net["client"])
    /\ UNCHANGED <<state, rcv_nxt, hashed, passive, data, file, waits,
                   handler, cur, crashed>>

ConnectState ==
    /\ Step("client", "syn_sent", "connecting")
    /\ state' = [state EXCEPT !["client"] = "SYN_SENT"]
    /\ hashed' = [hashed EXCEPT !["client"] = TRUE]
    /\ UNCHANGED <<snd_nxt, rcv_nxt, send_buf, retrans_time, passive,
                   data, file, waits, handler, cur, crashed, wire>>

(* Notified or given up: connect returns all the same. *)
ConnectReturn ==
    /\ Step("client", "connecting", "write")
    /\ wait_connect # "quiet"
    /\ wait_connect' = Slept(wait_connect)
    /\ UNCHANGED <<sock, passive, data, file, wait_send, handler, cur, crashed, wire>>

(* tcp_sock_write: the segments, each when the window allows it. *)
Write ==
    /\ app["client"] = "write"
    /\ written < D
    /\ written' = written + 1
    /\ SendReliable("client", "DATA", written + 1, net["client"])
    /\ UNCHANGED <<state, rcv_nxt, hashed, passive, data, got, waits,
                   app, handler, cur, crashed>>

(* while (!list_empty(send_buf)) sleep_on(wait_send). *)
WriteTest ==
    /\ app["client"] = "write"
    /\ written = D
    /\ app' = [app EXCEPT !["client"] =
                 IF send_buf["client"] = {} THEN "close" ELSE "draining"]
    /\ UNCHANGED <<sock, passive, data, file, waits, handler, cur, crashed, wire>>

WriteWoken ==
    /\ Step("client", "draining", "write")
    /\ wait_send # "quiet"
    /\ wait_send' = Slept(wait_send)
    /\ UNCHANGED <<sock, passive, data, file, wait_connect, handler, cur, crashed, wire>>

(* The server's. accept makes the child ESTABLISHED whatever it was. *)
Accept ==
    /\ Step("server", "accept", "read")
    /\ queued
    /\ queued' = FALSE
    /\ accept_backlog' = accept_backlog - 1
    /\ state' = [state EXCEPT !["server"] = "ESTABLISHED"]
    /\ UNCHANGED <<snd_nxt, rcv_nxt, send_buf, retrans_time, hashed,
                   listener, data, file, waits, handler, cur, crashed, wire>>

(* tcp_sock_read takes all there is; tcp_server closes after a short read,  *)
(* that is after one of the last segment alone.                             *)
Read ==
    /\ app["server"] = "read"
    /\ ring # <<>>
    /\ got' = got \o ring
    /\ ring' = <<>>
    /\ app' = [app EXCEPT !["server"] = IF ring = <<D>> THEN "close" ELSE @]
    /\ UNCHANGED <<sock, passive, rcv_ofo_buf, written, waits, handler, cur,
                   crashed, wire>>

(* Both call tcp_sock_close; state and FIN are two steps, in either order.  *)
CloseStart(e) ==
    /\ app[e] = "close"
    /\ \/ /\ state[e] = "CLOSE_WAIT"
          /\ SendReliable(e, "FIN", 0, net[e])
          /\ app' = [app EXCEPT ![e] = "last_ack"]
          /\ UNCHANGED <<state, hashed>>
       \/ /\ state[e] = "ESTABLISHED"
          /\ state' = [state EXCEPT ![e] = "FIN_WAIT_1"]
          /\ app' = [app EXCEPT ![e] = "fin"]
          /\ UNCHANGED <<snd_nxt, send_buf, retrans_time, hashed, wire>>
       \/ /\ state[e] \notin {"CLOSE_WAIT", "ESTABLISHED"}
          /\ CloseSocket(e, net[e])
          /\ app' = [app EXCEPT ![e] = "done"]
    /\ UNCHANGED <<rcv_nxt, passive, data, file, waits, handler, cur, crashed>>

CloseFinish(e) ==
    /\ \/ /\ Step(e, "last_ack", "done")
          /\ state' = [state EXCEPT ![e] = "LAST_ACK"]
          /\ UNCHANGED <<snd_nxt, send_buf, retrans_time, wire>>
       \/ /\ Step(e, "fin", "done")
          /\ SendReliable(e, "FIN", 0, net[e])
          /\ UNCHANGED state
    /\ UNCHANGED <<rcv_nxt, hashed, passive, data, file, waits, handler, cur,
                   crashed>>

App(e) ==
    \/ CloseStart(e) \/ CloseFinish(e)
    \/ e = "client" /\ (Connect \/ ConnectState \/ ConnectReturn \/ Write
                         \/ WriteTest \/ WriteWoken)
    \/ e = "server" /\ (Accept \/ Read)
-----------------------------------------------------------------------------
(* The handler thread: tcp_process. It takes a packet, looks the socket up  *)
(* and goes down the tests of the state. It is one step down to the end of  *)
(* the first branch taken; handler[e] is then the test that comes next, and *)
(* the state it will find there may be another one.                         *)
Packet(e) == IF handler[e] = "idle" THEN Head(net[e]) ELSE cur[e]
Rest(e) == IF handler[e] = "idle" THEN Tail(net[e]) ELSE net[e]
Take(e) == net' = [net EXCEPT ![e] = Rest(e)]

FirstTest(e, p) ==
    CASE p.type = "RST" -> "rst"
      [] p.type # "RST" /\ state[e] = "SYN_SENT" -> "syn_sent"
      [] p.type # "RST" /\ state[e] = "SYN_RECV" /\ HasAck(p) -> "syn_recv"
      [] p.type # "RST" /\ state[e] = "ESTABLISHED" /\ p.type # "SYN" -> "est"
      [] OTHER -> "closing"

Testing(e, t) ==
    \/ /\ handler[e] = "idle" /\ net[e] # <<>> /\ hashed[e]
       /\ FirstTest(e, Head(net[e])) = t
    \/ handler[e] = t

Finish(e) ==
    /\ handler' = [handler EXCEPT ![e] = "idle"]
    /\ cur' = [cur EXCEPT ![e] = NoPacket]
Continue(e, t) ==
    /\ handler' = [handler EXCEPT ![e] = t]
    /\ cur' = [cur EXCEPT ![e] = Packet(e)]

(* tcp_sock_lookup finds nothing: tcp_process goes through a null pointer;  *)
(* so does the SYN_RECV branch on a listening socket, which has no parent.  *)
RecvNobody(e) ==
    /\ handler[e] = "idle" /\ net[e] # <<>> /\ ~hashed[e]
    /\ \/ e = "client" \/ listener = "CLOSED"
       \/ listener = "SYN_RECV" /\ HasAck(Packet(e))
    /\ Take(e)
    /\ crashed' = [crashed EXCEPT ![e] = TRUE]
    /\ UNCHANGED <<sock, passive, data, file, waits, app, handler, cur, acked>>

(* A packet for the listening socket. The first SYN takes it out of LISTEN  *)
(* for good and makes the child, which answers SYN|ACK.                     *)
RecvListener ==
    LET e == "server"
        p == Packet(e)
        reply == [type |-> "SYNACK", seq |-> 0, ack |-> p.seq + 1, seg |-> 0]
    IN
    /\ handler[e] = "idle" /\ net[e] # <<>> /\ ~hashed[e]
    /\ \/ listener = "LISTEN"
       \/ listener = "SYN_RECV" /\ ~HasAck(p)
    /\ IF listener = "LISTEN" /\ p.type = "SYN"
       THEN /\ listener' = "SYN_RECV"
            /\ state' = [state EXCEPT ![e] = "SYN_RECV"]
            /\ hashed' = [hashed EXCEPT ![e] = TRUE]
            /\ snd_nxt' = [snd_nxt EXCEPT ![e] = 1]
            /\ rcv_nxt' = [rcv_nxt EXCEPT ![e] = p.seq + 1]
            /\ send_buf' = [send_buf EXCEPT ![e] = {[reply EXCEPT !.ack = 0]}]
            /\ retrans_time' = [retrans_time EXCEPT ![e] = 0]
            /\ Transmit(e, <<reply>>, Rest(e))
       ELSE /\ listener' = IF p.type = "RST" THEN "CLOSED" ELSE listener
            /\ Take(e)
            /\ UNCHANGED <<sock, acked>>
    /\ UNCHANGED <<queued, accept_backlog, data, file, waits, app, handler, cur,
                   crashed>>

HandleRst(e) ==
    /\ Testing(e, "rst")
    /\ CloseSocket(e, Rest(e))
    /\ UNCHANGED <<rcv_nxt, passive, data, file, waits, app, handler, cur, crashed>>

(* SYN_SENT waits for a SYN|ACK. *)
HandleSynSent(e) ==
    LET p == Packet(e) IN
    /\ Testing(e, "syn_sent")
    /\ IF p.type = "SYNACK"
       THEN /\ rcv_nxt' = [rcv_nxt EXCEPT ![e] = p.seq + 1]
            /\ send_buf' = [send_buf EXCEPT ![e] = Unacked(e, p.ack)]
            /\ state' = [state EXCEPT ![e] = "ESTABLISHED"]
            /\ SendAck(e, p.seq + 1, Rest(e))
            /\ wait_connect' = WakeUp(wait_connect)
       ELSE Take(e) /\ UNCHANGED <<rcv_nxt, send_buf, state, acked, wait_connect>>
    /\ UNCHANGED <<snd_nxt, retrans_time, hashed, passive, data, file, wait_send,
                   app, handler, cur, crashed>>

(* is_tcp_seq_valid, for windows that are never exceeded. *)
SeqValid(e, p) == rcv_nxt[e] <= SeqEnd(p)

AcceptQueueFull == accept_backlog >= Backlog

(* SYN_RECV and any packet with ACK: into the accept queue, again if it is  *)
(* there already, and rcv_nxt is what the packet says.                      *)
HandleSynRecv(e) ==
    LET p == Packet(e) IN
    /\ Testing(e, "syn_recv")
    /\ IF AcceptQueueFull \/ ~SeqValid(e, p)
       THEN UNCHANGED <<sock, passive>>
       ELSE /\ rcv_nxt' = [rcv_nxt EXCEPT ![e] = p.seq]
            /\ send_buf' = [send_buf EXCEPT ![e] = Unacked(e, p.ack)]
            /\ queued' = TRUE
            /\ accept_backlog' = accept_backlog + 1
            /\ UNCHANGED <<state, snd_nxt, retrans_time, hashed, listener>>
    /\ Take(e)
    /\ IF AcceptQueueFull \/ SeqValid(e, p) THEN Continue(e, "est") ELSE Finish(e)
    /\ UNCHANGED <<data, file, waits, app, crashed, acked>>

(* The branch for ESTABLISHED. A FIN is not checked for a hole before it.   *)
HandleFin(e) ==
    LET p == Packet(e) IN
    /\ Testing(e, "est") /\ state[e] = "ESTABLISHED" /\ p.type = "FIN"
    /\ IF SeqValid(e, p)
       THEN /\ state' = [state EXCEPT ![e] = "CLOSE_WAIT"]
            /\ rcv_nxt' = [rcv_nxt EXCEPT ![e] = p.seq + 1]
            /\ SendAck(e, p.seq + 1, Rest(e))
            /\ Continue(e, "closing")
       ELSE Take(e) /\ Finish(e) /\ UNCHANGED <<state, rcv_nxt, acked>>
    /\ UNCHANGED <<snd_nxt, send_buf, retrans_time, hashed, passive, data, file,
                   waits, app, crashed>>

(* A packet with ACK and no payload: nothing of it is checked. *)
HandleAck(e) ==
    LET p == Packet(e) IN
    /\ Testing(e, "est") /\ state[e] = "ESTABLISHED"
    /\ p.type \in {"ACK", "SYNACK"}
    /\ rcv_nxt' = [rcv_nxt EXCEPT ![e] = p.seq]
    /\ send_buf' = [send_buf EXCEPT ![e] = Unacked(e, p.ack)]
    /\ retrans_time' = [retrans_time EXCEPT ![e] = 0]
    /\ wait_send' = IF e = "client" THEN WakeUp(wait_send) ELSE wait_send
    /\ Take(e)
    /\ Continue(e, "closing")
    /\ UNCHANGED <<state, snd_nxt, hashed, passive, data, file, wait_connect, app,
                   crashed, acked>>

(* handle_recv_data: the list is kept sorted by seq; entries are moved to   *)
(* the ring buffer, each with an ACK, as long as the first one is next.     *)
SortedInsert(q, x) ==
    {SubSeq(q, 1, i) \o <<x>> \o SubSeq(q, i + 1, Len(q)) :
        i \in {k \in 0..Len(q) : /\ \A j \in 1..k : ~(x.seq < q[j].seq)
                               /\ k < Len(q) => x.seq < q[k + 1].seq}}

Mutant_ContiguousOverHole(q, nxt) == Len(q)
Contiguous(q, nxt) ==
    CHOOSE n \in 0..Len(q) :
        /\ \A i \in 1..n : q[i].seq = nxt + i - 1
        /\ n < Len(q) => q[n + 1].seq # nxt + n

HandleData(e) ==
    LET p == Packet(e) IN
    /\ Testing(e, "est") /\ state[e] = "ESTABLISHED" /\ p.type = "DATA"
    /\ IF p.seq < rcv_nxt[e]
       THEN /\ SendAck(e, rcv_nxt[e], Rest(e))
            /\ UNCHANGED <<rcv_nxt, retrans_time, data>>
       ELSE \E q \in SortedInsert(rcv_ofo_buf, [seq |-> p.seq, seg |-> p.seg]) :
            LET n == Contiguous(q, rcv_nxt[e])
            IN /\ Len(rcv_ofo_buf) < MaxOfo
               /\ rcv_ofo_buf' = SubSeq(q, n + 1, Len(q))
               /\ ring' = ring \o [i \in 1..n |-> q[i].seg]
               /\ rcv_nxt' = [rcv_nxt EXCEPT ![e] = @ + n]
               /\ Transmit(e, [i \in 1..n |-> Ack(e, rcv_nxt[e] + i)], Rest(e))
               /\ retrans_time' = [retrans_time EXCEPT ![e] = 0]
    /\ Continue(e, "closing")
    /\ UNCHANGED <<state, snd_nxt, send_buf, hashed, passive, file, waits, app,
                   crashed>>

(* The tests for LAST_ACK, FIN_WAIT_1 and then FIN_WAIT_2. None of them     *)
(* asks whether the ACK covers the FIN. The test for ESTABLISHED fell       *)
(* through if the state was another one by then.                            *)
Mutant_AfterAckNoFin(st) ==
    CASE st = "LAST_ACK" -> "CLOSED" [] st = "FIN_WAIT_1" -> "TIME_WAIT"
AfterAck(st) == CASE st = "LAST_ACK" -> "CLOSED" [] st = "FIN_WAIT_1" -> "FIN_WAIT_2"

HandleClosing(e) ==
    LET p == Packet(e)
        awaits == state[e] \in {"LAST_ACK", "FIN_WAIT_1"} /\ HasAck(p)
        leaves == awaits /\ SeqValid(e, p)
        then == IF leaves THEN AfterAck(state[e]) ELSE state[e]
        fin == then = "FIN_WAIT_2" /\ p.type = "FIN"
    IN
    /\ \/ Testing(e, "closing")
       \/ handler[e] = "est" /\ state[e] # "ESTABLISHED"
    /\ send_buf' = [send_buf EXCEPT ![e] = IF leaves THEN Unacked(e, p.ack) ELSE @]
    /\ hashed' = [hashed EXCEPT ![e] = @ /\ ~(leaves /\ then = "CLOSED")]
    /\ state' = [state EXCEPT ![e] = IF fin THEN "TIME_WAIT" ELSE then]
    /\ IF fin
       THEN /\ rcv_nxt' = [rcv_nxt EXCEPT ![e] = p.seq + 1]
            /\ SendAck(e, p.seq + 1, Rest(e))
       ELSE Take(e) /\ UNCHANGED <<rcv_nxt, acked>>
    /\ Finish(e)
    /\ UNCHANGED <<snd_nxt, retrans_time, passive, data, file, waits, app, crashed>>

Handler(e) ==
    \/ RecvNobody(e) \/ HandleRst(e) \/ HandleSynSent(e) \/ HandleSynRecv(e)
    \/ HandleFin(e) \/ HandleAck(e) \/ HandleData(e) \/ HandleClosing(e)
    \/ e = "server" /\ RecvListener
-----------------------------------------------------------------------------
(* The timer thread. tcp_scan_retrans_timer_list for a timer that is due.   *)
Mutant_LinkedUntilAcked(e) == retrans_time[e] # NoTimer /\ send_buf[e] # {}
Linked(e) == retrans_time[e] # NoTimer

Exhausted(e) == retrans_time[e] >= MaxRetrans

(* wait_exit for the waits of a socket. *)
Mutant_WaitExitForgotten(e) == UNCHANGED waits
WaitExit(e) ==
    /\ wait_connect' = IF e = "client" THEN "dead" ELSE wait_connect
    /\ wait_send' = IF e = "client" THEN "dead" ELSE wait_send

Retransmit(e) ==
    /\ Linked(e) /\ state[e] # "CLOSED"
    /\ ~Exhausted(e)
    /\ retrans_time' = [retrans_time EXCEPT ![e] = @ + 1]
    /\ IF send_buf[e] = {} THEN UNCHANGED wire
       ELSE LET first == CHOOSE b \in send_buf[e] :
                            \A c \in send_buf[e] : b.seq <= c.seq
            IN Transmit(e, <<[first EXCEPT !.ack = rcv_nxt[e]]>>, net[e])
    /\ UNCHANGED <<state, snd_nxt, rcv_nxt, send_buf, hashed, passive,
                   data, file, waits, app, handler, cur, crashed>>

GiveUp(e) ==
    /\ Linked(e) /\ state[e] # "CLOSED"
    /\ Exhausted(e)
    /\ state' = [state EXCEPT ![e] = "CLOSED"]
    /\ Transmit(e, <<[type |-> "RST", seq |-> snd_nxt[e], ack |-> rcv_nxt[e],
                      seg |-> 0]>>, net[e])
    /\ WaitExit(e)
    /\ UNCHANGED <<snd_nxt, rcv_nxt, send_buf, retrans_time, hashed,
                   passive, data, file, app, handler, cur, crashed>>

(* tcp_scan_timer_list: two MSL after TIME_WAIT began. *)
TimeWaitOver(e) ==
    /\ state[e] = "TIME_WAIT"
    /\ state' = [state EXCEPT ![e] = "CLOSED"]
    /\ UNCHANGED <<snd_nxt, rcv_nxt, send_buf, retrans_time, hashed,
                   passive, data, file, waits, app, handler, cur, crashed, wire>>

Timer(e) == Retransmit(e) \/ GiveUp(e) \/ TimeWaitOver(e)

(* The network loses the next packet. *)
Lose(e) ==
    /\ net[e] # <<>>
    /\ net' = [net EXCEPT ![e] = Tail(@)]
    /\ UNCHANGED <<sock, passive, data, file, waits, app, handler, cur, crashed,
                   acked>>
-----------------------------------------------------------------------------
Init ==
    /\ state = [e \in Ends |-> "CLOSED"]
    /\ snd_nxt = [e \in Ends |-> 0]
    /\ rcv_nxt = [e \in Ends |-> 0] /\ send_buf = [e \in Ends |-> {}]
    /\ retrans_time = [e \in Ends |-> NoTimer]
    /\ hashed = [e \in Ends |-> FALSE]
    /\ listener = "LISTEN" /\ queued = FALSE /\ accept_backlog = 0
    /\ rcv_ofo_buf = <<>> /\ ring = <<>> /\ got = <<>> /\ written = 0
    /\ wait_connect = "quiet" /\ wait_send = "quiet"
    /\ app = [client |-> "connect", server |-> "accept"]
    /\ handler = [e \in Ends |-> "idle"] /\ cur = [e \in Ends |-> NoPacket]
    /\ crashed = [e \in Ends |-> FALSE]
    /\ net = [e \in Ends |-> <<>>] /\ acked = [e \in Ends |-> 0]

(* A crash of one end looks to the other like the loss of every packet from *)
(* then on, which the network can do anyway: nothing is added by going on.  *)
Running == \A e \in Ends : ~crashed[e]
Next == /\ Running
        /\ \E e \in Ends : App(e) \/ Handler(e) \/ Timer(e) \/ Lose(e)

(* The timer threads run for ever, once per scan interval, and the client's *)
(* thread when it is not asleep. Nothing is asked of the network, of the    *)
(* handler thread or of the server's application.                           *)
Fairness ==
    /\ \A e \in Ends : /\ WF_vars(Running /\ (Retransmit(e) \/ GiveUp(e)))
                       /\ WF_vars(Running /\ TimeWaitOver(e))
    /\ WF_vars(Running /\ App("client"))

Spec == Init /\ [][Next]_vars /\ Fairness
-----------------------------------------------------------------------------
States == {"CLOSED", "SYN_SENT", "SYN_RECV", "ESTABLISHED", "CLOSE_WAIT",
           "LAST_ACK", "FIN_WAIT_1", "FIN_WAIT_2", "TIME_WAIT"}
Seqs == 0..(D + 4)
Packets == [type : PacketTypes, seq : Seqs, ack : Seqs, seg : 0..D]
ToldTo(e) == {net[e][i] : i \in DOMAIN net[e]}

(* Types of all variables. *)
TypeOK ==
    /\ state \in [Ends -> States]
    /\ snd_nxt \in [Ends -> Seqs] /\ rcv_nxt \in [Ends -> Seqs]
    /\ send_buf \in [Ends -> SUBSET Packets]
    /\ retrans_time \in [Ends -> NoTimer..MaxRetrans]
    /\ hashed \in [Ends -> BOOLEAN] /\ crashed \in [Ends -> BOOLEAN]
    /\ listener \in {"LISTEN", "SYN_RECV", "CLOSED"}
    /\ queued \in BOOLEAN /\ accept_backlog \in -1..Backlog
    /\ Len(rcv_ofo_buf) <= MaxOfo
    /\ \A i \in DOMAIN rcv_ofo_buf : rcv_ofo_buf[i] \in [seq : Seqs, seg : 1..D]
    /\ ring \in Seq(1..D) /\ got \in Seq(1..D) /\ written \in 0..D
    /\ {wait_connect, wait_send} \subseteq {"quiet", "notified", "dead"}
    /\ app["client"] \in {"connect", "syn_sent", "connecting", "write",
                          "draining", "close", "last_ack", "fin", "done"}
    /\ app["server"] \in {"accept", "read", "close", "last_ack", "fin", "done"}
    /\ handler \in [Ends -> {"idle", "est", "closing"}] /\ cur \in [Ends -> Packets]
    /\ \A e \in Ends : Len(net[e]) <= NetMax /\ ToldTo(e) \subseteq Packets
    /\ acked \in [Ends -> Seqs]

(* What the server's application reads is part of what the client wrote, in *)
(* order and nothing twice, whatever is lost or sent again                  *)
(* (tcp_in.c:66-81, tcp_sock.c:534-559).                                    *)
InOrder ==
    LET all == got \o ring IN
    /\ \A i \in DOMAIN all : all[i] <= written
    /\ \A i, j \in DOMAIN all : i < j => all[i] < all[j]

(* No end acknowledges what the other has not sent (tcp_in.c:209, 231).     *)
AckOnlySent ==
    \A e \in Ends : /\ acked[Other(e)] <= snd_nxt[e]
                    /\ rcv_nxt[Other(e)] <= snd_nxt[e]

(* A packet leaves send_buf only when the other end has acknowledged it: a  *)
(* loss can always be repaired (tcp_sock.c:476-491).                        *)
UnackedIsKept ==
    \A e \in Ends : \A s \in 0..(snd_nxt[e] - 1) :
        (\A b \in send_buf[e] : b.seq # s) => acked[Other(e)] > s

(* An end that believes its peer has closed is right: the peer has not     *)
(* stayed in an open state (tcp_in.c:219-227, 268-275; tcp_sock.c:382 can   *)
(* put a socket back into ESTABLISHED).                                     *)
NoPhantomFin ==
    \A e \in Ends : state[e] \in {"CLOSE_WAIT", "LAST_ACK", "TIME_WAIT"}
        => state[Other(e)] \notin {"SYN_SENT", "SYN_RECV", "ESTABLISHED"}

(* A child waiting to be accepted is counted, and the count never passes    *)
(* the backlog (tcp_sock.c:324-352).                                        *)
BacklogCovers == (queued => accept_backlog >= 1) /\ accept_backlog <= Backlog

(* The types, honest acknowledgments and a backlog that counts.             *)
ConnInv == TypeOK /\ AckOnlySent /\ BacklogCovers

(* When tcp_sock_write has returned and the timer has not given up, every   *)
(* segment written is with the server, in its ring buffer or read           *)
(* (tcp_sock.c:452-457).                                                    *)
WrittenIsDelivered ==
    (app["client"] \in {"close", "fin", "last_ack"} /\ wait_send # "dead")
        => Len(got \o ring) = D

(* No socket stays open for ever, even when the peer is gone: the timer     *)
(* gives up in the end (tcp_timer.c:97-132, 16-28).                         *)
ConnectionEnds ==
    \A e \in Ends : state[e] # "CLOSED" ~> state[e] = "CLOSED" \/ ~Running

(* Unless the server resets the connection, a client asleep in connect or   *)
(* in write is woken, if by nothing else then by the timer that gives up    *)
(* (tcp_sock.c:308, 452-454; tcp_timer.c:113-116).                          *)
ClientWakes ==
    [](\A p \in ToldTo("client") : p.type # "RST") =>
        \A a \in {"connecting", "draining"} :
            app["client"] = a ~> app["client"] # a \/ ~Running
=============================================================================
