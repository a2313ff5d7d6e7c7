------------------------------ MODULE TcpSend -------------------------------
(***************************************************************************)
(* The sending side of an established connection of the EXP18 stack:       *)
(*                                                                         *)
(*   the application thread inside tcp_sock_write, which sends a segment,  *)
(*     asks the window and sleeps on wait_send                             *)
(*   the handler thread with one pure ACK after the other: snd_una, the    *)
(*     window, the send buffer, New Reno, and the wake-up at the end       *)
(*   the timer thread: loss by timeout, resending, giving up               *)
(*                                                                         *)
(* and a peer that acknowledges what it has in order (how this stack does  *)
(* so is in TcpReceive), over links that lose packets.  Nothing protects   *)
(* the socket: the threads see one another between any two of these steps. *)
(*                                                                         *)
(* Data is counted in segments, windows in half segments: cwnd, a float,   *)
(* is known down to the half below it.  The last segment is a short one    *)
(* and takes half.  Definitions named Mutant_... are faulty variants that  *)
(* the specification does not use.                                         *)
(***************************************************************************)
EXTENDS Integers, Sequences, FiniteSets

CONSTANTS
    D,             (* segments tcp_sock_write is given                        *)
    DefaultWindow, (* TCP_DEFAULT_WINDOW in half segments (65535 B: 89)       *)
    Ssthresh,      (* ssthresh of a new socket (16)                           *)
    DupThresh,     (* duplicate ACKs that start a recovery (3)                *)
    MaxRetrans,    (* timeouts in a row before the timer gives up (8)         *)
    Windows,       (* windows the peer may advertise, in half segments        *)
    NetMax,        (* bound: segments under way; ACKs under way               *)
    MaxEarly       (* bound: timeouts with packets still under way            *)

ASSUME ConstantsAssumption ==
    /\ D \in Nat \ {0} /\ DefaultWindow \in Nat /\ Ssthresh \in Nat \ {0}
    /\ DupThresh \in Nat \ {0} /\ MaxRetrans \in Nat /\ Windows \subseteq Nat
    /\ NetMax \in Nat \ {0} /\ MaxEarly \in Nat

VARIABLES
    snd_nxt, snd_una,
    snd_wnd,        (* u32: below 0 it stands for the numbers below 2^32     *)
    send_buf,       (* segments sent and not acknowledged                    *)
    cwnd, ssthresh, cwnd_flag, dupacks, nr_state, recovery_point, loss_point,
    retrans_time, early,
    closed,         (* the timer has given up                                *)
    app,            (* where the writer is                                   *)
    wait_send,
    handler, cur,   (* where the handler is; its ACK                         *)
    rcv_nxt, rcv_ofo_buf,   (* the peer's                                    *)
    data, acks      (* the two directions of the link                        *)

sender == <<snd_nxt, snd_una, snd_wnd, send_buf>>
reno == <<cwnd, ssthresh, cwnd_flag, dupacks, nr_state, recovery_point, loss_point>>
timer == <<retrans_time, early, closed>>
thread == <<app, handler, cur>>
peer == <<rcv_nxt, rcv_ofo_buf>>
wire == <<data, acks>>
vars == <<sender, reno, timer, thread, wait_send, peer, wire>>

Segments == 0..D-1
(* Half segments up to segment n: all but the last are of MSS bytes. *)
Halves(n) == IF n = D THEN 2 * D - 1 ELSE 2 * n
Size(k) == Halves(k + 1) - Halves(k)

Least(S) == CHOOSE x \in S : \A y \in S : x <= y
Lower(a, b) == IF a <= b THEN a ELSE b
Higher(a, b) == IF a >= b THEN a ELSE b

(* A link holds NetMax packets; more are lost. *)
Sent(q, x) == IF Len(q) < NetMax THEN Append(q, x) ELSE q
-----------------------------------------------------------------------------
(* synch_wait with a single sleeper: dead stays, notified is consumed. *)
WakeUp(w) == IF w = "dead" THEN w ELSE "notified"
Slept(w) == IF w = "dead" THEN w ELSE "quiet"

(* is_allow_to_send = 0.  The difference of the window and the segments in  *)
(* flight is unsigned, so that only equality gives 0; a window below zero   *)
(* is a huge one, and so are segments in flight below zero.                 *)
InFlight == (Halves(snd_nxt) - Halves(snd_una)) \div 2 - dupacks
Blocked == snd_wnd >= 0 /\ InFlight = snd_wnd \div 2
-----------------------------------------------------------------------------
(* tcp_sock_write *)

WriterAt(from, to) == app = from /\ app' = to

(* send_data: the loop sends first and asks the window afterwards. *)
Write ==
    /\ WriterAt("send", "test")
    /\ data' = Sent(data, snd_nxt)
    /\ snd_nxt' = snd_nxt + 1
    /\ snd_wnd' = snd_wnd - Size(snd_nxt)
    /\ send_buf' = send_buf \cup {snd_nxt}
    /\ retrans_time' = 0
    /\ UNCHANGED <<snd_una, reno, early, closed, handler, cur, wait_send, peer, acks>>

WriteTest ==
    /\ app = "test"
    /\ app' = IF Blocked THEN "asleep" ELSE IF snd_nxt < D THEN "send" ELSE "drain"
    /\ UNCHANGED <<sender, reno, timer, handler, cur, wait_send, peer, wire>>

(* sleep_on returns, notified or dead; both loops then test again. *)
WriteWoken ==
    /\ wait_send # "quiet"
    /\ WriterAt("asleep", "test") \/ WriterAt("draining", "drain")
    /\ wait_send' = Slept(wait_send)
    /\ UNCHANGED <<sender, reno, timer, handler, cur, peer, wire>>

WriteDrain ==
    /\ app = "drain"
    /\ app' = IF send_buf = {} THEN "returned" ELSE "draining"
    /\ UNCHANGED <<sender, reno, timer, handler, cur, wait_send, peer, wire>>

Writer == Write \/ WriteTest \/ WriteWoken \/ WriteDrain
-----------------------------------------------------------------------------
(* tcp_process in ESTABLISHED for an ACK without data *)

HandlerAt(from, to) == handler = from /\ handler' = to

(* A closed socket is past every test of tcp_process. *)
AckClosed ==
    /\ handler = "idle" /\ acks # <<>> /\ closed
    /\ acks' = Tail(acks)
    /\ UNCHANGED <<sender, reno, timer, thread, wait_send, peer, data>>

AckUna ==
    /\ HandlerAt("idle", "window")
    /\ acks # <<>> /\ ~closed
    /\ cur' = Head(acks) /\ acks' = Tail(acks)
    /\ snd_una' = cur'.ack
    /\ UNCHANGED <<snd_nxt, snd_wnd, send_buf, reno, timer, app, wait_send, peer, data>>

(* tcp_update_window_safe and tcp_update_retrans_timer *)
AckWindow ==
    /\ HandlerAt("window", "reno")
    /\ IF snd_una <= cur.ack /\ cur.ack <= snd_nxt
       THEN /\ snd_wnd' = Lower(cur.rwnd, cwnd)
            /\ wait_send' = IF snd_wnd = 0 THEN WakeUp(wait_send) ELSE wait_send
       ELSE UNCHANGED <<snd_wnd, wait_send>>
    /\ retrans_time' = 0
    /\ UNCHANGED <<snd_nxt, snd_una, send_buf, reno, early, closed, app, cur, peer, wire>>

Mutant_Unacked(ack) == {k \in send_buf : k > ack}
(* delete_send_buffer_entry: what is left. *)
Unacked(ack) == {k \in send_buf : ~(k < ack)}

(* update_cwnd: one more, or 1/cwnd more, which leads from k halves into    *)
(* the half k or the next; close to 1 it leads further.                     *)
Grown == IF cwnd \div 2 < ssthresh THEN {cwnd + 2}
         ELSE IF cwnd < 4 THEN {4} ELSE IF cwnd = 4 THEN {5} ELSE {cwnd, cwnd + 1}

(* cwnd > ssthresh: within the half that begins at ssthresh, maybe. *)
Above == IF cwnd = 2 * ssthresh THEN BOOLEAN ELSE {cwnd > 2 * ssthresh}

(* (u32)(cwnd / 2), at least 1; c is in half segments. *)
Halved(c) == Higher(c \div 4, 1)

(* retrans_send_buffer_packet, with left the send buffer and wnd the window *)
Resend(left, wnd) ==
    IF left = {} THEN data' = data /\ snd_wnd' = wnd
    ELSE /\ data' = Sent(data, Least(left))
         /\ snd_wnd' = wnd - Size(Least(left))
NoResend == UNCHANGED <<data, snd_wnd>>

RenoOpen(new) ==
    /\ nr_state = "OPEN"
    /\ cwnd' \in Grown
    /\ nr_state' = IF new THEN "OPEN" ELSE "DISORDER"
    /\ dupacks' = IF new THEN dupacks ELSE dupacks + 1
    /\ NoResend
    /\ UNCHANGED <<ssthresh, cwnd_flag, recovery_point>>

RenoDisorder(new) ==
    /\ nr_state = "DISORDER"
    /\ dupacks' = IF new THEN 0 ELSE dupacks + 1
    /\ IF dupacks' = DupThresh
       THEN \E grown \in Grown :
            /\ ssthresh' = Halved(grown)
            /\ cwnd' = grown - 1
            /\ cwnd_flag' = 0
            /\ recovery_point' = snd_nxt
            /\ Resend(Unacked(cur.ack), snd_wnd)
            /\ nr_state' = "RECOVERY"
       ELSE /\ cwnd' \in Grown
            /\ nr_state' = IF new THEN "OPEN" ELSE "DISORDER"
            /\ NoResend
            /\ UNCHANGED <<ssthresh, cwnd_flag, recovery_point>>

Mutant_LossOver(new) == new /\ cur.ack >= snd_nxt
LossOver(new) == new /\ cur.ack >= loss_point

RenoLoss(new) ==
    /\ nr_state = "LOSS"
    /\ cwnd' \in Grown
    /\ nr_state' = IF LossOver(new) THEN "OPEN" ELSE "LOSS"
    /\ dupacks' = IF LossOver(new) THEN 0 ELSE IF new THEN dupacks ELSE dupacks + 1
    /\ NoResend
    /\ UNCHANGED <<ssthresh, cwnd_flag, recovery_point>>

RenoRecovery(new) ==
    /\ nr_state = "RECOVERY"
    /\ \E above \in Above :
       IF above /\ cwnd_flag = 0 THEN cwnd' = cwnd - 1 /\ cwnd_flag' = cwnd_flag
                                 ELSE cwnd' = cwnd /\ cwnd_flag' = 1
    /\ IF ~new THEN dupacks' = dupacks + 1 /\ nr_state' = nr_state /\ NoResend
       ELSE IF cur.ack < recovery_point
       THEN Resend(Unacked(cur.ack), snd_wnd) /\ UNCHANGED <<dupacks, nr_state>>
       ELSE dupacks' = 0 /\ nr_state' = "OPEN" /\ NoResend
    /\ UNCHANGED <<ssthresh, recovery_point>>

(* tcp_new_reno_process *)
AckReno ==
    /\ HandlerAt("reno", "wake")
    /\ send_buf' = Unacked(cur.ack)
    /\ LET new == send_buf' # send_buf
       IN RenoOpen(new) \/ RenoDisorder(new) \/ RenoLoss(new) \/ RenoRecovery(new)
    /\ UNCHANGED <<snd_nxt, snd_una, loss_point, timer, app, cur, wait_send, peer, acks>>

Mutant_WakeWriter == wait_send' = IF nr_state = "OPEN" THEN WakeUp(wait_send) ELSE wait_send
WakeWriter == wait_send' = WakeUp(wait_send)

AckWake ==
    /\ HandlerAt("wake", "idle")
    /\ WakeWriter
    /\ UNCHANGED <<sender, reno, timer, app, cur, peer, wire>>

Handler == AckClosed \/ AckUna \/ AckWindow \/ AckReno \/ AckWake
-----------------------------------------------------------------------------
(* tcp_scan_retrans_timer_list, each time the timer of the socket runs out *)

Mutant_NextTry == retrans_time
NextTry == retrans_time + 1
Exhausted == retrans_time >= MaxRetrans

UnderWay == data # <<>> \/ acks # <<>> \/ handler # "idle"

Timeout ==
    /\ ~closed /\ ~Exhausted
    /\ UnderWay => early < MaxEarly
    /\ early' = IF UnderWay THEN early + 1 ELSE early
    /\ ssthresh' = Halved(cwnd)
    /\ cwnd' = 2
    /\ nr_state' = "LOSS"
    /\ loss_point' = snd_nxt
    /\ retrans_time' = NextTry
    /\ Resend(send_buf, snd_wnd)
    /\ UNCHANGED <<snd_nxt, snd_una, send_buf, cwnd_flag, dupacks, recovery_point,
                   closed, thread, wait_send, peer, acks>>

(* wait_exit on each synch_wait; the RST is not followed further. *)
GiveUp ==
    /\ ~closed /\ Exhausted
    /\ closed' = TRUE
    /\ wait_send' = "dead"
    /\ UNCHANGED <<sender, reno, retrans_time, early, thread, peer, wire>>

Timer == Timeout \/ GiveUp
-----------------------------------------------------------------------------
(* The peer, and the links.                                                 *)

Contiguous(S, n) == CHOOSE m \in n..D : (n..m-1) \subseteq S /\ m \notin S

(* One ACK for each segment that is now in order, and one for an old one.   *)
(* For a segment behind a hole this stack sends none, others send one.      *)
Receive ==
    /\ data # <<>>
    /\ data' = Tail(data)
    /\ LET k == Head(data)
           nxt == IF k < rcv_nxt THEN rcv_nxt
                  ELSE Contiguous(rcv_ofo_buf \cup {k}, rcv_nxt)
       IN /\ rcv_ofo_buf' = {j \in rcv_ofo_buf \cup {k} : j >= nxt}
          /\ rcv_nxt' = nxt
          /\ \/ /\ k <= rcv_nxt
                /\ \E w \in Windows :
                     LET ack(a) == [ack |-> a, rwnd |-> w]
                         new == [i \in 1..(nxt - rcv_nxt) |-> ack(rcv_nxt + i)]
                         all == acks \o (IF k < rcv_nxt THEN <<ack(nxt)>> ELSE new)
                     IN acks' = SubSeq(all, 1, Lower(Len(all), NetMax))
             \/ k > rcv_nxt /\ acks' = acks
             \/ /\ k > rcv_nxt
                /\ \E w \in Windows : acks' = Sent(acks, [ack |-> nxt, rwnd |-> w])
    /\ UNCHANGED <<sender, reno, timer, thread, wait_send>>

Lose ==
    /\ \/ data # <<>> /\ data' = Tail(data) /\ acks' = acks
       \/ acks # <<>> /\ acks' = Tail(acks) /\ data' = data
    /\ UNCHANGED <<sender, reno, timer, thread, wait_send, peer>>
-----------------------------------------------------------------------------
Init ==
    /\ snd_nxt = 0 /\ snd_una = 0 /\ snd_wnd = DefaultWindow /\ send_buf = {}
    /\ cwnd = 2 /\ ssthresh = Ssthresh /\ cwnd_flag = 0 /\ dupacks = 0
    /\ nr_state = "OPEN" /\ recovery_point = 0 /\ loss_point = 0
    /\ retrans_time = 0 /\ early = 0 /\ closed = FALSE
    /\ app = "send" /\ wait_send \in {"quiet", "notified"}
    /\ handler = "idle" /\ cur = [ack |-> 0, rwnd |-> 0]
    /\ rcv_nxt = 0 /\ rcv_ofo_buf = {} /\ data = <<>> /\ acks = <<>>

Next == Writer \/ Handler \/ Timer \/ Receive \/ Lose

(* Each thread runs, and the timer goes on running out. *)
Fairness == WF_vars(Writer) /\ WF_vars(Handler) /\ WF_vars(Timer) /\ WF_vars(Receive)

Spec == Init /\ [][Next]_vars /\ Fairness
-----------------------------------------------------------------------------
AckType == [ack : 0..D, rwnd : Windows \cup {0}]

(* Of each variable, with the bounds of congestion control: the window and  *)
(* the threshold never reach zero.                                          *)
TypeOK ==
    /\ snd_nxt \in 0..D /\ snd_una \in 0..snd_nxt /\ snd_wnd \in Int
    /\ send_buf \subseteq 0..snd_nxt-1
    /\ cwnd \in Nat \ {0} /\ ssthresh \in Nat \ {0} /\ cwnd_flag \in {0, 1}
    /\ dupacks \in Nat /\ nr_state \in {"OPEN", "DISORDER", "LOSS", "RECOVERY"}
    /\ recovery_point \in 0..snd_nxt /\ loss_point \in 0..snd_nxt
    /\ retrans_time \in 0..MaxRetrans /\ early \in 0..MaxEarly
    /\ closed \in BOOLEAN /\ wait_send \in {"quiet", "notified", "dead"}
    /\ app \in {"send", "test", "asleep", "drain", "draining", "returned"}
    /\ handler \in {"idle", "window", "reno", "wake"} /\ cur \in AckType
    /\ rcv_nxt \in 0..snd_nxt /\ rcv_ofo_buf \subseteq (rcv_nxt+1)..(D-1)
    /\ data \in Seq(Segments) /\ acks \in Seq(AckType)

(* A recovery ends with the ACK of all that was sent when it began, and so  *)
(* does a loss by timeout: after the handler, no ACK beyond recovery_point  *)
(* or loss_point has been taken (tcp_in.c:129, 147).                        *)
EpisodeEnds ==
    handler = "idle" =>
        /\ nr_state = "RECOVERY" => snd_una <= recovery_point
        /\ nr_state = "LOSS" => snd_una <= loss_point

(* The types, and episodes that end.                                        *)
SendInv == TypeOK /\ EpisodeEnds

(* After an ACK the writer does not stay asleep with an open window, nor at *)
(* the end with an empty send buffer, although the window is read, the ACK  *)
(* processed and the writer put to sleep by threads that share no lock. The *)
(* timer moves the window and wakes nobody: the next ACK does.              *)
NoLostWakeup ==
    handler = "idle" /\ wait_send = "quiet" /\ retrans_time = 0 =>
        /\ app = "asleep" => Blocked
        /\ app = "draining" => send_buf # {}

(* When tcp_sock_write returns, the peer has every segment: no ACK, however *)
(* late, and no thread takes a segment out of the send buffer too early.    *)
WrittenIsReceived == app = "returned" => rcv_nxt = D

(* tcp_sock_write returns or the connection is given up; in particular a    *)
(* writer asleep before a window that no ACK will open is found by the      *)
(* timer.                                                                   *)
WriteEnds == <>(app = "returned" \/ closed)
=============================================================================
