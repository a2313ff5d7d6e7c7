----------------------------- MODULE TcpReceive -----------------------------
(***************************************************************************)
(* The receiving half of an established socket of the EXP18 stack.         *)
(*                                                                         *)
(*   handler : the thread that reads packets from the device; it runs      *)
(*             tcp_process -> handle_recv_data -> put_recv_ofo_buf_...     *)
(*             and may fall asleep in there on wait_recv                   *)
(*   reader  : the application thread in tcp_sock_read, asleep on the same *)
(*             wait_recv when the ring buffer is empty                     *)
(*   timer   : tcp_scan_retrans_timer_list, only when it gives the         *)
(*             connection up                                               *)
(*                                                                         *)
(* Neither thread holds a lock while it tests or changes the ring buffer,  *)
(* so the test, the sleep, the copy and the wake-up are separate steps.    *)
(* The transfer is one-way, as in tcp_apps.c: the peer sends data and a    *)
(* FIN, and no acknowledgments of its own after the handshake.             *)
(* Definitions named Mutant_... are faulty variants of the definition that *)
(* follows them; the specification never uses them.                        *)
(* Sequence numbers are counted from the first payload byte; the byte at   *)
(* position i of the stream has the value i.                               *)
(***************************************************************************)
EXTENDS Integers, Sequences, FiniteSets, SynchWait

CONSTANTS
    Total,      (* length of the peer's stream                              *)
    Segments,   (* the segments the peer cut it into: records [seq, len]    *)
    Capacity,   (* TCP_DEFAULT_WINDOW: usable bytes of rcv_buf              *)
    ReadMax,    (* the len argument of tcp_sock_read                        *)
    MaxOfo      (* bound: entries rcv_ofo_buf may hold when a packet comes  *)

ASSUME ConstantsAssumption ==
    /\ Total \in Nat \ {0}
    /\ Capacity \in Nat \ {0}
    /\ ReadMax \in Nat \ {0}
    /\ MaxOfo \in Nat
    /\ Segments \subseteq [seq : Nat, len : Nat \ {0}]
    /\ \A s \in Segments : s.seq + s.len <= Total

VARIABLES
    state,      (* tsk->state                                       *)
    rcv_nxt, rcv_wnd,
    acked,      (* the largest ack number sent to the peer          *)
    rcv_ofo_buf,
    head, tail, buf,        (* tsk->rcv_buf                         *)
    wait_recv,
    pc,         (* where each thread is                             *)
    cur,        (* the segment the handler is working on            *)
    out         (* the bytes tcp_sock_read has returned, in order   *)

vars == <<state, rcv_nxt, rcv_wnd, acked, rcv_ofo_buf, head, tail, buf,
          wait_recv, pc, cur, out>>
ring == <<head, tail, buf>>

Threads == {"reader", "handler"}
NoByte == -1                            (* a slot never written    *)
NoSegment == [seq |-> 0, len |-> 0]     (* the handler has no segment *)
-----------------------------------------------------------------------------
(* ring_buffer.h.  One slot stays unused, so that full and empty differ.    *)
RingSize == Capacity + 1
Wrap(x) == x % RingSize
RingUsed == Wrap(tail - head + RingSize)
RingFree == RingSize - RingUsed - 1
RingEmpty == RingUsed = 0
RingFull == RingFree = 0

Least(a, b) == IF a <= b THEN a ELSE b
Most(a, b) == IF a >= b THEN a ELSE b

Mutant_ReadRingRightPart(n) ==     (* the part behind the end is not copied *)
    LET len == Least(RingUsed, n) IN
    /\ out' = out \o [i \in 1..Least(len, RingSize - head) |-> buf[head + i - 1]]
    /\ head' = Wrap(head + len)
    /\ UNCHANGED <<tail, buf>>

(* read_ring_buffer: up to n bytes from head on, around the end if need be. *)
ReadRing(n) ==
    LET len == Least(RingUsed, n) IN
    /\ out' = out \o [i \in 1..len |-> buf[Wrap(head + i - 1)]]
    /\ head' = Wrap(head + len)
    /\ UNCHANGED <<tail, buf>>

(* write_ring_buffer of the bytes of segment s; slot p is offset o away     *)
(* from tail.                                                               *)
WriteRing(s) ==
    /\ buf' = [p \in 0..Capacity |->
                 LET o == Wrap(p - tail + RingSize)
                 IN IF o < s.len THEN s.seq + o ELSE buf[p]]
    /\ tail' = Wrap(tail + s.len)
    /\ UNCHANGED head
-----------------------------------------------------------------------------
Goto(t, l) == pc' = [pc EXCEPT ![t] = l]

(* tcp_send_control_packet(tsk, TCP_ACK): the ack field is rcv_nxt. *)
SendAck(nxt) == acked' = Most(acked, nxt)

(* sleep_on(tsk->wait_recv) called by t; "again" tests the condition of the *)
(* surrounding while loop again.                                            *)
SleepOnRecv(t, again) ==
    \/ /\ t \notin InCondWait(wait_recv)
       /\ wait_recv' = SleepOn(wait_recv, t)
       /\ IF WouldBlock(wait_recv) THEN UNCHANGED pc ELSE Goto(t, again)
    \/ /\ t \in wait_recv.woken
       /\ wait_recv' = Resume(wait_recv, t)
       /\ Goto(t, again)

(* pthread_cond_wait may end without a signal. *)
SpuriousWakeup ==
    /\ \E t \in wait_recv.blocked : wait_recv' = Spurious(wait_recv, t)
    /\ UNCHANGED <<state, rcv_nxt, rcv_wnd, acked, rcv_ofo_buf, ring, pc,
                   cur, out>>
-----------------------------------------------------------------------------
(* The reader: tcp_sock_read, called again and again. *)
ReaderCheck ==
    /\ pc["reader"] = "r_check"
    /\ Goto("reader", IF RingEmpty THEN "r_sleep" ELSE "r_read")
    /\ UNCHANGED <<state, rcv_nxt, rcv_wnd, acked, rcv_ofo_buf, ring,
                   wait_recv, cur, out>>

ReaderSleep ==
    /\ pc["reader"] = "r_sleep"
    /\ SleepOnRecv("reader", "r_check")
    /\ UNCHANGED <<state, rcv_nxt, rcv_wnd, acked, rcv_ofo_buf, ring, cur, out>>

ReaderRead ==
    /\ pc["reader"] = "r_read"
    /\ ReadRing(ReadMax)
    /\ Goto("reader", "r_wake")
    /\ UNCHANGED <<state, rcv_nxt, rcv_wnd, acked, rcv_ofo_buf, wait_recv, cur>>

ReaderWake ==
    /\ pc["reader"] = "r_wake"
    /\ wait_recv' \in WakeUp(wait_recv)
    /\ Goto("reader", "r_check")
    /\ UNCHANGED <<state, rcv_nxt, rcv_wnd, acked, rcv_ofo_buf, ring, cur, out>>

Reader == ReaderCheck \/ ReaderSleep \/ ReaderRead \/ ReaderWake
-----------------------------------------------------------------------------
(* The handler. A data segment of the stream arrives in ESTABLISHED: first  *)
(* or again, in any order, any number of times.                             *)
RecvData(s) ==
    /\ pc["handler"] = "h_idle"
    /\ state = "ESTABLISHED"
    /\ Len(rcv_ofo_buf) < MaxOfo
    /\ cur' = s
    /\ Goto("handler", "h_full")
    /\ UNCHANGED <<state, rcv_nxt, rcv_wnd, acked, rcv_ofo_buf, ring,
                   wait_recv, out>>

(* is_tcp_seq_valid for a segment from seq up to seq_end. *)
SeqValid(seq, seq_end) ==
    seq < rcv_nxt + Most(rcv_wnd, 1) /\ rcv_nxt <= seq_end

(* A FIN in ESTABLISHED. The peer's tcp_sock_write returns, and so the peer *)
(* closes, only when everything it sent has been acknowledged.              *)
RecvFin ==
    /\ pc["handler"] = "h_idle"
    /\ state = "ESTABLISHED"
    /\ acked >= Total
    /\ SeqValid(Total, Total + 1)
    /\ state' = "CLOSE_WAIT"
    /\ rcv_nxt' = Total + 1
    /\ SendAck(Total + 1)
    /\ UNCHANGED <<rcv_wnd, rcv_ofo_buf, ring, wait_recv, pc, cur, out>>

(* handle_recv_data: while (ring_buffer_full) sleep_on(wait_recv). *)
HandlerFull ==
    /\ pc["handler"] = "h_full"
    /\ Goto("handler", IF RingFull THEN "h_full_sleep" ELSE "h_seq")
    /\ UNCHANGED <<state, rcv_nxt, rcv_wnd, acked, rcv_ofo_buf, ring,
                   wait_recv, cur, out>>

HandlerFullSleep ==
    /\ pc["handler"] = "h_full_sleep"
    /\ SleepOnRecv("handler", "h_full")
    /\ UNCHANGED <<state, rcv_nxt, rcv_wnd, acked, rcv_ofo_buf, ring, cur, out>>

Mutant_HandlerOldRewinds ==        (* rcv_nxt follows the segment's end     *)
    /\ pc["handler"] = "h_seq"
    /\ cur.seq < rcv_nxt
    /\ rcv_nxt' = cur.seq + cur.len
    /\ SendAck(rcv_nxt')
    /\ cur' = NoSegment
    /\ Goto("handler", "h_idle")
    /\ UNCHANGED <<state, rcv_wnd, rcv_ofo_buf, ring, wait_recv, out>>

(* An old segment is only acknowledged again. *)
HandlerOld ==
    /\ pc["handler"] = "h_seq"
    /\ cur.seq < rcv_nxt
    /\ SendAck(rcv_nxt)
    /\ cur' = NoSegment
    /\ Goto("handler", "h_idle")
    /\ UNCHANGED <<state, rcv_nxt, rcv_wnd, rcv_ofo_buf, ring, wait_recv, out>>

(* add_recv_ofo_buf_entry: before the first entry with a larger seq. *)
InsertAt(q, i, s) ==
    [k \in 1..Len(q) + 1 |->
        IF k < i THEN q[k] ELSE IF k = i THEN s ELSE q[k - 1]]

HandlerNew ==
    /\ pc["handler"] = "h_seq"
    /\ ~(cur.seq < rcv_nxt)
    /\ \E i \in 1..Len(rcv_ofo_buf) + 1 :
         /\ \A k \in 1..i - 1 : ~(cur.seq < rcv_ofo_buf[k].seq)
         /\ i <= Len(rcv_ofo_buf) => cur.seq < rcv_ofo_buf[i].seq
         /\ rcv_ofo_buf' = InsertAt(rcv_ofo_buf, i, cur)
    /\ cur' = NoSegment
    /\ Goto("handler", "h_put")
    /\ UNCHANGED <<state, rcv_nxt, rcv_wnd, acked, ring, wait_recv, out>>

Mutant_ContiguousOverHole(e) == rcv_nxt <= e.seq
Contiguous(e) == rcv_nxt = e.seq

Mutant_NewWindowSigned(e) == RingFree - e.len
Mutant_NewWindowBeforePut(e) == RingFree
NewWindow(e) == Most(RingFree - e.len, 0)

(* put_recv_ofo_buf_entry_to_ring_buf, one turn of its loop: only the head  *)
(* of the list is ever looked at, because an entry that is put is deleted.  *)
(* rcv_nxt moves and the ACK leaves before the data is in the ring buffer.  *)
HandlerTake ==
    /\ pc["handler"] = "h_put"
    /\ rcv_ofo_buf # <<>>
    /\ LET e == Head(rcv_ofo_buf) IN
         /\ Contiguous(e)
         /\ rcv_nxt' = e.seq + e.len
         /\ rcv_wnd' = NewWindow(e)
         /\ SendAck(e.seq + e.len)
    /\ Goto("handler", "h_room")
    /\ UNCHANGED <<state, rcv_ofo_buf, ring, wait_recv, cur, out>>

(* The loop ends: list empty, a hole, or (return -1) an entry left behind.  *)
HandlerDone ==
    /\ pc["handler"] = "h_put"
    /\ rcv_ofo_buf # <<>> => ~Contiguous(Head(rcv_ofo_buf))
    /\ Goto("handler", "h_idle")
    /\ UNCHANGED <<state, rcv_nxt, rcv_wnd, acked, rcv_ofo_buf, ring,
                   wait_recv, cur, out>>

(* while (entry->len > ring_buffer_free) sleep_on(wait_recv). *)
HandlerRoom ==
    /\ pc["handler"] = "h_room"
    /\ Goto("handler", IF Head(rcv_ofo_buf).len > RingFree
                       THEN "h_room_sleep" ELSE "h_write")
    /\ UNCHANGED <<state, rcv_nxt, rcv_wnd, acked, rcv_ofo_buf, ring,
                   wait_recv, cur, out>>

Mutant_HandlerRoomSleepOnce ==     (* if instead of while                   *)
    /\ pc["handler"] = "h_room_sleep"
    /\ SleepOnRecv("handler", "h_write")
    /\ UNCHANGED <<state, rcv_nxt, rcv_wnd, acked, rcv_ofo_buf, ring, cur, out>>

HandlerRoomSleep ==
    /\ pc["handler"] = "h_room_sleep"
    /\ SleepOnRecv("handler", "h_room")
    /\ UNCHANGED <<state, rcv_nxt, rcv_wnd, acked, rcv_ofo_buf, ring, cur, out>>

HandlerWrite ==
    /\ pc["handler"] = "h_write"
    /\ WriteRing(Head(rcv_ofo_buf))
    /\ Goto("handler", "h_wake")
    /\ UNCHANGED <<state, rcv_nxt, rcv_wnd, acked, rcv_ofo_buf, wait_recv,
                   cur, out>>

Mutant_HandlerWakeSilent ==        (* wake_up is not called                 *)
    /\ pc["handler"] = "h_wake"
    /\ rcv_ofo_buf' = Tail(rcv_ofo_buf)
    /\ Goto("handler", "h_put")
    /\ UNCHANGED <<state, rcv_nxt, rcv_wnd, acked, ring, wait_recv, cur, out>>

(* wake_up, then the entry is deleted and the loop goes on. *)
HandlerWake ==
    /\ pc["handler"] = "h_wake"
    /\ wait_recv' \in WakeUp(wait_recv)
    /\ rcv_ofo_buf' = Tail(rcv_ofo_buf)
    /\ Goto("handler", "h_put")
    /\ UNCHANGED <<state, rcv_nxt, rcv_wnd, acked, ring, cur, out>>

Handler ==
    \/ HandlerFull \/ HandlerFullSleep \/ HandlerOld \/ HandlerNew
    \/ HandlerTake \/ HandlerDone \/ HandlerRoom \/ HandlerRoomSleep
    \/ HandlerWrite \/ HandlerWake

(* tcp_scan_retrans_timer_list gives the connection up: wait_exit on the    *)
(* wait struct and, later, CLOSED.                                          *)
TimerWaitExit ==
    /\ state # "CLOSED"
    /\ ~wait_recv.dead
    /\ wait_recv' = WaitExit(wait_recv)
    /\ UNCHANGED <<state, rcv_nxt, rcv_wnd, acked, rcv_ofo_buf, ring, pc,
                   cur, out>>

TimerClose ==
    /\ state # "CLOSED"
    /\ wait_recv.dead
    /\ state' = "CLOSED"
    /\ UNCHANGED <<rcv_nxt, rcv_wnd, acked, rcv_ofo_buf, ring, wait_recv, pc,
                   cur, out>>
-----------------------------------------------------------------------------
Init ==
    /\ state = "ESTABLISHED"
    /\ rcv_nxt = 0 /\ rcv_wnd = Capacity /\ acked = 0
    /\ rcv_ofo_buf = <<>>
    /\ head = 0 /\ tail = 0 /\ buf = [p \in 0..Capacity |-> NoByte]
    /\ wait_recv = WaitInit
    /\ pc = [t \in Threads |-> IF t = "reader" THEN "r_check" ELSE "h_idle"]
    /\ cur = NoSegment
    /\ out = <<>>

Next ==
    \/ Reader \/ Handler \/ RecvFin \/ TimerWaitExit \/ TimerClose \/ SpuriousWakeup
    \/ \E s \in Segments : RecvData(s)

Spec == Init /\ [][Next]_vars

(* Both threads keep running while they are not blocked; nothing is assumed *)
(* of the network, of the timer or of spurious wake-ups.                    *)
FairSpec == Spec /\ WF_vars(Reader) /\ WF_vars(Handler)
-----------------------------------------------------------------------------
(* Properties *)

ReaderPcs == {"r_check", "r_sleep", "r_read", "r_wake"}
HandlerPcs == {"h_idle", "h_full", "h_full_sleep", "h_seq", "h_put", "h_room",
               "h_room_sleep", "h_write", "h_wake"}
Putting == {"h_room", "h_room_sleep", "h_write"}

(* Bytes that have gone through write_ring_buffer. *)
Stored == Len(out) + RingUsed

(* Bytes of the entry rcv_nxt already counts but the ring has not got yet. *)
InHand == IF pc["handler"] \in Putting THEN Head(rcv_ofo_buf).len ELSE 0

(* Type correctness of every field. *)
TypeOK ==
    /\ state \in {"ESTABLISHED", "CLOSE_WAIT", "CLOSED"}
    /\ rcv_nxt \in Nat /\ rcv_wnd \in 0..Capacity /\ acked \in Nat
    /\ rcv_ofo_buf \in Seq(Segments)
    /\ head \in 0..Capacity /\ tail \in 0..Capacity
    /\ buf \in [0..Capacity -> Int]
    /\ wait_recv \in WaitType(Threads)
    /\ pc \in [Threads -> ReaderPcs \cup HandlerPcs]
    /\ pc["reader"] \in ReaderPcs /\ pc["handler"] \in HandlerPcs
    /\ cur \in Segments \cup {NoSegment}
    /\ out \in Seq(Int)

(* The application reads the peer's stream: nothing lost, repeated or out   *)
(* of place, whatever the network did to the segments (md5sum of the two    *)
(* files, EXP17 README).                                                    *)
InOrder == \A i \in 1..Len(out) : out[i] = i - 1

(* A byte that has been acknowledged, and that the peer therefore forgets,  *)
(* is in the ring buffer, has been read, or is in the handler's hands.      *)
AckedIsKept == Least(acked, Total) <= Stored + InHand

(* The window last computed is honest: a peer that fills it never finds the *)
(* ring buffer short of room.                                               *)
WindowHonest ==
    rcv_wnd > 0 /\ rcv_nxt <= Total => rcv_nxt + rcv_wnd <= Len(out) + Capacity

(* write_ring_buffer's assertion holds although the test that guards it ran *)
(* in an earlier step, and tcp_sock_read never returns 0 for the same       *)
(* reason.                                                                  *)
TestsStillHold ==
    /\ pc["handler"] = "h_write" => Head(rcv_ofo_buf).len <= RingFree
    /\ pc["reader"] = "r_read" => ~RingEmpty

(* The right edge of the window never moves back: what the peer was allowed *)
(* to send stays allowed.                                                   *)
EdgeNeverShrinks == [][rcv_nxt' + rcv_wnd' >= rcv_nxt + rcv_wnd]_vars

(* The ring buffer, the out-of-order list and the two threads together are  *)
(* a FIFO pipe.                                                             *)
Stream == INSTANCE ByteStream WITH stored <- Stored
IsByteStream == Stream!Spec

(* As long as the handler is never put to sleep itself, every byte stored   *)
(* is read, dead wait struct and spurious wake-ups included.                *)
HandlerNeverSleeps == [](pc["handler"] \notin {"h_full_sleep", "h_room_sleep"})
StoredIsRead ==
    HandlerNeverSleeps =>
        \A n \in 1..Total : (Stored >= n) ~> (Len(out) >= n)
=============================================================================
