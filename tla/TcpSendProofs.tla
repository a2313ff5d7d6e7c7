--------------------------- MODULE TcpSendProofs ----------------------------
(***************************************************************************)
(* Proofs about TcpSend for every number of segments, every window, every  *)
(* threshold and every bound on timeouts and packets under way.            *)
(***************************************************************************)
EXTENDS TcpSend, SequenceTheorems, WellFoundedInduction, TLAPS

(* < is well-founded on the naturals. *)
LEMMA LeastOfNats ==
    ASSUME NEW S \in SUBSET Nat, S # {}
    PROVE  \E x \in S : \A y \in S : x <= y
<1>1. PICK x \in S : \A y \in S : <<y, x>> \notin OpToRel(<, Nat)
  BY NatLessThanWellFounded, WFMin
<1>2. \A y \in S : y < x => <<y, x>> \in OpToRel(<, Nat)
  BY DEF OpToRel
<1>3. \A y \in S : ~(y < x)
  BY <1>1, <1>2, Zenon
<1>4. QED
  BY <1>3
-----------------------------------------------------------------------------
(* ACKs under way have not been taken, are in order, and say no more than   *)
(* what the peer has.                                                       *)
AcksInOrder ==
    /\ snd_una <= rcv_nxt
    /\ \A i \in 1..Len(acks) : snd_una <= acks[i].ack /\ acks[i].ack <= rcv_nxt
    /\ \A i, j \in 1..Len(acks) : i <= j => acks[i].ack <= acks[j].ack
    /\ handler # "idle" => cur.ack = snd_una

(* The peer has, or is sent, only what has been written. *)
PeerBehind ==
    /\ rcv_ofo_buf \subseteq 0..snd_nxt-1
    /\ \A i \in 1..Len(data) : data[i] < snd_nxt

(* The send buffer begins at first.  It is behind snd_una until New Reno    *)
(* has seen the ACK, and an episode never starts behind its end.            *)
BufferedFrom(first) ==
    /\ send_buf = first..snd_nxt-1
    /\ handler \in {"idle", "wake"} => first = snd_una
    /\ nr_state = "RECOVERY" => first <= recovery_point
    /\ nr_state = "LOSS" => first <= loss_point

Buffered == \E first \in 0..snd_una : BufferedFrom(first)

WriterAtEnd ==
    /\ app = "send" => snd_nxt < D
    /\ app \in {"drain", "draining", "returned"} => snd_nxt = D
    /\ app = "returned" => send_buf = {}

IInv == TypeOK /\ AcksInOrder /\ PeerBehind /\ Buffered /\ WriterAtEnd

USE ConstantsAssumption
-----------------------------------------------------------------------------
(* Contiguous(S, n) is the first segment from n on that is not in S. *)
LEMMA ContiguousValue ==
    ASSUME NEW t \in 0..D, NEW S \in SUBSET (0..t-1), NEW n \in 0..t
    PROVE  /\ Contiguous(S, n) \in n..t
           /\ n..Contiguous(S, n)-1 \subseteq S
           /\ Contiguous(S, n) \notin S
<1> DEFINE Missing == {m \in n..D : m \notin S}
           Good(m) == m \in n..t /\ n..m-1 \subseteq S /\ m \notin S
<1>1. t \in Missing
  OBVIOUS
<1>2. PICK m \in Missing : \A y \in Missing : m <= y
  <2>1. Missing \in SUBSET Nat /\ Missing # {}
    BY <1>1
  <2> HIDE DEF Missing
  <2>2. QED
    BY <2>1, LeastOfNats
<1>3. n..m-1 \subseteq S
  BY <1>2
<1>4. m \in n..D /\ (n..m-1) \subseteq S /\ m \notin S
  BY <1>2, <1>3
<1> DEFINE c == Contiguous(S, n)
<1>5. c \in n..D /\ (n..c-1) \subseteq S /\ c \notin S
  BY <1>4 DEF Contiguous
<1> HIDE DEF c
<1>6. c <= t
  <2> SUFFICES ASSUME t < c PROVE FALSE
    BY <1>5
  <2>1. t \in n..c-1
    BY <1>5
  <2>2. QED
    BY <2>1, <1>5
<1>7. QED
  BY <1>5, <1>6 DEF c

LEMMA LeastOfInterval ==
    ASSUME NEW a \in Int, NEW b \in Int, a..b # {}
    PROVE  Least(a..b) = a
<1>1. a \in a..b /\ \A y \in a..b : a <= y
  OBVIOUS
<1>2. \A x \in a..b : (\A y \in a..b : x <= y) => x = a
  BY <1>1
<1>3. QED
  BY <1>1, <1>2 DEF Least

LEMMA SizeType == ASSUME NEW k \in Segments PROVE Size(k) \in Int
BY DEF Size, Halves, Segments

LEMMA HalvedType == ASSUME NEW c \in Nat PROVE Halved(c) \in Nat \ {0}
<1>1. c \div 4 \in Int
  OBVIOUS
<1>2. QED
  BY <1>1 DEF Halved, Higher

LEMMA GrownType == 
    ASSUME TypeOK 
    PROVE  \A g \in Grown : g \in Nat /\ g >= 2
<1>1. cwnd \in Nat \ {0}
  BY DEF TypeOK
<1>2. QED
  BY <1>1 DEF Grown

(* A resent segment is one of the send buffer. *)
LEMMA ResendTypes ==
    ASSUME TypeOK, PeerBehind, NEW first \in Nat, NEW left, left = first..snd_nxt-1,
           Resend(left, snd_wnd)
    PROVE  /\ data' \in Seq(Segments) /\ snd_wnd' \in Int
           /\ \A i \in 1..Len(data') : data'[i] < snd_nxt
<1>1. CASE left = {}
  BY <1>1 DEF Resend, TypeOK, PeerBehind
<1>2. CASE left # {}
  <2>1. Least(left) = first /\ first \in Segments /\ first < snd_nxt
    BY <1>2, LeastOfInterval DEF TypeOK, Segments
  <2>2. data' = Sent(data, first) /\ snd_wnd' = snd_wnd - Size(first)
    BY <1>2, <2>1 DEF Resend
  <2>3. snd_wnd' \in Int
    BY <2>1, <2>2, SizeType DEF TypeOK
  <2>4. QED
    BY <2>1, <2>2, <2>3 DEF Sent, TypeOK, PeerBehind
<1>3. QED
  BY <1>1, <1>2
-----------------------------------------------------------------------------
(* Segments below n, and k behind them. *)
LEMMA AppendBelow ==
    ASSUME NEW q \in Seq(Segments), NEW n \in Nat, \A i \in 1..Len(q) : q[i] < n,
           NEW k \in Segments, k < n
    PROVE  Append(q, k) \in Seq(Segments) /\ \A i \in 1..Len(Append(q, k)) : Append(q, k)[i] < n
<1>1. /\ Append(q, k) \in Seq(Segments) /\ Len(Append(q, k)) = Len(q) + 1
      /\ \A i \in 1..Len(q) : Append(q, k)[i] = q[i]
      /\ Append(q, k)[Len(q) + 1] = k /\ Len(q) \in Nat
  OBVIOUS
<1>2. QED
  BY <1>1

LEMMA InitIInv == Init => IInv
<1> SUFFICES ASSUME Init PROVE IInv
  OBVIOUS
<1>1. cur \in AckType /\ data \in Seq(Segments) /\ acks \in Seq(AckType)
  BY DEF Init, AckType
<1>2. TypeOK
  <2>1. snd_nxt \in 0..D /\ snd_una \in 0..snd_nxt /\ snd_wnd \in Int
    BY DEF Init
  <2>2. send_buf \subseteq 0..snd_nxt-1
    BY DEF Init
  <2>3. /\ cwnd \in Nat \ {0} /\ ssthresh \in Nat \ {0} /\ cwnd_flag \in {0, 1}
        /\ dupacks \in Nat /\ nr_state = "OPEN"
        /\ recovery_point \in 0..snd_nxt /\ loss_point \in 0..snd_nxt
    BY DEF Init
  <2>4. /\ retrans_time \in 0..MaxRetrans /\ early \in 0..MaxEarly /\ closed = FALSE
        /\ wait_send \in {"quiet", "notified"} /\ app = "send" /\ handler = "idle"
    BY DEF Init
  <2>5. rcv_nxt \in 0..snd_nxt /\ rcv_ofo_buf \subseteq (rcv_nxt+1)..(D-1)
    BY DEF Init
  <2>6. QED
    BY <1>1, <2>1, <2>2, <2>3, <2>4, <2>5 DEF TypeOK
<1>3. BufferedFrom(0)
  BY DEF Init, BufferedFrom
<1>4. Buffered
  BY <1>3 DEF Buffered, Init
<1>5. AcksInOrder /\ PeerBehind /\ WriterAtEnd
  BY DEF Init, AcksInOrder, PeerBehind, WriterAtEnd
<1>6. QED
  BY <1>2, <1>4, <1>5 DEF IInv
-----------------------------------------------------------------------------
(* The writer *)

LEMMA WriteStep ==
    ASSUME IInv, Write
    PROVE  IInv'
<1> USE DEF Write, WriterAt, reno, peer
<1>1. snd_nxt \in Segments /\ snd_una \in 0..snd_nxt
  BY DEF IInv, TypeOK, WriterAtEnd, Segments
<1>2. data' \in Seq(Segments) /\ \A i \in 1..Len(data') : data'[i] < snd_nxt'
  <2>1. data \in Seq(Segments) /\ (\A i \in 1..Len(data) : data[i] < snd_nxt)
    BY DEF IInv, TypeOK, PeerBehind
  <2>2. data' = data \/ data' = Append(data, snd_nxt)
    BY DEF Sent
  <2>3. snd_nxt' = snd_nxt + 1 /\ snd_nxt \in Int
    BY <1>1 DEF Segments
  <2>4. \A i \in 1..Len(data) : data[i] < snd_nxt + 1
    BY <2>1, <2>3 DEF Segments
  <2>5. snd_nxt + 1 \in Nat /\ snd_nxt < snd_nxt + 1
    BY <1>1 DEF Segments
  <2> HIDE DEF Write
  <2>6. /\ Append(data, snd_nxt) \in Seq(Segments)
        /\ \A i \in 1..Len(Append(data, snd_nxt)) : Append(data, snd_nxt)[i] < snd_nxt + 1
    BY <1>1, <2>1, <2>4, <2>5, AppendBelow
  <2>7. QED
    BY <2>1, <2>2, <2>3, <2>4, <2>6
<1>3. TypeOK'
  BY <1>1, <1>2, SizeType DEF IInv, TypeOK, Segments
<1>4. PICK first \in 0..snd_una : BufferedFrom(first)
  BY DEF IInv, Buffered
<1>5. BufferedFrom(first)'
  BY <1>1, <1>4 DEF BufferedFrom, IInv, TypeOK
<1>6. Buffered'
  BY <1>4, <1>5 DEF Buffered
<1>7. AcksInOrder' /\ PeerBehind' /\ WriterAtEnd'
  BY <1>1, <1>2 DEF IInv, AcksInOrder, PeerBehind, WriterAtEnd, TypeOK
<1>8. QED
  BY <1>3, <1>6, <1>7 DEF IInv

LEMMA WriterOtherSteps ==
    ASSUME IInv, WriteTest \/ WriteWoken \/ WriteDrain
    PROVE  IInv'
<1> USE DEF WriteTest, WriteWoken, WriteDrain, WriterAt, sender, reno, timer, peer, wire
<1>1. TypeOK'
  BY DEF IInv, TypeOK, Slept
<1>2. AcksInOrder' /\ PeerBehind' /\ Buffered'
  BY DEF IInv, AcksInOrder, PeerBehind, Buffered, BufferedFrom
<1>3. snd_nxt \in 0..D /\ snd_nxt' = snd_nxt /\ send_buf' = send_buf /\ WriterAtEnd
  BY DEF IInv, TypeOK
<1>4. WriterAtEnd'
  <2>1. CASE WriteTest
    BY <1>3, <2>1 DEF WriterAtEnd
  <2>2. CASE WriteWoken
    BY <1>3, <2>2 DEF WriterAtEnd
  <2>3. CASE WriteDrain
    BY <1>3, <2>3 DEF WriterAtEnd
  <2>4. QED
    BY <2>1, <2>2, <2>3
<1>5. QED
  BY <1>1, <1>2, <1>4 DEF IInv
-----------------------------------------------------------------------------
(* The handler *)

(* What is left of a queue of ACKs keeps its order. *)
LEMMA TailInOrder ==
    ASSUME IInv, acks # <<>>, acks' = Tail(acks)
    PROVE  /\ \A i \in 1..Len(acks') : snd_una <= acks'[i].ack /\ acks'[i].ack <= rcv_nxt
           /\ \A i, j \in 1..Len(acks') : i <= j => acks'[i].ack <= acks'[j].ack
           /\ \A i \in 1..Len(acks') : acks[1].ack <= acks'[i].ack
<1>1. acks \in Seq(AckType) /\ Len(acks) \in Nat \ {0}
  BY DEF IInv, TypeOK
<1>2. \A i \in 1..Len(acks') : acks'[i] = acks[i + 1] /\ i + 1 \in 1..Len(acks)
  BY <1>1
<1>3. QED
  BY <1>1, <1>2 DEF IInv, AcksInOrder

LEMMA AckClosedStep ==
    ASSUME IInv, AckClosed
    PROVE  IInv'
<1> USE DEF AckClosed, sender, reno, timer, thread, peer
<1>1. TypeOK'
  BY DEF IInv, TypeOK
<1>2. AcksInOrder'
  BY TailInOrder DEF IInv, AcksInOrder
<1>3. PeerBehind' /\ Buffered' /\ WriterAtEnd'
  BY DEF IInv, PeerBehind, Buffered, BufferedFrom, WriterAtEnd
<1>4. QED
  BY <1>1, <1>2, <1>3 DEF IInv

LEMMA AckUnaStep ==
    ASSUME IInv, AckUna
    PROVE  IInv'
<1> USE DEF AckUna, HandlerAt, reno, timer, peer
<1>1. /\ cur' = acks[1] /\ acks[1] \in AckType /\ 1 \in 1..Len(acks)
      /\ snd_una' = acks[1].ack
  BY DEF IInv, TypeOK
<1>2. snd_una <= snd_una' /\ snd_una' <= rcv_nxt /\ snd_una' \in 0..snd_nxt
  BY <1>1 DEF IInv, AcksInOrder, TypeOK, AckType
<1>3. TypeOK'
  BY <1>1, <1>2 DEF IInv, TypeOK
<1>4. AcksInOrder'
  BY <1>1, <1>2, TailInOrder DEF IInv, AcksInOrder
<1>5. PICK first \in 0..snd_una : BufferedFrom(first)
  BY DEF IInv, Buffered
<1>6. BufferedFrom(first)' /\ first \in 0..snd_una'
  BY <1>2, <1>5 DEF BufferedFrom, IInv, TypeOK
<1>7. Buffered'
  BY <1>6 DEF Buffered
<1>8. PeerBehind' /\ WriterAtEnd'
  BY DEF IInv, PeerBehind, WriterAtEnd
<1>9. QED
  BY <1>3, <1>4, <1>7, <1>8 DEF IInv

LEMMA WindowTypes ==
    ASSUME TypeOK
    PROVE  cur.rwnd \in Int /\ cwnd \in Int /\ snd_wnd \in Int
<1>1. cur \in [ack : 0..D, rwnd : Windows \cup {0}] /\ cwnd \in Int /\ snd_wnd \in Int
  BY DEF TypeOK, AckType
<1>2. cur.rwnd \in Windows \cup {0}
  BY <1>1
<1>3. \A w \in Windows \cup {0} : w \in Int
  BY ConstantsAssumption DEF ConstantsAssumption
<1>4. cur.rwnd \in Int
  BY <1>2, <1>3, Zenon
<1>5. QED
  BY <1>1, <1>4

LEMMA AckWindowStep ==
    ASSUME IInv, AckWindow
    PROVE  IInv'
<1> USE DEF AckWindow, HandlerAt, reno, peer, wire
<1>1. snd_wnd' \in Int
  <2>1. cur.rwnd \in Int /\ cwnd \in Int /\ snd_wnd \in Int
    BY WindowTypes DEF IInv
  <2>2. snd_wnd' = Lower(cur.rwnd, cwnd) \/ snd_wnd' = snd_wnd
    OBVIOUS
  <2>3. QED
    BY <2>1, <2>2 DEF Lower
<1>2. wait_send' \in {"quiet", "notified", "dead"}
  BY DEF IInv, TypeOK, WakeUp
<1>3. TypeOK'
  BY <1>1, <1>2 DEF IInv, TypeOK
<1>4. AcksInOrder' /\ PeerBehind' /\ WriterAtEnd'
  BY DEF IInv, AcksInOrder, PeerBehind, WriterAtEnd
<1>5. Buffered'
  BY DEF IInv, Buffered, BufferedFrom
<1>6. QED
  BY <1>3, <1>4, <1>5 DEF IInv

LEMMA AckWakeStep ==
    ASSUME IInv, AckWake
    PROVE  IInv'
<1> USE DEF AckWake, WakeWriter, HandlerAt, sender, reno, timer, peer, wire
<1>1. wait_send' \in {"quiet", "notified", "dead"}
  BY DEF IInv, TypeOK, WakeUp
<1>2. TypeOK'
  BY <1>1 DEF IInv, TypeOK
<1>3. AcksInOrder' /\ PeerBehind' /\ WriterAtEnd'
  BY DEF IInv, AcksInOrder, PeerBehind, WriterAtEnd
<1>4. Buffered'
  BY DEF IInv, Buffered, BufferedFrom
<1>5. QED
  BY <1>2, <1>3, <1>4 DEF IInv

(* The four parts of New Reno; the send buffer left begins at snd_una.      *)
RenoTypes ==
    /\ cwnd' \in Nat \ {0} /\ ssthresh' \in Nat \ {0} /\ cwnd_flag' \in {0, 1}
    /\ dupacks' \in Nat /\ nr_state' \in {"OPEN", "DISORDER", "LOSS", "RECOVERY"}
    /\ recovery_point' \in 0..snd_nxt /\ snd_wnd' \in Int
    /\ data' \in Seq(Segments) /\ \A i \in 1..Len(data') : data'[i] < snd_nxt

(* An episode that is still on covers snd_una, given that it covered first, *)
(* where the send buffer began, and that an old ACK leaves it unchanged.    *)
EpisodeCovers ==
    /\ nr_state' = "RECOVERY" => snd_una <= recovery_point'
    /\ nr_state' = "LOSS" => snd_una <= loss_point

LEMMA NoResendTypes ==
    ASSUME TypeOK, PeerBehind, NoResend
    PROVE  /\ snd_wnd' \in Int /\ data' \in Seq(Segments)
           /\ \A i \in 1..Len(data') : data'[i] < snd_nxt
BY DEF TypeOK, PeerBehind, NoResend

LEMMA RenoOpenStep ==
    ASSUME TypeOK, PeerBehind, NEW new, RenoOpen(new)
    PROVE  RenoTypes /\ EpisodeCovers
<1> USE DEF RenoOpen
<1>1. cwnd' \in Nat \ {0}
  BY GrownType
<1>2. dupacks' \in Nat /\ nr_state' \in {"OPEN", "DISORDER"}
  BY DEF TypeOK
<1>3. QED
  BY <1>1, <1>2, NoResendTypes DEF RenoTypes, EpisodeCovers, TypeOK

LEMMA RenoDisorderStep ==
    ASSUME TypeOK, PeerBehind, NEW new, RenoDisorder(new), cur.ack = snd_una,
           NEW first \in 0..snd_una, send_buf = first..snd_nxt-1
    PROVE  RenoTypes /\ EpisodeCovers
<1> USE DEF RenoDisorder
<1>1. dupacks' \in Nat
  BY DEF TypeOK
<1>2. CASE dupacks' = DupThresh
  <2>1. PICK grown \in Grown : ssthresh' = Halved(grown) /\ cwnd' = grown - 1
    BY <1>2
  <2>2. ssthresh' \in Nat \ {0} /\ cwnd' \in Nat \ {0}
    <3>1. grown \in Nat /\ grown >= 2
      BY <2>1, GrownType
    <3>2. Halved(grown) \in Nat \ {0} /\ grown - 1 \in Nat \ {0}
      BY <3>1, HalvedType
    <3>3. QED
      BY <2>1, <3>2
  <2>3. Unacked(cur.ack) = snd_una..snd_nxt-1 /\ snd_una \in Nat
    BY DEF Unacked, TypeOK
  <2>4. /\ snd_wnd' \in Int /\ data' \in Seq(Segments)
        /\ \A i \in 1..Len(data') : data'[i] < snd_nxt
    BY <1>2, <2>3, ResendTypes
  <2>5. /\ nr_state' = "RECOVERY" /\ recovery_point' = snd_nxt /\ cwnd_flag' = 0
        /\ snd_una <= snd_nxt /\ snd_nxt \in 0..snd_nxt
    BY <1>2 DEF TypeOK
  <2>6. QED
    BY <1>1, <2>2, <2>4, <2>5 DEF RenoTypes, EpisodeCovers
<1>3. CASE dupacks' # DupThresh
  <2>1. cwnd' \in Nat \ {0}
    BY <1>3, GrownType
  <2>2. nr_state' \in {"OPEN", "DISORDER"} /\ NoResend
    BY <1>3
  <2>3. ssthresh' = ssthresh /\ cwnd_flag' = cwnd_flag /\ recovery_point' = recovery_point
    BY <1>3
  <2>4. QED
    BY <1>1, <2>1, <2>2, <2>3, NoResendTypes DEF RenoTypes, EpisodeCovers, TypeOK
<1>4. QED
  BY <1>2, <1>3

LEMMA RenoLossStep ==
    ASSUME TypeOK, PeerBehind, NEW new, RenoLoss(new), cur.ack = snd_una,
           ~ new => snd_una <= loss_point
    PROVE  RenoTypes /\ EpisodeCovers
<1> USE DEF RenoLoss, LossOver
<1>1. cwnd' \in Nat \ {0}
  BY GrownType
<1>2. dupacks' \in Nat /\ nr_state' \in {"OPEN", "LOSS"}
  BY DEF TypeOK
<1>3. nr_state' = "LOSS" => snd_una <= loss_point
  BY DEF TypeOK
<1>4. QED
  BY <1>1, <1>2, <1>3, NoResendTypes DEF RenoTypes, EpisodeCovers, TypeOK

LEMMA RenoRecoveryStep ==
    ASSUME TypeOK, PeerBehind, NEW new, RenoRecovery(new), cur.ack = snd_una,
           NEW first \in 0..snd_una, send_buf = first..snd_nxt-1,
           ~ new => snd_una <= recovery_point
    PROVE  RenoTypes /\ EpisodeCovers
<1> USE DEF RenoRecovery
<1>1. cwnd' \in Nat \ {0} /\ cwnd_flag' \in {0, 1}
  <2>1. cwnd \in Nat \ {0} /\ ssthresh \in Nat \ {0} /\ cwnd_flag \in {0, 1}
    BY DEF TypeOK
  <2>2. PICK above \in Above : 
          IF above /\ cwnd_flag = 0 THEN cwnd' = cwnd - 1 /\ cwnd_flag' = cwnd_flag
                                    ELSE cwnd' = cwnd /\ cwnd_flag' = 1
    OBVIOUS
  <2>3. above => cwnd >= 2
    <3>1. CASE cwnd = 2 * ssthresh
      BY <2>1, <3>1
    <3>2. CASE cwnd # 2 * ssthresh
      <4>1. Above = {cwnd > 2 * ssthresh}
        BY <3>2, Zenon DEF Above
      <4>2. above = (cwnd > 2 * ssthresh)
        BY <2>2, <4>1, Zenon
      <4>3. cwnd > 2 * ssthresh => cwnd >= 2
        BY <2>1
      <4>4. QED
        BY <4>2, <4>3, Zenon
    <3>3. QED
      BY <3>1, <3>2
  <2>4. QED
    BY <2>1, <2>2, <2>3
<1>2. ssthresh' = ssthresh /\ recovery_point' = recovery_point
  OBVIOUS
<1>3. CASE ~ new
  BY <1>1, <1>2, <1>3, NoResendTypes DEF RenoTypes, EpisodeCovers, TypeOK
<1>4. CASE new /\ cur.ack < recovery_point
  <2>1. Unacked(cur.ack) = snd_una..snd_nxt-1 /\ snd_una \in Nat
    BY DEF Unacked, TypeOK
  <2>2. /\ snd_wnd' \in Int /\ data' \in Seq(Segments)
        /\ \A i \in 1..Len(data') : data'[i] < snd_nxt
    BY <1>4, <2>1, ResendTypes
  <2>3. dupacks' = dupacks /\ nr_state' = "RECOVERY" /\ snd_una <= recovery_point
    BY <1>4 DEF TypeOK
  <2>4. QED
    BY <1>1, <1>2, <2>2, <2>3 DEF RenoTypes, EpisodeCovers, TypeOK
<1>5. CASE new /\ ~ (cur.ack < recovery_point)
  BY <1>1, <1>2, <1>5, NoResendTypes DEF RenoTypes, EpisodeCovers, TypeOK
<1>6. QED
  BY <1>3, <1>4, <1>5

LEMMA AckRenoStep ==
    ASSUME IInv, AckReno
    PROVE  IInv'
<1> DEFINE new == send_buf' # send_buf
<1>1. /\ TypeOK /\ PeerBehind /\ handler = "reno" /\ handler' = "wake" /\ cur.ack = snd_una
      /\ send_buf' = Unacked(cur.ack)
      /\ RenoOpen(new) \/ RenoDisorder(new) \/ RenoLoss(new) \/ RenoRecovery(new)
  BY DEF IInv, AckReno, HandlerAt, AcksInOrder
<1>2. /\ UNCHANGED <<snd_nxt, snd_una, loss_point, retrans_time, early, closed>>
      /\ UNCHANGED <<app, cur, wait_send, rcv_nxt, rcv_ofo_buf, acks>>
  BY DEF AckReno, timer, peer
<1>3. PICK first \in 0..snd_una : BufferedFrom(first)
  BY DEF IInv, Buffered
<1>4. send_buf = first..snd_nxt-1 /\ snd_una \in 0..snd_nxt /\ snd_nxt \in Nat
  BY <1>1, <1>3 DEF BufferedFrom, TypeOK
<1>5. send_buf' = snd_una..snd_nxt-1
  BY <1>1, <1>4 DEF Unacked
(* An ACK that takes nothing from the send buffer is no step forward. *)
<1>6. ~ new => snd_una = first
  BY <1>4, <1>5
<1>7. RenoTypes /\ EpisodeCovers
  <2>1. CASE RenoOpen(new)
    BY <1>1, <2>1, RenoOpenStep
  <2>2. CASE RenoDisorder(new)
    BY <1>1, <1>4, <2>2, RenoDisorderStep
  <2>3. CASE RenoLoss(new)
    <3>1. nr_state = "LOSS"
      BY <2>3 DEF RenoLoss
    <3>2. ~ new => snd_una <= loss_point
      BY <1>3, <1>6, <3>1 DEF BufferedFrom
    <3>3. QED
      BY <1>1, <2>3, <3>2, RenoLossStep
  <2>4. CASE RenoRecovery(new)
    <3>1. nr_state = "RECOVERY"
      BY <2>4 DEF RenoRecovery
    <3>2. ~ new => snd_una <= recovery_point
      BY <1>3, <1>6, <3>1 DEF BufferedFrom
    <3>3. QED
      BY <1>1, <1>4, <2>4, <3>2, RenoRecoveryStep
  <2>5. QED
    BY <1>1, <2>1, <2>2, <2>3, <2>4
<1> HIDE DEF new
<1>8. TypeOK'
  BY <1>1, <1>2, <1>4, <1>5, <1>7 DEF TypeOK, RenoTypes
<1>9. BufferedFrom(snd_una)'
  BY <1>2, <1>5, <1>7 DEF BufferedFrom, EpisodeCovers
<1>10. Buffered'
  BY <1>2, <1>4, <1>9 DEF Buffered
<1>11. PeerBehind' /\ AcksInOrder'
  BY <1>1, <1>2, <1>7 DEF IInv, PeerBehind, AcksInOrder, RenoTypes
<1>12. WriterAtEnd'
  BY <1>1, <1>2 DEF IInv, WriterAtEnd, Unacked
<1>13. QED
  BY <1>8, <1>10, <1>11, <1>12 DEF IInv
-----------------------------------------------------------------------------
(* The timer *)

LEMMA TimeoutStep ==
    ASSUME IInv, Timeout
    PROVE  IInv'
<1>1. /\ TypeOK /\ PeerBehind /\ AcksInOrder /\ WriterAtEnd
      /\ cwnd' = 2 /\ nr_state' = "LOSS" /\ loss_point' = snd_nxt
      /\ ssthresh' = Halved(cwnd) /\ Resend(send_buf, snd_wnd)
  BY DEF IInv, Timeout
<1>2. /\ UNCHANGED <<snd_nxt, snd_una, send_buf, cwnd_flag, dupacks, recovery_point>>
      /\ UNCHANGED <<closed, app, handler, cur, wait_send, rcv_nxt, rcv_ofo_buf, acks>>
  BY DEF Timeout, thread, peer
<1>3. retrans_time' \in 0..MaxRetrans
  BY <1>1 DEF Timeout, Exhausted, NextTry, TypeOK
<1>4. early' \in 0..MaxEarly
  BY <1>1 DEF Timeout, TypeOK
<1>5. PICK first \in 0..snd_una : BufferedFrom(first)
  BY DEF IInv, Buffered
<1>6. send_buf = first..snd_nxt-1 /\ snd_una \in 0..snd_nxt /\ snd_nxt \in Nat /\ first \in Nat
  BY <1>1, <1>5 DEF BufferedFrom, TypeOK
<1>7. /\ data' \in Seq(Segments) /\ snd_wnd' \in Int
      /\ \A i \in 1..Len(data') : data'[i] < snd_nxt
  BY <1>1, <1>6, ResendTypes
<1>8. ssthresh' \in Nat \ {0}
  BY <1>1, HalvedType DEF TypeOK
<1>9. TypeOK'
  BY <1>1, <1>2, <1>3, <1>4, <1>6, <1>7, <1>8 DEF TypeOK
<1>10. BufferedFrom(first)' /\ first \in 0..snd_una'
  BY <1>1, <1>2, <1>5, <1>6 DEF BufferedFrom
<1>11. Buffered'
  BY <1>10 DEF Buffered
<1>12. PeerBehind' /\ AcksInOrder' /\ WriterAtEnd'
  BY <1>1, <1>2, <1>7 DEF PeerBehind, AcksInOrder, WriterAtEnd
<1>13. QED
  BY <1>9, <1>11, <1>12 DEF IInv

LEMMA GiveUpStep ==
    ASSUME IInv, GiveUp
    PROVE  IInv'
<1> USE DEF GiveUp, sender, reno, thread, peer, wire
<1>1. TypeOK'
  BY DEF IInv, TypeOK
<1>2. AcksInOrder' /\ PeerBehind' /\ WriterAtEnd'
  BY DEF IInv, AcksInOrder, PeerBehind, WriterAtEnd
<1>3. Buffered'
  BY DEF IInv, Buffered, BufferedFrom
<1>4. QED
  BY <1>1, <1>2, <1>3 DEF IInv
-----------------------------------------------------------------------------
(* The peer and the links *)

(* A queue of ACKs in order, none beyond top. *)
InOrderUpTo(q, top) ==
    /\ q \in Seq(AckType)
    /\ \A i \in 1..Len(q) : snd_una <= q[i].ack /\ q[i].ack <= top
    /\ \A i, j \in 1..Len(q) : i <= j => q[i].ack <= q[j].ack

LEMMA OneMoreAck ==
    ASSUME TypeOK, NEW q, NEW top \in rcv_nxt..D, InOrderUpTo(q, rcv_nxt), snd_una <= rcv_nxt,
           NEW a \in AckType, a.ack = top
    PROVE  InOrderUpTo(Append(q, a), top)
<1>1. /\ Append(q, a) \in Seq(AckType) /\ Len(Append(q, a)) = Len(q) + 1 /\ Len(q) \in Nat
      /\ \A i \in 1..Len(q) : Append(q, a)[i] = q[i]
      /\ Append(q, a)[Len(q) + 1] = a
  BY DEF InOrderUpTo
<1>2. /\ snd_una \in Int /\ rcv_nxt \in Int /\ rcv_nxt <= top /\ top \in Int
      /\ \A i \in 1..Len(q) : q[i].ack \in Int
  <2>1. \A x \in AckType : x.ack \in Int
    BY DEF AckType
  <2>2. \A i \in 1..Len(q) : q[i] \in AckType
    BY DEF InOrderUpTo
  <2>3. QED
    BY <2>1, <2>2 DEF TypeOK
<1>3. \A i \in 1..Len(q) : snd_una <= q[i].ack /\ q[i].ack <= rcv_nxt
  BY DEF InOrderUpTo
<1>4. \A i \in 1..Len(q)+1 : snd_una <= Append(q, a)[i].ack /\ Append(q, a)[i].ack <= top
  BY <1>1, <1>2, <1>3
<1>5. \A i, j \in 1..Len(q)+1 : i <= j => Append(q, a)[i].ack <= Append(q, a)[j].ack
  <2> SUFFICES ASSUME NEW i \in 1..Len(q)+1, NEW j \in 1..Len(q)+1, i <= j
               PROVE  Append(q, a)[i].ack <= Append(q, a)[j].ack
    OBVIOUS
  <2>1. CASE j = Len(q) + 1
    BY <1>1, <1>4, <2>1
  <2>2. CASE j # Len(q) + 1
    <3>1. i \in 1..Len(q) /\ j \in 1..Len(q)
      BY <1>1, <2>2
    <3>2. QED
      BY <1>1, <3>1 DEF InOrderUpTo
  <2>3. QED
    BY <2>1, <2>2
<1>6. QED
  BY <1>1, <1>4, <1>5 DEF InOrderUpTo

LEMMA MoreAcks ==
    ASSUME NEW q, NEW una \in Int, NEW top \in Int, NEW low \in Int, una <= low, low <= top,
           InOrderUpTo(q, low), snd_una = una,
           NEW new \in Seq(AckType), Len(new) = top - low,
           \A i \in 1..Len(new) : new[i].ack = low + i
    PROVE  InOrderUpTo(q \o new, top)
<1> DEFINE all == q \o new
           len == Len(q)
<1>1. q \in Seq(AckType) /\ len \in Nat /\ Len(new) \in Nat
  BY DEF InOrderUpTo
<1>2. /\ all \in Seq(AckType) /\ Len(all) = len + Len(new)
      /\ \A i \in 1..len + Len(new) : all[i] = IF i <= len THEN q[i] ELSE new[i - len]
  BY <1>1, ConcatProperties
<1>3. \A i \in 1..len : q[i].ack \in Int /\ una <= q[i].ack /\ q[i].ack <= low
  <2>1. \A x \in AckType : x.ack \in Int
    BY DEF AckType
  <2>2. \A i \in 1..len : q[i] \in AckType
    BY <1>1
  <2>3. QED
    BY <2>1, <2>2 DEF InOrderUpTo
<1>4. \A i, j \in 1..len : i <= j => q[i].ack <= q[j].ack
  BY DEF InOrderUpTo
<1> HIDE DEF all, len
<1>5. \A i \in 1..Len(all) : i <= len => i \in 1..len /\ all[i] = q[i]
  BY <1>1, <1>2
<1>6. \A i \in 1..Len(all) : i > len => all[i].ack = low + (i - len) /\ i - len <= top - low
  <2> SUFFICES ASSUME NEW i \in 1..Len(all), i > len
               PROVE  all[i].ack = low + (i - len) /\ i - len <= top - low
    OBVIOUS
  <2>1. i - len \in 1..Len(new) /\ i \in 1..len + Len(new)
    BY <1>1, <1>2
  <2>2. all[i] = new[i - len]
    BY <1>1, <1>2, <2>1
  <2>3. QED
    BY <2>1, <2>2
<1>7. \A i \in 1..Len(all) : una <= all[i].ack /\ all[i].ack <= top
  <2> SUFFICES ASSUME NEW i \in 1..Len(all) PROVE una <= all[i].ack /\ all[i].ack <= top
    OBVIOUS
  <2>1. CASE i <= len
    BY <1>3, <1>5, <2>1
  <2>2. CASE i > len
    BY <1>1, <1>6, <2>2
  <2>3. QED
    BY <1>1, <2>1, <2>2
<1>8. \A i, j \in 1..Len(all) : i <= j => all[i].ack <= all[j].ack
  <2> SUFFICES ASSUME NEW i \in 1..Len(all), NEW j \in 1..Len(all), i <= j
               PROVE  all[i].ack <= all[j].ack
    OBVIOUS
  <2>1. CASE j <= len
    <3>1. i <= len
      BY <1>1, <2>1
    <3>2. QED
      BY <1>4, <1>5, <2>1, <3>1
  <2>2. CASE i <= len /\ j > len
    <3>1. all[i].ack <= low /\ all[i].ack \in Int
      BY <1>3, <1>5, <2>2
    <3>2. all[j].ack = low + (j - len)
      BY <1>6, <2>2
    <3>3. QED
      BY <1>1, <2>2, <3>1, <3>2
  <2>3. CASE i > len
    <3>1. j > len
      BY <1>1, <2>3
    <3>2. all[i].ack = low + (i - len) /\ all[j].ack = low + (j - len)
      BY <1>6, <2>3, <3>1
    <3>3. QED
      BY <1>1, <3>2
  <2>4. QED
    BY <1>1, <2>1, <2>2, <2>3
<1>9. QED
  BY <1>2, <1>7, <1>8 DEF InOrderUpTo, all

(* The ACKs Receive adds, one for each segment now in order.                *)
LEMMA NewAcks ==
    ASSUME NEW low \in 0..D, NEW top \in low..D, NEW w \in Windows
    PROVE  LET new == [i \in 1..(top - low) |-> [ack |-> low + i, rwnd |-> w]]
           IN /\ new \in Seq(AckType) /\ Len(new) = top - low
              /\ \A i \in 1..Len(new) : new[i].ack = low + i
<1> DEFINE n == top - low
           new == [i \in 1..n |-> [ack |-> low + i, rwnd |-> w]]
<1>1. n \in Nat
  OBVIOUS
<1>2. \A i \in 1..n : [ack |-> low + i, rwnd |-> w] \in AckType
  BY DEF AckType
<1>3. new \in [1..n -> AckType]
  BY <1>2
<1> HIDE DEF n
<1>4. new \in Seq(AckType) /\ Len(new) = n
  <2> HIDE DEF new
  <2>1. new \in Seq(AckType)
    BY <1>1, <1>3, SeqDef
  <2>2. DOMAIN new = 1..n
    BY <1>3
  <2>3. QED
    BY <1>1, <2>1, <2>2
<1>5. \A i \in 1..n : new[i].ack = low + i
  OBVIOUS
<1>6. QED
  BY <1>4, <1>5 DEF n

LEMMA FirstAcks ==
    ASSUME NEW q, NEW top, InOrderUpTo(q, top), NEW n \in Nat, n <= Len(q)
    PROVE  InOrderUpTo(SubSeq(q, 1, n), top)
<1>1. /\ SubSeq(q, 1, n) \in Seq(AckType) /\ Len(SubSeq(q, 1, n)) = n
      /\ \A i \in 1..n : SubSeq(q, 1, n)[i] = q[i]
  BY DEF InOrderUpTo
<1>2. \A i \in 1..n : i \in 1..Len(q)
  BY DEF InOrderUpTo
<1>3. QED
  BY <1>1, <1>2 DEF InOrderUpTo

(* The queue after Receive.                                                 *)
LEMMA ReceiveAcks ==
    ASSUME TypeOK, InOrderUpTo(acks, rcv_nxt), snd_una <= rcv_nxt,
           NEW k \in Nat, NEW nxt \in rcv_nxt..D, k < rcv_nxt => nxt = rcv_nxt,
           \/ \E w \in Windows :
                LET ack(a) == [ack |-> a, rwnd |-> w]
                    new == [i \in 1..(nxt - rcv_nxt) |-> ack(rcv_nxt + i)]
                    all == acks \o (IF k < rcv_nxt THEN <<ack(nxt)>> ELSE new)
                IN acks' = SubSeq(all, 1, Lower(Len(all), NetMax))
           \/ acks' = acks /\ nxt = rcv_nxt
           \/ nxt = rcv_nxt /\ \E w \in Windows : acks' = Sent(acks, [ack |-> nxt, rwnd |-> w])
    PROVE  InOrderUpTo(acks', nxt)
<1>1. rcv_nxt \in 0..D /\ snd_una \in Int /\ rcv_nxt \in Int /\ NetMax \in Nat
  BY DEF TypeOK
<1>2. ASSUME NEW w \in Windows
      PROVE  [ack |-> nxt, rwnd |-> w] \in AckType /\ [ack |-> nxt, rwnd |-> w].ack = nxt
  BY <1>1 DEF AckType
<1>3. ASSUME NEW w \in Windows,
             NEW all, InOrderUpTo(all, nxt),
             acks' = SubSeq(all, 1, Lower(Len(all), NetMax))
      PROVE  InOrderUpTo(acks', nxt)
  <2>1. Len(all) \in Nat
    BY <1>3 DEF InOrderUpTo
  <2>2. Lower(Len(all), NetMax) \in Nat /\ Lower(Len(all), NetMax) <= Len(all)
    BY <1>1, <2>1 DEF Lower
  <2>3. QED
    BY <1>3, <2>2, FirstAcks
<1>4. CASE \E w \in Windows :
              LET ack(a) == [ack |-> a, rwnd |-> w]
                  new == [i \in 1..(nxt - rcv_nxt) |-> ack(rcv_nxt + i)]
                  all == acks \o (IF k < rcv_nxt THEN <<ack(nxt)>> ELSE new)
              IN acks' = SubSeq(all, 1, Lower(Len(all), NetMax))
  <2>1. PICK w \in Windows :
              LET ack(a) == [ack |-> a, rwnd |-> w]
                  new == [i \in 1..(nxt - rcv_nxt) |-> ack(rcv_nxt + i)]
                  all == acks \o (IF k < rcv_nxt THEN <<ack(nxt)>> ELSE new)
              IN acks' = SubSeq(all, 1, Lower(Len(all), NetMax))
    BY <1>4
  <2> DEFINE one == [ack |-> nxt, rwnd |-> w]
             new == [i \in 1..(nxt - rcv_nxt) |-> [ack |-> rcv_nxt + i, rwnd |-> w]]
             added == IF k < rcv_nxt THEN <<one>> ELSE new
  <2>2. acks' = SubSeq(acks \o added, 1, Lower(Len(acks \o added), NetMax))
    BY <2>1, Zenon
  <2>3. InOrderUpTo(acks \o added, nxt)
    <3>1. CASE k < rcv_nxt
      <4>1. one \in AckType /\ one.ack = nxt /\ nxt = rcv_nxt
        BY <1>2, <3>1
      <4>2. acks \o <<one>> = Append(acks, one) 
        <5> HIDE DEF one
        <5>1. acks \in Seq(AckType)
          BY DEF InOrderUpTo
        <5>2. QED
          BY <5>1, <4>1
      <4>3. InOrderUpTo(Append(acks, one), nxt)
        <5> HIDE DEF one
        <5>1. QED
          BY <4>1, OneMoreAck, <1>1
      <4>4. QED
        BY <3>1, <4>2, <4>3
    <3>2. CASE ~ (k < rcv_nxt)
      <4>1. new \in Seq(AckType) /\ Len(new) = nxt - rcv_nxt
            /\ \A i \in 1..Len(new) : new[i].ack = rcv_nxt + i
        BY <1>1, NewAcks
      <4>2. InOrderUpTo(acks \o new, nxt)
        <5> HIDE DEF new
        <5>1. QED
          BY <4>1, <1>1, MoreAcks
      <4>3. QED
        BY <3>2, <4>2
    <3>3. QED
      BY <3>1, <3>2
  <2> HIDE DEF added
  <2>4. QED
    BY <1>3, <2>2, <2>3
<1>5. CASE acks' = acks /\ nxt = rcv_nxt
  BY <1>5
<1>6. CASE nxt = rcv_nxt /\ \E w \in Windows : acks' = Sent(acks, [ack |-> nxt, rwnd |-> w])
  <2>1. PICK w \in Windows : acks' = Sent(acks, [ack |-> nxt, rwnd |-> w])
    BY <1>6
  <2> DEFINE one == [ack |-> nxt, rwnd |-> w]
  <2>2. one \in AckType /\ one.ack = nxt
    BY <1>2
  <2>3. acks' = Append(acks, one) \/ acks' = acks
    BY <2>1 DEF Sent
  <2> HIDE DEF one
  <2>4. InOrderUpTo(Append(acks, one), nxt)
    BY <2>2, <1>6, <1>1, OneMoreAck
  <2>5. QED
    BY <1>6, <2>3, <2>4
<1>7. QED
  BY <1>4, <1>5, <1>6

LEMMA ReceiveStep ==
    ASSUME IInv, Receive
    PROVE  IInv'
<1> DEFINE k == Head(data)
           nxt == IF k < rcv_nxt THEN rcv_nxt ELSE Contiguous(rcv_ofo_buf \cup {k}, rcv_nxt)
<1>1. /\ TypeOK /\ AcksInOrder /\ PeerBehind /\ WriterAtEnd
      /\ data # <<>> /\ data' = Tail(data)
      /\ rcv_ofo_buf' = {j \in rcv_ofo_buf \cup {k} : j >= nxt} /\ rcv_nxt' = nxt
  BY DEF IInv, Receive
<1>2. UNCHANGED <<sender, reno, timer, thread, wait_send>>
  BY DEF Receive
<1>3. k \in 0..snd_nxt-1 /\ snd_nxt \in 0..D /\ rcv_nxt \in 0..snd_nxt
  <2>1. k = data[1] /\ 1 \in 1..Len(data) /\ data[1] \in Segments
    BY <1>1 DEF TypeOK
  <2>2. QED
    BY <1>1, <2>1 DEF TypeOK, PeerBehind, Segments
<1>4. /\ nxt \in rcv_nxt..snd_nxt /\ (k < rcv_nxt => nxt = rcv_nxt)
      /\ nxt \notin rcv_ofo_buf \cup {k}
      /\ k > rcv_nxt => nxt = rcv_nxt
  <2> HIDE DEF k
  <2>1. CASE k < rcv_nxt
    BY <1>1, <1>3, <2>1 DEF TypeOK
  <2>2. CASE ~ (k < rcv_nxt)
    <3>1. rcv_ofo_buf \cup {k} \in SUBSET (0..snd_nxt-1)
      BY <1>1, <1>3 DEF PeerBehind
    <3>2. nxt = Contiguous(rcv_ofo_buf \cup {k}, rcv_nxt)
      BY <2>2
    <3>3. /\ nxt \in rcv_nxt..snd_nxt /\ nxt \notin rcv_ofo_buf \cup {k}
          /\ rcv_nxt..nxt-1 \subseteq rcv_ofo_buf \cup {k}
      <4> HIDE DEF nxt
      <4>1. QED
        BY <1>3, <3>1, <3>2, ContiguousValue
    <3> HIDE DEF nxt
    <3>4. k > rcv_nxt => nxt = rcv_nxt
      <4> SUFFICES ASSUME k > rcv_nxt, nxt # rcv_nxt PROVE FALSE
        OBVIOUS
      <4>1. rcv_nxt \in rcv_nxt..nxt-1
        BY <1>3, <3>3
      <4>2. rcv_nxt \in rcv_ofo_buf
        BY <1>3, <3>3, <4>1
      <4>3. QED
        BY <1>1, <1>3, <4>2 DEF TypeOK
    <3>5. QED
      BY <2>2, <3>3, <3>4
  <2>3. QED
    BY <2>1, <2>2
<1>5. /\ acks' \in Seq(AckType) /\ InOrderUpTo(acks', nxt)
  <2>1. InOrderUpTo(acks, rcv_nxt) /\ snd_una <= rcv_nxt
    BY <1>1 DEF InOrderUpTo, AcksInOrder, TypeOK
  <2>2. \/ \E w \in Windows :
              LET ack(a) == [ack |-> a, rwnd |-> w]
                  new == [i \in 1..(nxt - rcv_nxt) |-> ack(rcv_nxt + i)]
                  all == acks \o (IF k < rcv_nxt THEN <<ack(nxt)>> ELSE new)
              IN acks' = SubSeq(all, 1, Lower(Len(all), NetMax))
        \/ k > rcv_nxt /\ acks' = acks
        \/ k > rcv_nxt /\ \E w \in Windows : acks' = Sent(acks, [ack |-> nxt, rwnd |-> w])
    BY Zenon DEF Receive
  <2> HIDE DEF k, nxt
  <2>3. k \in Nat /\ nxt \in rcv_nxt..D
    BY <1>3, <1>4
  <2>4. InOrderUpTo(acks', nxt)
    BY <1>1, <1>4, <2>1, <2>2, <2>3, ReceiveAcks
  <2>5. QED
    BY <2>4 DEF InOrderUpTo
<1> HIDE DEF k, nxt
<1>6. rcv_ofo_buf' \subseteq (nxt + 1)..(D - 1) /\ rcv_ofo_buf' \subseteq 0..snd_nxt-1
  <2> SUFFICES ASSUME NEW j \in rcv_ofo_buf'
               PROVE  j \in (nxt + 1)..(D - 1) /\ j \in 0..snd_nxt-1
    BY Zenon
  <2>1. j \in rcv_ofo_buf \cup {k} /\ j >= nxt
    BY <1>1
  <2>2. j \in 0..snd_nxt-1 /\ j # nxt
    BY <1>1, <1>3, <1>4, <2>1 DEF PeerBehind
  <2>3. QED
    BY <1>3, <1>4, <2>1, <2>2
<1>7. data' \in Seq(Segments) /\ \A i \in 1..Len(data') : data'[i] < snd_nxt
  <2>1. data \in Seq(Segments) /\ \A i \in 1..Len(data) : data[i] < snd_nxt
    BY <1>1 DEF TypeOK, PeerBehind
  <2>2. QED
    BY <1>1, <2>1
<1>8. TypeOK'
  <2>1. rcv_nxt' \in 0..snd_nxt
    BY <1>1, <1>3, <1>4
  <2>2. QED
    BY <1>1, <1>2, <1>5, <1>6, <1>7, <2>1 DEF TypeOK, sender, reno, timer, thread
<1>9. AcksInOrder'
  <2>1. snd_una' = snd_una /\ handler' = handler /\ cur' = cur /\ snd_una <= nxt
    BY <1>1, <1>2, <1>3, <1>4 DEF sender, thread, AcksInOrder, TypeOK
  <2>2. QED
    BY <1>1, <1>5, <2>1 DEF AcksInOrder, InOrderUpTo
<1>10. PeerBehind' /\ WriterAtEnd'
  BY <1>1, <1>2, <1>6, <1>7 DEF PeerBehind, WriterAtEnd, sender, thread
<1>11. Buffered'
  BY <1>2 DEF IInv, Buffered, BufferedFrom, sender, reno, thread
<1>12. QED
  BY <1>8, <1>9, <1>10, <1>11 DEF IInv

LEMMA LoseStep ==
    ASSUME IInv, Lose
    PROVE  IInv'
<1> USE DEF Lose, sender, reno, timer, thread, peer
<1>1. data \in Seq(Segments) /\ acks \in Seq(AckType)
  BY DEF IInv, TypeOK
<1>2. data' \in Seq(Segments) /\ acks' \in Seq(AckType)
  <2>1. \A S : \A q \in Seq(S) : q # <<>> => Tail(q) \in Seq(S)
    OBVIOUS
  <2>2. data # <<>> => Tail(data) \in Seq(Segments)
    BY <1>1, <2>1, Zenon
  <2>3. acks # <<>> => Tail(acks) \in Seq(AckType)
    BY <1>1, <2>1, Zenon
  <2>4. QED
    BY <1>1, <2>2, <2>3, Zenon
<1>3. TypeOK'
  BY <1>2 DEF IInv, TypeOK
<1>4. AcksInOrder'
  <2>1. CASE acks' = acks
    BY <2>1 DEF IInv, AcksInOrder
  <2>2. CASE acks # <<>> /\ acks' = Tail(acks)
    BY <2>2, TailInOrder DEF IInv, AcksInOrder
  <2>3. QED
    BY <2>1, <2>2
<1>5. PeerBehind'
  BY <1>1 DEF IInv, PeerBehind
<1>6. Buffered' /\ WriterAtEnd'
  BY DEF IInv, Buffered, BufferedFrom, WriterAtEnd
<1>7. QED
  BY <1>3, <1>4, <1>5, <1>6 DEF IInv
-----------------------------------------------------------------------------
(* The inductive invariant holds: the send buffer is the interval from      *)
(* snd_una, or from where it was before the ACK in hand, to snd_nxt.        *)
THEOREM SendInductive == Spec => []IInv
<1>1. IInv /\ [Next]_vars => IInv'
  <2> SUFFICES ASSUME IInv, [Next]_vars PROVE IInv'
    OBVIOUS
  <2>1. CASE UNCHANGED vars
    BY <2>1 DEF IInv, TypeOK, AcksInOrder, PeerBehind, Buffered, BufferedFrom, WriterAtEnd,
       vars, sender, reno, timer, thread, peer, wire
  <2>2. CASE Next
    BY <2>2, WriteStep, WriterOtherSteps, AckClosedStep, AckUnaStep, AckWindowStep,
       AckRenoStep, AckWakeStep, TimeoutStep, GiveUpStep, ReceiveStep, LoseStep
       DEF Next, Writer, Handler, Timer
  <2>3. QED
    BY <2>1, <2>2
<1>2. QED
  BY <1>1, InitIInv, PTL DEF Spec

(* Types, windows and thresholds that never reach zero, and recoveries and  *)
(* losses that end with the ACK they wait for (tcp_in.c:129, 147), in every *)
(* interleaving of the writer, the handler and the timer.                   *)
THEOREM EpisodesEnd == Spec => []SendInv
<1>1. IInv => SendInv
  BY DEF IInv, SendInv, EpisodeEnds, Buffered, BufferedFrom
<1>2. QED
  BY <1>1, SendInductive, PTL

(* tcp_sock_write returns only when the peer has all of it: the empty send  *)
(* buffer says that snd_una is at the end, and ACKs do not run ahead.       *)
THEOREM NothingLost == Spec => []WrittenIsReceived
<1>1. IInv => WrittenIsReceived
  <2> SUFFICES ASSUME IInv, app = "returned" PROVE rcv_nxt = D
    BY DEF WrittenIsReceived
  <2>1. send_buf = {} /\ snd_nxt = D /\ snd_una \in 0..D /\ rcv_nxt \in 0..D
    BY DEF IInv, WriterAtEnd, TypeOK
  <2>2. PICK first \in 0..snd_una : send_buf = first..snd_nxt-1
    BY DEF IInv, Buffered, BufferedFrom
  <2>3. first = D
    <3> SUFFICES ASSUME first # D PROVE FALSE
      OBVIOUS
    <3>1. first \in first..snd_nxt-1
      BY <2>1, <2>2
    <3>2. QED
      BY <2>1, <2>2, <3>1
  <2>4. snd_una <= rcv_nxt
    BY DEF IInv, AcksInOrder
  <2>5. QED
    BY <2>1, <2>2, <2>3, <2>4
<1>2. QED
  BY <1>1, SendInductive, PTL
-----------------------------------------------------------------------------
(* NoLostWakeup is inductive over the types: who changes what the writer    *)
(* tests is the handler, which wakes it at the end, or the timer, which     *)
(* leaves retrans_time above 0 until the next ACK.                          *)
LEMMA WakeupInit == Init => NoLostWakeup
BY DEF Init, NoLostWakeup

LEMMA WriterKeepsWakeup ==
    ASSUME IInv, NoLostWakeup, Writer
    PROVE  NoLostWakeup'
<1>1. CASE Write
  BY <1>1 DEF NoLostWakeup, Write, WriterAt
<1>2. CASE WriteTest
  <2>1. UNCHANGED <<snd_nxt, snd_una, snd_wnd, send_buf, dupacks>>
    BY <1>2 DEF WriteTest, sender, reno
  <2>2. Blocked' = Blocked
    BY <2>1 DEF Blocked, InFlight
  <2>3. app' = "asleep" => Blocked
    BY <1>2 DEF WriteTest
  <2>4. app' # "draining"
    BY <1>2 DEF WriteTest
  <2>5. QED
    BY <2>2, <2>3, <2>4 DEF NoLostWakeup
<1>3. CASE WriteWoken
  BY <1>3 DEF NoLostWakeup, WriteWoken, WriterAt
<1>4. CASE WriteDrain
  BY <1>4 DEF NoLostWakeup, WriteDrain, sender
<1>5. QED
  BY <1>1, <1>2, <1>3, <1>4 DEF Writer

LEMMA OthersKeepWakeup ==
    ASSUME IInv, NoLostWakeup, Handler \/ Timer \/ Receive \/ Lose
    PROVE  NoLostWakeup'
<1>1. CASE AckClosed \/ Receive \/ Lose
  <2>1. UNCHANGED <<sender, reno, timer, thread, wait_send>>
    BY <1>1 DEF AckClosed, Receive, Lose
  <2>2. UNCHANGED <<snd_nxt, snd_una, snd_wnd, send_buf, dupacks>>
    BY <2>1 DEF sender, reno
  <2>3. Blocked' = Blocked
    BY <2>2 DEF Blocked, InFlight
  <2>4. QED
    BY <2>1, <2>2, <2>3 DEF NoLostWakeup, timer, thread
<1>2. CASE AckUna \/ AckWindow \/ AckReno
  BY <1>2 DEF NoLostWakeup, AckUna, AckWindow, AckReno, HandlerAt
<1>3. CASE AckWake
  BY <1>3 DEF NoLostWakeup, AckWake, WakeWriter, WakeUp
<1>4. CASE Timeout
  <2>1. retrans_time' # 0
    BY <1>4 DEF Timeout, NextTry, IInv, TypeOK
  <2>2. QED
    BY <2>1 DEF NoLostWakeup
<1>5. CASE GiveUp
  BY <1>5 DEF NoLostWakeup, GiveUp
<1>6. QED
  BY <1>1, <1>2, <1>3, <1>4, <1>5 DEF Handler, Timer

(* The writer is never left asleep with an open window, nor at the end with *)
(* nothing to wait for (tcp_sock.c:445, 452; tcp_in.c:236).                 *)
THEOREM NeverLeftAsleep == Spec => []NoLostWakeup
<1>1. IInv /\ NoLostWakeup /\ [Next]_vars => NoLostWakeup'
  <2> SUFFICES ASSUME IInv, NoLostWakeup, [Next]_vars PROVE NoLostWakeup'
    OBVIOUS
  <2>1. CASE UNCHANGED vars
    <3>1. UNCHANGED <<snd_nxt, snd_una, snd_wnd, send_buf, dupacks, app, handler>>
      BY <2>1 DEF vars, sender, reno, thread
    <3>2. UNCHANGED <<wait_send, retrans_time>>
      BY <2>1 DEF vars, timer
    <3>3. Blocked' = Blocked
      BY <3>1 DEF Blocked, InFlight
    <3>4. QED
      BY <3>1, <3>2, <3>3 DEF NoLostWakeup
  <2>2. CASE Next
    BY <2>2, WriterKeepsWakeup, OthersKeepWakeup DEF Next
  <2>3. QED
    BY <2>1, <2>2
<1>2. QED
  BY <1>1, WakeupInit, SendInductive, PTL DEF Spec
=============================================================================
