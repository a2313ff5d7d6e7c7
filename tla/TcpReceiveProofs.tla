-------------------------- MODULE TcpReceiveProofs --------------------------
(***************************************************************************)
(* Proofs about TcpReceive for every stream, every cut of it into          *)
(* segments, every ring size and every read size.                          *)
(***************************************************************************)
EXTENDS TcpReceive, SequenceTheorems, TLAPS

(* The ring buffer holds, from head on, the bytes that follow out. *)
RingContent ==
    \A k \in 0..RingUsed - 1 : buf[Wrap(head + k)] = Len(out) + k

(* How far rcv_nxt and the ring buffer are apart, depending on where the    *)
(* handler is; a FIN moves rcv_nxt past the stream for good.                *)
HandlerInv ==
    /\ rcv_nxt \in 0..Total + 1
    /\ acked <= rcv_nxt
    /\ rcv_nxt > Total => state # "ESTABLISHED" /\ pc["handler"] = "h_idle"
    /\ pc["handler"] \in Putting \cup {"h_wake"} => rcv_ofo_buf # <<>>
    /\ IF pc["handler"] \in Putting
       THEN /\ Head(rcv_ofo_buf).seq + Head(rcv_ofo_buf).len = rcv_nxt
            /\ Stored = Head(rcv_ofo_buf).seq
       ELSE Stored = Least(rcv_nxt, Total)
    /\ pc["handler"] \in {"h_full", "h_full_sleep", "h_seq"} => cur \in Segments

IInv ==
    /\ TypeOK
    /\ InOrder
    /\ RingContent
    /\ HandlerInv
    /\ TestsStillHold
    /\ WindowHonest
-----------------------------------------------------------------------------
LEMMA CapacityType == Capacity \in Nat \ {0}
BY ConstantsAssumption

(* Arithmetic modulo the ring size, for the only arguments that occur. *)
LEMMA WrapValue ==
    ASSUME NEW x \in 0..2 * Capacity + 1
    PROVE  /\ Wrap(x) = IF x < RingSize THEN x ELSE x - RingSize
           /\ Wrap(x) \in 0..Capacity
<1> DEFINE s == Capacity + 1
<1>1. s \in Nat \ {0} /\ x \in 0..2 * s - 1
  BY CapacityType
<1> HIDE DEF s
<1>2. x % s = IF x < s THEN x ELSE x - s
  <2>1. CASE x < s
    BY <1>1, <2>1
  <2>2. CASE x >= s
    BY <1>1, <2>2
  <2>3. QED
    BY <1>1, <2>1, <2>2
<1>3. Wrap(x) = IF x < RingSize THEN x ELSE x - RingSize
  BY <1>2 DEF Wrap, RingSize, s
<1>4. QED
  BY <1>3, CapacityType DEF RingSize

(* The slots in use, for any two positions of head and tail. *)
UsedOf(h, t) == Wrap(t - h + RingSize)

LEMMA UsedOfValue ==
    ASSUME NEW h \in 0..Capacity, NEW t \in 0..Capacity
    PROVE  /\ UsedOf(h, t) = IF h <= t THEN t - h ELSE t - h + RingSize
           /\ UsedOf(h, t) \in 0..Capacity
<1>1. t - h + RingSize \in 0..2 * Capacity + 1
  BY CapacityType DEF RingSize
<1>2. QED
  BY <1>1, WrapValue, CapacityType DEF UsedOf, RingSize

LEMMA RingUsedType ==
    ASSUME head \in 0..Capacity, tail \in 0..Capacity
    PROVE  /\ RingUsed = UsedOf(head, tail)
           /\ RingUsed \in 0..Capacity
           /\ RingFree = Capacity - RingUsed
           /\ RingFree \in 0..Capacity
<1>1. RingUsed = UsedOf(head, tail)
  BY DEF RingUsed, UsedOf
<1>2. RingUsed \in 0..Capacity
  BY <1>1, UsedOfValue
<1>3. QED
  BY <1>1, <1>2, CapacityType DEF RingFree, RingSize

(* Nothing that leaves head, tail and out alone changes what is stored. *)
LEMMA StoredUnchanged ==
    ASSUME UNCHANGED <<head, tail, out>>
    PROVE  UNCHANGED <<RingUsed, RingFree, RingEmpty, RingFull, Stored>>
BY DEF RingUsed, RingFree, RingEmpty, RingFull, Stored
-----------------------------------------------------------------------------
(* What read_ring_buffer does: n bytes move from the ring buffer to out. *)
LEMMA ReadRingEffect ==
    ASSUME IInv, ReadRing(ReadMax)
    PROVE  \E n \in 0..RingUsed :
             /\ n = Least(RingUsed, ReadMax)
             /\ head' \in 0..Capacity /\ tail' = tail /\ buf' = buf
             /\ RingUsed' = RingUsed - n
             /\ out' \in Seq(Int)
             /\ out' = out \o [i \in 1..n |-> Len(out) + i - 1]
             /\ Len(out') = Len(out) + n
             /\ \A i \in 1..Len(out') : out'[i] = i - 1
             /\ \A k \in 0..RingUsed' - 1 : buf[Wrap(head' + k)] = Len(out') + k
<1>1. head \in 0..Capacity /\ tail \in 0..Capacity
  BY DEF IInv, TypeOK
<1>2. out \in Seq(Int) /\ Len(out) \in Nat
  BY DEF IInv, TypeOK
<1>3. RingUsed = UsedOf(head, tail) /\ RingUsed \in 0..Capacity
  BY <1>1, RingUsedType
<1>4. PICK n \in 0..RingUsed : n = Least(RingUsed, ReadMax)
  <2>1. ReadMax \in Nat
    BY ConstantsAssumption
  <2>2. Least(RingUsed, ReadMax) \in 0..RingUsed
    BY <1>3, <2>1, CapacityType DEF Least
  <2>3. QED
    BY <2>2
<1> DEFINE got == [i \in 1..n |-> buf[Wrap(head + i - 1)]]
<1>5. out' = out \o got /\ head' = Wrap(head + n) /\ tail' = tail /\ buf' = buf
  BY <1>4 DEF ReadRing
<1>6. /\ head' = IF head + n < RingSize THEN head + n ELSE head + n - RingSize
      /\ head' \in 0..Capacity
  <2> DEFINE x == head + n
  <2>1. x \in 0..2 * Capacity + 1
    BY <1>1, <1>3, CapacityType
  <2> HIDE DEF x
  <2>2. /\ Wrap(x) = IF x < RingSize THEN x ELSE x - RingSize
        /\ Wrap(x) \in 0..Capacity
    BY <2>1, WrapValue
  <2>3. head' = Wrap(x)
    BY <1>5 DEF x
  <2>4. QED
    BY <1>1, <1>3, <2>2, <2>3, CapacityType DEF x, RingSize
<1>7. RingUsed' = RingUsed - n
  <2>1. RingUsed' = UsedOf(head', tail)
    BY <1>5 DEF RingUsed, UsedOf, RingSize
  <2>2. UsedOf(head', tail) = IF head' <= tail THEN tail - head'
                              ELSE tail - head' + RingSize
    BY <1>1, <1>6, UsedOfValue
  <2>3. RingUsed = IF head <= tail THEN tail - head
                   ELSE tail - head + RingSize
    BY <1>1, <1>3, UsedOfValue
  <2>4. QED
    BY <1>1, <1>3, <1>6, <2>1, <2>2, <2>3, CapacityType DEF RingSize
<1>8. \A i \in 1..n : got[i] = Len(out) + i - 1
  <2> SUFFICES ASSUME NEW i \in 1..n PROVE got[i] = Len(out) + i - 1
    OBVIOUS
  <2>1. i - 1 \in 0..RingUsed - 1
    BY <1>3, CapacityType
  <2>2. buf[Wrap(head + (i - 1))] = Len(out) + (i - 1)
    BY <2>1 DEF IInv, RingContent
  <2>3. head + i - 1 = head + (i - 1) /\ Len(out) + i - 1 = Len(out) + (i - 1)
    BY <1>1, <1>2
  <2>4. QED
    BY <2>2, <2>3
<1>9. got \in Seq(Int) /\ Len(got) = n
  <2>1. n \in Nat
    BY <1>3
  <2>2. \A i \in 1..n : got[i] \in Int
    BY <1>2, <1>8, <2>1
  <2>3. got \in [1..n -> Int]
    BY <2>2
  <2> HIDE DEF got
  <2>4. QED
    BY <2>1, <2>3
<1> HIDE DEF got
<1>10. /\ out' \in Seq(Int)
       /\ Len(out') = Len(out) + n
       /\ \A i \in 1..Len(out) + n :
            out'[i] = IF i <= Len(out) THEN out[i] ELSE got[i - Len(out)]
  BY <1>2, <1>5, <1>9, ConcatProperties
<1>11. \A i \in 1..Len(out') : out'[i] = i - 1
  <2> SUFFICES ASSUME NEW i \in 1..Len(out) + n PROVE out'[i] = i - 1
    BY <1>10
  <2>0. i \in Nat /\ n \in Nat
    BY <1>2, <1>3
  <2>1. CASE i <= Len(out)
    <3>1. i \in 1..Len(out)
      BY <1>2, <2>1
    <3>2. out[i] = i - 1
      BY <3>1 DEF IInv, InOrder
    <3>3. QED
      BY <1>10, <2>1, <3>2
  <2>2. CASE ~(i <= Len(out))
    <3>1. i - Len(out) \in 1..n
      BY <1>2, <2>0, <2>2
    <3>2. got[i - Len(out)] = Len(out) + (i - Len(out)) - 1
      BY <1>8, <3>1
    <3>3. Len(out) + (i - Len(out)) - 1 = i - 1
      BY <1>2, <2>0
    <3>4. QED
      BY <1>10, <2>2, <3>2, <3>3
  <2>3. QED
    BY <2>1, <2>2
<1>12. \A k \in 0..RingUsed' - 1 : buf[Wrap(head' + k)] = Len(out') + k
  <2> SUFFICES ASSUME NEW k \in 0..RingUsed - n - 1
               PROVE  buf[Wrap(head' + k)] = Len(out') + k
    BY <1>7
  <2>1. k \in Nat /\ n \in Nat /\ n + k \in 0..RingUsed - 1
    BY <1>3, CapacityType
  <2>2. buf[Wrap(head + (n + k))] = Len(out) + (n + k)
    BY <2>1 DEF IInv, RingContent
  <2>3. Wrap(head + (n + k)) = Wrap(head' + k)
    <3> DEFINE x == head + (n + k)
               y == head' + k
    <3>1. x \in 0..2 * Capacity + 1 /\ y \in 0..2 * Capacity + 1
      BY <1>1, <1>3, <1>6, <2>1, CapacityType
    <3> HIDE DEF x, y
    <3>2. /\ Wrap(x) = IF x < RingSize THEN x ELSE x - RingSize
          /\ Wrap(y) = IF y < RingSize THEN y ELSE y - RingSize
      BY <3>1, WrapValue
    <3>3. QED
      BY <1>1, <1>3, <1>6, <2>1, <3>2, CapacityType DEF RingSize, x, y
  <2>4. Len(out') + k = Len(out) + (n + k)
    BY <1>2, <1>10, <2>1
  <2>5. QED
    BY <2>2, <2>3, <2>4
<1>13. got = [i \in 1..n |-> Len(out) + i - 1]
  BY <1>8 DEF got
<1>14. QED
  BY <1>4, <1>5, <1>6, <1>7, <1>10, <1>11, <1>12, <1>13
-----------------------------------------------------------------------------
(* What write_ring_buffer does when there is room for the bytes of e. *)
LEMMA WriteRingEffect ==
    ASSUME IInv, NEW e \in Segments, WriteRing(e),
           e.len <= RingFree, Stored = e.seq
    PROVE  /\ tail' \in 0..Capacity /\ head' = head
           /\ buf' \in [0..Capacity -> Int]
           /\ RingUsed' = RingUsed + e.len
           /\ \A k \in 0..RingUsed' - 1 : buf'[Wrap(head + k)] = Len(out) + k
<1>1. head \in 0..Capacity /\ tail \in 0..Capacity
  BY DEF IInv, TypeOK
<1>2. buf \in [0..Capacity -> Int] /\ Len(out) \in Nat
  BY DEF IInv, TypeOK
<1>3. /\ RingUsed = UsedOf(head, tail) /\ RingUsed \in 0..Capacity
      /\ RingFree = Capacity - RingUsed
  BY <1>1, RingUsedType
<1>4. e.len \in Nat \ {0} /\ e.seq \in Nat
  BY ConstantsAssumption
<1>5. e.len <= Capacity - RingUsed
  BY <1>3
<1> DEFINE off(p) == Wrap(p - tail + RingSize)
<1>6. /\ buf' = [p \in 0..Capacity |->
                   IF off(p) < e.len THEN e.seq + off(p) ELSE buf[p]]
      /\ tail' = Wrap(tail + e.len)
      /\ head' = head
  BY DEF WriteRing
<1>7. \A p \in 0..Capacity :
        /\ off(p) = IF tail <= p THEN p - tail ELSE p - tail + RingSize
        /\ off(p) \in 0..Capacity
  <2>1. \A p \in 0..Capacity : off(p) = UsedOf(tail, p)
    BY DEF UsedOf
  <2>2. QED
    BY <1>1, <2>1, UsedOfValue
<1> HIDE DEF off
<1>8. /\ tail' = IF tail + e.len < RingSize THEN tail + e.len
                 ELSE tail + e.len - RingSize
      /\ tail' \in 0..Capacity
  <2> DEFINE x == tail + e.len
  <2>1. x \in 0..2 * Capacity + 1
    BY <1>1, <1>3, <1>4, <1>5, CapacityType
  <2>2. tail' = Wrap(x)
    BY <1>6
  <2> HIDE DEF x
  <2>3. /\ Wrap(x) = IF x < RingSize THEN x ELSE x - RingSize
        /\ Wrap(x) \in 0..Capacity
    BY <2>1, WrapValue
  <2>4. QED
    BY <1>1, <1>4, <2>2, <2>3, CapacityType DEF x, RingSize
<1>9. RingUsed' = RingUsed + e.len
  <2>1. RingUsed' = UsedOf(head, tail')
    BY <1>6 DEF RingUsed, UsedOf, RingSize
  <2>2. UsedOf(head, tail') = IF head <= tail' THEN tail' - head
                              ELSE tail' - head + RingSize
    BY <1>1, <1>8, UsedOfValue
  <2>3. RingUsed = IF head <= tail THEN tail - head
                   ELSE tail - head + RingSize
    BY <1>1, <1>3, UsedOfValue
  <2>4. QED
    BY <1>1, <1>3, <1>4, <1>5, <1>8, <2>1, <2>2, <2>3, CapacityType
    DEF RingSize
<1>10. \A p \in 0..Capacity : buf'[p] \in Int
  <2> SUFFICES ASSUME NEW p \in 0..Capacity PROVE buf'[p] \in Int
    OBVIOUS
  <2>1. buf'[p] = IF off(p) < e.len THEN e.seq + off(p) ELSE buf[p]
    BY <1>6
  <2>2. off(p) \in 0..Capacity /\ buf[p] \in Int
    BY <1>2, <1>7
  <2>3. QED
    BY <1>4, <2>1, <2>2, CapacityType
<1>11. \A k \in 0..RingUsed + e.len - 1 : buf'[Wrap(head + k)] = Len(out) + k
  <2> SUFFICES ASSUME NEW k \in 0..RingUsed + e.len - 1
               PROVE  buf'[Wrap(head + k)] = Len(out) + k
    OBVIOUS
  <2> DEFINE x == head + k
             p == Wrap(x)
  <2>1. k \in Nat /\ k <= Capacity /\ x \in 0..2 * Capacity + 1
    BY <1>1, <1>3, <1>4, <1>5, CapacityType
  <2> HIDE DEF x
  <2>2. /\ p = IF x < RingSize THEN x ELSE x - RingSize
        /\ p \in 0..Capacity
    BY <2>1, WrapValue
  <2> HIDE DEF p
  <2>3. /\ off(p) = IF tail <= p THEN p - tail ELSE p - tail + RingSize
        /\ buf'[p] = IF off(p) < e.len THEN e.seq + off(p) ELSE buf[p]
    BY <1>6, <1>7, <2>2
  <2>4. RingUsed = IF head <= tail THEN tail - head
                   ELSE tail - head + RingSize
    BY <1>1, <1>3, UsedOfValue
  <2>5. e.seq = Len(out) + RingUsed
    BY DEF Stored
  <2>6. CASE k < RingUsed
    <3>1. ~(off(p) < e.len)
      BY <1>1, <1>3, <1>4, <1>5, <2>1, <2>2, <2>3, <2>4, <2>6, CapacityType
      DEF RingSize, x
    <3>2. buf[Wrap(head + k)] = Len(out) + k
      <4>1. k \in 0..RingUsed - 1
        BY <1>3, <2>1, <2>6
      <4>2. QED
        BY <4>1 DEF IInv, RingContent
    <3>3. QED
      BY <2>3, <3>1, <3>2 DEF p, x
  <2>7. CASE ~(k < RingUsed)
    <3>1. off(p) = k - RingUsed
      BY <1>1, <1>3, <1>4, <1>5, <2>1, <2>2, <2>3, <2>4, <2>7, CapacityType
      DEF RingSize, x
    <3>2. off(p) < e.len
      BY <1>3, <1>4, <3>1, CapacityType
    <3>3. e.seq + off(p) = Len(out) + k
      BY <1>2, <1>3, <1>4, <2>5, <3>1, CapacityType
    <3>4. QED
      BY <2>3, <3>2, <3>3 DEF p, x
  <2>8. QED
    BY <2>6, <2>7
<1>12. buf' \in [0..Capacity -> Int]
  BY <1>6, <1>10
<1>13. \A k \in 0..RingUsed' - 1 : buf'[Wrap(head + k)] = Len(out) + k
  <2>1. 0..RingUsed' - 1 = 0..RingUsed + e.len - 1
    BY <1>3, <1>4, <1>9, CapacityType
  <2>2. QED
    BY <1>11, <2>1, Zenon
<1>14. tail' \in 0..Capacity /\ head' = head
  BY <1>6, <1>8
<1>15. QED
  BY <1>9, <1>12, <1>13, <1>14
-----------------------------------------------------------------------------
(* The functions of synch_wait.h keep the type of the struct. *)
LEMMA WaitFunctionsType ==
    ASSUME NEW T, NEW w \in WaitType(T), NEW t \in T
    PROVE  /\ SleepOn(w, t) \in WaitType(T)
           /\ Resume(w, t) \in WaitType(T)
           /\ \A v \in WakeUp(w) : v \in WaitType(T)
           /\ WaitExit(w) \in WaitType(T)
           /\ Spurious(w, t) \in WaitType(T)
<1>1. SleepOn(w, t) \in WaitType(T)
  BY DEF SleepOn, WaitType
<1>2. Resume(w, t) \in WaitType(T)
  BY DEF Resume, WaitType
<1>3. \A v \in WakeUp(w) : v \in WaitType(T)
  <2> SUFFICES ASSUME NEW v \in WakeUp(w) PROVE v \in WaitType(T)
    OBVIOUS
  <2>1. CASE v = w
    BY <2>1
  <2>2. CASE v = [w EXCEPT !.notified = TRUE]
    BY <2>2 DEF WaitType
  <2>3. CASE \E u \in w.blocked :
               v = [w EXCEPT !.notified = TRUE, !.blocked = @ \ {u},
                             !.woken = @ \cup {u}]
    <3>1. PICK u \in w.blocked :
               v = [w EXCEPT !.notified = TRUE, !.blocked = @ \ {u},
                             !.woken = @ \cup {u}]
      BY <2>3
    <3>2. w.blocked \subseteq T /\ w.woken \subseteq T
      BY DEF WaitType
    <3>3. /\ w.blocked \ {u} \in SUBSET T
          /\ w.woken \cup {u} \in SUBSET T
      BY <3>2
    <3>4. QED
      BY <3>1, <3>3 DEF WaitType
  <2>4. QED
    BY <2>1, <2>2, <2>3 DEF WakeUp
<1>4. WaitExit(w) \in WaitType(T)
  BY DEF WaitExit, WaitType
<1>5. Spurious(w, t) \in WaitType(T)
  BY DEF Spurious, WaitType
<1>6. QED
  BY <1>1, <1>2, <1>3, <1>4, <1>5

(* Steps that leave the ring buffer and the output alone. *)
LEMMA RingQuiet ==
    ASSUME IInv, UNCHANGED <<ring, out>>
    PROVE  /\ InOrder' /\ RingContent'
           /\ RingUsed' = RingUsed /\ RingFree' = RingFree /\ Stored' = Stored
           /\ RingEmpty' = RingEmpty
           /\ head' \in 0..Capacity /\ tail' \in 0..Capacity
           /\ buf' \in [0..Capacity -> Int] /\ out' \in Seq(Int)
<1>1. UNCHANGED <<head, tail, out>> /\ buf' = buf
  BY DEF ring
<1>2. UNCHANGED <<RingUsed, RingFree, RingEmpty, RingFull, Stored>>
  BY <1>1, StoredUnchanged
<1>3. InOrder' /\ RingContent'
  BY <1>1, <1>2 DEF IInv, InOrder, RingContent, RingSize, Wrap
<1>4. QED
  BY <1>1, <1>2, <1>3 DEF IInv, TypeOK

(* Where a thread that moves ends up; the other one stays. *)
LEMMA GotoEffect ==
    ASSUME pc \in [Threads -> ReaderPcs \cup HandlerPcs],
           NEW t \in Threads, NEW l \in ReaderPcs \cup HandlerPcs, Goto(t, l)
    PROVE  /\ pc' \in [Threads -> ReaderPcs \cup HandlerPcs]
           /\ pc'[t] = l
           /\ \A u \in Threads : u # t => pc'[u] = pc[u]
BY DEF Goto

(* Where the handler has a segment it has not queued yet. *)
Fetched == {"h_full", "h_full_sleep", "h_seq"}

(* A step that only moves a thread, or changes the wait struct, keeps the   *)
(* invariant if the thread's new place is one its conditions allow.         *)
LEMMA MoveOnly ==
    ASSUME IInv,
           UNCHANGED <<state, rcv_nxt, rcv_wnd, acked, rcv_ofo_buf, ring,
                       cur, out>>,
           wait_recv' \in WaitType(Threads),
           pc' \in [Threads -> ReaderPcs \cup HandlerPcs],
           pc'["reader"] \in ReaderPcs,
           pc'["handler"] \in HandlerPcs,
           pc'["handler"] \in Putting <=> pc["handler"] \in Putting,
           pc'["handler"] = "h_wake" => pc["handler"] = "h_wake",
           pc'["handler"] \in Fetched => pc["handler"] \in Fetched,
           pc["handler"] = "h_idle" => pc'["handler"] = "h_idle",
           pc'["handler"] = "h_write" => Head(rcv_ofo_buf).len <= RingFree,
           pc'["reader"] = "r_read" => ~RingEmpty
    PROVE  IInv'
<1>1. UNCHANGED <<ring, out>>
  OBVIOUS
<1>2. UNCHANGED <<state, rcv_nxt, rcv_wnd, acked, rcv_ofo_buf, cur>>
  OBVIOUS
<1>3. TypeOK'
  BY <1>1, <1>2, RingQuiet DEF IInv, TypeOK
<1>4. HandlerInv'
  BY <1>1, <1>2, RingQuiet DEF IInv, HandlerInv, Fetched
<1>5. TestsStillHold'
  BY <1>1, <1>2, RingQuiet DEF TestsStillHold
<1>6. WindowHonest'
  BY <1>1, <1>2 DEF IInv, WindowHonest
<1>7. QED
  BY <1>1, <1>3, <1>4, <1>5, <1>6, RingQuiet DEF IInv

(* What sleep_on does to the caller: it stays, or goes back to its test. *)
LEMMA SleepEffect ==
    ASSUME IInv, NEW t \in Threads, NEW again \in ReaderPcs \cup HandlerPcs,
           SleepOnRecv(t, again)
    PROVE  /\ wait_recv' \in WaitType(Threads)
           /\ pc' \in [Threads -> ReaderPcs \cup HandlerPcs]
           /\ pc'[t] \in {pc[t], again}
           /\ \A u \in Threads : u # t => pc'[u] = pc[u]
<1>1. /\ wait_recv \in WaitType(Threads)
      /\ pc \in [Threads -> ReaderPcs \cup HandlerPcs]
  BY DEF IInv, TypeOK
<1>2. wait_recv' \in WaitType(Threads)
  BY <1>1, WaitFunctionsType DEF SleepOnRecv
<1>3. pc' = pc \/ Goto(t, again)
  BY DEF SleepOnRecv
<1>4. QED
  BY <1>1, <1>2, <1>3, GotoEffect
-----------------------------------------------------------------------------
(* The steps of the reader. *)
LEMMA ReaderCheckStep == ASSUME IInv, ReaderCheck PROVE IInv'
<1>1. /\ UNCHANGED <<state, rcv_nxt, rcv_wnd, acked, rcv_ofo_buf, ring,
                     wait_recv, cur, out>>
      /\ Goto("reader", IF RingEmpty THEN "r_sleep" ELSE "r_read")
  BY DEF ReaderCheck
<1>2. /\ pc' \in [Threads -> ReaderPcs \cup HandlerPcs]
      /\ pc'["reader"] = IF RingEmpty THEN "r_sleep" ELSE "r_read"
      /\ pc'["handler"] = pc["handler"]
  BY <1>1, GotoEffect DEF IInv, TypeOK, ReaderPcs, Threads
<1>3. /\ wait_recv' \in WaitType(Threads)
      /\ pc["handler"] \in HandlerPcs
      /\ pc["handler"] = "h_write" => Head(rcv_ofo_buf).len <= RingFree
  BY <1>1 DEF IInv, TypeOK, TestsStillHold
<1>4. /\ pc'["reader"] \in ReaderPcs
      /\ pc'["reader"] = "r_read" => ~RingEmpty
  BY <1>2 DEF ReaderPcs
<1>5. QED
  BY <1>1, <1>2, <1>3, <1>4, MoveOnly

LEMMA ReaderSleepStep == ASSUME IInv, ReaderSleep PROVE IInv'
<1>1. /\ UNCHANGED <<state, rcv_nxt, rcv_wnd, acked, rcv_ofo_buf, ring,
                     cur, out>>
      /\ pc["reader"] = "r_sleep"
      /\ SleepOnRecv("reader", "r_check")
  BY DEF ReaderSleep
<1>2. /\ wait_recv' \in WaitType(Threads)
      /\ pc' \in [Threads -> ReaderPcs \cup HandlerPcs]
      /\ pc'["reader"] \in {"r_sleep", "r_check"}
      /\ pc'["handler"] = pc["handler"]
  BY <1>1, SleepEffect DEF Threads, ReaderPcs
<1>3. /\ pc["handler"] \in HandlerPcs
      /\ pc["handler"] = "h_write" => Head(rcv_ofo_buf).len <= RingFree
  BY DEF IInv, TypeOK, TestsStillHold
<1>4. pc'["reader"] \in ReaderPcs /\ pc'["reader"] # "r_read"
  BY <1>2 DEF ReaderPcs
<1>5. QED
  BY <1>1, <1>2, <1>3, <1>4, MoveOnly

LEMMA ReaderWakeStep == ASSUME IInv, ReaderWake PROVE IInv'
<1>1. /\ UNCHANGED <<state, rcv_nxt, rcv_wnd, acked, rcv_ofo_buf, ring,
                     cur, out>>
      /\ wait_recv' \in WakeUp(wait_recv)
      /\ Goto("reader", "r_check")
  BY DEF ReaderWake
<1>2. wait_recv' \in WaitType(Threads)
  BY <1>1, WaitFunctionsType DEF IInv, TypeOK, Threads
<1>3. /\ pc' \in [Threads -> ReaderPcs \cup HandlerPcs]
      /\ pc'["reader"] = "r_check"
      /\ pc'["handler"] = pc["handler"]
  BY <1>1, GotoEffect DEF IInv, TypeOK, ReaderPcs, Threads
<1>4. /\ pc["handler"] \in HandlerPcs
      /\ pc["handler"] = "h_write" => Head(rcv_ofo_buf).len <= RingFree
  BY DEF IInv, TypeOK, TestsStillHold
<1>5. pc'["reader"] \in ReaderPcs /\ pc'["reader"] # "r_read"
  BY <1>3 DEF ReaderPcs
<1>6. QED
  BY <1>1, <1>2, <1>3, <1>4, <1>5, MoveOnly

LEMMA ReaderReadStep == ASSUME IInv, ReaderRead PROVE IInv'
<1>1. /\ UNCHANGED <<state, rcv_nxt, rcv_wnd, acked, rcv_ofo_buf, wait_recv, cur>>
      /\ ReadRing(ReadMax)
      /\ Goto("reader", "r_wake")
  BY DEF ReaderRead
<1>2. PICK n \in 0..RingUsed :
             /\ head' \in 0..Capacity /\ tail' = tail /\ buf' = buf
             /\ RingUsed' = RingUsed - n
             /\ out' \in Seq(Int)
             /\ Len(out') = Len(out) + n
             /\ \A i \in 1..Len(out') : out'[i] = i - 1
             /\ \A k \in 0..RingUsed' - 1 : buf[Wrap(head' + k)] = Len(out') + k
  BY <1>1, ReadRingEffect
<1>3. /\ pc' \in [Threads -> ReaderPcs \cup HandlerPcs]
      /\ pc'["reader"] = "r_wake"
      /\ pc'["handler"] = pc["handler"]
  BY <1>1, GotoEffect DEF IInv, TypeOK, ReaderPcs, Threads
<1>4. /\ RingUsed \in 0..Capacity /\ RingFree = Capacity - RingUsed
      /\ Len(out) \in Nat
  BY RingUsedType DEF IInv, TypeOK
<1>5. RingFree' = Capacity - RingUsed'
  BY <1>2, CapacityType DEF RingFree, RingSize
<1>6. n \in Nat /\ Stored' = Stored /\ RingFree' = RingFree + n
  BY <1>2, <1>4, <1>5, CapacityType DEF Stored
<1>7. TypeOK'
  BY <1>1, <1>2, <1>3 DEF IInv, TypeOK, ReaderPcs
<1>8. InOrder'
  BY <1>2 DEF InOrder
<1>9. RingContent'
  BY <1>2 DEF RingContent, RingSize, Wrap
<1>10. HandlerInv'
  BY <1>1, <1>3, <1>6 DEF IInv, HandlerInv
<1>11. TestsStillHold'
  <2>1. ASSUME pc["handler"] = "h_write"
        PROVE  Head(rcv_ofo_buf).len <= RingFree'
    <3>1. Head(rcv_ofo_buf).len <= RingFree
      BY <2>1 DEF IInv, TestsStillHold
    <3>2. Head(rcv_ofo_buf) \in Segments
      BY <2>1 DEF IInv, TypeOK, HandlerInv, Putting
    <3>3. Head(rcv_ofo_buf).len \in Nat
      BY <3>2, ConstantsAssumption
    <3>4. QED
      BY <1>4, <1>6, <3>1, <3>3, CapacityType
  <2>2. QED
    BY <1>1, <1>3, <2>1 DEF TestsStillHold
<1>12. WindowHonest'
  <2>1. rcv_nxt \in Nat /\ rcv_wnd \in Nat /\ Total \in Nat
    BY CapacityType, ConstantsAssumption DEF IInv, TypeOK
  <2>2. QED
    BY <1>1, <1>2, <1>4, <1>6, <2>1, CapacityType DEF IInv, WindowHonest
<1>13. QED
  BY <1>7, <1>8, <1>9, <1>10, <1>11, <1>12 DEF IInv
-----------------------------------------------------------------------------
(* The steps of the handler that only move it. *)
LEMMA HandlerMove ==
    ASSUME IInv,
           UNCHANGED <<state, rcv_nxt, rcv_wnd, acked, rcv_ofo_buf, ring,
                       cur, out>>,
           wait_recv' \in WaitType(Threads),
           pc' \in [Threads -> ReaderPcs \cup HandlerPcs],
           pc'["reader"] = pc["reader"],
           \/ pc["handler"] \in Fetched /\ pc'["handler"] \in Fetched
           \/ pc["handler"] \in Putting /\ pc'["handler"] \in Putting
           \/ pc["handler"] = "h_put" /\ pc'["handler"] = "h_idle",
           pc'["handler"] = "h_write" => Head(rcv_ofo_buf).len <= RingFree
    PROVE  IInv'
<1>1. pc["reader"] \in ReaderPcs
  BY DEF IInv, TypeOK
<1>2. pc'["reader"] = "r_read" => ~RingEmpty
  BY DEF IInv, TestsStillHold
<1>3. /\ pc'["handler"] \in HandlerPcs
      /\ pc'["handler"] \in Putting <=> pc["handler"] \in Putting
      /\ pc'["handler"] = "h_wake" => pc["handler"] = "h_wake"
      /\ pc'["handler"] \in Fetched => pc["handler"] \in Fetched
      /\ pc["handler"] = "h_idle" => pc'["handler"] = "h_idle"
  BY DEF HandlerPcs, Putting, Fetched
<1>4. QED
  BY <1>1, <1>2, <1>3, MoveOnly

LEMMA HandlerFullStep == ASSUME IInv, HandlerFull PROVE IInv'
<1>1. /\ UNCHANGED <<state, rcv_nxt, rcv_wnd, acked, rcv_ofo_buf, ring, cur, out>>
      /\ UNCHANGED wait_recv
      /\ pc["handler"] = "h_full"
      /\ Goto("handler", IF RingFull THEN "h_full_sleep" ELSE "h_seq")
  BY DEF HandlerFull
<1>2. /\ pc' \in [Threads -> ReaderPcs \cup HandlerPcs]
      /\ pc'["handler"] = IF RingFull THEN "h_full_sleep" ELSE "h_seq"
      /\ pc'["reader"] = pc["reader"]
  BY <1>1, GotoEffect DEF IInv, TypeOK, HandlerPcs, Threads
<1>3. wait_recv' \in WaitType(Threads)
  BY <1>1 DEF IInv, TypeOK
<1>4. pc["handler"] \in Fetched /\ pc'["handler"] \in Fetched \ {"h_full"}
  BY <1>1, <1>2 DEF Fetched
<1>5. pc'["handler"] # "h_write"
  BY <1>2
<1>6. QED
  BY <1>1, <1>2, <1>3, <1>4, <1>5, HandlerMove

LEMMA HandlerFullSleepStep == ASSUME IInv, HandlerFullSleep PROVE IInv'
<1>1. /\ UNCHANGED <<state, rcv_nxt, rcv_wnd, acked, rcv_ofo_buf, ring, cur, out>>
      /\ pc["handler"] = "h_full_sleep"
      /\ SleepOnRecv("handler", "h_full")
  BY DEF HandlerFullSleep
<1>2. /\ wait_recv' \in WaitType(Threads)
      /\ pc' \in [Threads -> ReaderPcs \cup HandlerPcs]
      /\ pc'["handler"] \in {"h_full_sleep", "h_full"}
      /\ pc'["reader"] = pc["reader"]
  BY <1>1, SleepEffect DEF Threads, HandlerPcs
<1>3. /\ pc["handler"] \in Fetched /\ pc'["handler"] \in Fetched
      /\ pc'["handler"] # "h_write"
  BY <1>1, <1>2 DEF Fetched
<1>4. QED
  BY <1>1, <1>2, <1>3, HandlerMove

LEMMA HandlerDoneStep == ASSUME IInv, HandlerDone PROVE IInv'
<1>1. /\ UNCHANGED <<state, rcv_nxt, rcv_wnd, acked, rcv_ofo_buf, ring, cur, out>>
      /\ UNCHANGED wait_recv
      /\ pc["handler"] = "h_put"
      /\ Goto("handler", "h_idle")
  BY DEF HandlerDone
<1>2. /\ pc' \in [Threads -> ReaderPcs \cup HandlerPcs]
      /\ pc'["handler"] = "h_idle"
      /\ pc'["reader"] = pc["reader"]
  BY <1>1, GotoEffect DEF IInv, TypeOK, HandlerPcs, Threads
<1>3. wait_recv' \in WaitType(Threads)
  BY <1>1 DEF IInv, TypeOK
<1>4. QED
  BY <1>1, <1>2, <1>3, HandlerMove

(* While it puts an entry, the head of the list is that entry. *)
LEMMA HeadEntry ==
    ASSUME IInv, rcv_ofo_buf # <<>>
    PROVE  /\ Head(rcv_ofo_buf) \in Segments
           /\ Head(rcv_ofo_buf).seq \in Nat
           /\ Head(rcv_ofo_buf).len \in Nat \ {0}
           /\ Head(rcv_ofo_buf).seq + Head(rcv_ofo_buf).len <= Total
           /\ Tail(rcv_ofo_buf) \in Seq(Segments)
<1>1. Head(rcv_ofo_buf) \in Segments /\ Tail(rcv_ofo_buf) \in Seq(Segments)
  BY DEF IInv, TypeOK
<1>2. QED
  BY <1>1, ConstantsAssumption

LEMMA HandlerRoomStep == ASSUME IInv, HandlerRoom PROVE IInv'
<1>1. /\ UNCHANGED <<state, rcv_nxt, rcv_wnd, acked, rcv_ofo_buf, ring, cur, out>>
      /\ UNCHANGED wait_recv
      /\ pc["handler"] = "h_room"
      /\ Goto("handler", IF Head(rcv_ofo_buf).len > RingFree
                         THEN "h_room_sleep" ELSE "h_write")
  BY DEF HandlerRoom
<1>2. /\ pc' \in [Threads -> ReaderPcs \cup HandlerPcs]
      /\ pc'["handler"] = IF Head(rcv_ofo_buf).len > RingFree
                          THEN "h_room_sleep" ELSE "h_write"
      /\ pc'["reader"] = pc["reader"]
  BY <1>1, GotoEffect DEF IInv, TypeOK, HandlerPcs, Threads
<1>3. wait_recv' \in WaitType(Threads)
  BY <1>1 DEF IInv, TypeOK
<1>4. pc["handler"] \in Putting /\ pc'["handler"] \in Putting
  BY <1>1, <1>2 DEF Putting
<1>5. rcv_ofo_buf # <<>>
  BY <1>4 DEF IInv, HandlerInv
<1>6. Head(rcv_ofo_buf).len \in Nat /\ RingFree \in Nat
  BY <1>5, HeadEntry, RingUsedType, CapacityType DEF IInv, TypeOK
<1>7. pc'["handler"] = "h_write" => Head(rcv_ofo_buf).len <= RingFree
  BY <1>2, <1>6
<1>8. QED
  BY <1>1, <1>2, <1>3, <1>4, <1>7, HandlerMove

LEMMA HandlerRoomSleepStep == ASSUME IInv, HandlerRoomSleep PROVE IInv'
<1>1. /\ UNCHANGED <<state, rcv_nxt, rcv_wnd, acked, rcv_ofo_buf, ring, cur, out>>
      /\ pc["handler"] = "h_room_sleep"
      /\ SleepOnRecv("handler", "h_room")
  BY DEF HandlerRoomSleep
<1>2. /\ wait_recv' \in WaitType(Threads)
      /\ pc' \in [Threads -> ReaderPcs \cup HandlerPcs]
      /\ pc'["handler"] \in {"h_room_sleep", "h_room"}
      /\ pc'["reader"] = pc["reader"]
  BY <1>1, SleepEffect DEF Threads, HandlerPcs
<1>3. /\ pc["handler"] \in Putting /\ pc'["handler"] \in Putting
      /\ pc'["handler"] # "h_write"
  BY <1>1, <1>2 DEF Putting
<1>4. QED
  BY <1>1, <1>2, <1>3, HandlerMove
-----------------------------------------------------------------------------
(* A handler step that leaves the ring buffer alone keeps what the reader   *)
(* has tested.                                                              *)
LEMMA ReaderTestKept ==
    ASSUME IInv, UNCHANGED <<ring, out>>, pc'["reader"] = pc["reader"],
           pc'["handler"] # "h_write"
    PROVE  TestsStillHold'
BY RingQuiet DEF IInv, TestsStillHold

LEMMA HandlerOldStep == ASSUME IInv, HandlerOld PROVE IInv'
<1>1. /\ UNCHANGED <<state, rcv_nxt, rcv_wnd, rcv_ofo_buf, wait_recv>>
      /\ UNCHANGED <<ring, out>>
      /\ pc["handler"] = "h_seq"
      /\ acked' = Most(acked, rcv_nxt)
      /\ cur' = NoSegment
      /\ Goto("handler", "h_idle")
  BY DEF HandlerOld, SendAck
<1>2. /\ pc' \in [Threads -> ReaderPcs \cup HandlerPcs]
      /\ pc'["handler"] = "h_idle"
      /\ pc'["reader"] = pc["reader"]
  BY <1>1, GotoEffect DEF IInv, TypeOK, HandlerPcs, Threads
<1>3. acked' \in Nat /\ acked' <= rcv_nxt
  BY <1>1 DEF IInv, TypeOK, HandlerInv, Most
<1>4. TypeOK'
  BY <1>1, <1>2, <1>3, RingQuiet DEF IInv, TypeOK, HandlerPcs
<1>5. HandlerInv'
  BY <1>1, <1>2, <1>3, RingQuiet DEF IInv, HandlerInv, Putting
<1>6. TestsStillHold'
  BY <1>1, <1>2, ReaderTestKept
<1>7. WindowHonest'
  BY <1>1 DEF IInv, WindowHonest
<1>8. QED
  BY <1>1, <1>4, <1>5, <1>6, <1>7, RingQuiet DEF IInv

(* add_recv_ofo_buf_entry returns a list of segments that is not empty. *)
LEMMA InsertAtType ==
    ASSUME NEW S, NEW q \in Seq(S), NEW i \in 1..Len(q) + 1, NEW s \in S
    PROVE  InsertAt(q, i, s) \in Seq(S) /\ InsertAt(q, i, s) # <<>>
<1>1. Len(q) \in Nat
  OBVIOUS
<1> DEFINE r == InsertAt(q, i, s)
<1>2. \A k \in 1..Len(q) + 1 : r[k] \in S
  <2> SUFFICES ASSUME NEW k \in 1..Len(q) + 1 PROVE r[k] \in S
    OBVIOUS
  <2>1. r[k] = IF k < i THEN q[k] ELSE IF k = i THEN s ELSE q[k - 1]
    BY DEF InsertAt
  <2>2. CASE k < i
    <3>1. k \in 1..Len(q)
      BY <1>1, <2>2
    <3>2. q[k] \in S
      BY <3>1
    <3>3. QED
      BY <2>1, <2>2, <3>2
  <2>3. CASE k = i
    BY <2>1, <2>3
  <2>4. CASE ~(k < i) /\ k # i
    <3>1. k - 1 \in 1..Len(q)
      BY <1>1, <2>4
    <3>2. q[k - 1] \in S
      BY <3>1
    <3>3. QED
      BY <2>1, <2>4, <3>2
  <2>5. QED
    BY <2>2, <2>3, <2>4
<1>3. r \in [1..Len(q) + 1 -> S]
  BY <1>2 DEF InsertAt
<1> HIDE DEF r
<1>4. r \in Seq(S) /\ Len(r) = Len(q) + 1
  BY <1>1, <1>3
<1>5. QED
  BY <1>1, <1>4, EmptySeq DEF r

LEMMA HandlerNewStep == ASSUME IInv, HandlerNew PROVE IInv'
<1>1. /\ UNCHANGED <<state, rcv_nxt, rcv_wnd, acked, wait_recv>>
      /\ UNCHANGED <<ring, out>>
      /\ pc["handler"] = "h_seq"
      /\ cur' = NoSegment
      /\ Goto("handler", "h_put")
  BY DEF HandlerNew
<1>2. /\ pc' \in [Threads -> ReaderPcs \cup HandlerPcs]
      /\ pc'["handler"] = "h_put"
      /\ pc'["reader"] = pc["reader"]
  BY <1>1, GotoEffect DEF IInv, TypeOK, HandlerPcs, Threads
<1>3. rcv_ofo_buf' \in Seq(Segments)
  <2>1. PICK i \in 1..Len(rcv_ofo_buf) + 1 :
             rcv_ofo_buf' = InsertAt(rcv_ofo_buf, i, cur)
    BY DEF HandlerNew
  <2>2. cur \in Segments /\ rcv_ofo_buf \in Seq(Segments)
    BY <1>1 DEF IInv, TypeOK, HandlerInv
  <2>3. QED
    BY <2>1, <2>2, InsertAtType
<1>4. TypeOK'
  BY <1>1, <1>2, <1>3, RingQuiet DEF IInv, TypeOK, HandlerPcs
<1>5. HandlerInv'
  BY <1>1, <1>2, RingQuiet DEF IInv, HandlerInv, Putting
<1>6. TestsStillHold'
  BY <1>1, <1>2, ReaderTestKept
<1>7. WindowHonest'
  BY <1>1 DEF IInv, WindowHonest
<1>8. QED
  BY <1>1, <1>4, <1>5, <1>6, <1>7, RingQuiet DEF IInv

LEMMA HandlerTakeStep == ASSUME IInv, HandlerTake PROVE IInv'
<1> DEFINE e == Head(rcv_ofo_buf)
<1>1. /\ UNCHANGED <<state, rcv_ofo_buf, wait_recv, cur>>
      /\ UNCHANGED <<ring, out>>
      /\ pc["handler"] = "h_put"
      /\ rcv_ofo_buf # <<>>
      /\ rcv_nxt = e.seq
      /\ rcv_nxt' = e.seq + e.len
      /\ rcv_wnd' = Most(RingFree - e.len, 0)
      /\ acked' = Most(acked, e.seq + e.len)
      /\ Goto("handler", "h_room")
  BY DEF HandlerTake, SendAck, Contiguous, NewWindow
<1>2. /\ pc' \in [Threads -> ReaderPcs \cup HandlerPcs]
      /\ pc'["handler"] = "h_room"
      /\ pc'["reader"] = pc["reader"]
  BY <1>1, GotoEffect DEF IInv, TypeOK, HandlerPcs, Threads
<1>3. /\ e.seq \in Nat /\ e.len \in Nat \ {0} /\ e.seq + e.len <= Total
      /\ Total \in Nat
  BY <1>1, HeadEntry, ConstantsAssumption
<1>4. /\ RingFree \in 0..Capacity /\ RingFree = Capacity - RingUsed
      /\ RingUsed \in 0..Capacity
      /\ Len(out) \in Nat
  BY RingUsedType DEF IInv, TypeOK
<1>5. /\ acked \in Nat /\ acked <= rcv_nxt /\ rcv_nxt \in Nat
      /\ Stored = Least(rcv_nxt, Total)
  BY <1>1 DEF IInv, TypeOK, HandlerInv, Putting
<1>6. e' = e
  BY <1>1
<1> HIDE DEF e
<1>7. /\ acked' \in Nat /\ acked' <= rcv_nxt' /\ rcv_nxt' \in 0..Total + 1
      /\ rcv_nxt' <= Total
      /\ Stored = e.seq
  BY <1>1, <1>3, <1>5 DEF Most, Least
<1>8. rcv_wnd' \in 0..Capacity
  BY <1>1, <1>3, <1>4, CapacityType DEF Most
<1>9. TypeOK'
  <2>1. rcv_nxt' \in Nat
    BY <1>3, <1>7
  <2>2. QED
    BY <1>1, <1>2, <1>7, <1>8, <2>1, RingQuiet DEF IInv, TypeOK, HandlerPcs
<1>10. HandlerInv'
  <2>1. ~(rcv_nxt' > Total)
    BY <1>3, <1>7
  <2>2. rcv_ofo_buf' # <<>>
    BY <1>1
  <2>3. e.seq + e.len = rcv_nxt' /\ Stored' = e.seq
    BY <1>1, <1>7, RingQuiet
  <2>4. QED
    BY <1>2, <1>6, <1>7, <2>1, <2>2, <2>3 DEF HandlerInv, Putting, e
<1>11. TestsStillHold'
  BY <1>1, <1>2, ReaderTestKept
<1>12. WindowHonest'
  <2> SUFFICES ASSUME rcv_wnd' > 0 PROVE rcv_nxt' + rcv_wnd' <= Len(out') + Capacity
    BY DEF WindowHonest
  <2>1. rcv_wnd' = RingFree - e.len
    BY <1>1, <1>3, <1>4, CapacityType DEF Most
  <2>2. Len(out) + RingUsed = e.seq
    BY <1>7 DEF Stored
  <2>3. out' = out
    BY <1>1
  <2>4. QED
    BY <1>1, <1>3, <1>4, <2>1, <2>2, <2>3, CapacityType
<1>13. QED
  BY <1>1, <1>9, <1>10, <1>11, <1>12, RingQuiet DEF IInv

LEMMA HandlerWriteStep == ASSUME IInv, HandlerWrite PROVE IInv'
<1> DEFINE e == Head(rcv_ofo_buf)
<1>1. /\ UNCHANGED <<state, rcv_nxt, rcv_wnd, acked, rcv_ofo_buf, wait_recv>>
      /\ UNCHANGED <<cur, out>>
      /\ pc["handler"] = "h_write"
      /\ WriteRing(e)
      /\ Goto("handler", "h_wake")
  BY DEF HandlerWrite
<1>2. /\ pc' \in [Threads -> ReaderPcs \cup HandlerPcs]
      /\ pc'["handler"] = "h_wake"
      /\ pc'["reader"] = pc["reader"]
  BY <1>1, GotoEffect DEF IInv, TypeOK, HandlerPcs, Threads
<1>3. /\ rcv_ofo_buf # <<>>
      /\ e.seq + e.len = rcv_nxt /\ Stored = e.seq
      /\ e.len <= RingFree
  BY <1>1 DEF IInv, HandlerInv, TestsStillHold, Putting
<1>4. /\ e \in Segments /\ e.seq \in Nat /\ e.len \in Nat \ {0}
      /\ e.seq + e.len <= Total /\ Total \in Nat
  BY <1>3, HeadEntry, ConstantsAssumption
<1> HIDE DEF e
<1>5. /\ tail' \in 0..Capacity /\ head' = head
      /\ buf' \in [0..Capacity -> Int]
      /\ RingUsed' = RingUsed + e.len
      /\ \A k \in 0..RingUsed' - 1 : buf'[Wrap(head + k)] = Len(out) + k
  BY <1>1, <1>3, <1>4, WriteRingEffect
<1>6. RingUsed \in Nat /\ Len(out) \in Nat
  BY RingUsedType, CapacityType DEF IInv, TypeOK
<1>7. Stored' = rcv_nxt
  <2>1. Stored' = Len(out) + RingUsed'
    BY <1>1 DEF Stored
  <2>2. e.seq = Len(out) + RingUsed
    BY <1>3 DEF Stored
  <2>3. QED
    BY <1>3, <1>4, <1>5, <1>6, <2>1, <2>2
<1>8. TypeOK'
  BY <1>1, <1>2, <1>5 DEF IInv, TypeOK, HandlerPcs
<1>9. InOrder'
  BY <1>1 DEF IInv, InOrder
<1>10. RingContent'
  BY <1>1, <1>5 DEF RingContent, RingSize, Wrap
<1>11. HandlerInv'
  <2>1. rcv_nxt = Least(rcv_nxt, Total)
    BY <1>3, <1>4 DEF Least
  <2>2. ~(rcv_nxt > Total)
    BY <1>3, <1>4
  <2>3. QED
    BY <1>1, <1>2, <1>3, <1>7, <2>1, <2>2 DEF IInv, HandlerInv, Putting
<1>12. TestsStillHold'
  <2>1. ~RingEmpty'
    BY <1>4, <1>5, <1>6 DEF RingEmpty
  <2>2. QED
    BY <1>2, <2>1 DEF TestsStillHold
<1>13. WindowHonest'
  BY <1>1 DEF IInv, WindowHonest
<1>14. QED
  BY <1>8, <1>9, <1>10, <1>11, <1>12, <1>13 DEF IInv

LEMMA HandlerWakeStep == ASSUME IInv, HandlerWake PROVE IInv'
<1>1. /\ UNCHANGED <<state, rcv_nxt, rcv_wnd, acked, cur>>
      /\ UNCHANGED <<ring, out>>
      /\ pc["handler"] = "h_wake"
      /\ wait_recv' \in WakeUp(wait_recv)
      /\ rcv_ofo_buf' = Tail(rcv_ofo_buf)
      /\ Goto("handler", "h_put")
  BY DEF HandlerWake
<1>2. /\ pc' \in [Threads -> ReaderPcs \cup HandlerPcs]
      /\ pc'["handler"] = "h_put"
      /\ pc'["reader"] = pc["reader"]
  BY <1>1, GotoEffect DEF IInv, TypeOK, HandlerPcs, Threads
<1>3. wait_recv' \in WaitType(Threads)
  BY <1>1, WaitFunctionsType DEF IInv, TypeOK, Threads
<1>4. rcv_ofo_buf' \in Seq(Segments)
  <2>1. rcv_ofo_buf # <<>>
    BY <1>1 DEF IInv, HandlerInv
  <2>2. QED
    BY <1>1, <2>1, HeadEntry
<1>5. TypeOK'
  BY <1>1, <1>2, <1>3, <1>4, RingQuiet DEF IInv, TypeOK, HandlerPcs
<1>6. HandlerInv'
  BY <1>1, <1>2, RingQuiet DEF IInv, HandlerInv, Putting
<1>7. TestsStillHold'
  BY <1>1, <1>2, ReaderTestKept
<1>8. WindowHonest'
  BY <1>1 DEF IInv, WindowHonest
<1>9. QED
  BY <1>1, <1>5, <1>6, <1>7, <1>8, RingQuiet DEF IInv
-----------------------------------------------------------------------------
(* Packets that arrive, and the timer. *)
LEMMA RecvDataStep ==
    ASSUME IInv, NEW s \in Segments, RecvData(s) PROVE IInv'
<1>1. /\ UNCHANGED <<state, rcv_nxt, rcv_wnd, acked, rcv_ofo_buf, wait_recv>>
      /\ UNCHANGED <<ring, out>>
      /\ pc["handler"] = "h_idle"
      /\ state = "ESTABLISHED"
      /\ cur' = s
      /\ Goto("handler", "h_full")
  BY DEF RecvData
<1>2. /\ pc' \in [Threads -> ReaderPcs \cup HandlerPcs]
      /\ pc'["handler"] = "h_full"
      /\ pc'["reader"] = pc["reader"]
  BY <1>1, GotoEffect DEF IInv, TypeOK, HandlerPcs, Threads
<1>3. TypeOK'
  BY <1>1, <1>2, RingQuiet DEF IInv, TypeOK, HandlerPcs
<1>4. HandlerInv'
  BY <1>1, <1>2, RingQuiet DEF IInv, HandlerInv, Putting
<1>5. TestsStillHold'
  BY <1>1, <1>2, ReaderTestKept
<1>6. WindowHonest'
  BY <1>1 DEF IInv, WindowHonest
<1>7. QED
  BY <1>1, <1>3, <1>4, <1>5, <1>6, RingQuiet DEF IInv

LEMMA RecvFinStep == ASSUME IInv, RecvFin PROVE IInv'
<1>1. /\ UNCHANGED <<rcv_wnd, rcv_ofo_buf, wait_recv, pc, cur>>
      /\ UNCHANGED <<ring, out>>
      /\ pc["handler"] = "h_idle"
      /\ acked >= Total
      /\ state' = "CLOSE_WAIT"
      /\ rcv_nxt' = Total + 1
      /\ acked' = Most(acked, Total + 1)
  BY DEF RecvFin, SendAck
<1>2. /\ Total \in Nat /\ acked \in Nat /\ rcv_nxt \in 0..Total + 1
      /\ acked <= rcv_nxt
      /\ Stored = Least(rcv_nxt, Total)
  BY <1>1, ConstantsAssumption DEF IInv, TypeOK, HandlerInv, Putting
<1>3. /\ acked' \in Nat /\ rcv_nxt' \in Nat /\ acked' <= rcv_nxt'
      /\ rcv_nxt' > Total
      /\ Stored = Least(rcv_nxt', Total)
  BY <1>1, <1>2 DEF Most, Least
<1>4. TypeOK'
  BY <1>1, <1>3, RingQuiet DEF IInv, TypeOK
<1>5. HandlerInv'
  <2>1. rcv_nxt' \in 0..Total + 1
    BY <1>1, <1>2
  <2>2. QED
    BY <1>1, <1>3, <2>1, RingQuiet DEF HandlerInv, Putting
<1>6. TestsStillHold'
  BY <1>1, ReaderTestKept
<1>7. WindowHonest'
  BY <1>2, <1>3 DEF WindowHonest
<1>8. QED
  BY <1>1, <1>4, <1>5, <1>6, <1>7, RingQuiet DEF IInv

(* The timer and spurious wake-ups change only state and wait_recv. *)
LEMMA OutsideStep ==
    ASSUME IInv, UNCHANGED <<rcv_nxt, rcv_wnd, acked, rcv_ofo_buf, ring, pc,
                             cur, out>>,
           wait_recv' \in WaitType(Threads),
           state' \in {state, "CLOSED"}
    PROVE  IInv'
<1>1. /\ UNCHANGED <<rcv_nxt, rcv_wnd, acked, rcv_ofo_buf, pc, cur>>
      /\ UNCHANGED <<ring, out>>
  OBVIOUS
<1>2. TypeOK'
  BY <1>1, RingQuiet DEF IInv, TypeOK
<1>3. HandlerInv'
  BY <1>1, RingQuiet DEF IInv, HandlerInv
<1>4. TestsStillHold'
  BY <1>1, RingQuiet DEF IInv, TestsStillHold
<1>5. WindowHonest'
  BY <1>1 DEF IInv, WindowHonest
<1>6. QED
  BY <1>1, <1>2, <1>3, <1>4, <1>5, RingQuiet DEF IInv

LEMMA TimerStep ==
    ASSUME IInv, TimerWaitExit \/ TimerClose \/ SpuriousWakeup PROVE IInv'
<1>1. wait_recv \in WaitType(Threads)
  BY DEF IInv, TypeOK
<1>2. CASE TimerWaitExit
  <2>1. wait_recv' \in WaitType(Threads)
    BY <1>1, <1>2, WaitFunctionsType DEF TimerWaitExit, Threads
  <2>2. QED
    BY <1>2, <2>1, OutsideStep DEF TimerWaitExit
<1>3. CASE TimerClose
  BY <1>1, <1>3, OutsideStep DEF TimerClose
<1>4. CASE SpuriousWakeup
  <2>1. PICK t \in wait_recv.blocked : wait_recv' = Spurious(wait_recv, t)
    BY <1>4 DEF SpuriousWakeup
  <2>2. t \in Threads
    BY <1>1, <2>1 DEF WaitType
  <2>3. wait_recv' \in WaitType(Threads)
    BY <1>1, <2>1, <2>2, WaitFunctionsType
  <2>4. QED
    BY <1>4, <2>3, OutsideStep DEF SpuriousWakeup
<1>5. QED
  BY <1>2, <1>3, <1>4
-----------------------------------------------------------------------------
LEMMA InitIInv == Init => IInv
<1> SUFFICES ASSUME Init PROVE IInv
  OBVIOUS
<1>1. /\ head = 0 /\ tail = 0 /\ out = <<>> /\ Len(out) = 0
      /\ rcv_nxt = 0 /\ rcv_wnd = Capacity /\ acked = 0
      /\ rcv_ofo_buf = <<>> /\ state = "ESTABLISHED" /\ cur = NoSegment
  BY DEF Init
<1>2. /\ pc \in [Threads -> ReaderPcs \cup HandlerPcs]
      /\ pc["reader"] = "r_check" /\ pc["handler"] = "h_idle"
  BY DEF Init, Threads, ReaderPcs, HandlerPcs
<1>3. buf \in [0..Capacity -> Int] /\ 0 \in 0..Capacity
  BY CapacityType DEF Init, NoByte
<1>4. wait_recv \in WaitType(Threads)
  BY DEF Init, WaitInit, WaitType
<1>5. RingUsed = 0
  BY <1>1, <1>3, RingUsedType, UsedOfValue, CapacityType
<1>6. Stored = 0
  BY <1>1, <1>5 DEF Stored
<1>7. TypeOK
  <2>1. Capacity \in 0..Capacity
    BY CapacityType
  <2>2. rcv_ofo_buf \in Seq(Segments) /\ out \in Seq(Int)
    BY <1>1
  <2>3. QED
    BY <1>1, <1>2, <1>3, <1>4, <2>1, <2>2 DEF TypeOK, ReaderPcs, HandlerPcs
<1>8. InOrder /\ RingContent
  BY <1>1, <1>5 DEF InOrder, RingContent
<1>9. HandlerInv
  <2>1. Total \in Nat \ {0}
    BY ConstantsAssumption
  <2>2. 0 \in 0..Total + 1 /\ ~(0 > Total) /\ Least(0, Total) = 0
    BY <2>1 DEF Least
  <2>3. QED
    BY <1>1, <1>2, <1>6, <2>2 DEF HandlerInv, Putting
<1>10. TestsStillHold
  BY <1>2 DEF TestsStillHold
<1>11. WindowHonest
  BY <1>1, CapacityType DEF WindowHonest
<1>12. QED
  BY <1>7, <1>8, <1>9, <1>10, <1>11 DEF IInv

LEMMA NextIInv == IInv /\ [Next]_vars => IInv'
<1> SUFFICES ASSUME IInv, [Next]_vars PROVE IInv'
  OBVIOUS
<1>1. CASE Reader
  BY <1>1, ReaderCheckStep, ReaderSleepStep, ReaderReadStep, ReaderWakeStep
  DEF Reader
<1>2. CASE Handler
  BY <1>2, HandlerFullStep, HandlerFullSleepStep, HandlerOldStep,
     HandlerNewStep, HandlerTakeStep, HandlerDoneStep, HandlerRoomStep,
     HandlerRoomSleepStep, HandlerWriteStep, HandlerWakeStep
  DEF Handler
<1>3. CASE RecvFin
  BY <1>3, RecvFinStep
<1>4. CASE TimerWaitExit \/ TimerClose \/ SpuriousWakeup
  BY <1>4, TimerStep
<1>5. ASSUME NEW s \in Segments, RecvData(s) PROVE IInv'
  BY <1>5, RecvDataStep
<1>6. CASE UNCHANGED vars
  <2>1. UNCHANGED <<state, rcv_nxt, rcv_wnd, acked, rcv_ofo_buf, ring, pc,
                    cur, out, wait_recv>>
    BY <1>6 DEF vars, ring
  <2>2. QED
    BY <2>1, OutsideStep DEF IInv, TypeOK
<1>7. QED
  BY <1>1, <1>2, <1>3, <1>4, <1>5, <1>6 DEF Next

(* The inductive invariant holds in every reachable state. *)
THEOREM ReceiveInvariant == Spec => []IInv
<1>1. Init => IInv
  BY InitIInv
<1>2. IInv /\ [Next]_vars => IInv'
  BY NextIInv
<1>3. QED
  BY <1>1, <1>2, PTL DEF Spec

(* Every variable keeps its type. *)
THEOREM TypeCorrect == Spec => []TypeOK
<1>1. IInv => TypeOK
  BY DEF IInv
<1>2. QED
  BY <1>1, ReceiveInvariant, PTL

(* tcp_sock_read returns the bytes of the stream, in order. *)
THEOREM ReadsInOrder == Spec => []InOrder
<1>1. IInv => InOrder
  BY DEF IInv
<1>2. QED
  BY <1>1, ReceiveInvariant, PTL

(* What was tested in one step still holds in the step that relies on it:   *)
(* write_ring_buffer never overruns and tcp_sock_read never returns 0.      *)
THEOREM TestsAreStable == Spec => []TestsStillHold
<1>1. IInv => TestsStillHold
  BY DEF IInv
<1>2. QED
  BY <1>1, ReceiveInvariant, PTL

(* An acknowledged byte is never lost on its way to the application. *)
THEOREM AcknowledgedIsKept == Spec => []AckedIsKept
<1>1. IInv => AckedIsKept
  <2> SUFFICES ASSUME IInv PROVE AckedIsKept
    OBVIOUS
  <2>1. /\ acked \in Nat /\ Total \in Nat /\ rcv_nxt \in Nat
        /\ acked <= rcv_nxt
        /\ Len(out) \in Nat
    BY ConstantsAssumption DEF IInv, TypeOK, HandlerInv
  <2>2. Stored \in Nat
    BY <2>1, RingUsedType, CapacityType DEF IInv, TypeOK, Stored
  <2>3. CASE pc["handler"] \in Putting
    <3>1. rcv_ofo_buf # <<>>
      BY <2>3 DEF IInv, HandlerInv
    <3>2. /\ Head(rcv_ofo_buf).seq + Head(rcv_ofo_buf).len = rcv_nxt
          /\ Stored = Head(rcv_ofo_buf).seq
      BY <2>3 DEF IInv, HandlerInv
    <3>3. Stored + InHand = rcv_nxt
      BY <2>3, <3>2 DEF InHand
    <3>4. QED
      BY <2>1, <3>3 DEF AckedIsKept, Least
  <2>4. CASE pc["handler"] \notin Putting
    <3>1. Stored = Least(rcv_nxt, Total) /\ InHand = 0
      BY <2>4 DEF IInv, HandlerInv, InHand
    <3>2. QED
      BY <2>1, <2>2, <3>1 DEF AckedIsKept, Least
  <2>5. QED
    BY <2>3, <2>4
<1>2. QED
  BY <1>1, ReceiveInvariant, PTL

(* The window last computed never promises room the ring buffer has not got. *)
THEOREM WindowIsHonest == Spec => []WindowHonest
<1>1. IInv => WindowHonest
  BY DEF IInv
<1>2. QED
  BY <1>1, ReceiveInvariant, PTL

(* Moving the left edge up and shrinking the window by as much keeps the    *)
(* right edge (tcp_sock.c:540-541).                                         *)
LEMMA ShiftedEdge ==
  ASSUME NEW a \in Int, NEW b \in Int, NEW c \in Int, NEW l \in Int,
         NEW x \in Int, NEW y \in Int,
         x = a + l, y >= c - l, a + b <= a + c
  PROVE  x + y >= a + b
  OBVIOUS

(* The right edge of the window never moves back. *)
THEOREM EdgeIsMonotone == Spec => EdgeNeverShrinks
<1>1. IInv /\ [Next]_vars => [rcv_nxt' + rcv_wnd' >= rcv_nxt + rcv_wnd]_vars
  <2> SUFFICES ASSUME IInv, Next
               PROVE  rcv_nxt' + rcv_wnd' >= rcv_nxt + rcv_wnd
    OBVIOUS
  <2>1. rcv_nxt \in Nat /\ rcv_wnd \in Nat /\ Total \in Nat
    BY ConstantsAssumption, CapacityType DEF IInv, TypeOK
  <2>2. CASE HandlerTake
    <3> DEFINE e == Head(rcv_ofo_buf)
    <3>1. /\ rcv_ofo_buf # <<>> /\ rcv_nxt = e.seq
          /\ rcv_nxt' = rcv_nxt + e.len
          /\ rcv_wnd' = Most(RingFree - e.len, 0)
          /\ pc["handler"] \notin Putting
      BY <2>2 DEF HandlerTake, Putting, Contiguous, NewWindow
    <3>2. e.seq \in Nat /\ e.len \in Nat /\ e.seq + e.len <= Total
      BY <3>1, HeadEntry
    <3>3. Stored = rcv_nxt
      BY <2>1, <3>1, <3>2 DEF IInv, HandlerInv, Least
    <3>4. /\ RingFree = Capacity - RingUsed /\ RingUsed \in Nat
          /\ RingFree \in Nat /\ Len(out) \in Nat
      BY RingUsedType, CapacityType DEF IInv, TypeOK
    <3>5. rcv_wnd > 0 => rcv_nxt + rcv_wnd <= Len(out) + Capacity
      BY <2>1, <3>1, <3>2 DEF IInv, WindowHonest
    <3>6. Len(out) + RingUsed = rcv_nxt
      BY <3>3 DEF Stored
    <3> HIDE DEF e
    <3>7. CASE rcv_wnd > 0
      <4>1. rcv_nxt + rcv_wnd <= rcv_nxt + RingFree
        BY <2>1, <3>4, <3>5, <3>6, <3>7, CapacityType
      <4>2. rcv_wnd' >= RingFree - e.len
        BY <3>1, <3>2, <3>4 DEF Most
      <4>3. rcv_wnd' \in Int
        BY <3>1, <3>2, <3>4 DEF Most
      <4>4. RingFree \in Int /\ rcv_nxt' = rcv_nxt + e.len
        BY <3>1, <3>4
      <4>5. QED
        BY <2>1, <3>2, <4>1, <4>2, <4>3, <4>4, ShiftedEdge
    <3>8. CASE rcv_wnd = 0
      <4>1. rcv_wnd' \in Int /\ rcv_wnd' >= 0
        BY <3>1, <3>2, <3>4 DEF Most
      <4>2. QED
        BY <2>1, <3>1, <3>2, <3>8, <4>1
    <3>9. QED
      BY <2>1, <3>7, <3>8
  <2>3. CASE RecvFin
    BY <2>1, <2>3 DEF RecvFin, IInv, HandlerInv
  <2>4. CASE UNCHANGED <<rcv_nxt, rcv_wnd>>
    BY <2>1, <2>4
  <2>5. QED
    BY <2>2, <2>3, <2>4
    DEF Next, Reader, ReaderCheck, ReaderSleep, ReaderRead, ReaderWake,
        Handler, HandlerFull, HandlerFullSleep, HandlerOld, HandlerNew,
        HandlerDone, HandlerRoom, HandlerRoomSleep, HandlerWrite,
        HandlerWake, RecvData, TimerWaitExit, TimerClose, SpuriousWakeup
<1>2. QED
  BY <1>1, ReceiveInvariant, PTL DEF Spec, EdgeNeverShrinks
-----------------------------------------------------------------------------
(* The whole receive path implements a bounded FIFO pipe. *)
THEOREM ImplementsByteStream == Spec => IsByteStream
<1>1. Init => Stream!Init
  <2> SUFFICES ASSUME Init PROVE Stream!Init
    OBVIOUS
  <2>1. head = 0 /\ tail = 0 /\ out = <<>> /\ Len(out) = 0
    BY DEF Init
  <2>2. 0 \in 0..Capacity
    BY CapacityType
  <2>3. RingUsed = 0
    BY <2>1, <2>2, RingUsedType, UsedOfValue, CapacityType
  <2>4. QED
    BY <2>1, <2>3 DEF Stream!Init, Stored
<1>2. IInv /\ [Next]_vars => [Stream!Next]_(Stream!vars)
  <2> SUFFICES ASSUME IInv, [Next]_vars
               PROVE  Stream!Next \/ UNCHANGED <<Stored, out>>
    BY DEF Stream!vars
  <2>1. /\ RingUsed \in 0..Capacity /\ RingFree = Capacity - RingUsed
        /\ Len(out) \in Nat /\ Total \in Nat /\ rcv_nxt \in Nat
    BY RingUsedType, ConstantsAssumption DEF IInv, TypeOK
  <2>2. CASE ReaderRead
    <3>1. RingUsed > 0
      BY <2>1, <2>2, CapacityType
      DEF ReaderRead, IInv, TestsStillHold, RingEmpty
    <3>2. PICK n \in 0..RingUsed :
               /\ n = Least(RingUsed, ReadMax)
               /\ RingUsed' = RingUsed - n
               /\ out' = out \o [i \in 1..n |-> Len(out) + i - 1]
               /\ Len(out') = Len(out) + n
      BY <2>2, ReadRingEffect DEF ReaderRead
    <3>3. n > 0 /\ n \in Nat
      BY <2>1, <3>1, <3>2, CapacityType, ConstantsAssumption DEF Least
    <3>4. Stored <= Total
      <4>1. CASE pc["handler"] \in Putting
        <5>1. Stored = Head(rcv_ofo_buf).seq
          BY <4>1 DEF IInv, HandlerInv
        <5>2. rcv_ofo_buf # <<>>
          BY <4>1 DEF IInv, HandlerInv
        <5>3. QED
          BY <2>1, <5>1, <5>2, HeadEntry
      <4>2. CASE pc["handler"] \notin Putting
        BY <2>1, <4>2 DEF IInv, HandlerInv, Least
      <4>3. QED
        BY <4>1, <4>2
    <3>5. Stored = Len(out) + RingUsed /\ Stored' = Len(out') + RingUsed'
      BY DEF Stored
    <3>6. Stored' = Stored
      BY <2>1, <3>2, <3>3, <3>5, CapacityType
    <3>7. n \in 1..Total /\ n <= Stored - Len(out)
      BY <2>1, <3>2, <3>3, <3>4, <3>5, CapacityType
    <3>8. QED
      BY <3>2, <3>6, <3>7 DEF Stream!Next, Stream!Deliver
  <2>3. CASE HandlerWrite
    <3> DEFINE e == Head(rcv_ofo_buf)
    <3>1. /\ pc["handler"] = "h_write" /\ WriteRing(e) /\ out' = out
      BY <2>3 DEF HandlerWrite
    <3>2. /\ rcv_ofo_buf # <<>> /\ Stored = e.seq /\ e.len <= RingFree
      BY <3>1 DEF IInv, HandlerInv, TestsStillHold, Putting
    <3>3. /\ e \in Segments /\ e.seq \in Nat /\ e.len \in Nat \ {0}
          /\ e.seq + e.len <= Total
      BY <3>2, HeadEntry
    <3> HIDE DEF e
    <3>4. RingUsed' = RingUsed + e.len
      BY <3>1, <3>2, <3>3, WriteRingEffect
    <3>5. /\ Stored = Len(out) + RingUsed /\ Stored' = Len(out) + RingUsed'
      BY <3>1 DEF Stored
    <3>6. /\ e.len \in 1..Total /\ Stored' = Stored + e.len
          /\ Stored + e.len <= Total
          /\ Stored + e.len <= Len(out) + Capacity
      BY <2>1, <3>2, <3>3, <3>4, <3>5, CapacityType
    <3>7. QED
      BY <3>1, <3>6 DEF Stream!Next, Stream!Store
  <2>4. CASE UNCHANGED <<ring, out>>
    BY <2>4, RingQuiet
  <2>5. QED
    BY <2>2, <2>3, <2>4
    DEF Next, Reader, ReaderCheck, ReaderSleep, ReaderWake,
        Handler, HandlerFull, HandlerFullSleep, HandlerOld, HandlerNew,
        HandlerTake, HandlerDone, HandlerRoom, HandlerRoomSleep,
        HandlerWake, RecvData, RecvFin, TimerWaitExit, TimerClose,
        SpuriousWakeup, vars, ring
<1>3. QED
  BY <1>1, <1>2, ReceiveInvariant, PTL DEF Spec, IsByteStream, Stream!Spec
=============================================================================
