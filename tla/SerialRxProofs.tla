--------------------------- MODULE SerialRxProofs ---------------------------
(* Proofs about SerialRx, for every size of the ring, of the read buffer   *)
(* and of the semaphore.                                                   *)
EXTENDS SerialRx, SequenceTheorems, TLAPS

(* Advancing an index keeps it in the ring and always moves it.            *)
LEMMA SuccInRing ==
  ASSUME NEW i \in Slots
  PROVE  Succ(i) \in Slots /\ Succ(i) # i
  BY SerialAssumption DEF Succ, Slots

(* Every variable stays within its type: the indices inside the ring, the  *)
(* chunk inside UART5DMA_RX_BUF.                                           *)
THEOREM TypeCorrect == Spec => []TypeOK
<1> USE SerialAssumption DEF TypeOK, PCs, ringVars
<1>1. Init => TypeOK
  BY DEF Init, Slots
<1>2. TypeOK /\ [Next]_vars => TypeOK'
  <2> SUFFICES ASSUME TypeOK, [Next]_vars PROVE TypeOK'
    OBVIOUS
  <2>1. CASE Open
    BY <2>1 DEF Open, OpenDevice, SetIndicate, StartThread
  <2>2. ASSUME NEW b \in Byte, StoreByte(b) PROVE TypeOK'
    BY <2>2, SuccInRing DEF StoreByte
  <2>3. CASE Indicate
    <3>1. CASE port = "hooked" /\ RxLength > 0
      <4>1. silent' = FALSE /\ Release
        BY <2>3, <3>1 DEF Indicate
      <4>2. CASE pc = "wait"
        BY <2>3, <4>1, <4>2 DEF Indicate, Release
      <4>3. CASE pc # "wait"
        <5>1. sem' = IF sem < SemMax THEN sem + 1 ELSE sem
          BY <4>1, <4>3 DEF Release
        <5>2. sem' \in 0 .. SemMax
          BY <5>1
        <5> QED
          BY <2>3, <4>1, <4>3, <5>2 DEF Indicate, Release
      <4> QED
        BY <4>2, <4>3
    <3>2. CASE ~(port = "hooked" /\ RxLength > 0)
      BY <2>3, <3>2 DEF Indicate
    <3> QED
      BY <3>1, <3>2
  <2>4. CASE TakeSem
    BY <2>4 DEF TakeSem
  <2>5. CASE PopByte
    <3>1. buffer[get_index] \in Byte
      OBVIOUS
    <3>2. chunk' \in Seq(Byte) /\ Len(chunk') = Len(chunk) + 1
      BY <2>5, <3>1 DEF PopByte
    <3>3. Len(chunk') <= MaxLen
      BY <2>5, <3>2 DEF PopByte
    <3> QED
      BY <2>5, <3>2, <3>3, SuccInRing DEF PopByte
  <2>6. CASE ReadReturns
    BY <2>6 DEF ReadReturns
  <2>7. CASE Parse
    BY <2>7 DEF Parse
  <2>8. CASE UNCHANGED vars
    BY <2>8 DEF vars
  <2> QED
    BY <2>1, <2>2, <2>3, <2>4, <2>5, <2>6, <2>7, <2>8 DEF Next, Isr, Reader
<1> QED
  BY <1>1, <1>2, PTL DEF Spec

(* The full flag is only ever up while the indices are one slot apart.     *)
FullInv == is_full => get_index = Succ(put_index)

LEMMA FullInvariant == Spec => []FullInv
<1> USE SerialAssumption DEF FullInv, ringVars
<1>1. Init => FullInv
  BY DEF Init
<1>2. TypeOK /\ FullInv /\ [Next]_vars => FullInv'
  <2> SUFFICES ASSUME TypeOK, FullInv, [Next]_vars PROVE FullInv'
    OBVIOUS
  <2>1. CASE Open
    BY <2>1 DEF Open, OpenDevice, SetIndicate, StartThread, Succ
  <2>2. ASSUME NEW b \in Byte, StoreByte(b) PROVE FullInv'
    <3>1. CASE put_index' = get_index
      BY <2>2, <3>1 DEF StoreByte, Succ
    <3>2. CASE put_index' # get_index
      BY <2>2, <3>2 DEF StoreByte
    <3> QED
      BY <3>1, <3>2
  <2>3. CASE Indicate
    BY <2>3 DEF Indicate, Succ
  <2>4. CASE TakeSem \/ ReadReturns \/ Parse
    BY <2>4 DEF TakeSem, ReadReturns, Parse, Succ
  <2>5. CASE PopByte
    BY <2>5 DEF PopByte, Succ
  <2>6. CASE UNCHANGED vars
    BY <2>6 DEF vars, Succ
  <2> QED
    BY <2>1, <2>2, <2>3, <2>4, <2>5, <2>6 DEF Next, Isr, Reader
<1> QED
  BY <1>1, <1>2, TypeCorrect, PTL DEF Spec

(* The flag never makes equal indices ambiguous (serial.c:284).            *)
THEOREM RingNeverAmbiguous == Spec => []NeverAmbiguous
<1>1. TypeOK /\ FullInv => NeverAmbiguous
  BY SuccInRing DEF TypeOK, FullInv, NeverAmbiguous
<1> QED
  BY <1>1, TypeCorrect, FullInvariant, PTL

(* A parked thread has no token left, and nothing indicated in the ring.   *)
WakeInv ==
  /\ NoLostWakeup
  /\ pc = "wait" => sem = 0

(* No indicated byte is left in the ring with the thread asleep, whatever  *)
(* the interleaving of the interrupt with rt_sem_take and rt_device_read.  *)
THEOREM WakeupNeverLost == Spec => []NoLostWakeup
<1> USE SerialAssumption DEF WakeInv, NoLostWakeup, ringVars
<1>1. Init => WakeInv
  BY DEF Init, RxLength
<1>2. TypeOK /\ NeverAmbiguous /\ WakeInv /\ [Next]_vars => WakeInv'
  <2> SUFFICES ASSUME TypeOK, NeverAmbiguous, WakeInv, [Next]_vars
               PROVE  WakeInv'
    OBVIOUS
  <2> USE DEF TypeOK
  <2>1. CASE Open
    BY <2>1 DEF Open, OpenDevice, SetIndicate, StartThread, RxLength
  <2>2. ASSUME NEW b \in Byte, StoreByte(b) PROVE WakeInv'
    BY <2>2 DEF StoreByte
  <2>3. CASE Indicate
    BY <2>3 DEF Indicate, Release, RxLength
  <2>4. CASE TakeSem
    BY <2>4 DEF TakeSem, RxLength
  <2>5. CASE PopByte
    BY <2>5 DEF PopByte
  <2>6. CASE ReadReturns
    <3>1. CASE chunk = << >>
      <4>1. Empty
        BY <2>6, <3>1 DEF ReadReturns
      <4>2. RxLength = 0
        BY <4>1 DEF Empty, RxLength, Slots
      <4> QED
        BY <2>6, <3>1, <4>2 DEF ReadReturns, RxLength
    <3>2. CASE chunk # << >>
      BY <2>6, <3>2 DEF ReadReturns, RxLength
    <3> QED
      BY <3>1, <3>2
  <2>7. CASE Parse
    BY <2>7 DEF Parse, RxLength
  <2>8. CASE UNCHANGED vars
    BY <2>8 DEF vars, RxLength
  <2> QED
    BY <2>1, <2>2, <2>3, <2>4, <2>5, <2>6, <2>7, <2>8 DEF Next, Isr, Reader
<1> QED
  BY <1>1, <1>2, TypeCorrect, RingNeverAmbiguous, PTL DEF Spec

-----------------------------------------------------------------------------
(* The port implements LossyFifo: the ring, its wrapping indices and its   *)
(* full flag behave as a queue that drops its oldest byte, for every size  *)
(* of the ring.                                                            *)

(* The ring as a sequence, as an operator of its contents and indices.     *)

RingLen(p, g) == IF p >= g THEN p - g ELSE BufSz - (g - p)
RingSlot(g, k) == IF g + k < BufSz THEN g + k ELSE g + k - BufSz
RingSeq(buf, p, g) == [k \in 1 .. RingLen(p, g) |-> buf[RingSlot(g, k - 1)]]

(* Sequences of one length that agree everywhere are equal.                *)
LEMMA SeqExtensional ==
  ASSUME NEW S, NEW s \in Seq(S), NEW t \in Seq(S), Len(s) = Len(t),
         \A k \in 1 .. Len(s) : s[k] = t[k]
  PROVE  s = t
<1>1. s \in [1 .. Len(s) -> S] /\ t \in [1 .. Len(s) -> S]
  BY LenProperties
<1> QED
  BY <1>1

LEMMA RingIsSeq ==
  ASSUME NEW buf \in [Slots -> Byte], NEW p \in Slots, NEW g \in Slots
  PROVE  /\ RingLen(p, g) \in 0 .. BufSz - 1
         /\ RingSeq(buf, p, g) \in Seq(Byte)
         /\ Len(RingSeq(buf, p, g)) = RingLen(p, g)
         /\ \A k \in 1 .. RingLen(p, g) :
               RingSeq(buf, p, g)[k] = buf[RingSlot(g, k - 1)]
<1> USE SerialAssumption DEF Slots
<1>1. RingLen(p, g) \in 0 .. BufSz - 1
  BY DEF RingLen
<1>2. \A k \in 1 .. RingLen(p, g) : RingSlot(g, k - 1) \in Slots
  BY <1>1 DEF RingSlot
<1>3. RingSeq(buf, p, g) \in [1 .. RingLen(p, g) -> Byte]
  BY <1>2 DEF RingSeq
<1>4. RingSeq(buf, p, g) \in Seq(Byte)
  BY <1>1, <1>3
<1>5. Len(RingSeq(buf, p, g)) = RingLen(p, g)
  BY <1>1, <1>3, <1>4, LenProperties
<1>6. \A k \in 1 .. RingLen(p, g) :
         RingSeq(buf, p, g)[k] = buf[RingSlot(g, k - 1)]
  BY DEF RingSeq
<1> QED
  BY <1>1, <1>4, <1>5, <1>6

(* A byte stored in a ring with room is appended: p is where it goes, q    *)
(* the place after it.                                                     *)
LEMMA StoreAppends ==
  ASSUME NEW buf \in [Slots -> Byte], NEW buf2 \in [Slots -> Byte],
         NEW p \in Slots, NEW q \in Slots, NEW g \in Slots, NEW b \in Byte,
         \A i \in Slots : i # p => buf2[i] = buf[i],
         buf2[p] = b,
         q = Succ(p), q # g
  PROVE  /\ RingLen(p, g) < BufSz - 1
         /\ RingSeq(buf2, q, g) = Append(RingSeq(buf, p, g), b)
<1> DEFINE s == RingSeq(buf, p, g)
           t == RingSeq(buf2, q, g)
           n == RingLen(p, g)
<1>1. /\ n \in 0 .. BufSz - 1 /\ s \in Seq(Byte) /\ Len(s) = n
      /\ \A k \in 1 .. n : s[k] = buf[RingSlot(g, k - 1)]
  BY RingIsSeq
<1>2. RingLen(q, g) = n + 1 /\ n < BufSz - 1
  BY SerialAssumption DEF RingLen, Succ, Slots
<1>3. /\ t \in Seq(Byte) /\ Len(t) = n + 1
      /\ \A k \in 1 .. n + 1 : t[k] = buf2[RingSlot(g, k - 1)]
  <2>1. /\ t \in Seq(Byte) /\ Len(t) = RingLen(q, g)
        /\ \A k \in 1 .. RingLen(q, g) : t[k] = buf2[RingSlot(g, k - 1)]
    BY RingIsSeq
  <2> HIDE DEF t, n
  <2> QED
    BY <2>1, <1>2
<1>4. \A k \in 1 .. n : RingSlot(g, k - 1) \in Slots /\ RingSlot(g, k - 1) # p
  BY SerialAssumption DEF RingLen, RingSlot, Slots
<1>5. RingSlot(g, n) = p
  BY SerialAssumption DEF RingLen, RingSlot, Slots
<1> HIDE DEF s, t, n
<1>6. \A k \in 1 .. n : t[k] = s[k]
  <2> TAKE k \in 1 .. n
  <2>1. k \in 1 .. n + 1
    BY <1>1
  <2>2. t[k] = buf2[RingSlot(g, k - 1)]
    BY <2>1, <1>3
  <2>3. buf2[RingSlot(g, k - 1)] = buf[RingSlot(g, k - 1)]
    BY <1>4
  <2> QED
    BY <2>2, <2>3, <1>1
<1>7. t[n + 1] = b
  <2>1. n + 1 \in 1 .. n + 1 /\ (n + 1) - 1 = n
    BY <1>1
  <2>2. t[n + 1] = buf2[RingSlot(g, (n + 1) - 1)]
    BY <2>1, <1>3
  <2> QED
    BY <2>1, <2>2, <1>5
<1>8. /\ Append(s, b) \in Seq(Byte) /\ Len(Append(s, b)) = n + 1
      /\ \A k \in 1 .. n : Append(s, b)[k] = s[k]
      /\ Append(s, b)[n + 1] = b
  BY <1>1, AppendProperties
<1>9. \A k \in 1 .. n + 1 : t[k] = Append(s, b)[k]
  BY <1>1, <1>6, <1>7, <1>8
<1>10. t = Append(s, b)
  BY <1>3, <1>8, <1>9, SeqExtensional
<1> QED
  BY <1>2, <1>10 DEF s, t, n

(* A byte read from the ring is the head; the tail stays.                  *)
LEMMA PopTakesHead ==
  ASSUME NEW buf \in [Slots -> Byte], NEW p \in Slots, NEW g \in Slots,
         NEW h \in Slots, h = Succ(g), p # g
  PROVE  /\ RingSeq(buf, p, g) # << >>
         /\ Head(RingSeq(buf, p, g)) = buf[g]
         /\ RingSeq(buf, p, h) = Tail(RingSeq(buf, p, g))
<1> DEFINE s == RingSeq(buf, p, g)
           t == RingSeq(buf, p, h)
           n == RingLen(p, g)
<1>1. /\ n \in 0 .. BufSz - 1 /\ s \in Seq(Byte) /\ Len(s) = n
      /\ \A k \in 1 .. n : s[k] = buf[RingSlot(g, k - 1)]
  BY RingIsSeq
<1>2. n > 0 /\ RingLen(p, h) = n - 1
  BY SerialAssumption DEF RingLen, Succ, Slots
<1>3. /\ t \in Seq(Byte) /\ Len(t) = n - 1
      /\ \A k \in 1 .. n - 1 : t[k] = buf[RingSlot(h, k - 1)]
  <2>1. /\ t \in Seq(Byte) /\ Len(t) = RingLen(p, h)
        /\ \A k \in 1 .. RingLen(p, h) : t[k] = buf[RingSlot(h, k - 1)]
    BY RingIsSeq
  <2> HIDE DEF t, n
  <2> QED
    BY <2>1, <1>2
<1>4. \A k \in 1 .. n - 1 : RingSlot(h, k - 1) = RingSlot(g, k)
  BY SerialAssumption DEF RingLen, RingSlot, Succ, Slots
<1>5. RingSlot(g, 0) = g
  BY SerialAssumption DEF RingSlot, Slots
<1>6. \A k \in 1 .. n - 1 : t[k] = s[k + 1]
  <2> TAKE k \in 1 .. n - 1
  <2>1. t[k] = buf[RingSlot(g, k)]
    BY <1>3, <1>4
  <2>2. k + 1 \in 1 .. n /\ (k + 1) - 1 = k
    BY <1>1
  <2>3. s[k + 1] = buf[RingSlot(g, (k + 1) - 1)]
    BY <1>1, <2>2
  <2> QED
    BY <2>1, <2>2, <2>3
<1>7. s[1] = buf[g]
  <2>1. s[1] = buf[RingSlot(g, 1 - 1)]
    BY <1>1, <1>2
  <2> QED
    BY <2>1, <1>5
<1> HIDE DEF s, t, n
<1>8. s # << >> /\ Head(s) = s[1]
  BY <1>1, <1>2
<1>9. /\ Tail(s) \in Seq(Byte) /\ Len(Tail(s)) = n - 1
      /\ \A k \in 1 .. n - 1 : Tail(s)[k] = s[k + 1]
  BY <1>1, <1>8, HeadTailProperties
<1>10. t = Tail(s)
  BY <1>3, <1>6, <1>9, SeqExtensional
<1> QED
  BY <1>7, <1>8, <1>10 DEF s, t, n

-----------------------------------------------------------------------------
(* The refinement mapping is the ring read as a sequence.                  *)
LEMMA ContentsIsRing ==
  /\ Contents = RingSeq(buffer, put_index, get_index)
  /\ Contents' = RingSeq(buffer', put_index', get_index')
BY DEF Contents, RxLength, SlotAt, RingSeq, RingLen, RingSlot

LEMMA InitRefines == Init => Fifo!Init
<1> SUFFICES ASSUME Init PROVE Fifo!Init
  OBVIOUS
<1>1. /\ buffer \in [Slots -> Byte] /\ put_index \in Slots
      /\ get_index \in Slots /\ RingLen(put_index, get_index) = 0
  BY SerialAssumption DEF Init, Slots, RingLen
<1>2. Contents \in Seq(Byte) /\ Len(Contents) = 0
  BY <1>1, RingIsSeq, ContentsIsRing
<1> QED
  BY <1>2 DEF Init, Fifo!Init

(* One turn of the interrupt loop is a Receive, full ring or not.          *)
LEMMA StoreRefines ==
  ASSUME TypeOK, NEW b \in Byte, StoreByte(b)
  PROVE  Fifo!Receive(b)
<1>1. /\ buffer \in [Slots -> Byte] /\ buffer' \in [Slots -> Byte]
      /\ put_index \in Slots /\ get_index \in Slots /\ put_index' \in Slots
      /\ put_index' = Succ(put_index)
      /\ \A i \in Slots : i # put_index => buffer'[i] = buffer[i]
      /\ buffer'[put_index] = b
  BY SuccInRing DEF TypeOK, StoreByte
<1>2. Len(Contents) = RingLen(put_index, get_index)
  BY <1>1, RingIsSeq, ContentsIsRing
<1>3. CASE put_index' # get_index
  <2>1. get_index' = get_index
    BY <1>3 DEF StoreByte
  <2>2. /\ RingLen(put_index, get_index) < BufSz - 1
        /\ RingSeq(buffer', put_index', get_index)
             = Append(RingSeq(buffer, put_index, get_index), b)
    BY <1>1, <1>3, StoreAppends
  <2>3. Contents' = Append(Contents, b)
    BY <2>1, <2>2, ContentsIsRing
  <2> QED
    BY <1>2, <2>2, <2>3 DEF Fifo!Receive, StoreByte
<1>4. CASE put_index' = get_index
  <2> DEFINE h == Succ(get_index)
  <2>1. get_index' = h /\ h \in Slots /\ put_index' # h
    BY <1>1, <1>4, SuccInRing DEF StoreByte
  <2>2. RingLen(put_index, get_index) = BufSz - 1
    BY <1>1, <1>4, SerialAssumption DEF RingLen, Succ, Slots
  <2>3. put_index # get_index
    BY <1>1, <1>4, SuccInRing
  <2>4. RingSeq(buffer, put_index, h) = Tail(Contents)
    BY <1>1, <2>1, <2>3, PopTakesHead, ContentsIsRing
  <2>5. RingSeq(buffer', put_index', h)
          = Append(RingSeq(buffer, put_index, h), b)
    BY <1>1, <2>1, StoreAppends
  <2>6. Contents' = Append(Tail(Contents), b)
    BY <2>1, <2>4, <2>5, ContentsIsRing
  <2>7. ~(Len(Contents) < BufSz - 1)
    BY <1>2, <2>2, SerialAssumption
  <2> QED
    BY <2>6, <2>7 DEF Fifo!Receive, StoreByte
<1> QED
  BY <1>3, <1>4

(* One turn of the read loop is a Read.                                    *)
LEMMA PopRefines ==
  ASSUME TypeOK, NeverAmbiguous, PopByte
  PROVE  Fifo!Read
<1>1. put_index # get_index
  BY DEF PopByte, Empty, NeverAmbiguous
<1>2. /\ buffer' = buffer /\ put_index' = put_index
      /\ get_index' = Succ(get_index) /\ get_index' \in Slots
  BY SuccInRing DEF TypeOK, PopByte
<1>3. /\ Contents # << >>
      /\ Head(Contents) = buffer[get_index]
      /\ Contents' = Tail(Contents)
  BY <1>1, <1>2, PopTakesHead, ContentsIsRing DEF TypeOK
<1> QED
  BY <1>3 DEF PopByte, Fifo!Read

(* Everything else leaves the queue alone; the parser takes the chunk.     *)
LEMMA StepRefines ==
  ASSUME TypeOK, NeverAmbiguous, [Next]_vars
  PROVE  [Fifo!Next]_<< Contents, chunk >>
<1>1. ASSUME UNCHANGED << buffer, put_index, get_index >>
      PROVE  Contents' = Contents
  BY <1>1, ContentsIsRing
<1> USE DEF ringVars
<1>2. CASE Open
  BY <1>1, <1>2 DEF Open, OpenDevice, SetIndicate, StartThread
<1>3. ASSUME NEW b \in Byte, StoreByte(b) PROVE Fifo!Next
  BY <1>3, StoreRefines DEF Fifo!Next
<1>4. CASE Indicate \/ TakeSem \/ ReadReturns
  BY <1>1, <1>4 DEF Indicate, TakeSem, ReadReturns
<1>5. CASE PopByte
  BY <1>5, PopRefines DEF Fifo!Next
<1>6. CASE Parse
  BY <1>1, <1>6 DEF Parse, Fifo!Next, Fifo!HandOver
<1>7. CASE UNCHANGED vars
  BY <1>1, <1>7 DEF vars
<1> QED
  BY <1>2, <1>3, <1>4, <1>5, <1>6, <1>7 DEF Next, Isr, Reader

(* The port implements the lossy queue: bytes reach the parser in order,   *)
(* unaltered and once, and only the oldest unread ones are ever dropped.   *)
THEOREM PortImplementsFifo == Spec => ImplementsFifo
BY InitRefines, StepRefines, TypeCorrect, RingNeverAmbiguous, PTL
   DEF Spec, ImplementsFifo, Fifo!Spec

=============================================================================
