-------------------------- MODULE DhtSensorProofs ---------------------------
(***************************************************************************)
(* Proofs about DhtSensor, for every frame length and every delay.         *)
(*                                                                         *)
(* WholeFrame rests on counting: in a capture state that has accepted A    *)
(* edges, the sensor has made at least A, and if it has made only A or one *)
(* more, the captured bits are exact. Every edge that is lost or merged    *)
(* pushes the sensor two edges ahead for good, and a sensor that is ahead  *)
(* runs out of edges before the last bit.                                  *)
(***************************************************************************)
EXTENDS DhtSensor, TLAPS

(* How many edges the handler has accepted in this transaction. *)
Accepted ==
  CASE s_capture_state = "RESP_FALL" -> 0
    [] s_capture_state = "RESP_RISE" -> 1
    [] s_capture_state = "FIRST_DATA_FALL" -> 2
    [] s_capture_state = "BIT_RISE" -> 3 + 2 * Len(s_frame_bytes)
    [] s_capture_state = "BIT_FALL" -> 4 + 2 * Len(s_frame_bytes)

(* The bits captured so far are the first ones of the answer. *)
Exact ==
  /\ \A j \in 1 .. Len(s_frame_bytes) : s_frame_bytes[j] = BitEdges(j)
  /\ s_capture_state = "BIT_FALL" => s_high_start_cycle = Accepted

(* An active capture has not lost count. *)
Counting ==
  s_transaction_active = 1 =>
    /\ Len(s_frame_bytes) < Bits
    /\ s_capture_state \notin {"BIT_RISE", "BIT_FALL"} => s_frame_bytes = << >>
    /\ Accepted <= edge
    /\ edge <= Accepted + 1 => Exact

(* When the handler may act, and what it then leaves to the task. *)
Turns ==
  /\ isr => s_transaction_active = 1
  /\ s_transaction_active = 1 =>
       /\ s_frame_done = 0 /\ s_frame_error = 0
       /\ s_dht11_state = "WAIT_FRAME" \/ pc = "wait"
       /\ pc # "process"
  /\ pc \in {"request", "listen", "arm"} => s_transaction_active = 0
  /\ pc = "request" => s_dht11_state \in {"POWERUP_WAIT", "IDLE"}
  /\ pc = "listen" => s_dht11_state = "START_LOW"
  /\ pc = "unmask" => s_dht11_state = "WAIT_FRAME"
  /\ pc = "arm" => /\ s_frame_done = 0 /\ s_frame_error = 0
                   /\ s_capture_state = "RESP_FALL" /\ s_frame_bytes = << >>

(* How long the sensor has rested, against what is left to count down. *)
Rested ==
  s_dht11_state = "IDLE" =>
    /\ pc = "sleep" => idle + s_state_ticks >= IntervalTicks
    /\ pc \in {"testError", "step"} => idle + s_state_ticks > IntervalTicks
    /\ pc = "request" => idle > IntervalTicks

LEMMA InitType ==
  ASSUME Init
  PROVE  TypeOK
<1> USE DhtAssumption DEF Init
<1>1. LastEdge \in Nat
  BY DEF LastEdge
<1>2. s_frame_bytes \in Seq((0 .. LastEdge) \X (0 .. LastEdge))
  OBVIOUS
<1>3. s_state_ticks \in 0 .. TicksOf[s_dht11_state]
  BY DEF TicksOf
<1>4. Len(s_frame_bytes) <= Bits
  OBVIOUS
<1>5. /\ edge \in 0 .. LastEdge
      /\ s_high_start_cycle \in 0 .. LastEdge
      /\ idle \in 0 .. IntervalTicks + 1
  BY <1>1
<1>6. /\ line \in {"low", "high"}
      /\ imr \in BOOLEAN /\ pending \in BOOLEAN /\ isr \in BOOLEAN
      /\ s_dht11_state \in States
      /\ s_capture_state \in Captures
      /\ pc \in PCs
  BY DEF States, Captures, PCs
<1>7. /\ s_frame_done \in {0, 1}
      /\ s_frame_error \in {0, 1}
      /\ s_transaction_active \in {0, 1}
  OBVIOUS
<1> HIDE DEF Init
<1>8. QED
  BY <1>2, <1>3, <1>4, <1>5, <1>6, <1>7 DEF TypeOK

LEMMA HandlerType ==
  ASSUME TypeOK, Counting, Turns, SensorEdge \/ Handler
  PROVE  TypeOK'
<1> USE DhtAssumption DEF TypeOK, LastEdge, taskVars, captureVars, flagVars
<1>1. CASE SensorEdge
  BY <1>1 DEF SensorEdge
<1>2. CASE EnterIsr
  BY <1>2 DEF EnterIsr
<1>3. CASE Callback
  <2> USE <1>3 DEF Callback
  <2>1. CASE Advance
    BY <2>1 DEF Advance, Captures
  <2>2. CASE CaptureBit
    <3>1. << s_high_start_cycle, edge >> \in (0 .. LastEdge) \X (0 .. LastEdge)
      OBVIOUS
    <3>2. s_frame_bytes' \in Seq((0 .. LastEdge) \X (0 .. LastEdge))
      BY <2>2, <3>1 DEF CaptureBit
    <3>3. Len(s_frame_bytes') <= Bits
      BY <2>2 DEF CaptureBit, Counting, Turns
    <3>4. QED
      BY <2>2, <3>2, <3>3 DEF CaptureBit, EndCapture, Captures
  <2>3. CASE Reject
    BY <2>3 DEF Reject, EndCapture
  <2>4. QED
    BY <2>1, <2>2, <2>3
<1>4. QED
  BY <1>1, <1>2, <1>3 DEF Handler

LEMMA TaskType ==
  ASSUME TypeOK, Task
  PROVE  TypeOK'
<1> USE DhtAssumption DEF TypeOK, LastEdge, TicksOf, States, busVars, captureVars,
        flagVars, PCs, Captures
<1> USE DEF Task
<1>1. CASE TestDone
  BY <1>1 DEF TestDone
<1>2. CASE TestError
  BY <1>2 DEF TestError
<1>3. CASE ProcessFrame
  BY <1>3 DEF ProcessFrame
<1>4. CASE Step
  BY <1>4 DEF Step
<1>5. CASE StartRequest
  BY <1>5 DEF StartRequest, ResetCapture
<1>6. CASE Listen
  BY <1>6 DEF Listen, ResetCapture
<1>7. CASE Arm
  BY <1>7 DEF Arm
<1>8. CASE WaitFrame
  BY <1>8 DEF WaitFrame
<1>9. CASE Unmask
  BY <1>9 DEF Unmask
<1>10. CASE Mask
  BY <1>10 DEF Mask
<1>11. CASE EnterIdle
  BY <1>11 DEF EnterIdle
<1>12. QED
  BY <1>1, <1>2, <1>3, <1>4, <1>5, <1>6, <1>7, <1>8, <1>9, <1>10, <1>11

Inv == TypeOK /\ Counting /\ Turns /\ WholeFrame /\ OneVerdict /\ Rested

LEMMA InitInv ==
  ASSUME Init
  PROVE  Inv
<1>1. TypeOK
  BY InitType
<1>2. Turns /\ OneVerdict /\ Rested /\ WholeFrame
  BY DEF Init, Turns, OneVerdict, Rested, WholeFrame
<1>3. Counting
  BY DEF Init, Counting
<1>4. QED
  BY <1>1, <1>2, <1>3 DEF Inv

-----------------------------------------------------------------------------
(* A bit is appended behind the ones that are there. *)
LEMMA AppendBit ==
  ASSUME NEW S, NEW s \in Seq(S), NEW b \in S
  PROVE  /\ Len(Append(s, b)) = Len(s) + 1
         /\ Append(s, b)[Len(s) + 1] = b
         /\ \A j \in 1 .. Len(s) : Append(s, b)[j] = s[j]
  OBVIOUS

(* The count survives the handler. *)
LEMMA AdvanceCounts ==
  ASSUME TypeOK, Counting, s_transaction_active = 1, edge' = edge, Advance
  PROVE  Counting'
<1> USE DhtAssumption DEF Advance, flagVars
<1>1. edge \in Nat /\ Len(s_frame_bytes) \in Nat /\ s_high_start_cycle \in Nat
  BY DEF TypeOK, LastEdge
<1>2. High => edge % 2 = 0
  BY DEF High
<1>3. ~High => edge % 2 = 1
  BY <1>1 DEF High
<1>4. CASE ~High /\ s_capture_state = "RESP_FALL"
  BY <1>1, <1>3, <1>4 DEF Counting, Accepted, Exact
<1>5. CASE High /\ s_capture_state = "RESP_RISE"
  BY <1>1, <1>2, <1>5 DEF Counting, Accepted, Exact
<1>6. CASE ~High /\ s_capture_state = "FIRST_DATA_FALL"
  <2>1. /\ s_frame_bytes = << >> /\ s_frame_bytes' = << >>
        /\ s_capture_state' = "BIT_RISE" /\ s_transaction_active' = 1
    BY <1>6 DEF Counting
  <2>2. Len(s_frame_bytes') = 0 /\ Exact' /\ Accepted' = 3
    BY <2>1 DEF Exact, Accepted
  <2>3. edge >= 3
    BY <1>1, <1>3, <1>6 DEF Counting, Accepted
  <2>4. QED
    BY <1>1, <2>1, <2>2, <2>3 DEF Counting
<1>7. CASE High /\ s_capture_state = "BIT_RISE"
  <2> DEFINE n == Len(s_frame_bytes)
  <2>1. /\ s_capture_state' = "BIT_FALL" /\ s_high_start_cycle' = edge
        /\ s_frame_bytes' = s_frame_bytes /\ s_transaction_active' = 1
    BY <1>7
  <2>2. Accepted = 3 + 2 * n /\ Accepted' = 4 + 2 * n
    BY <1>7, <2>1 DEF Accepted
  <2>3. n < Bits /\ Accepted <= edge /\ (edge <= Accepted + 1 => Exact)
    BY DEF Counting
  <2>4. edge >= 4 + 2 * n
    BY <1>1, <1>2, <1>7, <2>2, <2>3
  <2>5. edge <= Accepted' + 1 => edge = 4 + 2 * n
    BY <1>1, <1>2, <1>7, <2>2, <2>4
  <2>6. edge <= Accepted' + 1 => Exact'
    BY <1>1, <2>1, <2>2, <2>3, <2>5 DEF Exact
  <2>7. QED
    BY <1>1, <2>1, <2>2, <2>3, <2>4, <2>6 DEF Counting
<1>8. QED
  BY <1>4, <1>5, <1>6, <1>7

LEMMA OddBetween ==
  ASSUME NEW k \in Nat, NEW m \in Nat, m % 2 = 1, 5 + 2 * k <= m, m <= 6 + 2 * k
  PROVE  m = 5 + 2 * k
  OBVIOUS

LEMMA OddAbove ==
  ASSUME NEW k \in Nat, NEW m \in Nat, m % 2 = 1, 4 + 2 * k <= m
  PROVE  5 + 2 * k <= m
<1>1. m # 4 + 2 * k
  <2>1. SUFFICES ASSUME m = 4 + 2 * k PROVE FALSE
    OBVIOUS
  <2>2. (2 * (k + 2)) % 2 = 0
    OBVIOUS
  <2>3. QED
    BY <2>1, <2>2
<1>2. QED
  BY <1>1

(* A captured bit is counted, and the last one leaves a whole frame. *)
LEMMA BitCounts ==
  ASSUME TypeOK, Counting, s_transaction_active = 1, edge' = edge, CaptureBit
  PROVE  /\ Counting'
         /\ s_frame_done' = 1 =>
              s_frame_done = 1
              \/ s_frame_bytes' = [j \in 1 .. Bits |-> BitEdges(j)]
<1> DEFINE n == Len(s_frame_bytes)
           e == << s_high_start_cycle, edge >>
           E == (0 .. LastEdge) \X (0 .. LastEdge)
<1> USE DhtAssumption
<1>1. /\ edge \in 0 .. 2 * Bits + 4 /\ n \in Nat /\ s_high_start_cycle \in Nat
      /\ s_frame_bytes \in Seq(E) /\ e \in E
  BY DEF TypeOK, LastEdge
<1>2. edge % 2 = 1 /\ s_capture_state = "BIT_FALL"
      /\ s_frame_bytes' = Append(s_frame_bytes, e)
  BY <1>1 DEF CaptureBit, High
<1>3. /\ n < Bits /\ 4 + 2 * n <= edge
      /\ edge <= 5 + 2 * n =>
           /\ \A j \in 1 .. n : s_frame_bytes[j] = BitEdges(j)
           /\ s_high_start_cycle = 4 + 2 * n
  BY <1>2 DEF Counting, Accepted, Exact
<1>4. edge >= 5 + 2 * n
  <2>1. edge \in Nat /\ n \in Nat /\ edge % 2 = 1 /\ 4 + 2 * n <= edge
    BY <1>1, <1>2, <1>3
  <2> HIDE DEF n
  <2>2. QED
    BY <2>1, OddAbove
<1>5. /\ s_frame_bytes' \in Seq(E)
      /\ Len(s_frame_bytes') = n + 1
      /\ s_frame_bytes'[n + 1] = e
      /\ \A j \in 1 .. n : s_frame_bytes'[j] = s_frame_bytes[j]
  BY <1>1, <1>2, AppendBit
<1>6. edge <= 6 + 2 * n =>
        \A j \in 1 .. n + 1 : s_frame_bytes'[j] = BitEdges(j)
  <2> SUFFICES ASSUME edge <= 6 + 2 * n, NEW j \in 1 .. n + 1
               PROVE  s_frame_bytes'[j] = BitEdges(j)
    OBVIOUS
  <2>1. edge = 5 + 2 * n
    <3>1. edge \in Nat /\ n \in Nat /\ edge % 2 = 1
      BY <1>1, <1>2
    <3> HIDE DEF n
    <3>2. QED
      BY <1>4, <3>1, OddBetween
  <2>2. e = BitEdges(n + 1)
    BY <1>1, <1>3, <2>1 DEF BitEdges
  <2>3. CASE j = n + 1
    BY <1>5, <2>2, <2>3
  <2>4. CASE j \in 1 .. n
    <3>1. s_frame_bytes[j] = BitEdges(j)
      BY <1>1, <1>3, <2>1, <2>4
    <3>2. QED
      BY <1>5, <2>4, <3>1
  <2>5. QED
    BY <1>1, <2>3, <2>4
<1>7. CASE n + 1 >= Bits
  <2>1. s_transaction_active' = 0 /\ s_frame_done' = 1
    BY <1>5, <1>7 DEF CaptureBit, EndCapture
  <2>2. n + 1 = Bits
    BY <1>1, <1>3, <1>7
  <2>3. edge <= 6 + 2 * n
    BY <1>1, <2>2
  <2>4. s_frame_bytes' = [j \in 1 .. Bits |-> BitEdges(j)]
    <3>1. s_frame_bytes' = [j \in 1 .. n + 1 |-> s_frame_bytes'[j]]
      BY <1>5
    <3>2. QED
      BY <1>6, <2>2, <2>3, <3>1
  <2>5. QED
    BY <2>1, <2>4 DEF Counting
<1>8. CASE n + 1 < Bits
  <2>1. /\ s_transaction_active' = 1 /\ s_frame_done' = s_frame_done
        /\ s_capture_state' = "BIT_RISE"
    BY <1>1, <1>5, <1>8 DEF CaptureBit
  <2>2. Accepted' = 5 + 2 * n
    BY <1>1, <1>5, <2>1 DEF Accepted
  <2>3. edge <= 6 + 2 * n => Exact'
    BY <1>5, <1>6, <2>1 DEF Exact
  <2>4. QED
    BY <1>1, <1>4, <1>5, <1>8, <2>1, <2>2, <2>3 DEF Counting
<1>9. QED
  BY <1>1, <1>7, <1>8

-----------------------------------------------------------------------------
LEMMA SensorStep ==
  ASSUME Inv, SensorEdge
  PROVE  Inv'
<1> USE DEF Inv
<1>1. TypeOK'
  BY HandlerType
<1>2. Turns' /\ OneVerdict' /\ Rested' /\ WholeFrame'
  BY DEF SensorEdge, Turns, OneVerdict, Rested, WholeFrame, taskVars,
         captureVars, flagVars
<1>3. Counting'
  <2>1. edge \in Nat /\ edge' = edge + 1 /\ Len(s_frame_bytes) \in Nat
    BY DEF SensorEdge, TypeOK
  <2>2. Accepted' = Accepted /\ (Exact' <=> Exact)
    BY DEF SensorEdge, captureVars, Accepted, Exact
  <2>3. s_transaction_active' = s_transaction_active
        /\ s_frame_bytes' = s_frame_bytes /\ s_capture_state' = s_capture_state
    BY DEF SensorEdge, captureVars, flagVars
  <2>4. Accepted \in Nat
    BY <2>1 DEF Accepted, TypeOK, Captures
  <2>5. s_transaction_active = 1 =>
          Accepted <= edge + 1 /\ (edge + 1 <= Accepted + 1 => Exact)
    BY <2>1, <2>4 DEF Counting
  <2>6. QED
    BY <2>1, <2>2, <2>3, <2>5 DEF Counting
<1>4. QED
  BY <1>1, <1>2, <1>3

LEMMA HandlerStep ==
  ASSUME Inv, Handler
  PROVE  Inv'
<1> USE DEF Inv
<1>1. TypeOK'
  BY HandlerType
<1>2. CASE EnterIsr
  <2>1. Turns' /\ OneVerdict' /\ Rested' /\ WholeFrame'
    BY <1>2 DEF EnterIsr, Turns, OneVerdict, Rested, WholeFrame, taskVars,
                captureVars, flagVars
  <2>2. Counting'
    BY <1>2 DEF EnterIsr, Counting, Accepted, Exact, captureVars, flagVars
  <2>3. QED
    BY <1>1, <2>1, <2>2
<1>3. CASE Callback
  <2>1. /\ s_transaction_active = 1 /\ edge' = edge
        /\ s_frame_done = 0 /\ s_frame_error = 0
        /\ pc # "process" /\ pc' = pc /\ isr' = FALSE
        /\ UNCHANGED << s_dht11_state, s_state_ticks, idle >>
    BY <1>3 DEF Callback, Turns, taskVars
  <2>2. Rested'
    BY <2>1 DEF Rested
  <2>3. CASE Advance
    <3>1. Counting'
      BY <2>1, <2>3, AdvanceCounts
    <3>2. Turns' /\ OneVerdict' /\ WholeFrame'
      BY <2>1, <2>3 DEF Advance, flagVars, Turns, OneVerdict, WholeFrame
    <3>3. QED
      BY <1>1, <2>2, <3>1, <3>2
  <2>4. CASE CaptureBit
    <3>1. Counting' /\ WholeFrame'
      BY <2>1, <2>4, BitCounts DEF WholeFrame
    <3>2. /\ s_frame_error' = 0
          /\ \/ s_frame_done' = 1 /\ s_transaction_active' = 0
             \/ s_frame_done' = 0 /\ s_transaction_active' = 1
      BY <2>1, <2>4 DEF CaptureBit, EndCapture
    <3>3. Turns' /\ OneVerdict'
      BY <2>1, <3>2 DEF Turns, OneVerdict
    <3>4. QED
      BY <1>1, <2>2, <3>1, <3>3
  <2>5. CASE Reject
    <3>1. Counting'
      BY <2>5 DEF Reject, EndCapture, Counting
    <3>2. Turns' /\ OneVerdict' /\ WholeFrame'
      BY <2>1, <2>5 DEF Reject, EndCapture, captureVars, Turns, OneVerdict,
                        WholeFrame
    <3>3. QED
      BY <1>1, <2>2, <3>1, <3>2
  <2>6. QED
    BY <1>3, <2>3, <2>4, <2>5 DEF Callback
<1>4. QED
  BY <1>2, <1>3 DEF Handler

(* Actions of the task that leave the capture alone leave its count alone. *)
LEMMA CountKept ==
  ASSUME Counting, UNCHANGED << captureVars, s_transaction_active, edge >>
  PROVE  Counting'
  BY DEF Counting, Accepted, Exact, captureVars

LEMMA TaskStep ==
  ASSUME Inv, Task
  PROVE  Inv'
<1> USE DEF Inv
<1>1. TypeOK'
  BY TaskType
<1>2. /\ isr = FALSE /\ isr' = FALSE
      /\ idle \in Nat /\ s_state_ticks \in Nat /\ IntervalTicks \in Nat
  <2>1. isr = FALSE /\ isr' = FALSE
    BY DEF Task, Undisturbed, TypeOK
  <2>2. TicksOf[s_dht11_state] \in Nat
    BY DhtAssumption DEF TypeOK, TicksOf, States
  <2>3. idle \in Nat /\ s_state_ticks \in Nat /\ IntervalTicks \in Nat
    BY <2>2, DhtAssumption DEF TypeOK
  <2>4. QED
    BY <2>1, <2>3
<1>3. CASE TestDone
  <2> USE <1>3 DEF TestDone, busVars, captureVars
  <2>1. Counting'
    BY CountKept
  <2>2. Turns' /\ OneVerdict' /\ WholeFrame'
    BY <1>2 DEF Turns, OneVerdict, WholeFrame, TypeOK
  <2>3. Rested'
    BY <1>2 DEF Rested
  <2>4. QED
    BY <1>1, <2>1, <2>2, <2>3
<1>4. CASE TestError
  <2> USE <1>4 DEF TestError, busVars, captureVars
  <2>1. Counting'
    BY CountKept
  <2>2. Turns' /\ OneVerdict' /\ WholeFrame' /\ Rested'
    BY <1>2 DEF Turns, OneVerdict, WholeFrame, Rested
  <2>3. QED
    BY <1>1, <2>1, <2>2
<1>5. CASE ProcessFrame
  <2> USE <1>5 DEF ProcessFrame, busVars, captureVars, flagVars
  <2>1. Counting'
    BY CountKept
  <2>2. Turns' /\ OneVerdict' /\ WholeFrame' /\ Rested'
    BY <1>2 DEF Turns, OneVerdict, WholeFrame, Rested
  <2>3. QED
    BY <1>1, <2>1, <2>2
<1>6. CASE Step
  <2> USE <1>6 DEF Step, busVars, captureVars, flagVars
  <2>1. Counting'
    BY CountKept
  <2>2. Turns'
    BY <1>2 DEF Turns, TypeOK, States
  <2>3. OneVerdict' /\ WholeFrame'
    BY DEF OneVerdict, WholeFrame
  <2>4. Rested'
    BY <1>2 DEF Rested
  <2>5. QED
    BY <1>1, <2>1, <2>2, <2>3, <2>4
<1>7. CASE StartRequest
  <2> USE <1>7 DEF StartRequest, ResetCapture
  <2>1. Counting'
    BY DEF Counting, Turns
  <2>2. Turns' /\ OneVerdict' /\ WholeFrame' /\ Rested'
    BY <1>2 DEF Turns, OneVerdict, WholeFrame, Rested
  <2>3. QED
    BY <1>1, <2>1, <2>2
<1>8. CASE Listen
  <2> USE <1>8 DEF Listen, ResetCapture
  <2>1. Counting'
    BY DEF Counting, Turns
  <2>2. Turns' /\ OneVerdict' /\ WholeFrame' /\ Rested'
    BY <1>2 DEF Turns, OneVerdict, WholeFrame, Rested
  <2>3. QED
    BY <1>1, <2>1, <2>2
<1>9. CASE Arm
  <2> USE <1>9 DEF Arm, busVars, captureVars
  <2>1. /\ s_capture_state' = "RESP_FALL" /\ s_frame_bytes' = << >>
        /\ edge' = edge /\ edge \in Nat /\ Bits \in Nat \ {0}
    BY DhtAssumption DEF Turns, TypeOK
  <2>2. Accepted' = 0 /\ Exact' /\ Len(s_frame_bytes') = 0
    BY <2>1 DEF Accepted, Exact
  <2>3. Counting'
    BY <2>1, <2>2 DEF Counting
  <2>4. Turns' /\ OneVerdict' /\ WholeFrame' /\ Rested'
    BY <1>2 DEF Turns, OneVerdict, WholeFrame, Rested
  <2>5. QED
    BY <1>1, <2>3, <2>4
<1>10. CASE WaitFrame
  <2> USE <1>10 DEF WaitFrame, busVars, captureVars, flagVars
  <2>1. Counting'
    BY CountKept
  <2>2. Turns' /\ OneVerdict' /\ WholeFrame' /\ Rested'
    BY <1>2 DEF Turns, OneVerdict, WholeFrame, Rested
  <2>3. QED
    BY <1>1, <2>1, <2>2
<1>11. CASE Unmask
  <2> USE <1>11 DEF Unmask, captureVars, flagVars
  <2>1. Counting'
    BY CountKept
  <2>2. Turns' /\ OneVerdict' /\ WholeFrame' /\ Rested'
    BY <1>2 DEF Turns, OneVerdict, WholeFrame, Rested
  <2>3. QED
    BY <1>1, <2>1, <2>2
<1>12. CASE Mask
  <2> USE <1>12 DEF Mask, captureVars, flagVars
  <2>1. Counting'
    BY CountKept
  <2>2. Turns' /\ OneVerdict' /\ WholeFrame' /\ Rested'
    BY <1>2 DEF Turns, OneVerdict, WholeFrame, Rested
  <2>3. QED
    BY <1>1, <2>1, <2>2
<1>13. CASE EnterIdle
  <2> USE <1>13 DEF EnterIdle, captureVars
  <2>1. Counting'
    BY DEF Counting
  <2>2. Turns' /\ OneVerdict' /\ WholeFrame' /\ Rested'
    BY <1>2 DEF Turns, OneVerdict, WholeFrame, Rested
  <2>3. QED
    BY <1>1, <2>1, <2>2
<1>14. QED
  BY <1>3, <1>4, <1>5, <1>6, <1>7, <1>8, <1>9, <1>10, <1>11, <1>12, <1>13 DEF Task

LEMMA Stutter ==
  ASSUME Inv, UNCHANGED vars
  PROVE  Inv'
<1> USE DEF vars, busVars, taskVars, captureVars, flagVars, Inv
<1>1. TypeOK'
  BY DEF TypeOK
<1>2. Counting'
  BY CountKept
<1>3. Turns' /\ WholeFrame' /\ OneVerdict' /\ Rested'
  BY DEF Turns, WholeFrame, OneVerdict, Rested
<1>4. QED
  BY <1>1, <1>2, <1>3

LEMMA Invariant == Spec => []Inv
<1>1. Init => Inv
  BY InitInv
<1>2. Inv /\ [Next]_vars => Inv'
  BY SensorStep, HandlerStep, TaskStep, Stutter DEF Next
<1>3. QED
  BY <1>1, <1>2, PTL DEF Spec

(* Type correctness; in particular the bits never outgrow the five bytes   *)
(* of s_frame_bytes (DH11.c:342-345).                                      *)
THEOREM TypeCorrect == Spec => []TypeOK
<1>1. Inv => TypeOK
  BY DEF Inv
<1>2. QED
  BY <1>1, Invariant, PTL

(* No processed frame is shifted or stitched together (DH11.c:165-179).    *)
THEOREM FramesAreWhole == Spec => []WholeFrame
<1>1. Inv => WholeFrame
  BY DEF Inv
<1>2. QED
  BY <1>1, Invariant, PTL

(* A transaction ends once (DH11.c:347-352,359-363,380-384).               *)
THEOREM VerdictIsOne == Spec => []OneVerdict
<1>1. Inv => OneVerdict
  BY DEF Inv
<1>2. QED
  BY <1>1, Invariant, PTL

(* Between two transactions the sensor has its interval of rest            *)
(* (DH11.c:135-143).                                                       *)
THEOREM SensorHasRest == Spec => SensorRests
<1>1. Inv /\ [Next]_vars =>
        [line = "high" /\ line' = "low" /\ s_dht11_state = "IDLE"
           => idle > IntervalTicks]_vars
  <2> SUFFICES ASSUME Inv, Next, line = "high", line' = "low",
                      s_dht11_state = "IDLE"
               PROVE  idle > IntervalTicks
    BY DEF vars, busVars
  <2>1. pc = "request"
    BY DEF Next, SensorEdge, Handler, EnterIsr, Callback, Task, TestDone,
           TestError, ProcessFrame, Step, StartRequest, Listen, Arm, WaitFrame,
           Unmask, Mask, EnterIdle, busVars
  <2>2. QED
    BY <2>1 DEF Inv, Rested
<1>2. QED
  BY <1>1, Invariant, PTL DEF Spec, SensorRests
=============================================================================
