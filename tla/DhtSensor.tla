----------------------------- MODULE DhtSensor ------------------------------
(***************************************************************************)
(* The driver of the DHT11 temperature and humidity sensor (DH11.c): a     *)
(* state machine that sched10ms advances every 10 ms, and the interrupt of *)
(* the pin, which collects the bits of a frame from the edges of the line. *)
(*                                                                         *)
(* The interrupt preempts the task between any two of its accesses; the    *)
(* task has one step for each access that the interrupt can tell apart.    *)
(* Other interrupts delay this one, so several edges may come before the   *)
(* handler reads the level of the line, and the sensor may answer late,    *)
(* stop half way or not answer at all. How long a level lasts, which makes *)
(* a bit 0 or 1, is not modelled: a captured bit is known by the two       *)
(* edges between which it was measured.                                    *)
(***************************************************************************)
EXTENDS Integers, Sequences

CONSTANTS
  Bits,           (* 40: the bits of a frame                               *)
  PowerupTicks,   (* 100: DHT11_POWERUP_WAIT_TICKS                         *)
  StartTicks,     (* 2: DHT11_START_LOW_TICKS                              *)
  IntervalTicks,  (* 100: DHT11_SAMPLE_INTERVAL_TICKS                      *)
  TimeoutTicks    (* 2: DHT11_FRAME_TIMEOUT_TICKS                          *)

ASSUME DhtAssumption ==
  /\ Bits \in Nat \ {0}
  /\ PowerupTicks \in Nat \ {0}
  /\ StartTicks \in Nat \ {0}
  /\ IntervalTicks \in Nat \ {0}
  /\ TimeoutTicks \in Nat \ {0}

VARIABLES
  line,     (* the level the firmware leaves the line at: "low" or "high"  *)
  edge,     (* external: the last edge the sensor has made of its answer   *)
  imr,      (* EXTI->IMR: the interrupt of the pin is enabled              *)
  pending,  (* EXTI->PR: an edge waits for its interrupt                   *)
  isr,      (* TRUE between the clearing of PR and the end of the handler  *)
  s_dht11_state,
  s_state_ticks,
  s_capture_state,
  s_high_start_cycle,    (* the edge at which the clock was read           *)
  s_frame_bytes,         (* the captured bits, each as << rise, fall >>    *)
  s_frame_done,
  s_frame_error,
  s_transaction_active,
  pc,       (* where sched10ms is in DHT11_Task10ms                        *)
  idle      (* history: ticks since the last transaction ended             *)

busVars == << line, edge, imr, pending >>
taskVars == << s_dht11_state, s_state_ticks, pc, idle >>
captureVars == << s_capture_state, s_high_start_cycle, s_frame_bytes >>
flagVars == << s_frame_done, s_frame_error, s_transaction_active >>
vars == << busVars, isr, taskVars, captureVars, flagVars >>

States == {"POWERUP_WAIT", "IDLE", "START_LOW", "WAIT_FRAME"}
Captures == {"RESP_FALL", "RESP_RISE", "FIRST_DATA_FALL", "BIT_RISE",
             "BIT_FALL"}
PCs == {"sleep", "testError", "step", "request", "listen", "arm", "wait",
        "unmask", "process", "mask", "enterIdle"}

(* An answer: fall and rise of the response, the fall before the first     *)
(* bit, a rise and a fall per bit, and the rise that frees the line. Odd   *)
(* edges fall.                                                             *)
LastEdge == 2 * Bits + 4
High == edge % 2 = 0

(* The edges of the answer between which bit j is high.                    *)
BitEdges(j) == << 2 * j + 2, 2 * j + 3 >>

(* What each state starts counting down from.                              *)
TicksOf == [POWERUP_WAIT |-> PowerupTicks, IDLE |-> IntervalTicks,
            START_LOW |-> StartTicks, WAIT_FRAME |-> TimeoutTicks]

(* After DHT11_Init.                                                       *)
Init ==
  /\ line = "high"
  /\ edge = LastEdge
  /\ imr = FALSE
  /\ pending = FALSE
  /\ isr = FALSE
  /\ s_dht11_state = "POWERUP_WAIT"
  /\ s_state_ticks = PowerupTicks
  /\ s_capture_state = "RESP_FALL"
  /\ s_high_start_cycle = 0
  /\ s_frame_bytes = << >>
  /\ s_frame_done = 0
  /\ s_frame_error = 0
  /\ s_transaction_active = 0
  /\ pc = "sleep"
  /\ idle = 0

-----------------------------------------------------------------------------
(* The sensor makes its next edge, if it feels like it.                    *)
SensorEdge ==
  /\ line = "high"
  /\ edge < LastEdge
  /\ edge' = edge + 1
  /\ pending' = imr
  /\ UNCHANGED << line, imr, isr, taskVars, captureVars, flagVars >>

(* HAL_GPIO_EXTI_IRQHandler clears the request and calls the callback,     *)
(* which returns at once when no transaction is active.                    *)
EnterIsr ==
  /\ pending /\ ~isr
  /\ pending' = FALSE
  /\ isr' = (s_transaction_active = 1)
  /\ UNCHANGED << line, edge, imr, taskVars, captureVars, flagVars >>

(* The end of a transaction in the handler, with its verdict.              *)
EndCapture ==
  /\ s_transaction_active' = 0
  /\ imr' = FALSE
  /\ pending' = FALSE

(* The edges of the response and the start of a bit.                       *)
Advance ==
  /\ \/ /\ ~High /\ s_capture_state = "RESP_FALL"
        /\ s_capture_state' = "RESP_RISE"
        /\ UNCHANGED s_high_start_cycle
     \/ /\ High /\ s_capture_state = "RESP_RISE"
        /\ s_capture_state' = "FIRST_DATA_FALL"
        /\ UNCHANGED s_high_start_cycle
     \/ /\ ~High /\ s_capture_state = "FIRST_DATA_FALL"
        /\ s_capture_state' = "BIT_RISE"
        /\ UNCHANGED s_high_start_cycle
     \/ /\ High /\ s_capture_state = "BIT_RISE"
        /\ s_capture_state' = "BIT_FALL"
        /\ s_high_start_cycle' = edge
  /\ UNCHANGED << imr, pending, s_frame_bytes, flagVars >>

(* Faulty variant: the transaction stays active after the last bit.        *)
CaptureBit_StaysActive ==
  /\ ~High /\ s_capture_state = "BIT_FALL"
  /\ s_frame_bytes' = Append(s_frame_bytes, << s_high_start_cycle, edge >>)
  /\ IF Len(s_frame_bytes') >= Bits
       THEN s_frame_done' = 1 /\ UNCHANGED s_capture_state
       ELSE s_capture_state' = "BIT_RISE" /\ UNCHANGED s_frame_done
  /\ UNCHANGED << imr, pending, s_high_start_cycle, s_frame_error,
                  s_transaction_active >>

(* The fall that ends a bit; the last one ends the transaction.            *)
CaptureBit ==
  /\ ~High /\ s_capture_state = "BIT_FALL"
  /\ s_frame_bytes' = Append(s_frame_bytes, << s_high_start_cycle, edge >>)
  /\ IF Len(s_frame_bytes') >= Bits
       THEN EndCapture /\ s_frame_done' = 1 /\ UNCHANGED s_capture_state
       ELSE /\ s_capture_state' = "BIT_RISE"
            /\ UNCHANGED << imr, pending, s_transaction_active, s_frame_done >>
  /\ UNCHANGED << s_high_start_cycle, s_frame_error >>

(* An edge that does not fit.                                              *)
Reject ==
  /\ s_capture_state \in (IF High THEN {"RESP_FALL", "FIRST_DATA_FALL",
                                        "BIT_FALL"}
                          ELSE {"RESP_RISE", "BIT_RISE"})
  /\ EndCapture
  /\ s_frame_error' = 1
  /\ UNCHANGED << captureVars, s_frame_done >>

(* DHT11_EXTI_Callback reads the level and acts on it.                     *)
Callback ==
  /\ isr
  /\ isr' = FALSE
  /\ Advance \/ CaptureBit \/ Reject
  /\ UNCHANGED << line, edge, taskVars >>

-----------------------------------------------------------------------------
(* DHT11_Task10ms. A step of the task needs the processor for itself.      *)
Undisturbed == ~isr /\ ~pending

(* Faulty variant: the bits of the last frame stay.                        *)
ResetCapture_Partly ==
  /\ s_capture_state' = "RESP_FALL"
  /\ s_high_start_cycle' = 0
  /\ s_frame_done' = 0
  /\ s_frame_error' = 0
  /\ UNCHANGED << s_frame_bytes, s_transaction_active >>

(* DHT11_Reset_Capture                                                     *)
ResetCapture ==
  /\ s_capture_state' = "RESP_FALL"
  /\ s_high_start_cycle' = 0
  /\ s_frame_bytes' = << >>
  /\ s_frame_done' = 0
  /\ s_frame_error' = 0
  /\ UNCHANGED s_transaction_active

(* A tick begins with the test of s_frame_done.                            *)
TestDone ==
  /\ pc = "sleep"
  /\ idle' = IF idle <= IntervalTicks THEN idle + 1 ELSE idle
  /\ IF s_frame_done # 0
       THEN pc' = "process" /\ s_frame_done' = 0
       ELSE pc' = "testError" /\ UNCHANGED s_frame_done
  /\ UNCHANGED << busVars, s_dht11_state, s_state_ticks, captureVars,
                  s_frame_error, s_transaction_active >>

TestError ==
  /\ pc = "testError"
  /\ IF s_frame_error # 0
       THEN pc' = "mask" /\ s_frame_error' = 0
       ELSE pc' = "step" /\ UNCHANGED s_frame_error
  /\ UNCHANGED << busVars, s_dht11_state, s_state_ticks, idle, captureVars,
                  s_frame_done, s_transaction_active >>

(* DHT11_Process_Frame, up to DHT11_Enter_Idle: the bytes, whether their   *)
(* checksum is right or not, are used here and never again.                *)
ProcessFrame ==
  /\ pc = "process"
  /\ pc' = "mask"
  /\ UNCHANGED << busVars, s_dht11_state, s_state_ticks, idle, captureVars,
                  flagVars >>

(* Faulty variant: a late answer is waited for without end.                *)
Step_NoTimeout ==
  /\ pc = "step"
  /\ s_state_ticks' = IF s_state_ticks > 0 THEN s_state_ticks - 1 ELSE 0
  /\ pc' = IF s_dht11_state = "START_LOW"
             THEN IF s_state_ticks' = 0 THEN "listen" ELSE "sleep"
           ELSE IF s_state_ticks > 0 THEN "sleep"
           ELSE IF s_dht11_state = "WAIT_FRAME" THEN "sleep"
           ELSE "request"
  /\ UNCHANGED << busVars, s_dht11_state, idle, captureVars, flagVars >>

(* The switch: count down; at zero ask the sensor, listen to it, or give   *)
(* the frame up.                                                           *)
Step ==
  /\ pc = "step"
  /\ s_state_ticks' = IF s_state_ticks > 0 THEN s_state_ticks - 1 ELSE 0
  /\ pc' = IF s_dht11_state = "START_LOW"
             THEN IF s_state_ticks' = 0 THEN "listen" ELSE "sleep"
           ELSE IF s_state_ticks > 0 THEN "sleep"
           ELSE IF s_dht11_state = "WAIT_FRAME" THEN "mask"
           ELSE "request"
  /\ UNCHANGED << busVars, s_dht11_state, idle, captureVars, flagVars >>

(* DHT11_Start_Request: the low line makes the sensor start over.          *)
StartRequest ==
  /\ pc = "request"
  /\ pc' = "sleep"
  /\ ResetCapture
  /\ line' = "low"
  /\ edge' = 0
  /\ s_dht11_state' = "START_LOW"
  /\ s_state_ticks' = StartTicks
  /\ UNCHANGED << imr, pending, idle >>

(* DHT11_Release_And_Listen. DHT11_Set_Input enables the interrupt of the  *)
(* pin, which may find the rise of the released line pending, before the   *)
(* transaction is active: edges that come until then are lost.             *)
Listen ==
  /\ pc = "listen"
  /\ pc' = "arm"
  /\ line' = "high"
  /\ imr' = TRUE
  /\ pending' \in BOOLEAN
  /\ ResetCapture
  /\ UNCHANGED << edge, s_dht11_state, s_state_ticks, idle >>

Arm ==
  /\ pc = "arm"
  /\ pc' = "wait"
  /\ s_transaction_active' = 1
  /\ UNCHANGED << busVars, s_dht11_state, s_state_ticks, idle, captureVars,
                  s_frame_done, s_frame_error >>

WaitFrame ==
  /\ pc = "wait"
  /\ pc' = "unmask"
  /\ s_dht11_state' = "WAIT_FRAME"
  /\ s_state_ticks' = TimeoutTicks
  /\ UNCHANGED << busVars, idle, captureVars, flagVars >>

(* DHT11_EXTI_Enable(RT_TRUE), even if the handler has just disabled it.   *)
Unmask ==
  /\ pc = "unmask"
  /\ pc' = "sleep"
  /\ imr' = TRUE
  /\ pending' = FALSE
  /\ UNCHANGED << line, edge, s_dht11_state, s_state_ticks, idle,
                  captureVars, flagVars >>

(* DHT11_Enter_Idle: DHT11_EXTI_Enable(RT_FALSE), and the rest, which the  *)
(* interrupt can no longer disturb.                                        *)
Mask ==
  /\ pc = "mask"
  /\ pc' = "enterIdle"
  /\ imr' = FALSE
  /\ pending' = FALSE
  /\ UNCHANGED << line, edge, s_dht11_state, s_state_ticks, idle,
                  captureVars, flagVars >>

(* Faulty variant: the sensor is asked again at once.                      *)
EnterIdle_NoWait ==
  /\ pc = "enterIdle"
  /\ pc' = "sleep"
  /\ s_transaction_active' = 0
  /\ s_dht11_state' = "IDLE"
  /\ s_state_ticks' = 0
  /\ line' = "high"
  /\ idle' = 0
  /\ UNCHANGED << edge, imr, pending, captureVars, s_frame_done,
                  s_frame_error >>

EnterIdle ==
  /\ pc = "enterIdle"
  /\ pc' = "sleep"
  /\ s_transaction_active' = 0
  /\ s_dht11_state' = "IDLE"
  /\ s_state_ticks' = IntervalTicks
  /\ line' = "high"
  /\ idle' = 0
  /\ UNCHANGED << edge, imr, pending, captureVars, s_frame_done,
                  s_frame_error >>

Task ==
  /\ Undisturbed
  /\ \/ TestDone \/ TestError \/ ProcessFrame \/ Step
     \/ StartRequest \/ Listen \/ Arm \/ WaitFrame \/ Unmask
     \/ Mask \/ EnterIdle
  /\ UNCHANGED isr

Handler == EnterIsr \/ Callback

Next == SensorEdge \/ Handler \/ Task

Spec == Init /\ [][Next]_vars

(* The handler and, under it, the task keep running; the sensor owes       *)
(* nothing. Finitely many edges follow a request, so weak fairness does.   *)
FairSpec == Spec /\ WF_vars(Handler) /\ WF_vars(Task)

-----------------------------------------------------------------------------
TypeOK ==
  /\ line \in {"low", "high"}
  /\ edge \in 0 .. LastEdge
  /\ imr \in BOOLEAN
  /\ pending \in BOOLEAN
  /\ isr \in BOOLEAN
  /\ s_dht11_state \in States
  /\ s_state_ticks \in 0 .. TicksOf[s_dht11_state]
  /\ s_capture_state \in Captures
  /\ s_high_start_cycle \in 0 .. LastEdge
  /\ s_frame_bytes \in Seq((0 .. LastEdge) \X (0 .. LastEdge))
  /\ Len(s_frame_bytes) <= Bits
  /\ s_frame_done \in {0, 1}
  /\ s_frame_error \in {0, 1}
  /\ s_transaction_active \in {0, 1}
  /\ pc \in PCs
  /\ idle \in 0 .. IntervalTicks + 1

(* A frame that is processed is whole: each of its bits was measured       *)
(* between the two edges of that very bit of the latest answer, although   *)
(* edges are lost before the transaction is active and edges that come too *)
(* close together are taken for one (DH11.c:154-163,326-386).              *)
WholeFrame ==
  (s_frame_done = 1 \/ pc = "process") =>
    s_frame_bytes = [j \in 1 .. Bits |-> BitEdges(j)]

(* A transaction has one verdict: the rise with which the sensor frees the *)
(* line after the last bit does not turn a complete frame into an error    *)
(* (DH11.c:347-352).                                                       *)
OneVerdict == s_frame_done = 0 \/ s_frame_error = 0

(* The sensor is left alone for the sampling interval after each           *)
(* transaction, however it ended and even if the interrupt completes the   *)
(* frame while the task is giving it up (DH11.c:135-143,270).              *)
SensorRests ==
  [][line = "high" /\ line' = "low" /\ s_dht11_state = "IDLE"
       => idle > IntervalTicks]_vars

(* Sampling never stops, whatever the sensor does (DH11.c:263-272).        *)
SamplingGoesOn == []<>(line = "low")
=============================================================================
