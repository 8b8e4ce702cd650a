------------------------ MODULE MotionControlProofs -------------------------
(***************************************************************************)
(* What holds of MotionControl for every delay, distance and number of     *)
(* headings.                                                               *)
(***************************************************************************)
EXTENDS MotionControl, TLAPS

(* The numbering of the states of Finding_obs: what follows a turn is a    *)
(* look, what follows a look that is not the last is a turn, and the other *)
(* states are neither.                                                     *)
LEMMA Numbering ==
  /\ Straight \in Nat /\ Depart \in Watch .. Straight
  /\ Depart # Watch /\ Straight # Watch /\ Depart # Straight
  /\ Watch + 1 \in Turning
  /\ \A m \in Turning : m \in Watch .. Straight /\ m + 1 \in Looking
                        /\ m \notin {Watch, Depart, Straight}
  /\ \A m \in Looking : m \in Watch .. Straight /\ m \notin Turning
                        /\ m \notin {Watch, Depart, Straight}
                        /\ (m # 2 * Turns => m + 1 \in Turning)
<1> USE MotionAssumption DEF Watch, Depart, Straight
<1>1. Watch + 1 \in Turning
  BY 1 \in 1 .. Turns, 2 * 1 - 1 = 1 DEF Turning
<1>2. ASSUME NEW m \in Turning
      PROVE  m \in Watch .. Straight /\ m + 1 \in Looking
             /\ m \notin {Watch, Depart, Straight}
  <2>1. PICK k \in 1 .. Turns : m = 2 * k - 1
    BY DEF Turning
  <2>2. m + 1 = 2 * k
    BY <2>1
  <2> QED
    BY <2>1, <2>2 DEF Looking
<1>3. ASSUME NEW m \in Looking
      PROVE  m \in Watch .. Straight /\ m \notin Turning
             /\ m \notin {Watch, Depart, Straight}
             /\ (m # 2 * Turns => m + 1 \in Turning)
  <2>1. PICK k \in 1 .. Turns : m = 2 * k
    BY DEF Looking
  <2>2. m \notin Turning
    BY <2>1 DEF Turning
  <2>3. ASSUME m # 2 * Turns
        PROVE  m + 1 \in Turning
    <3>1. k + 1 \in 1 .. Turns /\ m + 1 = 2 * (k + 1) - 1
      BY <2>1, <2>3
    <3> QED
      BY <3>1 DEF Turning
  <2> QED
    BY <2>1, <2>2, <2>3
<1> QED
  BY <1>1, <1>2, <1>3

-----------------------------------------------------------------------------
(* time_cntobs is reset by every turn, so a look counts up from zero, and  *)
(* what the last look leaves behind is below the bound when Watch goes on. *)
CounterOK ==
  /\ Modestate = Watch => time_cntobs < LookTicks + NearTicks
  /\ Modestate \in Looking => time_cntobs < LookTicks
  /\ pc = "obsNear" => Modestate = Watch

TypeInv == TypeOK /\ CounterOK

LEMMA FarEnoughType ==
  /\ FarEnough \in Nat
  /\ \A x \in Nat : Lesser(x, FarEnough) \in 0 .. FarEnough
BY MotionAssumption DEF FarEnough, Lesser

LEMMA Inc16Type == \A x \in 0 .. U16Max : Inc16(x) \in 0 .. U16Max
BY MotionAssumption DEF Inc16

LEMMA InitType == Init => TypeInv
BY MotionAssumption, Numbering, FarEnoughType
   DEF Init, TypeInv, TypeOK, CounterOK, PCs, Watch, LongestBlind

(* A message touches neither the counters nor the automaton of the scan.   *)
LEMMA MessageType == TypeInv /\ Message => TypeInv'
<1> SUFFICES ASSUME TypeInv, Message PROVE TypeInv'
  OBVIOUS
<1> USE MotionAssumption
    DEF TypeInv, TypeOK, CounterOK, obsVars, odoVars, lightVars, histVars,
        LongestBlind
<1>1. CASE LeafCommand
  BY <1>1 DEF LeafCommand
<1>2. CASE LightCommand
  BY <1>2 DEF LightCommand
<1>3. CASE EStopOn
  BY <1>3 DEF EStopOn
<1>4. CASE EStopOff
  BY <1>4 DEF EStopOff
<1>5. ASSUME NEW seen \in {0, 1}, LampReport(seen) PROVE TypeInv'
  BY <1>5 DEF LampReport
<1>6. ASSUME NEW isNear \in BOOLEAN, Ranging(isNear) PROVE TypeInv'
  BY <1>6 DEF Ranging
<1> QED
  BY <1>1, <1>2, <1>3, <1>4, <1>5, <1>6 DEF Message, ModeCommand

(* The steps outside Finding_obs leave its automaton alone.                *)
LEMMA OuterType ==
  ASSUME TypeInv,
         \/ \E d \in 0 .. MaxStep : Tick(d)
         \/ \E from, to \in PCs : to # "obsNear" /\ LoadStart(from, to)
         \/ \E from, to \in PCs : to # "obsNear" /\ StoreStart(from, to)
         \/ TestMode2 \/ TestStart \/ TestSearchOver
         \/ \E from, to, end \in PCs : "obsNear" \notin {to, end} /\ TestMotor(from, to, end)
         \/ \E from, to \in PCs : to # "obsNear" /\ CloseFinder(from, to)
         \/ FindingLight \/ LightSeen
  PROVE  TypeInv'
<1> USE MotionAssumption
    DEF TypeInv, TypeOK, CounterOK, rxVars, obsVars, odoVars, lightVars,
        histVars
<1>1. ASSUME NEW d \in 0 .. MaxStep, Tick(d) PROVE TypeInv'
  <2>1. Milleage' \in 0 .. FarEnough /\ spun' \in 0 .. FarEnough
        /\ gone' \in 0 .. FarEnough
    BY <1>1, FarEnoughType DEF Tick, Odometers
  <2>2. blind' \in 0 .. LongestBlind + 1
    BY <1>1 DEF Tick, LongestBlind
  <2> QED
    BY <1>1, <2>1, <2>2 DEF Tick, Odometers, PCs
<1>2. ASSUME NEW from \in PCs, NEW to \in PCs, to # "obsNear", LoadStart(from, to)
      PROVE TypeInv'
  BY <1>2 DEF LoadStart
<1>3. ASSUME NEW from \in PCs, NEW to \in PCs, to # "obsNear", StoreStart(from, to)
      PROVE TypeInv'
  BY <1>3, Inc16Type DEF StoreStart
<1>4. CASE TestMode2
  BY <1>4 DEF TestMode2, PCs
<1>5. CASE TestStart
  BY <1>5 DEF TestStart, PCs
<1>6. CASE TestSearchOver
  BY <1>6 DEF TestSearchOver, PCs
<1>7. ASSUME NEW from \in PCs, NEW to \in PCs, NEW end \in PCs,
             "obsNear" \notin {to, end}, TestMotor(from, to, end)
      PROVE TypeInv'
  BY <1>7 DEF TestMotor, LongestBlind
<1>8. ASSUME NEW from \in PCs, NEW to \in PCs, to # "obsNear", CloseFinder(from, to)
      PROVE TypeInv'
  BY <1>8 DEF CloseFinder
<1>9. CASE FindingLight
  <2> USE <1>9, FarEnoughType DEF FindingLight, PCs
  <2>1. CASE LightBegin
    BY <2>1 DEF LightBegin
  <2>2. CASE LightSpin
    BY <2>2 DEF LightSpin
  <2>3. CASE LightFound
    BY <2>3 DEF LightFound
  <2>4. CASE LightHalt
    BY <2>4 DEF LightHalt
  <2>5. CASE LightIdle
    BY <2>5 DEF LightIdle
  <2> QED
    BY <2>1, <2>2, <2>3, <2>4, <2>5
<1>10. CASE LightSeen
  BY <1>10 DEF LightSeen, PCs
<1> QED
  BY <1>1, <1>2, <1>3, <1>4, <1>5, <1>6, <1>7, <1>8, <1>9, <1>10

(* Finding_obs: where CounterOK is made.                                   *)
LEMMA ObsType ==
  ASSUME TypeInv, FindingObs \/ WatchNear
  PROVE  TypeInv'
<1> USE MotionAssumption
    DEF TypeInv, TypeOK, rxVars, odoVars, lightVars, histVars, PCs
<1>1. ASSUME FindingObs, WatchFar PROVE TypeInv'
  BY <1>1, Numbering DEF WatchFar, CounterOK
<1>2. ASSUME NEW arrived \in BOOLEAN, Turn(arrived) PROVE TypeInv'
  <2>1. Modestate' \in Watch .. Straight /\ Modestate' # Watch
    BY <1>2, Numbering DEF Turn
  <2> QED
    BY <1>2, <2>1 DEF Turn, CounterOK
<1>3. ASSUME FindingObs, Look PROVE TypeInv'
  <2>1. time_cntobs < LookTicks /\ time_cntobs' = time_cntobs + 1
    BY <1>3 DEF Look, CounterOK, Inc16
  <2>2. CASE time_cntobs' < LookTicks
    <3>1. Modestate' = Modestate
      BY <1>3, <2>2 DEF Look
    <3> QED
      BY <1>3, <2>1, <2>2, <3>1, Numbering DEF Look, CounterOK
  <2>3. CASE ~(time_cntobs' < LookTicks)
    <3>1. Modestate' \in Watch .. Straight /\ Modestate' \notin Looking
      BY <1>3, <2>3, Numbering DEF Look
    <3> QED
      BY <1>3, <2>1, <3>1 DEF Look, CounterOK
  <2> QED
    BY <2>2, <2>3
<1>4. ASSUME FindingObs, LeaveScan PROVE TypeInv'
  <2>1. Straight \in Watch .. Straight /\ Straight \notin Looking /\ Straight # Watch
    BY Numbering DEF Watch
  <2> QED
    BY <1>4, <2>1, FarEnoughType DEF LeaveScan, CounterOK
<1>5. ASSUME FindingObs, GoLine PROVE TypeInv'
  <2>1. CASE Milleage <= GoStraight
    BY <1>5, <2>1 DEF GoLine, CounterOK, obsVars
  <2>2. CASE ~(Milleage <= GoStraight)
    BY <1>5, <2>2, Numbering DEF GoLine, CounterOK, Watch
  <2> QED
    BY <2>1, <2>2
<1>6. CASE WatchNear
  <2>1. Modestate = Watch /\ time_cntobs < LookTicks + NearTicks
    BY <1>6 DEF WatchNear, CounterOK
  <2>2. time_cntobs' \in 0 .. LookTicks + NearTicks
    BY <1>6, <2>1 DEF WatchNear, Inc16
  <2>3. CASE Modestate' = Watch
    <3>1. time_cntobs' < LookTicks + NearTicks
      BY <1>6, <2>1, <2>2, <2>3 DEF WatchNear, Watch
    <3> QED
      BY <1>6, <2>2, <2>3, <3>1, Numbering DEF WatchNear, CounterOK
  <2>4. CASE Modestate' # Watch
    BY <1>6, <2>2, <2>4, Numbering DEF WatchNear, CounterOK
  <2> QED
    BY <2>3, <2>4
<1> QED
  BY <1>1, <1>2, <1>3, <1>4, <1>5, <1>6 DEF FindingObs

LEMMA NextType == TypeInv /\ [Next]_vars => TypeInv'
<1> SUFFICES ASSUME TypeInv, [Next]_vars PROVE TypeInv'
  OBVIOUS
<1>1. CASE Message
  BY <1>1, MessageType
<1>2. CASE Sched
  <2>1. CASE FindingObs \/ WatchNear
    BY <2>1, ObsType
  <2>2. CASE \E d \in 0 .. MaxStep : Tick(d)
    BY <2>2, OuterType
  <2>3. CASE \/ LoadStart("load1", "store1") \/ LoadStart("load2", "store2")
             \/ StoreStart("store1", "obs") \/ StoreStart("store2", "gate")
    BY <2>3, OuterType DEF PCs
  <2>4. CASE \/ TestMotor("light", "lightStep", "lightEnd")
             \/ TestMotor("obs", "obsStep", "obsEnd")
    BY <2>4, OuterType DEF PCs
  <2>5. CASE \/ CloseFinder("lightEnd", "after") \/ CloseObs
    BY <2>5, OuterType DEF PCs, CloseObs
  <2>6. CASE \/ TestMode2 \/ TestStart \/ TestSearchOver
             \/ FindingLight \/ LightSeen
    BY <2>6, OuterType
  <2> QED
    BY <1>2, <2>1, <2>2, <2>3, <2>4, <2>5, <2>6 DEF Sched
<1>3. CASE UNCHANGED vars
  BY <1>3 DEF vars, rxVars, lightVars, obsVars, odoVars, histVars, TypeInv,
     TypeOK, CounterOK
<1> QED
  BY <1>1, <1>2, <1>3 DEF Next

LEMMA TypeInvariant == Spec => []TypeInv
BY InitType, NextType, PTL DEF Spec

(* Every variable stays within its type: the uint16_t counters wrap, and   *)
(* time_cntobs never gets near its limit.                                  *)
THEOREM TypeCorrect == Spec => []TypeOK
BY TypeInvariant, PTL DEF TypeInv

-----------------------------------------------------------------------------
(* The emergency stop. The history follows the flag, and a thread that was *)
(* told to stop is not between its test of the flag and a motor command.   *)
StopInv ==
  /\ estop = "off" <=> Motor_flag = 1
  /\ estop = "heard" => pc \notin {"lightStep", "obsStep"}
  /\ StopHolds

LEMMA StopStep == TypeInv /\ StopInv /\ [Next]_vars => StopInv'
<1> SUFFICES ASSUME TypeInv, StopInv, [Next]_vars PROVE StopInv'
  OBVIOUS
<1> USE DEF TypeInv, TypeOK, StopInv, StopHolds, rxVars, obsVars, odoVars,
        lightVars, histVars
<1>1. CASE Message
  BY <1>1 DEF Message, ModeCommand, LeafCommand, LightCommand, EStopOn,
     EStopOff, LampReport, Ranging
<1>2. CASE Sched
  <2>1. ASSUME NEW d \in 0 .. MaxStep, Tick(d) PROVE StopInv'
    BY <2>1 DEF Tick
  <2>2. CASE \/ LoadStart("load1", "store1") \/ LoadStart("load2", "store2")
             \/ StoreStart("store1", "obs") \/ StoreStart("store2", "gate")
             \/ TestMode2 \/ TestStart \/ TestSearchOver
    BY <2>2 DEF LoadStart, StoreStart, TestMode2, TestStart, TestSearchOver
  <2>3. CASE \/ TestMotor("light", "lightStep", "lightEnd")
             \/ TestMotor("obs", "obsStep", "obsEnd")
    BY <2>3 DEF TestMotor
  <2>4. CASE CloseFinder("lightEnd", "after") \/ CloseObs
    BY <2>4 DEF CloseFinder, CloseObs
  <2>5. CASE FindingLight
    BY <2>5 DEF FindingLight, LightBegin, LightSpin, LightFound, LightHalt,
       LightIdle
  <2>6. CASE FindingObs
    BY <2>6 DEF FindingObs, WatchFar, Turn, Look, LeaveScan, GoLine
  <2>7. CASE LightSeen \/ WatchNear
    BY <2>7 DEF LightSeen, WatchNear
  <2> QED
    BY <1>2, <2>1, <2>2, <2>3, <2>4, <2>5, <2>6, <2>7 DEF Sched
<1>3. CASE UNCHANGED vars
  BY <1>3 DEF vars
<1> QED
  BY <1>1, <1>2, <1>3 DEF Next

(* The emergency stop, once heard by a finder, holds until it is revoked,  *)
(* for every start delay and every interleaving of messages.               *)
THEOREM StopHeld == Spec => []StopHolds
<1>1. Init => StopInv
  BY DEF Init, StopInv, StopHolds
<1> QED
  BY <1>1, TypeInvariant, StopStep, PTL DEF Spec, StopInv

-----------------------------------------------------------------------------
(* What a finder leaves behind at its end. *)

LEMMA EndedFinderStep == TypeInv /\ EndedFinderStopped /\ [Next]_vars => EndedFinderStopped'
<1> SUFFICES ASSUME TypeInv, EndedFinderStopped, [Next]_vars PROVE EndedFinderStopped'
  OBVIOUS
<1> USE DEF TypeInv, TypeOK, EndedFinderStopped, rxVars, obsVars, odoVars,
        lightVars, histVars
<1>1. CASE Message
  BY <1>1 DEF Message, ModeCommand, LeafCommand, LightCommand, EStopOn,
     EStopOff, LampReport, Ranging
<1>2. CASE Sched
  <2>1. ASSUME NEW d \in 0 .. MaxStep, Tick(d) PROVE EndedFinderStopped'
    BY <2>1 DEF Tick
  <2>2. CASE \/ LoadStart("load1", "store1") \/ LoadStart("load2", "store2")
             \/ StoreStart("store1", "obs") \/ StoreStart("store2", "gate")
             \/ TestMode2 \/ TestStart \/ TestSearchOver
    BY <2>2 DEF LoadStart, StoreStart, TestMode2, TestStart, TestSearchOver
  <2>3. CASE \/ TestMotor("light", "lightStep", "lightEnd")
             \/ TestMotor("obs", "obsStep", "obsEnd")
    BY <2>3 DEF TestMotor
  <2>4. CASE CloseFinder("lightEnd", "after") \/ CloseObs
    BY <2>4 DEF CloseFinder, CloseObs
  <2>5. CASE FindingLight \/ LightSeen
    BY <2>5 DEF FindingLight, LightBegin, LightSpin, LightFound, LightHalt,
       LightIdle, LightSeen
  <2>6. CASE FindingObs
    BY <2>6, Numbering
       DEF FindingObs, WatchFar, Turn, Look, LeaveScan, GoLine
  <2>7. CASE WatchNear
    BY <2>7, Numbering DEF WatchNear, CounterOK
  <2> QED
    BY <1>2, <2>1, <2>2, <2>3, <2>4, <2>5, <2>6, <2>7 DEF Sched
<1>3. CASE UNCHANGED vars
  BY <1>3 DEF vars
<1> QED
  BY <1>1, <1>2, <1>3 DEF Next

(* A finder that has ended has stopped the wheels it set turning, however  *)
(* often the mode changes; one that was interrupted need not have.         *)
THEOREM EndedFinderStops == Spec => []EndedFinderStopped
<1>1. Init => EndedFinderStopped
  BY DEF Init, EndedFinderStopped
<1> QED
  BY <1>1, TypeInvariant, EndedFinderStep, PTL DEF Spec

-----------------------------------------------------------------------------
(* The blind window. While the count of a leg is below the start delay     *)
(* nobody has looked for at most one tick more than it says, the tick in   *)
(* which it wrapped; from the start delay on a finder looks every tick.    *)
Behind(count, ticks) ==
  /\ count < StartDelay => blind <= count + ticks
  /\ count >= StartDelay => blind <= ticks - 1

ObsPCs == {"obsStep", "obsNear", "obsEnd"}
LightPCs == {"lightStep", "lightSeen", "lightEnd"}

BlindInv ==
  /\ BlindWindowBounded
  /\ pc \in {"sleep", "after"} => Behind(starttime_cnt, 1)
  /\ pc \in {"load1", "mode2", "load2"} => Behind(starttime_cnt, 2)
  /\ pc \in {"store1", "store2"} => Behind(reg, 2)
  /\ pc = "gate" => Behind(starttime_cnt, 1) \/ starttime_cnt >= StartDelay
  /\ pc \in ObsPCs \cup LightPCs => blind = 0
  /\ pc = "mode2" /\ MaixMode_flag = 1 => blind = 0

LEMMA BlindStep == TypeInv /\ BlindInv /\ [Next]_vars => BlindInv'
<1> SUFFICES ASSUME TypeInv, BlindInv, [Next]_vars PROVE BlindInv'
  OBVIOUS
<1> USE MotionAssumption
    DEF TypeInv, TypeOK, BlindInv, BlindWindowBounded, Behind, LongestBlind,
        ObsPCs, LightPCs, rxVars, obsVars, odoVars, lightVars, histVars
<1>1. CASE LeafCommand \/ LightCommand
  BY <1>1 DEF LeafCommand, LightCommand
<1>2. CASE \/ EStopOn \/ EStopOff
           \/ \E seen \in {0, 1} : LampReport(seen)
           \/ \E isNear \in BOOLEAN : Ranging(isNear)
  BY <1>2 DEF EStopOn, EStopOff, LampReport, Ranging
<1>3. CASE Sched
  <2>1. ASSUME NEW d \in 0 .. MaxStep, Tick(d) PROVE BlindInv'
    BY <2>1 DEF Tick
  <2>2. CASE LoadStart("load1", "store1") \/ LoadStart("load2", "store2")
    BY <2>2 DEF LoadStart
  <2>3. CASE StoreStart("store1", "obs")
    BY <2>3 DEF StoreStart
  <2>4. CASE StoreStart("store2", "gate")
    BY <2>4 DEF StoreStart, Inc16
  <2>5. CASE TestMode2 \/ TestStart \/ TestSearchOver
    BY <2>5 DEF TestMode2, TestStart, TestSearchOver
  <2>6. CASE \/ TestMotor("light", "lightStep", "lightEnd")
             \/ TestMotor("obs", "obsStep", "obsEnd")
    BY <2>6 DEF TestMotor
  <2>7. CASE CloseFinder("lightEnd", "after") \/ CloseObs
    BY <2>7 DEF CloseFinder, CloseObs
  <2>8. CASE FindingLight \/ LightSeen
    BY <2>8 DEF FindingLight, LightBegin, LightSpin, LightFound, LightHalt,
       LightIdle, LightSeen
  <2>9. CASE FindingObs \/ WatchNear
    BY <2>9 DEF FindingObs, WatchFar, Turn, Look, LeaveScan, GoLine, WatchNear
  <2> QED
    BY <1>3, <2>1, <2>2, <2>3, <2>4, <2>5, <2>6, <2>7, <2>8, <2>9 DEF Sched
<1>4. CASE UNCHANGED vars
  BY <1>4 DEF vars
<1> QED
  BY <1>1, <1>2, <1>3, <1>4 DEF Next, Message, ModeCommand

(* The emergency stop is looked at again within one start delay after the  *)
(* last mode command, wrap of starttime_cnt and lost resets included.      *)
THEOREM StopLookedAt == Spec => []BlindWindowBounded
<1>1. Init => BlindInv
  BY MotionAssumption
     DEF Init, BlindInv, BlindWindowBounded, Behind, LongestBlind, ObsPCs,
         LightPCs
<1> QED
  BY <1>1, TypeInvariant, BlindStep, PTL DEF Spec, BlindInv

-----------------------------------------------------------------------------
(* The odometer. It never claims more than was covered since the search or *)
(* the leg that reads it began: the reset of LightBegin waits for the next *)
(* tick, and no state of the search is executed before it.                 *)
OdometerInv ==
  /\ Modestate_light = 2 /\ Milleage_flag = 1 => Milleage <= spun
  /\ Modestate = Straight => Milleage <= gone
  /\ Milleage_flag = 0 => \/ pc \in {"sleep", "lightEnd", "after"}
                          \/ pc \in ObsPCs \cup {"obs"} /\ leg = 2

LEMMA OdometerStep == TypeInv /\ OdometerInv /\ [Next]_vars => OdometerInv'
<1> SUFFICES ASSUME TypeInv, OdometerInv, [Next]_vars PROVE OdometerInv'
  OBVIOUS
<1> USE FarEnoughType
    DEF TypeInv, TypeOK, OdometerInv, ObsPCs, rxVars, obsVars, odoVars,
        lightVars, histVars
<1>1. CASE Message
  BY <1>1 DEF Message, ModeCommand, LeafCommand, LightCommand, EStopOn,
     EStopOff, LampReport, Ranging
<1>2. CASE Sched
  <2>1. ASSUME NEW d \in 0 .. MaxStep, Tick(d) PROVE OdometerInv'
    <3>1. \A x, y \in 0 .. FarEnough :
            x <= y => Lesser(x + d, FarEnough) <= Lesser(y + d, FarEnough)
      BY MotionAssumption DEF Lesser
    <3>2. spun' \in 0 .. FarEnough /\ gone' \in 0 .. FarEnough
      BY <2>1, MotionAssumption DEF Tick, Odometers
    <3> QED
      BY <2>1, <3>1, <3>2 DEF Tick, Odometers
  <2>2. CASE \/ LoadStart("load1", "store1") \/ LoadStart("load2", "store2")
             \/ StoreStart("store1", "obs") \/ StoreStart("store2", "gate")
             \/ TestMode2 \/ TestStart \/ TestSearchOver
    BY <2>2 DEF LoadStart, StoreStart, TestMode2, TestStart, TestSearchOver
  <2>3. CASE \/ TestMotor("light", "lightStep", "lightEnd")
             \/ TestMotor("obs", "obsStep", "obsEnd")
    BY <2>3 DEF TestMotor
  <2>4. CASE CloseFinder("lightEnd", "after") \/ CloseObs
    BY <2>4 DEF CloseFinder, CloseObs
  <2>5. CASE FindingLight \/ LightSeen
    BY <2>5 DEF FindingLight, LightBegin, LightSpin, LightFound, LightHalt,
       LightIdle, LightSeen
  <2>6. CASE FindingObs
    BY <2>6, Numbering
       DEF FindingObs, WatchFar, Turn, Look, LeaveScan, GoLine
  <2>7. CASE WatchNear
    BY <2>7, Numbering DEF WatchNear
  <2> QED
    BY <1>2, <2>1, <2>2, <2>3, <2>4, <2>5, <2>6, <2>7 DEF Sched
<1>3. CASE UNCHANGED vars
  BY <1>3 DEF vars
<1> QED
  BY <1>1, <1>2, <1>3 DEF Next

LEMMA OdometerInvariant == Spec => []OdometerInv
<1>1. Init => OdometerInv
  BY Numbering DEF Init, OdometerInv
<1> QED
  BY <1>1, TypeInvariant, OdometerStep, PTL DEF Spec

(* Only LightSpin gives up, and only LightFound ends a search otherwise.   *)
LEMMA GivesUpLate ==
  TypeInv /\ OdometerInv /\ [Next]_vars
    => [Modestate_light = 2 /\ Modestate_light' = 4 => spun > FullTurn]_vars
<1> SUFFICES ASSUME TypeInv, OdometerInv, Next,
                    Modestate_light = 2, Modestate_light' = 4
             PROVE  spun > FullTurn
  BY DEF vars
<1>1. FindingLight /\ LightSpin
  <2> USE DEF rxVars, lightVars, obsVars, odoVars, histVars
  <2>1. ~Message
    BY DEF Message, ModeCommand, LeafCommand, LightCommand, EStopOn,
       EStopOff, LampReport, Ranging
  <2>2. ~\E d \in 0 .. MaxStep : Tick(d)
    BY DEF Tick
  <2>3. ~(\/ LoadStart("load1", "store1") \/ LoadStart("load2", "store2")
          \/ StoreStart("store1", "obs") \/ StoreStart("store2", "gate")
          \/ TestMode2 \/ TestStart \/ TestSearchOver)
    BY DEF LoadStart, StoreStart, TestMode2, TestStart, TestSearchOver
  <2>4. ~(\/ TestMotor("light", "lightStep", "lightEnd")
          \/ TestMotor("obs", "obsStep", "obsEnd")
          \/ CloseFinder("lightEnd", "after") \/ CloseObs)
    BY DEF TestMotor, CloseFinder, CloseObs
  <2>5. ~(LightSeen \/ FindingObs \/ WatchNear)
    BY DEF LightSeen, FindingObs, WatchFar, Turn, Look, LeaveScan, GoLine,
       WatchNear
  <2>6. FindingLight
    BY <2>1, <2>2, <2>3, <2>4, <2>5 DEF Next, Sched
  <2> QED
    BY <2>6 DEF FindingLight, LightBegin, LightFound, LightHalt, LightIdle
<1>2. Milleage_flag = 1
  BY <1>1 DEF FindingLight, OdometerInv, ObsPCs, TypeInv, TypeOK
<1>3. ~(Milleage <= FullTurn)
  BY <1>1 DEF LightSpin
<1> QED
  BY <1>2, <1>3, MotionAssumption, FarEnoughType
     DEF OdometerInv, TypeInv, TypeOK

(* A light search gives up only after the wheels have covered a full       *)
(* turn's distance since it began, whoever drove them.                     *)
THEOREM FullTurnFirst == Spec => FullTurnBeforeGivingUp
BY TypeInvariant, OdometerInvariant, GivesUpLate, PTL
   DEF Spec, FullTurnBeforeGivingUp

(* Only GoLine goes back from the straight leg to watching.                *)
LEMMA StopsLate ==
  TypeInv /\ OdometerInv /\ [Next]_vars
    => [Modestate = Straight /\ Modestate' = Watch => gone > GoStraight]_vars
<1> SUFFICES ASSUME TypeInv, OdometerInv, Next,
                    Modestate = Straight, Modestate' = Watch
             PROVE  gone > GoStraight
  BY DEF vars
<1>1. FindingObs /\ GoLine
  <2> USE Numbering DEF rxVars, lightVars, obsVars, odoVars, histVars
  <2>1. ~Message
    BY DEF Message, ModeCommand, LeafCommand, LightCommand, EStopOn,
       EStopOff, LampReport, Ranging
  <2>2. ~\E d \in 0 .. MaxStep : Tick(d)
    BY DEF Tick
  <2>3. ~(\/ LoadStart("load1", "store1") \/ LoadStart("load2", "store2")
          \/ StoreStart("store1", "obs") \/ StoreStart("store2", "gate")
          \/ TestMode2 \/ TestStart \/ TestSearchOver)
    BY DEF LoadStart, StoreStart, TestMode2, TestStart, TestSearchOver
  <2>4. ~(\/ TestMotor("light", "lightStep", "lightEnd")
          \/ TestMotor("obs", "obsStep", "obsEnd")
          \/ CloseFinder("lightEnd", "after") \/ CloseObs)
    BY DEF TestMotor, CloseFinder, CloseObs
  <2>5. ~(LightSeen \/ FindingLight)
    BY DEF LightSeen, FindingLight, LightBegin, LightSpin, LightFound,
       LightHalt, LightIdle
  <2>6. ~WatchNear
    BY DEF WatchNear, TypeInv, CounterOK
  <2>7. FindingObs
    BY <2>1, <2>2, <2>3, <2>4, <2>5, <2>6 DEF Next, Sched
  <2> QED
    BY <2>7 DEF FindingObs, WatchFar, Turn, Look, LeaveScan
<1>2. ~(Milleage <= GoStraight)
  BY <1>1, Numbering DEF GoLine, obsVars
<1> QED
  BY <1>2, MotionAssumption, FarEnoughType DEF OdometerInv, TypeInv, TypeOK

(* The straight leg ends only after the wheels have covered its distance   *)
(* since it began, whoever drove them.                                     *)
THEOREM LegCovered == Spec => LegCoversDistance
BY TypeInvariant, OdometerInvariant, StopsLate, PTL
   DEF Spec, LegCoversDistance

=============================================================================
