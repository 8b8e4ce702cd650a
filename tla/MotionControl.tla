--------------------------- MODULE MotionControl ----------------------------
(***************************************************************************)
(* Who drives the wheels: the light search (Finding_light) and the         *)
(* obstacle avoidance (Finding_obs) of SportMode.c, as sched10ms calls     *)
(* them through MaixCam_Sport, against the commands and readings that the  *)
(* receive threads store in the flags both of them test.                   *)
(*                                                                         *)
(* The receive threads (priority 15) preempt sched10ms (priority 18)       *)
(* between any two of its accesses and never the other way round, and the  *)
(* firmware is built without optimisation: each message is one atomic      *)
(* step, and sched10ms has one step for each read of a flag they write.    *)
(*                                                                         *)
(* The two odometers are reset together and advance together: one          *)
(* Milleage stands for both and for their mean. Headings are not           *)
(* modelled: a turn may be found finished at any call. The pitch of the    *)
(* camera and the calls of Plantleaf_ins (LeafInspection) are left out;    *)
(* they touch none of the variables below.                                 *)
(***************************************************************************)
EXTENDS Integers

CONSTANTS
  StartDelay,   (* 300: ticks a new mode waits before it moves anything    *)
  U16Max,       (* 65535: the largest value of a uint16_t                  *)
  NearTicks,    (* 50: near readings that start a scan                     *)
  LookTicks,    (* 100: ticks the car stands still before it looks         *)
  Turns,        (* 5: the headings a scan tries                            *)
  FullTurn,     (* 1150: wheel distance of the whole light search          *)
  GoStraight,   (* 350: wheel distance of the straight leg after a scan    *)
  MaxStep       (* the most the wheels cover in one tick                   *)

ASSUME MotionAssumption ==
  /\ StartDelay \in Nat \ {0}
  /\ U16Max \in Nat
  /\ NearTicks \in Nat \ {0}
  /\ LookTicks \in Nat \ {0}
  /\ Turns \in Nat \ {0}
  /\ FullTurn \in Nat
  /\ GoStraight \in Nat
  /\ MaxStep \in Nat \ {0}
  /\ StartDelay <= U16Max
  /\ LookTicks + NearTicks <= U16Max

VARIABLES
  MaixMode_flag,    (* 1 leaf inspection, 2 light search                   *)
  Motor_flag,       (* 0 while the emergency stop is on                    *)
  starttime_cnt,    (* ticks since the last mode command, a uint16_t       *)
  Modestate_light,  (* state of Finding_light, 1..5                        *)
  finding_flag,     (* 1 once the camera has seen the lamp                 *)
  near,             (* Distance <= 400; Distance is 0 until it is measured *)
  Modestate,        (* state of Finding_obs, 0..2*Turns+2                  *)
  time_cntobs,      (* static local of Finding_obs                         *)
  Milleage,         (* the odometer                                        *)
  Milleage_flag,    (* 0: the next tick resets the odometer                *)
  drive,            (* what the motor registers were last told             *)
  reg,              (* the register of starttime_cnt++                     *)
  leg,              (* the if of MaixCam_Sport that called Finding_obs     *)
  pc,               (* where sched10ms is                                  *)
  estop,            (* history: how far the emergency stop has got         *)
  blind,            (* history: ticks since a finder or a mode command     *)
  spun,             (* history: distance since the light search began      *)
  gone              (* history: distance since the straight leg began      *)

rxVars == << MaixMode_flag, Motor_flag, finding_flag, near >>
lightVars == << starttime_cnt, Modestate_light, reg >>
obsVars == << Modestate, time_cntobs >>
odoVars == << Milleage, Milleage_flag, spun, gone >>
histVars == << estop, blind >>
vars == << rxVars, lightVars, obsVars, odoVars, histVars, drive, leg, pc >>

PCs == {"sleep", "load1", "store1", "mode2", "load2", "store2", "gate",
        "light", "lightStep", "lightSeen", "lightEnd", "after",
        "obs", "obsStep", "obsNear", "obsEnd"}

(* Faulty variant: a counter wider than the uint16_t of the source. *)
Inc16_Wider(x) == x + 1

(* The increment of a uint16_t. *)
Inc16(x) == IF x = U16Max THEN 0 ELSE x + 1
Lesser(x, y) == IF x < y THEN x ELSE y

(* Histories and the odometer saturate just above what anything compares.  *)
FarEnough == 1 + (IF FullTurn > GoStraight THEN FullTurn ELSE GoStraight)
LongestBlind == StartDelay + 1

(* The states of Finding_obs: 0 watches, 2k-1 turns to heading k, 2k looks *)
(* there, Depart and Straight drive through the gap that was found.        *)
Watch == 0
Turning == {2 * k - 1 : k \in 1 .. Turns}
Looking == {2 * k : k \in 1 .. Turns}
Depart == 2 * Turns + 1
Straight == 2 * Turns + 2

(* Initial values of the globals and of the static locals.                 *)
Init ==
  /\ MaixMode_flag = 2
  /\ Motor_flag = 1
  /\ starttime_cnt = 0
  /\ Modestate_light = 1
  /\ finding_flag = 0
  /\ near = TRUE
  /\ Modestate = Watch
  /\ time_cntobs = 0
  /\ Milleage = 0
  /\ Milleage_flag = 1
  /\ drive = "stop"
  /\ reg = 0
  /\ leg = 1
  /\ pc = "sleep"
  /\ estop = "off"
  /\ blind = 0
  /\ spun = 0
  /\ gone = 0

-----------------------------------------------------------------------------
(* Messages: one frame of PlantSoft_DataProc (u5rx), Maixcam_DataProc      *)
(* (u4rx) or the ranging parser (u1rx).                                    *)

(* AA 10 01 55 *)
LeafCommand ==
  /\ MaixMode_flag' = 1
  /\ starttime_cnt' = 0
  /\ blind' = 0
  /\ UNCHANGED << Motor_flag, finding_flag, near, Modestate_light, reg,
                  obsVars, odoVars, drive, leg, pc, estop >>

(* AA 10 02 55: a finished light search starts again, a running one does   *)
(* not.                                                                    *)
LightCommand ==
  /\ MaixMode_flag' = 2
  /\ Modestate_light' = IF Modestate_light = 5 THEN 1 ELSE Modestate_light
  /\ starttime_cnt' = 0
  /\ blind' = 0
  /\ UNCHANGED << Motor_flag, finding_flag, near, reg, obsVars, odoVars,
                  drive, leg, pc, estop >>

ModeCommand == LeafCommand \/ LightCommand

(* AA 40 01 55 *)
EStopOn ==
  /\ Motor_flag' = 0
  /\ estop' = IF estop = "off" THEN "on" ELSE estop
  /\ UNCHANGED << MaixMode_flag, finding_flag, near, lightVars, obsVars,
                  odoVars, blind, drive, leg, pc >>

(* AA 40 00 55 *)
EStopOff ==
  /\ Motor_flag' = 1
  /\ estop' = "off"
  /\ UNCHANGED << MaixMode_flag, finding_flag, near, lightVars, obsVars,
                  odoVars, blind, drive, leg, pc >>

(* The camera reports a position (seen = 1) or no lamp (seen = 0).         *)
LampReport(seen) ==
  /\ finding_flag' = seen
  /\ UNCHANGED << MaixMode_flag, Motor_flag, near, lightVars, obsVars,
                  odoVars, histVars, drive, leg, pc >>

Ranging(isNear) ==
  /\ near' = isNear
  /\ UNCHANGED << MaixMode_flag, Motor_flag, finding_flag, lightVars,
                  obsVars, odoVars, histVars, drive, leg, pc >>

Message ==
  \/ ModeCommand
  \/ EStopOn \/ EStopOff
  \/ \E seen \in {0, 1} : LampReport(seen)
  \/ \E isNear \in BOOLEAN : Ranging(isNear)

-----------------------------------------------------------------------------
(* One tick of sched10ms, up to its first test of MaixMode_flag.           *)

(* GetSpeed_Milleage: an odometer that was asked to start again forgets    *)
(* this tick's d, any other one adds it, whichever way the wheels turn.    *)
Odometers(d) ==
  /\ Milleage' = IF Milleage_flag = 0 THEN 0
                 ELSE Lesser(Milleage + d, FarEnough)
  /\ Milleage_flag' = 1
  /\ spun' = Lesser(spun + d, FarEnough)
  /\ gone' = Lesser(gone + d, FarEnough)

Tick(d) ==
  /\ pc = "sleep"
  /\ Odometers(d)
  /\ pc' = IF MaixMode_flag = 1 THEN "load1" ELSE "mode2"
  /\ estop' = IF estop = "on" THEN "ticked" ELSE estop
  /\ blind' = IF blind <= LongestBlind THEN blind + 1 ELSE blind
  /\ UNCHANGED << rxVars, lightVars, obsVars, drive, leg >>

(* starttime_cnt++ is a load and a store, in either leg; the register is   *)
(* dead after the store.                                                   *)
LoadStart(from, to) ==
  /\ pc = from
  /\ pc' = to
  /\ reg' = starttime_cnt
  /\ UNCHANGED << rxVars, starttime_cnt, Modestate_light, obsVars, odoVars,
                  histVars, drive, leg >>

StoreStart(from, to) ==
  /\ pc = from
  /\ pc' = to
  /\ starttime_cnt' = Inc16(reg)
  /\ reg' = 0
  /\ UNCHANGED << rxVars, Modestate_light, obsVars, odoVars, histVars, drive,
                  leg >>

(* if (MaixMode_flag == 2): a second test, of a flag read again.           *)
TestMode2 ==
  /\ pc = "mode2"
  /\ pc' = IF MaixMode_flag = 2 THEN "load2" ELSE "sleep"
  /\ UNCHANGED << rxVars, lightVars, obsVars, odoVars, histVars, drive, leg >>

(* Faulty variant: > for >=. *)
TestStart_Strict ==
  /\ pc = "gate"
  /\ pc' = IF starttime_cnt > StartDelay THEN "light" ELSE "after"
  /\ UNCHANGED << rxVars, lightVars, obsVars, odoVars, histVars, drive, leg >>

(* if (starttime_cnt >= 300) Finding_light();                              *)
TestStart ==
  /\ pc = "gate"
  /\ pc' = IF starttime_cnt >= StartDelay THEN "light" ELSE "after"
  /\ UNCHANGED << rxVars, lightVars, obsVars, odoVars, histVars, drive, leg >>

(* if (Modestate_light == 5) Finding_obs();                                *)
TestSearchOver ==
  /\ pc = "after"
  /\ IF Modestate_light = 5
       THEN pc' = "obs" /\ leg' = 2
       ELSE pc' = "sleep" /\ UNCHANGED leg
  /\ UNCHANGED << rxVars, lightVars, obsVars, odoVars, histVars, drive >>

-----------------------------------------------------------------------------
(* Both finders: skip everything while the stop is on, and look at it      *)
(* again before they return.                                               *)

(* Faulty variant: the finders run whatever the flag says. *)
TestMotor_Ignored(from, to, end) ==
  /\ pc = from
  /\ pc' = to
  /\ blind' = 0
  /\ UNCHANGED << rxVars, lightVars, obsVars, odoVars, estop, drive, leg >>

(* if (Motor_flag == 1) *)
TestMotor(from, to, end) ==
  /\ pc = from
  /\ pc' = IF Motor_flag = 1 THEN to ELSE end
  /\ blind' = 0
  /\ UNCHANGED << rxVars, lightVars, obsVars, odoVars, estop, drive, leg >>

(* Faulty variant: the flag is not looked at again. *)
CloseFinder_Skipped(from, to) ==
  /\ pc = from
  /\ pc' = to
  /\ leg' = 1
  /\ UNCHANGED << rxVars, lightVars, obsVars, odoVars, histVars, drive >>

(* if (Motor_flag == 0) Motor_SetCCR(0, 0);                                *)
CloseFinder(from, to) ==
  /\ pc = from
  /\ pc' = to
  /\ leg' = 1
  /\ IF Motor_flag = 0
       THEN drive' = "stop" /\ estop' = "heard"
       ELSE UNCHANGED << drive, estop >>
  /\ UNCHANGED << rxVars, lightVars, obsVars, odoVars, blind >>

-----------------------------------------------------------------------------
(* The switch of Finding_light.                                            *)

(* Faulty variant: the search counts from wherever the odometer stands. *)
LightBegin_NoReset ==
  /\ Modestate_light = 1
  /\ Modestate_light' = 2
  /\ spun' = 0
  /\ pc' = "lightEnd"
  /\ UNCHANGED << rxVars, starttime_cnt, reg, obsVars, Milleage,
                  Milleage_flag, gone, histVars, drive, leg >>

(* case 1 *)
LightBegin ==
  /\ Modestate_light = 1
  /\ Modestate_light' = 2
  /\ Milleage_flag' = 0
  /\ spun' = 0
  /\ pc' = "lightEnd"
  /\ UNCHANGED << rxVars, starttime_cnt, reg, obsVars, Milleage, gone,
                  histVars, drive, leg >>

(* case 2, if (finding_flag == 0): turn on the spot, through two pitches   *)
(* of the camera, until the distance is covered.                           *)
LightSpin ==
  /\ Modestate_light = 2
  /\ pc' = "lightSeen"
  /\ IF finding_flag # 0
       THEN UNCHANGED << drive, Modestate_light >>
       ELSE IF Milleage <= FullTurn
         THEN drive' = "spin" /\ UNCHANGED Modestate_light
         ELSE Modestate_light' = 4 /\ UNCHANGED drive
  /\ UNCHANGED << rxVars, starttime_cnt, reg, obsVars, odoVars, histVars,
                  leg >>

(* Faulty variant: the case without its transition. *)
LightFound_Stuck ==
  /\ Modestate_light = 3
  /\ pc' = "lightEnd"
  /\ UNCHANGED << rxVars, lightVars, obsVars, odoVars, histVars, drive, leg >>

(* case 3 *)
LightFound ==
  /\ Modestate_light = 3
  /\ Modestate_light' = 4
  /\ pc' = "lightEnd"
  /\ UNCHANGED << rxVars, starttime_cnt, reg, obsVars, odoVars, histVars,
                  drive, leg >>

(* Faulty variant: the search ends without stopping the wheels. *)
LightHalt_Rolling ==
  /\ Modestate_light = 4
  /\ Modestate_light' = 5
  /\ pc' = "lightEnd"
  /\ UNCHANGED << rxVars, starttime_cnt, reg, obsVars, odoVars, histVars,
                  drive, leg >>

(* case 4 *)
LightHalt ==
  /\ Modestate_light = 4
  /\ Modestate_light' = 5
  /\ drive' = "stop"
  /\ pc' = "lightEnd"
  /\ UNCHANGED << rxVars, starttime_cnt, reg, obsVars, odoVars, histVars,
                  leg >>

(* case 5 *)
LightIdle ==
  /\ Modestate_light = 5
  /\ pc' = "lightEnd"
  /\ UNCHANGED << rxVars, lightVars, obsVars, odoVars, histVars, drive, leg >>

FindingLight ==
  /\ pc = "lightStep"
  /\ LightBegin \/ LightSpin \/ LightFound \/ LightHalt \/ LightIdle

(* case 2, if (finding_flag == 1): the flag is read again, and the state   *)
(* chosen a moment ago is overwritten.                                     *)
LightSeen ==
  /\ pc = "lightSeen"
  /\ pc' = "lightEnd"
  /\ Modestate_light' = IF finding_flag = 1 THEN 3 ELSE Modestate_light
  /\ UNCHANGED << rxVars, starttime_cnt, reg, obsVars, odoVars, histVars,
                  drive, leg >>

-----------------------------------------------------------------------------
(* The switch of Finding_obs.                                              *)

(* case 0, if (Distance > 400) *)
WatchFar ==
  /\ Modestate = Watch
  /\ time_cntobs' = IF near THEN time_cntobs ELSE 0
  /\ pc' = "obsNear"
  /\ UNCHANGED << rxVars, lightVars, Modestate, odoVars, histVars, drive,
                  leg >>

(* case 1, 3, 5, 7, 9: Yaw_change drives; a heading reached ends the turn. *)
Turn(arrived) ==
  /\ Modestate \in Turning
  /\ drive' = "turn"
  /\ time_cntobs' = 0
  /\ Modestate' = IF arrived THEN Modestate + 1 ELSE Modestate
  /\ pc' = "obsEnd"
  /\ UNCHANGED << rxVars, lightVars, odoVars, histVars, leg >>

(* case 2, 4, 6, 8, 10: stand still, then take the gap or the next         *)
(* heading; after the last heading, watch again with the counter as it is. *)
Look ==
  /\ Modestate \in Looking
  /\ drive' = "stop"
  /\ time_cntobs' = Inc16(time_cntobs)
  /\ Modestate' = IF time_cntobs' < LookTicks THEN Modestate
                  ELSE IF ~near THEN Depart
                  ELSE IF Modestate = 2 * Turns THEN Watch
                  ELSE Modestate + 1
  /\ pc' = "obsEnd"
  /\ UNCHANGED << rxVars, lightVars, odoVars, histVars, leg >>

(* Faulty variant: the straight leg counts from the turns before it. *)
LeaveScan_NoReset ==
  /\ Modestate = Depart
  /\ Modestate' = Straight
  /\ gone' = 0
  /\ pc' = "obsEnd"
  /\ UNCHANGED << rxVars, lightVars, time_cntobs, Milleage, Milleage_flag,
                  spun, histVars, drive, leg >>

(* case 11 *)
LeaveScan ==
  /\ Modestate = Depart
  /\ Modestate' = Straight
  /\ Milleage' = 0
  /\ gone' = 0
  /\ pc' = "obsEnd"
  /\ UNCHANGED << rxVars, lightVars, time_cntobs, Milleage_flag, spun,
                  histVars, drive, leg >>

(* case 12: Car_Goline, or stop and watch again.                           *)
GoLine ==
  /\ Modestate = Straight
  /\ IF Milleage <= GoStraight
       THEN drive' = "straight" /\ UNCHANGED obsVars
       ELSE drive' = "stop" /\ time_cntobs' = 0 /\ Modestate' = Watch
  /\ pc' = "obsEnd"
  /\ UNCHANGED << rxVars, lightVars, odoVars, histVars, leg >>

FindingObs ==
  /\ pc = "obsStep"
  /\ \/ WatchFar
     \/ \E arrived \in BOOLEAN : Turn(arrived)
     \/ Look
     \/ LeaveScan
     \/ GoLine

(* case 0, if (Distance <= 400): the distance is read again.               *)
WatchNear ==
  /\ pc = "obsNear"
  /\ pc' = "obsEnd"
  /\ time_cntobs' = IF near THEN Inc16(time_cntobs) ELSE time_cntobs
  /\ Modestate' = IF near /\ time_cntobs' >= NearTicks THEN Watch + 1
                  ELSE Watch
  /\ UNCHANGED << rxVars, lightVars, odoVars, histVars, drive, leg >>

(* Finding_obs returns to the second if, or ends the tick.                 *)
CloseObs ==
  \/ leg = 1 /\ CloseFinder("obsEnd", "mode2")
  \/ leg = 2 /\ CloseFinder("obsEnd", "sleep")

-----------------------------------------------------------------------------
Sched ==
  \/ \E d \in 0 .. MaxStep : Tick(d)
  \/ LoadStart("load1", "store1")
  \/ StoreStart("store1", "obs")
  \/ TestMode2
  \/ LoadStart("load2", "store2")
  \/ StoreStart("store2", "gate")
  \/ TestStart
  \/ TestMotor("light", "lightStep", "lightEnd")
  \/ FindingLight
  \/ LightSeen
  \/ CloseFinder("lightEnd", "after")
  \/ TestSearchOver
  \/ TestMotor("obs", "obsStep", "obsEnd")
  \/ FindingObs
  \/ WatchNear
  \/ CloseObs

Next == Message \/ Sched

Spec == Init /\ [][Next]_vars

(* A driven wheel turns: an encoder that is asked often enough counts.     *)
Rolls == drive # "stop" /\ \E d \in 1 .. MaxStep : Tick(d)

(* rt_thread_mdelay(10) returns every tick and nothing of higher priority  *)
(* runs for ever, so the thread keeps taking steps; messages are never     *)
(* owed. The wheels are fair because the encoders are outside the program. *)
FairSpec == Spec /\ WF_vars(Sched) /\ SF_vars(Rolls)

-----------------------------------------------------------------------------
TypeOK ==
  /\ MaixMode_flag \in {1, 2}
  /\ Motor_flag \in {0, 1}
  /\ starttime_cnt \in 0 .. U16Max
  /\ Modestate_light \in 1 .. 5
  /\ finding_flag \in {0, 1}
  /\ near \in BOOLEAN
  /\ Modestate \in Watch .. Straight
  /\ time_cntobs \in 0 .. LookTicks + NearTicks
  /\ Milleage \in 0 .. FarEnough
  /\ Milleage_flag \in {0, 1}
  /\ drive \in {"stop", "spin", "turn", "straight"}
  /\ reg \in 0 .. U16Max
  /\ leg \in {1, 2}
  /\ pc \in PCs
  /\ estop \in {"off", "on", "ticked", "heard"}
  /\ blind \in 0 .. LongestBlind + 1
  /\ spun \in 0 .. FarEnough
  /\ gone \in 0 .. FarEnough

(* Once a finder has returned with the emergency stop on, the wheels stay  *)
(* stopped until the stop is taken back, whatever mode commands, searches  *)
(* and scans come in between: no write of the motors is left in flight     *)
(* (SportMode.c:40,92,105,233).                                            *)
StopHolds == estop = "heard" => drive = "stop"

(* The longest stretch of ticks in which nobody looks at the emergency     *)
(* stop, unless a mode command prolongs it, is one start delay: not        *)
(* shorter, because starttime_cnt wraps and closes the gate of             *)
(* Finding_light again in the middle of a search (SportMode.c:255-256).    *)
BlindWindowBounded == blind <= LongestBlind

(* A finder that has come to its end has stopped the wheels it set         *)
(* turning: a search that is over leaves no spin behind, and a watch after *)
(* a scan neither a turn nor a leg, whatever mode commands, stops and lamp *)
(* reports came in between, and although each finder overwrites what the   *)
(* other has told the motors (SportMode.c:79-83,132-133,221-225). It does  *)
(* not say that a finder comes to its end: a mode command may leave a      *)
(* search in the middle for ever, its wheels turning (SeekOffStopsSpin).   *)
EndedFinderStopped ==
  /\ drive = "spin" => Modestate_light \in {2, 3, 4}
  /\ drive = "turn" => Modestate \in Turning \cup Looking
  /\ drive = "straight" => Modestate = Straight

(* The search gives up only after the wheels have covered a full turn      *)
(* since it began: no distance from before, of an earlier search, a scan   *)
(* or a leg, counts, though they share the odometer and its reset comes a  *)
(* tick late (SportMode.c:45-46,54-67). The distance need not be the       *)
(* search's own: the obstacle avoidance of a mode 1 that interrupts it may *)
(* have covered a part, and an interrupted search does not begin anew.     *)
FullTurnBeforeGivingUp ==
  [][Modestate_light = 2 /\ Modestate_light' = 4 => spun > FullTurn]_vars

(* The straight leg ends only after its distance has been covered since it *)
(* began (SportMode.c:207-208,215-226). A light search in between may have *)
(* covered a part of it: the odometer does not know who drives.            *)
LegCoversDistance ==
  [][Modestate = Straight /\ Modestate' = Watch => gone > GoStraight]_vars

(* An emergency stop that stays on stops the wheels for good, once the     *)
(* host no longer restarts the start delay.                                *)
EStopTakesEffect ==
  (<>[](Motor_flag = 0) /\ <>[][~ModeCommand]_vars) => <>[](drive = "stop")

(* A search that is left alone in mode 2 ends, found or not, and so, by    *)
(* EndedFinderStopped, does its spin.                                      *)
SearchEnds ==
  (<>[](MaixMode_flag = 2 /\ Motor_flag = 1) /\ <>[][~Message]_vars)
    => <>[](Modestate_light = 5)

(* What the button that says the stop is in force promises                 *)
(* (serial_panel.py:187): the wheels are stopped once a whole tick has     *)
(* passed with the stop on and two since the last mode command. The start  *)
(* delay after a mode command, in which no finder is called, breaks it.    *)
StopWithinTwoTicks ==
  (pc = "sleep" /\ estop = "ticked" /\ blind >= 2) => drive = "stop"

(* What the host's log says of the frame AA 10 01 55 (ui_main.py:567-568), *)
(* that the automatic light search is switched off: in mode 1, with        *)
(* nothing further asked, the spin of the search ends. It does not: nobody *)
(* calls Finding_light any more (SportMode.c:244-251), and as long as no   *)
(* obstacle is near Finding_obs writes no motor (SportMode.c:109-124).     *)
SeekOffStopsSpin ==
  (<>[](MaixMode_flag = 1) /\ <>[][~Message]_vars) => <>[](drive # "spin")
=============================================================================
