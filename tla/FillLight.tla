------------------------------ MODULE FillLight ------------------------------
(***************************************************************************)
(* The fill-light (PWM.c): sched10ms moves the brightness by one step per  *)
(* tick towards the value of the plant type, or towards dark, while the    *)
(* receive threads of the host and of the camera change the switch and the *)
(* type, also in the middle of a call.                                     *)
(***************************************************************************)
EXTENDS Integers

CONSTANT Quarter  (* the distance between two of the values, 25            *)

LightAssumption == Quarter \in Nat \ {0}

Full == 4 * Quarter
Type == {"shade", "half", "sun"}

VARIABLES
  lightONOFF_flag, Soil_PlantType,
  i,       (* the brightness, the static variable of LED_PWM               *)
  pc,      (* "idle", or "switch": LightContral has tested its argument    *)
  (* history *)
  steady   (* calls begun and ended since the brightness asked for last    *)
           (* changed, at most Full; -1 when the change fell into a call   *)

vars == << lightONOFF_flag, Soil_PlantType, i, pc, steady >>

Level(t) == CASE t = "shade" -> 2 * Quarter
              [] t = "half"  -> 3 * Quarter
              [] t = "sun"   -> 4 * Quarter

Target == IF lightONOFF_flag = 1 THEN Level(Soil_PlantType) ELSE 0

Init ==
  /\ lightONOFF_flag = 0 /\ Soil_PlantType = "shade"
  /\ i = 0 /\ pc = "idle" /\ steady = 0

-----------------------------------------------------------------------------
Changed == steady' = IF Target' = Target THEN steady
                     ELSE IF pc = "idle" THEN 0 ELSE -1

(* The host's switch, and what the camera reports of the lamp it looks for. *)
SetLight(v) ==
  /\ lightONOFF_flag' = v
  /\ UNCHANGED << Soil_PlantType, i, pc >>
  /\ Changed

(* The host's and the camera's choice of the plant type.                   *)
SetType(t) ==
  /\ Soil_PlantType' = t
  /\ UNCHANGED << lightONOFF_flag, i, pc >>
  /\ Changed

-----------------------------------------------------------------------------
(* Faulty variant: no branch for a brightness above the target. *)
LED_PWM_OnlyUp(target) == i' = IF i < target THEN i + 1 ELSE i

LED_PWM(target) ==
  i' = IF i < target THEN i + 1 ELSE IF i > target THEN i - 1 ELSE i

Counted == steady' = IF steady < Full THEN steady + 1 ELSE Full

(* LightContral with a zero argument *)
CallOff ==
  /\ pc = "idle" /\ lightONOFF_flag = 0
  /\ LED_PWM(0) /\ Counted
  /\ UNCHANGED << lightONOFF_flag, Soil_PlantType, pc >>

CallOn ==
  /\ pc = "idle" /\ lightONOFF_flag = 1
  /\ pc' = "switch"
  /\ UNCHANGED << lightONOFF_flag, Soil_PlantType, i, steady >>

(* the switch over Soil_PlantType                                          *)
Switch ==
  /\ pc = "switch" /\ pc' = "idle"
  /\ LED_PWM(Level(Soil_PlantType)) /\ Counted
  /\ UNCHANGED << lightONOFF_flag, Soil_PlantType >>

LightContral == CallOff \/ CallOn \/ Switch

Next == \/ \E v \in {0, 1} : SetLight(v)
        \/ \E t \in Type : SetType(t)
        \/ LightContral

Spec == Init /\ [][Next]_vars

-----------------------------------------------------------------------------
(* The brightness stays a duty cycle of the timer, of period Full.         *)
TypeOK ==
  /\ lightONOFF_flag \in {0, 1} /\ Soil_PlantType \in Type
  /\ i \in 0 .. Full /\ pc \in {"idle", "switch"}
  /\ steady \in -1 .. Full

Distance == IF i < Target THEN Target - i ELSE i - Target

(* Whatever host and camera wrote before, Full calls of LightContral after *)
(* the last change the light has the brightness of its setting: a call that *)
(* was under way with the old setting delays this by no more than itself.  *)
SettlesInTime == Distance <= Full - steady
=============================================================================
