------------------------------- MODULE MCSched -------------------------------
(***************************************************************************)
(* Two things that sched10ms calls in every tick, for TLC and under the    *)
(* fairness of that thread: the sensor (DHT11_Task10ms, DhtSensor) and the *)
(* watering (water_auto, Irrigation). They share no variable, so that it   *)
(* is enough to look at one at a time: "part" says at which, and the other *)
(* rests. What the relay may never do is checked in Irrigation, with       *)
(* larger constants.                                                       *)
(***************************************************************************)
EXTENDS DhtSensor

CONSTANTS Types, Grain, MaxFlight, MaxReports, MaxChoices, MaxFaults

VARIABLES
  part,
  (* Irrigation *)
  connected, pump_button, pump_enabled, override, guard, plant_code, moisture,
  down, up, Water_flag, Soil_PlantType, Soil_AlarmFlag, percentSoil, relay,
  turn, soil_pc, faults, choices, clean, late

waterVars ==
  << connected, pump_button, pump_enabled, override, guard, plant_code,
     moisture, down, up, Water_flag, Soil_PlantType, Soil_AlarmFlag,
     percentSoil, relay, turn, soil_pc, faults, choices, clean, late >>
allVars == << part, vars, waterVars >>

Water == INSTANCE Irrigation WITH pc <- soil_pc

-----------------------------------------------------------------------------
(* A part that is not looked at rests in its first state.                  *)
SchedInit == part \in {"sensor", "water"} /\ Init /\ Water!Init

(* "Only" the part at hand moves.                                          *)
OnlySensor == part = "sensor" /\ UNCHANGED << part, waterVars >>
OnlyWater == part = "water" /\ UNCHANGED << part, vars >>

SensorStep == OnlySensor /\ Next
WaterStep == OnlyWater /\ Water!Next

SchedNext == SensorStep \/ WaterStep

SchedSpec == SchedInit /\ [][SchedNext]_allVars

(* The fairness of each part, that of its FairSpec, of the steps in which  *)
(* it is looked at.                                                        *)
HandlerRuns == OnlySensor /\ Handler
TaskRuns == OnlySensor /\ Task
FrameApplied == OnlyWater /\ Water!ApplyFrame
WaterRuns == OnlyWater /\ Water!Sched
ReportGoes == OnlyWater /\ Water!ReportAndWater /\ turn' # turn
ReportRead == OnlyWater /\ Water!ReceivePacket

SchedFairSpec ==
  /\ SchedSpec
  /\ WF_allVars(HandlerRuns) /\ WF_allVars(TaskRuns)
  /\ WF_allVars(FrameApplied) /\ WF_allVars(WaterRuns)
  /\ SF_allVars(ReportGoes) /\ SF_allVars(ReportRead)

-----------------------------------------------------------------------------
(* The part never changes: at all times is at last.                        *)
LookedAt(p) == <>[](part = p)

(* DHT11_Task10ms: sampling never stops, whatever the sensor does.         *)
SensorSampled == LookedAt("sensor") => SamplingGoesOn

(* water_auto: a plant that stays dry is watered, once a host that is      *)
(* connected, over a line without a fault, has left manual control.        *)
DryGetsWater == LookedAt("water") => Water!DryGetsWater

(* PlantSoft_DataProc: the host and the device end with the same plant     *)
(* type, over a line without a fault, once nobody chooses one.             *)
TypesConverge == LookedAt("water") => Water!TypesConverge
=============================================================================
