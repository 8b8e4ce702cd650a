----------------------------- MODULE Irrigation ------------------------------
(***************************************************************************)
(* Watering. The host (ui_main.py, serial_panel.py) permits or forbids the *)
(* pump, by hand or by a threshold on the moisture it is told; the device  *)
(* (Soil.c, water.c, usart5.c) opens its relay when it is permitted and    *)
(* its own threshold says dry. Both thresholds follow a plant type which   *)
(* the user, the camera and the device's reports all write.                *)
(*                                                                         *)
(* A host action is one Qt event handler. The device's tick is two steps,  *)
(* between which a frame may be applied (u5rx, u4rx preempt sched10ms):    *)
(* the report with the relay, then the soil. A frame between the report    *)
(* and the relay is the same as one before or after both, for they read    *)
(* different flags.                                                        *)
(*                                                                         *)
(* Moisture is counted in units of 1/Grain of the tenth of a percent that  *)
(* a report carries. The thresholds 5, 25, 40, 75 % are the tenths 1 .. 4: *)
(* only their order matters, and which one is low and which high.          *)
(***************************************************************************)
EXTENDS Integers, SequencesExt

CONSTANTS
  Types,      (* the number of plant types; the code has 3                 *)
  Grain,      (* moisture levels the device tells apart within a tenth     *)
  MaxFlight,  (* bound of the model: command frames on the way             *)
  MaxReports, (* bound of the model: reports on the way                    *)
  MaxChoices, (* bound of the model: plant types chosen                    *)
  MaxFaults   (* bound of the model: losses, refusals, restarts, typed     *)
              (* frames                                                    *)

ASSUME IrrigationAssumption ==
  /\ Types \in Nat \ {0, 1}
  /\ Grain \in Nat \ {0}
  /\ MaxFlight \in Nat \ {0, 1}
  /\ MaxReports \in Nat \ {0}
  /\ MaxChoices \in Nat /\ MaxFaults \in Nat

VARIABLES
  (* the host *)
  connected,    (* is_connected()                                          *)
  pump_button,  (* smart_pump_button.isChecked()                           *)
  pump_enabled, (* _pump_enabled                                           *)
  override,     (* _pump_manual_override                                   *)
  guard,        (* the type selected in guard_combo                        *)
  plant_code,   (* current_plant_type_code                                 *)
  moisture,     (* current_moisture in tenths, -1 before any report        *)
  (* the line *)
  down,         (* command frames on their way to the device               *)
  up,           (* reports on their way to the host                        *)
  (* the device *)
  Water_flag, Soil_PlantType, Soil_AlarmFlag,
  percentSoil,  (* in units of 1/Grain of a tenth                          *)
  relay,        (* the water pin                                           *)
  turn,         (* the packet that is reported next                        *)
  pc,           (* sched10ms: "water" or "soil"                            *)
  (* history *)
  faults,       (* faults so far                                           *)
  choices,      (* plant types chosen so far                               *)
  clean,        (* every pump frame since the connection got through       *)
  late          (* ticks since the relay had a reason to be closed         *)

hostVars == << connected, pump_button, pump_enabled, override, guard,
               plant_code, moisture >>
flagVars == << Water_flag, Soil_PlantType >>
soilVars == << Soil_AlarmFlag, percentSoil, relay, turn, pc >>
vars == << hostVars, down, up, flagVars, soilVars, faults, choices, clean,
           late >>

Type == 1 .. Types
Low(t) == t * Grain
High(t) == (t + 1) * Grain
Level == 0 .. High(Types)

Pump(b) == << "pump", b >>
Plant(t) == << "type", t >>
Frame == {Pump(b) : b \in {0, 1}} \cup {Plant(t) : t \in Type}
Packets == << "soil", "type" >>

(* SendData_to_PlantSoft truncates to tenths.                              *)
Tenths(p) == p \div Grain
Soil(m) == << "soil", m >>
Packet == {Soil(Tenths(p)) : p \in Level} \cup {Plant(t) : t \in Type}

(* What the device holds after a reset.                                    *)
DeviceReset ==
  /\ Water_flag' = 1 /\ Soil_PlantType' = 1
  /\ Soil_AlarmFlag' = 0 /\ percentSoil' = 0 /\ relay' = 0
  /\ turn' = 1 /\ pc' = "water" /\ late' = 0

Init ==
  /\ connected = FALSE /\ pump_button = FALSE
  /\ pump_enabled = FALSE /\ override = FALSE
  /\ guard = 1 /\ plant_code = 2 /\ moisture = -1
  /\ down = << >> /\ up = << >>
  /\ Water_flag = 1 /\ Soil_PlantType = 1
  /\ Soil_AlarmFlag = 0 /\ percentSoil = 0 /\ relay = 0
  /\ turn = 1 /\ pc = "water"
  /\ faults = 0 /\ choices = 0 /\ clean = FALSE /\ late = 0

-----------------------------------------------------------------------------
Bit(b) == IF b THEN 1 ELSE 0

(* send_payload: a closed port takes nothing, and a write may fail.        *)
Send(frames) ==
  \/ /\ connected'
     /\ Len(down) + Len(frames) <= MaxFlight
     /\ down' = down \o frames
     /\ UNCHANGED faults
  \/ /\ ~connected'
     /\ UNCHANGED << down, faults >>
  \/ /\ connected' /\ faults < MaxFaults
     /\ Len(down) + Len(frames) <= MaxFlight + 1
     /\ \E k \in DOMAIN frames : down' = down \o RemoveAt(frames, k)
     /\ faults' = faults + 1

(* The line took the pump frame. *)
PumpSent == clean' = (clean /\ connected' /\ faults' = faults)

Threshold(t) == t
ShouldEnable(code, m) == m < Threshold(code)

(* Faulty variant: the switch is recorded, and never sent. *)
UpdatePumpAutomation_NotSent(code, m, ov, frames) ==
  IF ov \/ m < 0 \/ ShouldEnable(code, m) = pump_enabled
    THEN /\ IF frames = << >> THEN UNCHANGED << down, faults >>
                              ELSE Send(frames)
         /\ UNCHANGED << pump_enabled, pump_button, clean >>
    ELSE /\ pump_enabled' = ShouldEnable(code, m)
         /\ pump_button' = ShouldEnable(code, m)
         /\ UNCHANGED << down, faults, clean >>

(* _update_pump_automation, after the frames that the handler has sent     *)
(* itself.                                                                 *)
UpdatePumpAutomation(code, m, ov, frames) ==
  IF ov \/ m < 0 \/ ShouldEnable(code, m) = pump_enabled
    THEN /\ IF frames = << >> THEN UNCHANGED << down, faults >>
                              ELSE Send(frames)
         /\ UNCHANGED << pump_enabled, pump_button, clean >>
    ELSE /\ pump_enabled' = ShouldEnable(code, m)
         /\ pump_button' = ShouldEnable(code, m)
         /\ Send(Append(frames, Pump(Bit(ShouldEnable(code, m)))))
         /\ PumpSent

(* connect_serial and _sync_device_state_after_connect: the type, then the *)
(* pump; what had arrived before is discarded.                             *)
Connect ==
  /\ ~connected /\ connected' = TRUE
  /\ up' = << >>
  /\ Send(<< Plant(guard), Pump(Bit(pump_button)) >>)
  /\ clean' = (faults' = faults)
  /\ UNCHANGED << pump_button, pump_enabled, override, guard, plant_code,
                  moisture, flagVars, soilVars, late,
                  choices >>

(* disconnect_serial, or the port was removed.                             *)
Disconnect ==
  /\ connected /\ connected' = FALSE
  /\ up' = << >> /\ clean' = FALSE
  /\ UNCHANGED << pump_button, pump_enabled, override, guard, plant_code,
                  moisture, down, flagVars, soilVars, faults, late,
                  choices >>

(* The pump button: _handle_manual_pump_toggle takes over and sends.       *)
TogglePump ==
  /\ pump_button' = ~pump_button
  /\ pump_enabled' = ~pump_button
  /\ override' = TRUE
  /\ UNCHANGED << connected, guard, plant_code, moisture, up, flagVars,
                  soilVars, late,
                  choices >>
  /\ Send(<< Pump(Bit(pump_button')) >>)
  /\ PumpSent

(* _clear_manual_pump_override, 30 s after the last click.                 *)
OverrideExpires ==
  /\ override /\ override' = FALSE
  /\ UNCHANGED << connected, guard, plant_code, moisture, up, flagVars,
                  soilVars, late,
                  choices >>
  /\ UpdatePumpAutomation(plant_code, moisture, FALSE, << >>)

(* _send_selected_plant_type, _handle_plant_type_changed: the user is told *)
(* that the type is synchronised, whether or not the frame was taken.      *)
SelectType(t) ==
  /\ t # guard
  /\ choices < MaxChoices /\ choices' = choices + 1
  /\ guard' = t /\ plant_code' = t
  /\ UNCHANGED << connected, override, moisture, up, flagVars, soilVars, late >>
  /\ UpdatePumpAutomation(t, moisture, override, << Plant(t) >>)

(* A pump frame typed into the text box: _sync_actuator_state_from_payload *)
(* follows it, connected or not; the button does not.                      *)
TypePump(b) ==
  /\ faults < MaxFaults /\ faults' = faults + 1
  /\ IF connected THEN Len(down) < MaxFlight /\ down' = Append(down, Pump(b))
                  ELSE UNCHANGED down
  /\ pump_enabled' = (b = 1)
  /\ clean' = (clean /\ pump_button = (b = 1))
  /\ UNCHANGED << connected, pump_button, override, guard, plant_code,
                  moisture, up, flagVars, soilVars, late,
                  choices >>

(* _handle_sensor_packet: the value is taken over, then the automation     *)
(* runs, whatever the packet was.                                          *)
ReceivePacket ==
  /\ connected /\ up # << >>
  /\ up' = Tail(up)
  /\ LET p == Head(up)
         m == IF p[1] = "soil" THEN p[2] ELSE moisture
         t == IF p[1] = "type" THEN p[2] ELSE plant_code
     IN /\ moisture' = m
        /\ plant_code' = t
        /\ guard' = IF p[1] = "type" THEN t ELSE guard
        /\ UNCHANGED << connected, override, flagVars, soilVars, late,
                  choices >>
        /\ UpdatePumpAutomation(t, m, override, << >>)

Host == \/ Connect \/ Disconnect \/ TogglePump \/ OverrideExpires
        \/ ReceivePacket
        \/ \E t \in Type : SelectType(t)
        \/ \E b \in {0, 1} : TypePump(b)

-----------------------------------------------------------------------------
(* PlantSoft_DataProc applies a whole frame.                               *)
ApplyFrame ==
  /\ down # << >>
  /\ down' = Tail(down)
  /\ IF Head(down)[1] = "pump"
       THEN Water_flag' = Head(down)[2] /\ UNCHANGED Soil_PlantType
       ELSE Soil_PlantType' = Head(down)[2] /\ UNCHANGED Water_flag
  /\ late' = 0
  /\ UNCHANGED << hostVars, up, soilVars, faults, clean, choices >>

(* The camera's choice of a type, which it sends once.                     *)
CameraType(t) ==
  /\ choices < MaxChoices /\ choices' = choices + 1
  /\ Soil_PlantType' = t /\ late' = 0
  /\ UNCHANGED << hostVars, down, up, Water_flag, soilVars, faults, clean >>

(* Faulty variant: the plant type is not among the packets.                *)
Report_NoType ==
  /\ Len(up) < MaxReports
  /\ turn' = 1 + (turn % Len(Packets))
  /\ up' = IF connected /\ Packets[turn] = "soil"
             THEN Append(up, Soil(Tenths(percentSoil))) ELSE up

(* SendData_to_PlantSoft: every fourth tick the next packet, of which two  *)
(* matter here. Nobody listens to a closed port.                           *)
Report ==
  LET packet == IF Packets[turn] = "soil" THEN Soil(Tenths(percentSoil))
                                          ELSE Plant(Soil_PlantType)
  IN /\ Len(up) < MaxReports
     /\ turn' = 1 + (turn % Len(Packets))
     /\ up' = IF connected THEN Append(up, packet) ELSE up

(* Faulty variants: a withdrawn permission leaves the relay as it is; the  *)
(* states of the soil are mixed up.                                        *)
WaterAuto_Latched(mode, agree) ==
  relay' = IF agree = 1 THEN Bit(mode = 1) ELSE relay

WaterAuto_WrongState(mode, agree) == relay' = Bit(agree = 1 /\ mode = 2)

(* water_auto                                                              *)
WaterAuto(mode, agree) == relay' = Bit(agree = 1 /\ mode = 1)

(* The first half of a tick.                                               *)
ReportAndWater ==
  /\ pc = "water" /\ pc' = "soil"
  /\ Report \/ UNCHANGED << turn, up >>
  /\ WaterAuto(Soil_AlarmFlag, Water_flag)
  /\ UNCHANGED << hostVars, down, flagVars, Soil_AlarmFlag, percentSoil,
                  faults, choices, clean, late >>

(* Soil_UpdateAlarmFlag: at the low threshold itself nothing is assigned.  *)
AlarmFlag(p, t, old) ==
  CASE p < Low(t) -> 1
    [] p >= High(t) -> 0
    [] p > Low(t) /\ p < High(t) -> 2
    [] OTHER -> old

Overdue(p) == p > Low(Soil_PlantType) \/ Water_flag = 0

(* Soil_GetData_Percent, Soil_UpdateAlarmFlag                              *)
UpdateSoil ==
  /\ pc = "soil" /\ pc' = "water"
  /\ \E p \in Level :
       /\ percentSoil' = p
       /\ Soil_AlarmFlag' = AlarmFlag(p, Soil_PlantType, Soil_AlarmFlag)
       /\ late' = IF ~Overdue(p) THEN 0 ELSE IF late < 2 THEN late + 1 ELSE late
  /\ UNCHANGED << hostVars, down, up, flagVars, relay, turn, faults, clean,
                  choices >>

Sched == ReportAndWater \/ UpdateSoil

-----------------------------------------------------------------------------
(* A frame lost on the line; a reset of the device, of which the host      *)
(* hears nothing.                                                          *)
LoseFrame ==
  /\ faults < MaxFaults /\ down # << >>
  /\ down' = Tail(down) /\ faults' = faults + 1
  /\ clean' = (clean /\ Head(down)[1] # "pump")
  /\ UNCHANGED << hostVars, up, flagVars, soilVars, late,
                  choices >>

Restart ==
  /\ faults < MaxFaults /\ faults' = faults + 1
  /\ DeviceReset
  /\ down' = << >> /\ clean' = FALSE
  /\ UNCHANGED << hostVars, up, choices >>

Fault == LoseFrame \/ Restart

Next == Host \/ ApplyFrame \/ (\E t \in Type : CameraType(t)) \/ Sched \/ Fault

Spec == Init /\ [][Next]_vars

(* The device's threads run, and so does the host's event loop. No click   *)
(* is owed. *)
FairSpec ==
  /\ Spec
  /\ WF_vars(ApplyFrame)
  /\ WF_vars(Sched)
  /\ SF_vars(ReportAndWater /\ turn' # turn)
  /\ SF_vars(ReceivePacket)

-----------------------------------------------------------------------------
TypeOK ==
  /\ connected \in BOOLEAN /\ pump_button \in BOOLEAN
  /\ pump_enabled \in BOOLEAN /\ override \in BOOLEAN
  /\ guard \in Type /\ plant_code \in Type
  /\ moisture \in {-1} \cup {Tenths(p) : p \in Level}
  /\ down \in Seq(Frame) /\ Len(down) <= MaxFlight
  /\ up \in Seq(Packet) /\ Len(up) <= MaxReports
  /\ Water_flag \in {0, 1} /\ Soil_PlantType \in Type
  /\ Soil_AlarmFlag \in {0, 1, 2} /\ percentSoil \in Level /\ relay \in {0, 1}
  /\ turn \in 1 .. Len(Packets) /\ pc \in {"water", "soil"}
  /\ faults \in 0 .. MaxFaults /\ choices \in 0 .. MaxChoices /\ clean \in BOOLEAN
  /\ late \in 0 .. 2

(* The word on the pump that the device has last, once it has applied what *)
(* is on the way: the last pump frame, or (at 0) its flag.                 *)
LastWord(k) ==
  /\ k = 0 \/ down[k][1] = "pump"
  /\ \A j \in DOMAIN down : j > k => down[j][1] # "pump"
Word(k) == IF k = 0 THEN Water_flag ELSE down[k][2]

(* As long as no pump frame was lost, refused or typed by hand since the   *)
(* connection, the device is permitted to pump exactly when the last pump  *)
(* frame still on its way, or else its flag, says what the button shows:   *)
(* clicks, automation, expiry of the override and the synchronisation after*)
(* a connection never leave the two sides apart. All variables keep their  *)
(* types.                                                                  *)
PumpAgrees ==
  /\ TypeOK
  /\ clean => \A k \in 0 .. Len(down) : LastWord(k) => Word(k) = Bit(pump_button)

(* Two ticks after the soil is wetter than the threshold of the plant, or  *)
(* the permission is withdrawn, the relay is closed, in spite of the alarm *)
(* being one tick old when the relay is set and having no value at the     *)
(* threshold itself. The count of ticks begins again with every frame that *)
(* is applied, every type of the camera and every restart.                 *)
WaterStopsInTime == late = 2 => relay = 0

(* A plant that stays dry is watered, once a host that is connected has    *)
(* left manual control: the device's dry and the host's dry, which is a    *)
(* truncated one, are the same. For a line without a fault: with one see   *)
(* ShownPumpWaters.                                                        *)
DryPlant == /\ connected /\ ~override
            /\ percentSoil < Low(Soil_PlantType)
DryGetsWater == <>[](DryPlant /\ faults = 0) => <>[](relay = 1)

(* The two sides end with the same plant type, once nobody chooses one,    *)
(* though a report sent before a choice may undo it on the host. For a     *)
(* line without a fault.                                                   *)
TypesConverge ==
  <>[](connected /\ faults = 0) => <>[](guard = Soil_PlantType /\ plant_code = Soil_PlantType)

(* What the button "the pump is running" (serial_panel.py:185) and the log *)
(* "the pump was switched on" (ui_main.py:664-668) say: a pump that stays  *)
(* switched on at the host, over a port that stays open, waters a plant    *)
(* that stays dry. The host records the pump as switched whether or not    *)
(* the frame got through, and never sends it again (ui_main.py:656-663).   *)
ShownPumpWaters ==
  <>[](connected /\ pump_button /\ pump_enabled /\ percentSoil < Low(Soil_PlantType))
    => <>[](relay = 1)
=============================================================================
