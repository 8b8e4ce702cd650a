-------------------------- MODULE IrrigationProofs --------------------------
(***************************************************************************)
(* Proofs about Irrigation, for every number of plant types, every grain   *)
(* of the moisture and every bound on frames and faults.                   *)
(***************************************************************************)
EXTENDS Irrigation, SequenceTheorems, TLAPS

(* The relay is closed one tick after the alarm went or the permission was *)
(* withdrawn, and each half of a tick has done its part of that.           *)
StopsInTime ==
  /\ late >= 1 /\ pc = "water" => Soil_AlarmFlag # 1 \/ Water_flag = 0
  /\ late >= 1 /\ pc = "soil" => relay = 0
  /\ late = 2 => relay = 0

(* What PumpAgrees says beside the types. *)
Agreement ==
  clean => \A n \in 0 .. Len(down) : LastWord(n) => Word(n) = Bit(pump_button)

Inv == TypeOK /\ StopsInTime /\ Agreement

-----------------------------------------------------------------------------
LEMMA Products == \A a, b \in Nat : a * b \in Nat
  OBVIOUS

LEMMA Thresholds ==
  /\ \A t \in Type : Low(t) \in Nat /\ High(t) \in Nat
  /\ High(Types) \in Nat
<1>1. \A t \in Nat : t * Grain \in Nat
  BY Products, IrrigationAssumption
<1>2. Types \in Nat /\ \A t \in Type : t \in Nat
  BY IrrigationAssumption DEF Type
<1>3. QED
  BY <1>1, <1>2 DEF Low, High

(* A pump frame and a type frame are frames, and are told apart. *)
LEMMA Frames ==
  /\ \A b \in {0, 1} : Pump(b) \in Frame /\ Pump(b)[1] = "pump" /\ Pump(b)[2] = b
  /\ \A t \in Type : Plant(t) \in Frame /\ Plant(t)[1] = "type" /\ Plant(t)[2] = t
  /\ \A f \in Frame : \/ f[1] = "pump" /\ f[2] \in {0, 1}
                      \/ f[1] = "type" /\ f[2] \in Type
  BY DEF Frame, Pump, Plant

LEMMA PacketsOnTheWay ==
  /\ \A p \in Level : Soil(Tenths(p)) \in Packet
  /\ \A t \in Type : Plant(t) \in Packet
  /\ \A r \in Packet :
       \/ r[1] = "soil" /\ \E p \in Level : r[2] = Tenths(p)
       \/ r[1] = "type" /\ r[2] \in Type
  BY DEF Packet, Soil, Plant

LEMMA Bits == \A b \in BOOLEAN : Bit(b) \in {0, 1}
  BY DEF Bit

(* What is left of one or two frames when one of them fails. *)
LEMMA OneFrameLess ==
  ASSUME NEW frames \in Seq(Frame), NEW n \in DOMAIN frames
  PROVE  /\ RemoveAt(frames, n) \in Seq(Frame)
         /\ Len(RemoveAt(frames, n)) = Len(frames) - 1
<1> DEFINE front == SubSeq(frames, 1, n - 1)
           back == SubSeq(frames, n + 1, Len(frames))
<1>1. n \in 1 .. Len(frames) /\ Len(frames) \in Nat
      /\ \A j \in 1 .. Len(frames) : frames[j] \in Frame
  OBVIOUS
<1>2. front \in Seq(Frame) /\ Len(front) = n - 1
  <2>1. \A j \in 1 .. n - 1 : frames[j] \in Frame
    BY <1>1
  <2>2. QED
    BY <1>1, <2>1, SubSeqProperties
<1>3. back \in Seq(Frame) /\ Len(back) = Len(frames) - n
  <2>1. \A j \in n + 1 .. Len(frames) : frames[j] \in Frame
    BY <1>1
  <2>2. QED
    BY <1>1, <2>1, SubSeqProperties
<1>4. front \o back \in Seq(Frame)
      /\ Len(front \o back) = Len(front) + Len(back)
  BY <1>2, <1>3, ConcatProperties
<1>5. RemoveAt(frames, n) = front \o back
  BY DEF RemoveAt
<1> HIDE DEF front, back
<1>6. QED
  BY <1>1, <1>2, <1>3, <1>4, <1>5

(* What Send leaves on the line. *)
LEMMA SendType ==
  ASSUME down \in Seq(Frame), Len(down) <= MaxFlight, faults \in 0 .. MaxFaults,
         NEW frames \in Seq(Frame), Send(frames)
  PROVE  /\ down' \in Seq(Frame) /\ Len(down') <= MaxFlight
         /\ faults' \in 0 .. MaxFaults
<1> USE IrrigationAssumption
<1>1. Len(down) \in Nat /\ Len(frames) \in Nat
  OBVIOUS
<1>2. CASE /\ Len(down) + Len(frames) <= MaxFlight
           /\ down' = down \o frames /\ UNCHANGED faults
  BY <1>1, <1>2, ConcatProperties
<1>3. CASE UNCHANGED << down, faults >>
  BY <1>3
<1>4. CASE /\ faults < MaxFaults /\ faults' = faults + 1
           /\ Len(down) + Len(frames) <= MaxFlight + 1
           /\ \E n \in DOMAIN frames : down' = down \o RemoveAt(frames, n)
  <2>1. PICK n \in DOMAIN frames : down' = down \o RemoveAt(frames, n)
    BY <1>4
  <2>2. /\ RemoveAt(frames, n) \in Seq(Frame)
        /\ Len(RemoveAt(frames, n)) = Len(frames) - 1
    BY OneFrameLess
  <2>3. down' \in Seq(Frame) /\ Len(down') = Len(down) + Len(frames) - 1
    BY <1>1, <2>1, <2>2, ConcatProperties
  <2>4. QED
    BY <1>1, <1>4, <2>3
<1>5. QED
  BY <1>2, <1>3, <1>4 DEF Send

(* Send of no frame at all is not called. *)
LEMMA AutomationType ==
  ASSUME TypeOK, NEW code \in Type, NEW m, NEW ov \in BOOLEAN,
         NEW frames \in Seq(Frame),
         UpdatePumpAutomation(code, m, ov, frames)
  PROVE  /\ down' \in Seq(Frame) /\ Len(down') <= MaxFlight
         /\ faults' \in 0 .. MaxFaults
         /\ pump_enabled' \in BOOLEAN /\ pump_button' \in BOOLEAN
         /\ clean' \in BOOLEAN
<1>1. /\ down \in Seq(Frame) /\ Len(down) <= MaxFlight
      /\ faults \in 0 .. MaxFaults /\ clean \in BOOLEAN
      /\ pump_enabled \in BOOLEAN /\ pump_button \in BOOLEAN
  BY DEF TypeOK
<1>2. CASE ov \/ m < 0 \/ ShouldEnable(code, m) = pump_enabled
  <2>1. /\ UNCHANGED << down, faults >> \/ Send(frames)
        /\ UNCHANGED << pump_enabled, pump_button, clean >>
    BY <1>2 DEF UpdatePumpAutomation
  <2>2. QED
    BY <1>1, <2>1, SendType
<1>3. CASE ~(ov \/ m < 0 \/ ShouldEnable(code, m) = pump_enabled)
  <2>1. /\ pump_enabled' = ShouldEnable(code, m)
        /\ pump_button' = ShouldEnable(code, m)
        /\ Send(Append(frames, Pump(Bit(ShouldEnable(code, m)))))
        /\ PumpSent
    BY <1>3 DEF UpdatePumpAutomation
  <2>2. ShouldEnable(code, m) \in BOOLEAN
    BY DEF ShouldEnable
  <2>3. Append(frames, Pump(Bit(ShouldEnable(code, m)))) \in Seq(Frame)
    BY <2>2, Bits, Frames, AppendProperties
  <2>4. clean' \in BOOLEAN
    BY <2>1 DEF PumpSent
  <2>5. QED
    BY <1>1, <2>1, <2>2, <2>3, <2>4, SendType
<1>4. QED
  BY <1>2, <1>3

-----------------------------------------------------------------------------
(* The types of the host's variables, the line's and the device's. *)
HostOK ==
  /\ connected \in BOOLEAN /\ pump_button \in BOOLEAN
  /\ pump_enabled \in BOOLEAN /\ override \in BOOLEAN
  /\ guard \in Type /\ plant_code \in Type
  /\ moisture \in {-1} \cup {Tenths(p) : p \in Level}
  /\ choices \in 0 .. MaxChoices /\ clean \in BOOLEAN
LineOK ==
  /\ down \in Seq(Frame) /\ Len(down) <= MaxFlight
  /\ up \in Seq(Packet) /\ Len(up) <= MaxReports
  /\ faults \in 0 .. MaxFaults
DeviceOK ==
  /\ Water_flag \in {0, 1} /\ Soil_PlantType \in Type
  /\ Soil_AlarmFlag \in {0, 1, 2} /\ percentSoil \in Level /\ relay \in {0, 1}
  /\ turn \in 1 .. Len(Packets) /\ pc \in {"water", "soil"}
  /\ late \in 0 .. 2

LEMMA TypeParts == TypeOK <=> HostOK /\ LineOK /\ DeviceOK
  BY DEF TypeOK, HostOK, LineOK, DeviceOK

LEMMA DeviceKept ==
  ASSUME DeviceOK, UNCHANGED << flagVars, soilVars, late >>
  PROVE  DeviceOK'
  BY DEF DeviceOK, flagVars, soilVars

LEMMA InitType ==
  ASSUME Init
  PROVE  TypeOK
<1> USE IrrigationAssumption DEF Init
<1>1. 0 \in Level
  BY Thresholds DEF Level
<1>2. 1 \in Type /\ 2 \in Type
  BY DEF Type
<1>3. 1 \in 1 .. Len(Packets)
  BY DEF Packets
<1>4. down \in Seq(Frame) /\ Len(down) = 0 /\ up \in Seq(Packet) /\ Len(up) = 0
  BY EmptySeq
<1>5. HostOK
  <2>1. moisture \in {-1}
    OBVIOUS
  <2>2. /\ connected \in BOOLEAN /\ pump_button \in BOOLEAN
        /\ pump_enabled \in BOOLEAN /\ override \in BOOLEAN /\ clean \in BOOLEAN
    BY Zenon
  <2>3. guard \in Type /\ plant_code \in Type /\ choices \in 0 .. MaxChoices
    BY <1>2
  <2> HIDE DEF Init
  <2>4. QED
    BY <2>1, <2>2, <2>3 DEF HostOK
<1>6. LineOK
  BY <1>4 DEF LineOK
<1>7. DeviceOK
  BY <1>1, <1>2, <1>3 DEF DeviceOK
<1>8. QED
  BY <1>5, <1>6, <1>7, TypeParts

LEMMA HostType ==
  ASSUME TypeOK, Host
  PROVE  TypeOK'
<1> USE IrrigationAssumption
<1>1. /\ down \in Seq(Frame) /\ Len(down) <= MaxFlight
      /\ faults \in 0 .. MaxFaults /\ pump_button \in BOOLEAN /\ clean \in BOOLEAN
      /\ guard \in Type /\ plant_code \in Type /\ override \in BOOLEAN
      /\ up \in Seq(Packet) /\ Len(up) <= MaxReports
      /\ connected \in BOOLEAN /\ pump_enabled \in BOOLEAN
      /\ choices \in 0 .. MaxChoices
      /\ moisture \in {-1} \cup {Tenths(p) : p \in Level}
  BY DEF TypeOK
<1>2. CASE Connect
  <2>1. << Plant(guard), Pump(Bit(pump_button)) >> \in Seq(Frame)
    BY <1>1, Frames, Bits
  <2>2. /\ down' \in Seq(Frame) /\ Len(down') <= MaxFlight
        /\ faults' \in 0 .. MaxFaults
    BY <1>1, <1>2, <2>1, SendType DEF Connect
  <2>3. up' \in Seq(Packet) /\ Len(up') = 0
    BY <1>2, EmptySeq DEF Connect
  <2>4. DeviceOK'
    BY <1>2, DeviceKept, TypeParts DEF Connect
  <2>5. HostOK'
    BY <1>1, <1>2, <2>2, <2>3 DEF Connect, HostOK
  <2>6. LineOK'
    BY <1>1, <1>2, <2>2, <2>3 DEF Connect, LineOK
  <2>7. QED
    BY <2>4, <2>5, <2>6 DEF TypeOK, HostOK, LineOK, DeviceOK
<1>3. CASE Disconnect
  <2>1. up' \in Seq(Packet) /\ Len(up') = 0
    BY <1>3, EmptySeq DEF Disconnect
  <2>2. DeviceOK'
    BY <1>3, DeviceKept, TypeParts DEF Disconnect
  <2>3. HostOK'
    BY <1>1, <1>3, <2>1 DEF Disconnect, HostOK
  <2>4. LineOK'
    BY <1>1, <1>3, <2>1 DEF Disconnect, LineOK
  <2>5. QED
    BY <2>2, <2>3, <2>4 DEF TypeOK, HostOK, LineOK, DeviceOK
<1>4. CASE TogglePump
  <2>1. pump_button' \in BOOLEAN /\ pump_enabled' \in BOOLEAN /\ clean' \in BOOLEAN
    BY <1>1, <1>4 DEF TogglePump, PumpSent
  <2>2. << Pump(Bit(pump_button')) >> \in Seq(Frame)
    BY <2>1, Frames, Bits
  <2>3. /\ down' \in Seq(Frame) /\ Len(down') <= MaxFlight
        /\ faults' \in 0 .. MaxFaults
    BY <1>1, <1>4, <2>2, SendType DEF TogglePump
  <2>4. DeviceOK'
    BY <1>4, DeviceKept, TypeParts DEF TogglePump
  <2>5. HostOK'
    BY <1>1, <1>4, <2>1, <2>3 DEF TogglePump, HostOK
  <2>6. LineOK'
    BY <1>1, <1>4, <2>1, <2>3 DEF TogglePump, LineOK
  <2>7. QED
    BY <2>4, <2>5, <2>6 DEF TypeOK, HostOK, LineOK, DeviceOK
<1>5. CASE OverrideExpires
  <2>1. << >> \in Seq(Frame)
    BY EmptySeq
  <2>2. /\ down' \in Seq(Frame) /\ Len(down') <= MaxFlight
        /\ faults' \in 0 .. MaxFaults
        /\ pump_enabled' \in BOOLEAN /\ pump_button' \in BOOLEAN
        /\ clean' \in BOOLEAN
    BY <1>1, <1>5, <2>1, AutomationType DEF OverrideExpires
  <2>3. DeviceOK'
    BY <1>5, DeviceKept, TypeParts DEF OverrideExpires
  <2>4. HostOK'
    BY <1>1, <1>5, <2>2 DEF OverrideExpires, HostOK
  <2>5. LineOK'
    BY <1>1, <1>5, <2>2 DEF OverrideExpires, LineOK
  <2>6. QED
    BY <2>3, <2>4, <2>5 DEF TypeOK, HostOK, LineOK, DeviceOK
<1>6. ASSUME NEW t \in Type, SelectType(t)
      PROVE  TypeOK'
  <2>1. << Plant(t) >> \in Seq(Frame)
    BY <1>6, Frames
  <2>2. /\ down' \in Seq(Frame) /\ Len(down') <= MaxFlight
        /\ faults' \in 0 .. MaxFaults
        /\ pump_enabled' \in BOOLEAN /\ pump_button' \in BOOLEAN
        /\ clean' \in BOOLEAN
    BY <1>1, <1>6, <2>1, AutomationType DEF SelectType
  <2>3. DeviceOK'
    BY <1>6, DeviceKept, TypeParts DEF SelectType
  <2>4. HostOK'
    BY <1>1, <1>6, <2>2 DEF SelectType, HostOK
  <2>5. LineOK'
    BY <1>1, <1>6, <2>2 DEF SelectType, LineOK
  <2>6. QED
    BY <2>3, <2>4, <2>5 DEF TypeOK, HostOK, LineOK, DeviceOK
<1>7. ASSUME NEW b \in {0, 1}, TypePump(b)
      PROVE  TypeOK'
  <2>1. down' \in Seq(Frame) /\ Len(down') <= MaxFlight
    <3>1. CASE down' = down
      BY <1>1, <3>1
    <3>2. CASE Len(down) < MaxFlight /\ down' = Append(down, Pump(b))
      <4>1. Pump(b) \in Frame /\ Len(down) \in Nat
        BY <1>1, <1>7, Frames
      <4>2. down' \in Seq(Frame) /\ Len(down') = Len(down) + 1
        BY <1>1, <3>2, <4>1, AppendProperties
      <4>3. QED
        BY <3>2, <4>1, <4>2
    <3>3. QED
      BY <1>7, <3>1, <3>2 DEF TypePump
  <2>2. DeviceOK'
    BY <1>7, DeviceKept, TypeParts DEF TypePump
  <2>3. HostOK'
    BY <1>1, <1>7, <2>1 DEF TypePump, HostOK
  <2>4. LineOK'
    BY <1>1, <1>7, <2>1 DEF TypePump, LineOK
  <2>5. QED
    BY <2>2, <2>3, <2>4 DEF TypeOK, HostOK, LineOK, DeviceOK
<1>8. CASE ReceivePacket
  <2> DEFINE p == Head(up)
             m == IF p[1] = "soil" THEN p[2] ELSE moisture
             t == IF p[1] = "type" THEN p[2] ELSE plant_code
  <2>1. /\ p \in Packet /\ up' \in Seq(Packet) /\ Len(up') <= MaxReports
    BY <1>1, <1>8, HeadTailProperties DEF ReceivePacket
  <2>2. /\ m \in {-1} \cup {Tenths(q) : q \in Level} /\ t \in Type
        /\ (IF p[1] = "type" THEN t ELSE guard) \in Type
    BY <1>1, <2>1, PacketsOnTheWay
  <2>3. /\ UpdatePumpAutomation(t, m, override, << >>)
        /\ moisture' = m /\ plant_code' = t
        /\ guard' = IF p[1] = "type" THEN t ELSE guard
    BY <1>8 DEF ReceivePacket
  <2> HIDE DEF m, t, p
  <2>4. /\ down' \in Seq(Frame) /\ Len(down') <= MaxFlight
        /\ faults' \in 0 .. MaxFaults
        /\ pump_enabled' \in BOOLEAN /\ pump_button' \in BOOLEAN
        /\ clean' \in BOOLEAN
    BY <1>1, <2>2, <2>3, AutomationType, EmptySeq
  <2>5. DeviceOK'
    BY <1>8, DeviceKept, TypeParts DEF ReceivePacket
  <2>6. HostOK'
    BY <1>1, <1>8, <2>1, <2>2, <2>3, <2>4 DEF ReceivePacket, HostOK
  <2>7. LineOK'
    BY <1>1, <1>8, <2>1, <2>2, <2>3, <2>4 DEF ReceivePacket, LineOK
  <2>8. QED
    BY <2>5, <2>6, <2>7 DEF TypeOK, HostOK, LineOK, DeviceOK
<1>9. QED
  BY <1>2, <1>3, <1>4, <1>5, <1>6, <1>7, <1>8 DEF Host

(* What the report and the alarm may be. *)
LEMMA ReportType ==
  ASSUME TypeOK, Report \/ UNCHANGED << turn, up >>
  PROVE  up' \in Seq(Packet) /\ Len(up') <= MaxReports /\ turn' \in 1 .. Len(Packets)
<1>1. /\ up \in Seq(Packet) /\ Len(up) \in Nat /\ Len(up) <= MaxReports
      /\ turn \in 1 .. Len(Packets) /\ percentSoil \in Level
      /\ Soil_PlantType \in Type
  BY DEF TypeOK
<1>2. CASE UNCHANGED << turn, up >>
  BY <1>1, <1>2
<1>3. CASE Report
  <2> DEFINE packet == IF Packets[turn] = "soil" THEN Soil(Tenths(percentSoil))
                                                 ELSE Plant(Soil_PlantType)
  <2>1. packet \in Packet
    BY <1>1, PacketsOnTheWay
  <2>2. /\ Len(up) < MaxReports
        /\ turn' = 1 + (turn % Len(Packets))
        /\ up' = IF connected THEN Append(up, packet) ELSE up
    BY <1>3 DEF Report
  <2> HIDE DEF packet
  <2>3. up' \in Seq(Packet) /\ Len(up') \in {Len(up), Len(up) + 1}
    BY <1>1, <2>1, <2>2, AppendProperties
  <2>4. MaxReports \in Nat
    BY IrrigationAssumption
  <2>5. turn' \in 1 .. Len(Packets)
    BY <1>1, <2>2 DEF Packets
  <2>6. QED
    BY <1>1, <2>2, <2>3, <2>4, <2>5
<1>4. QED
  BY <1>2, <1>3

LEMMA DeviceType ==
  ASSUME TypeOK, ApplyFrame \/ (\E t \in Type : CameraType(t)) \/ Sched \/ Fault
  PROVE  TypeOK'
<1> USE IrrigationAssumption
<1>1. /\ down \in Seq(Frame) /\ Len(down) \in Nat /\ Len(down) <= MaxFlight
      /\ faults \in 0 .. MaxFaults /\ clean \in BOOLEAN
      /\ choices \in 0 .. MaxChoices /\ late \in 0 .. 2
      /\ Water_flag \in {0, 1} /\ Soil_PlantType \in Type
      /\ Soil_AlarmFlag \in {0, 1, 2}
  BY DEF TypeOK
<1>2. down # << >> =>
        /\ Head(down) \in Frame
        /\ Tail(down) \in Seq(Frame) /\ Len(Tail(down)) <= MaxFlight
  BY <1>1, HeadTailProperties
<1>3. CASE ApplyFrame
  <2>1. /\ down' \in Seq(Frame) /\ Len(down') <= MaxFlight /\ late' = 0
        /\ Water_flag' \in {0, 1} /\ Soil_PlantType' \in Type
    BY <1>1, <1>2, <1>3, Frames DEF ApplyFrame
  <2>2. UNCHANGED << hostVars, up, soilVars, faults, clean, choices >>
    BY <1>3 DEF ApplyFrame
  <2>3. QED
    BY <2>1, <2>2 DEF TypeOK, hostVars, soilVars
<1>4. ASSUME NEW t \in Type, CameraType(t)
      PROVE  TypeOK'
  BY <1>1, <1>4 DEF CameraType, TypeOK, hostVars, soilVars
<1>5. CASE ReportAndWater
  <2>1. /\ up' \in Seq(Packet) /\ Len(up') <= MaxReports
        /\ turn' \in 1 .. Len(Packets)
    BY <1>5, ReportType DEF ReportAndWater
  <2>2. relay' \in {0, 1} /\ pc' \in {"water", "soil"}
    BY <1>5 DEF ReportAndWater, WaterAuto, Bit
  <2>3. UNCHANGED << hostVars, down, flagVars, Soil_AlarmFlag, percentSoil,
                     faults, choices, clean, late >>
    BY <1>5 DEF ReportAndWater
  <2>4. QED
    BY <2>1, <2>2, <2>3 DEF TypeOK, hostVars, flagVars
<1>6. CASE UpdateSoil
  <2>1. percentSoil' \in Level /\ Soil_AlarmFlag' \in {0, 1, 2} /\ late' \in 0 .. 2
        /\ pc' \in {"water", "soil"}
    BY <1>1, <1>6 DEF UpdateSoil, AlarmFlag
  <2>2. UNCHANGED << hostVars, down, up, flagVars, relay, turn, faults, clean,
                     choices >>
    BY <1>6 DEF UpdateSoil
  <2>3. QED
    BY <2>1, <2>2 DEF TypeOK, hostVars, flagVars
<1>7. CASE LoseFrame
  <2>1. /\ down' \in Seq(Frame) /\ Len(down') <= MaxFlight
        /\ faults' \in 0 .. MaxFaults /\ clean' \in BOOLEAN
    BY <1>1, <1>2, <1>7 DEF LoseFrame
  <2>2. UNCHANGED << hostVars, up, flagVars, soilVars, late, choices >>
    BY <1>7 DEF LoseFrame
  <2>3. QED
    BY <2>1, <2>2 DEF TypeOK, hostVars, flagVars, soilVars
<1>8. CASE Restart
  <2>1. down' \in Seq(Frame) /\ Len(down') = 0
    BY <1>8, EmptySeq DEF Restart
  <2>2. faults' \in 0 .. MaxFaults /\ clean' \in BOOLEAN
    <3>1. clean' = FALSE /\ faults < MaxFaults /\ faults' = faults + 1
      BY <1>8 DEF Restart
    <3>2. faults' \in 0 .. MaxFaults
      BY <1>1, <3>1
    <3>3. clean' \in BOOLEAN
      BY <3>1, Zenon
    <3>4. QED
      BY <3>2, <3>3
  <2>3. DeviceOK'
    <3>1. 0 \in Level /\ 1 \in Type
      BY Thresholds DEF Level, Type
    <3>2. QED
      BY <1>8, <3>1 DEF Restart, DeviceReset, DeviceOK, Packets
  <2>4. UNCHANGED << hostVars, up, choices >>
    BY <1>8 DEF Restart
  <2>5. HostOK' /\ LineOK'
    BY <2>1, <2>2, <2>4 DEF TypeOK, HostOK, LineOK, hostVars
  <2>6. QED
    BY <2>3, <2>5 DEF TypeOK, HostOK, LineOK, DeviceOK
<1>9. QED
  BY <1>3, <1>4, <1>5, <1>6, <1>7, <1>8 DEF Sched, Fault

LEMMA NextType ==
  ASSUME TypeOK, [Next]_vars
  PROVE  TypeOK'
<1>1. CASE UNCHANGED vars
  BY <1>1 DEF vars, hostVars, flagVars, soilVars, TypeOK
<1>2. QED
  BY <1>1, HostType, DeviceType DEF Next

-----------------------------------------------------------------------------
(* Wetter than the threshold, the alarm is not the one for dry soil. *)
LEMMA WetIsNotDry ==
  ASSUME NEW p \in Level, NEW t \in Type, NEW old, p > Low(t)
  PROVE  AlarmFlag(p, t, old) # 1
<1>1. Low(t) \in Nat /\ High(t) \in Nat /\ p \in Int
  BY Thresholds DEF Level
<1>2. QED
  BY <1>1 DEF AlarmFlag

LEMMA StopStep ==
  ASSUME TypeOK, StopsInTime, [Next]_vars
  PROVE  StopsInTime'
<1>1. late \in 0 .. 2 /\ Soil_PlantType \in Type /\ relay \in {0, 1}
  BY DEF TypeOK
<1>2. CASE UNCHANGED << flagVars, soilVars, late >>
  BY <1>2 DEF StopsInTime, flagVars, soilVars
<1>3. CASE late' = 0
  BY <1>3 DEF StopsInTime
<1>4. CASE ReportAndWater
  <2>1. late >= 1 => relay' = 0
    BY <1>4 DEF ReportAndWater, StopsInTime, WaterAuto, Bit
  <2>2. QED
    BY <1>1, <1>4, <2>1 DEF ReportAndWater, StopsInTime
<1>5. CASE UpdateSoil
  <2>1. pc = "soil" /\ pc' = "water" /\ relay' = relay /\ Water_flag' = Water_flag
    BY <1>5 DEF UpdateSoil, flagVars
  <2>2. PICK p \in Level :
          /\ Soil_AlarmFlag' = AlarmFlag(p, Soil_PlantType, Soil_AlarmFlag)
          /\ late' = IF ~Overdue(p) THEN 0 ELSE IF late < 2 THEN late + 1 ELSE late
    BY <1>5 DEF UpdateSoil
  <2>3. late' >= 1 => Soil_AlarmFlag' # 1 \/ Water_flag' = 0
    BY <1>1, <2>1, <2>2, WetIsNotDry DEF Overdue
  <2>4. late' = 2 => relay' = 0
    BY <1>1, <2>1, <2>2 DEF StopsInTime
  <2>5. QED
    BY <2>1, <2>3, <2>4 DEF StopsInTime
<1>6. Host => UNCHANGED << flagVars, soilVars, late >>
  BY DEF Host, Connect, Disconnect, TogglePump, OverrideExpires, SelectType,
         TypePump, ReceivePacket
<1>7. ApplyFrame \/ (\E t \in Type : CameraType(t)) \/ Restart => late' = 0
  BY DEF ApplyFrame, CameraType, Restart, DeviceReset
<1>8. LoseFrame \/ UNCHANGED vars => UNCHANGED << flagVars, soilVars, late >>
  BY DEF LoseFrame, vars
<1>9. QED
  BY <1>2, <1>3, <1>4, <1>5, <1>6, <1>7, <1>8 DEF Next, Sched, Fault

-----------------------------------------------------------------------------
(* A pump frame that the line takes is the last word. *)
LEMMA WordSent ==
  ASSUME down \in Seq(Frame), NEW frames \in Seq(Frame), frames # << >>,
         frames[Len(frames)] = Pump(Bit(pump_button')),
         down' = down \o frames
  PROVE  Agreement'
<1> DEFINE L == Len(down')
           b == Bit(pump_button')
<1>1. /\ down' \in Seq(Frame) /\ Len(frames) \in Nat \ {0} /\ Len(down) \in Nat
      /\ L = Len(down) + Len(frames) /\ down'[L] = frames[Len(frames)]
  <2>1. Len(frames) \in Nat \ {0} /\ Len(down) \in Nat
    BY EmptySeq
  <2>2. QED
    BY <2>1, ConcatProperties
<1>2. down'[L][1] = "pump" /\ down'[L][2] = b
  <2> HIDE DEF b
  <2>1. frames[Len(frames)] = << "pump", b >>
    BY DEF b, Pump
  <2>2. QED
    BY <1>1, <2>1
<1>3. L \in Nat \ {0} /\ DOMAIN down' = 1 .. L
  BY <1>1
<1> HIDE DEF L, b
<1>4. SUFFICES ASSUME NEW n \in 0 .. L, LastWord(n)'
               PROVE  Word(n)' = b
  BY DEF Agreement, L, b
<1>5. n = L
  <2>1. \A j \in 1 .. L : j > n => down'[j][1] # "pump"
    BY <1>3, <1>4 DEF LastWord
  <2>2. ~(L > n) /\ n \in Nat
    BY <1>2, <1>3, <2>1
  <2>3. QED
    BY <1>3, <2>2
<1>6. QED
  BY <1>2, <1>3, <1>5 DEF Word

(* Frames of another kind are none. *)
LEMMA NoWordSent ==
  ASSUME down \in Seq(Frame), NEW frames \in Seq(Frame),
         \A j \in 1 .. Len(frames) : frames[j][1] # "pump",
         down' = down \o frames, Agreement,
         clean' => clean, UNCHANGED << Water_flag, pump_button >>
  PROVE  Agreement'
<1>1. /\ Len(down) \in Nat /\ Len(frames) \in Nat
      /\ DOMAIN down = 1 .. Len(down)
      /\ down' \in Seq(Frame) /\ Len(down') = Len(down) + Len(frames)
      /\ DOMAIN down' = 1 .. Len(down) + Len(frames)
      /\ \A j \in 1 .. Len(down) + Len(frames) :
           down'[j] = IF j <= Len(down) THEN down[j] ELSE frames[j - Len(down)]
  BY ConcatProperties
<1>2. SUFFICES ASSUME NEW n \in 0 .. Len(down'), LastWord(n)', clean'
               PROVE  Word(n)' = Bit(pump_button')
  BY DEF Agreement
<1>3. n <= Len(down)
  <2> SUFFICES ASSUME n > Len(down)
               PROVE  FALSE
    BY <1>1
  <2>1. n - Len(down) \in 1 .. Len(frames) /\ down'[n] = frames[n - Len(down)]
    BY <1>1
  <2>2. down'[n][1] = "pump"
    BY <1>1, <1>2 DEF LastWord
  <2>3. QED
    BY <2>1, <2>2
<1>4. Word(n)' = Word(n)
  BY <1>1, <1>3 DEF Word
<1>5. LastWord(n)
  <2>1. n = 0 \/ down[n][1] = "pump"
    <3>1. n = 0 \/ down'[n][1] = "pump"
      BY <1>2 DEF LastWord
    <3>2. n # 0 => down'[n] = down[n]
      BY <1>1, <1>3
    <3>3. QED
      BY <3>1, <3>2
  <2>2. \A j \in 1 .. Len(down) : j > n => down[j][1] # "pump"
    <3> SUFFICES ASSUME NEW j \in 1 .. Len(down), j > n
                 PROVE  down[j][1] # "pump"
      OBVIOUS
    <3>1. j \in DOMAIN down' /\ down'[j] = down[j]
      BY <1>1
    <3>2. QED
      BY <1>2, <3>1 DEF LastWord
  <2>3. QED
    BY <1>1, <2>1, <2>2 DEF LastWord
<1>6. QED
  BY <1>1, <1>2, <1>3, <1>4, <1>5 DEF Agreement

(* The frame at the head is applied, or is lost and was no word. *)
LEMMA HeadGone ==
  ASSUME down \in Seq(Frame), down # << >>, down' = Tail(down), Agreement,
         clean' => clean, UNCHANGED pump_button,
         IF Head(down)[1] = "pump" THEN clean' => Water_flag' = Head(down)[2]
                                   ELSE Water_flag' = Water_flag
  PROVE  Agreement'
<1>1. /\ Len(down) \in Nat \ {0} /\ DOMAIN down = 1 .. Len(down)
      /\ down' \in Seq(Frame) /\ Len(down') = Len(down) - 1
      /\ DOMAIN down' = 1 .. Len(down) - 1
      /\ \A j \in 1 .. Len(down) - 1 : down'[j] = down[j + 1]
      /\ Head(down) = down[1]
  BY EmptySeq, HeadTailProperties
<1>2. SUFFICES ASSUME NEW n \in 0 .. Len(down'), LastWord(n)', clean'
               PROVE  Word(n)' = Bit(pump_button')
  BY DEF Agreement
<1>3. \A j \in 1 .. Len(down) : j > n + 1 => down[j][1] # "pump"
  <2> SUFFICES ASSUME NEW j \in 1 .. Len(down), j > n + 1
               PROVE  down[j][1] # "pump"
    OBVIOUS
  <2>1. j - 1 \in 1 .. Len(down) - 1 /\ j - 1 > n /\ down'[j - 1] = down[j]
    BY <1>1
  <2>2. QED
    BY <1>1, <1>2, <2>1 DEF LastWord
<1>4. CASE n # 0
  <2>1. n + 1 \in 1 .. Len(down) /\ down'[n] = down[n + 1]
    BY <1>1, <1>4
  <2>2. down'[n][1] = "pump"
    BY <1>2, <1>4 DEF LastWord
  <2>3. LastWord(n + 1) /\ Word(n + 1) = Word(n)'
    BY <1>1, <1>3, <1>4, <2>1, <2>2 DEF LastWord, Word
  <2>4. QED
    BY <1>2, <2>1, <2>3 DEF Agreement
<1>5. CASE n = 0 /\ Head(down)[1] = "pump"
  <2>1. LastWord(1) /\ Word(1) = Word(n)'
    BY <1>1, <1>2, <1>3, <1>5 DEF LastWord, Word
  <2>2. QED
    BY <1>1, <1>2, <2>1 DEF Agreement
<1>6. CASE n = 0 /\ Head(down)[1] # "pump"
  <2>1. \A j \in 1 .. Len(down) : j > 0 => down[j][1] # "pump"
    BY <1>1, <1>3, <1>6
  <2>2. LastWord(0) /\ Word(0) = Word(n)'
    BY <1>1, <1>6, <2>1 DEF LastWord, Word
  <2>3. QED
    BY <1>1, <1>2, <2>2 DEF Agreement
<1>7. QED
  BY <1>4, <1>5, <1>6

(* What the line takes of a word and of a type, or refuses. *)
LEMMA SendKeeps ==
  ASSUME TypeOK, NEW frames \in Seq(Frame), frames # << >>,
         frames[Len(frames)] = Pump(Bit(pump_button')),
         Send(frames), clean' => connected' /\ faults' = faults
  PROVE  Agreement'
<1>1. faults \in Nat /\ down \in Seq(Frame)
  BY DEF TypeOK
<1>2. CASE clean'
  <2>1. down' = down \o frames
    BY <1>1, <1>2 DEF Send
  <2>2. QED
    BY <1>1, <2>1, WordSent
<1>3. CASE ~clean'
  BY <1>3 DEF Agreement
<1>4. QED
  BY <1>2, <1>3

LEMMA TypeSent ==
  ASSUME TypeOK, Agreement, NEW t \in Type, Send(<< Plant(t) >>),
         UNCHANGED << Water_flag, pump_button, clean >>
  PROVE  Agreement'
<1>1. down \in Seq(Frame)
  BY DEF TypeOK
<1> DEFINE one == << Plant(t) >>
<1>2. /\ one \in Seq(Frame) /\ Len(one) = 1
      /\ \A j \in 1 .. 1 : one[j][1] # "pump"
  BY Frames
<1>3. \/ down' = down \o one
      \/ down' = down
      \/ \E n \in DOMAIN one : down' = down \o RemoveAt(one, n)
  BY DEF Send
<1> HIDE DEF one
<1>4. CASE down' = down \o one
  BY <1>1, <1>2, <1>4, NoWordSent
<1>5. CASE down' = down
  BY <1>5 DEF Agreement, LastWord, Word
<1>6. ASSUME NEW n \in DOMAIN one, down' = down \o RemoveAt(one, n)
      PROVE  Agreement'
  <2>1. /\ RemoveAt(one, n) \in Seq(Frame)
        /\ Len(RemoveAt(one, n)) = 0
    BY <1>2, <1>6, OneFrameLess
  <2>2. \A j \in 1 .. Len(RemoveAt(one, n)) : RemoveAt(one, n)[j][1] # "pump"
    BY <2>1
  <2>3. QED
    BY <1>1, <1>6, <2>1, <2>2, NoWordSent
<1>7. QED
  BY <1>3, <1>4, <1>5, <1>6

LEMMA AutomationAgrees ==
  ASSUME TypeOK, Agreement, NEW code \in Type, NEW m, NEW ov \in BOOLEAN,
         NEW frames \in Seq(Frame),
         frames = << >> \/ \E t \in Type : frames = << Plant(t) >>,
         UpdatePumpAutomation(code, m, ov, frames), Water_flag' = Water_flag
  PROVE  Agreement'
<1>1. CASE ov \/ m < 0 \/ ShouldEnable(code, m) = pump_enabled
  <2>1. /\ IF frames = << >> THEN UNCHANGED << down, faults >> ELSE Send(frames)
        /\ UNCHANGED << pump_button, clean >>
    BY <1>1 DEF UpdatePumpAutomation
  <2>2. CASE frames = << >>
    BY <2>1, <2>2 DEF Agreement, LastWord, Word
  <2>3. CASE frames # << >>
    <3>1. PICK t \in Type : frames = << Plant(t) >>
      BY <2>3
    <3>2. QED
      BY <2>1, <2>3, <3>1, TypeSent
  <2>4. QED
    BY <2>2, <2>3
<1>2. CASE ~(ov \/ m < 0 \/ ShouldEnable(code, m) = pump_enabled)
  <2> DEFINE b == ShouldEnable(code, m)
             all == Append(frames, Pump(Bit(b)))
  <2>1. pump_button' = b /\ Send(all) /\ PumpSent
    BY <1>2 DEF UpdatePumpAutomation
  <2>2. Pump(Bit(b)) \in Frame
    <3>1. b \in BOOLEAN
      BY DEF ShouldEnable
    <3>2. QED
      BY <3>1, Bits, Frames
  <2>3. all \in Seq(Frame) /\ all # << >> /\ all[Len(all)] = Pump(Bit(b))
    BY <2>2, AppendProperties
  <2> HIDE DEF all, b
  <2>4. QED
    BY <2>1, <2>3, SendKeeps DEF PumpSent
<1>3. QED
  BY <1>1, <1>2

LEMMA AgreementStep ==
  ASSUME TypeOK, Agreement, [Next]_vars
  PROVE  Agreement'
<1>1. /\ down \in Seq(Frame) /\ pump_button \in BOOLEAN
      /\ guard \in Type /\ plant_code \in Type /\ override \in BOOLEAN
      /\ up \in Seq(Packet)
  BY DEF TypeOK
<1>2. CASE UNCHANGED << down, Water_flag, pump_button, clean >>
  BY <1>2 DEF Agreement, LastWord, Word
<1>3. CASE Connect
  <2> DEFINE both == << Plant(guard), Pump(Bit(pump_button)) >>
  <2>1. both \in Seq(Frame)
    BY <1>1, Frames, Bits
  <2>2. both # << >> /\ both[Len(both)] = Pump(Bit(pump_button)) /\ Len(both) = 2
    OBVIOUS
  <2>3. /\ Send(both) /\ connected' /\ clean' = (faults' = faults)
        /\ pump_button' = pump_button
    BY <1>3 DEF Connect
  <2> HIDE DEF both
  <2>4. QED
    BY <2>1, <2>2, <2>3, SendKeeps
<1>4. CASE Disconnect \/ Restart
  BY <1>4 DEF Disconnect, Restart, Agreement
<1>5. CASE TogglePump
  <2> DEFINE word == << Pump(Bit(pump_button')) >>
  <2>1. Send(word) /\ PumpSent /\ pump_button' = ~pump_button
    BY <1>5 DEF TogglePump
  <2>2. word \in Seq(Frame)
    <3>1. pump_button' \in BOOLEAN
      BY <2>1
    <3>2. QED
      BY <3>1, Frames, Bits
  <2>3. word # << >> /\ Len(word) = 1 /\ word[Len(word)] = Pump(Bit(pump_button'))
    OBVIOUS
  <2> HIDE DEF word
  <2>4. QED
    BY <2>1, <2>2, <2>3, SendKeeps DEF PumpSent
<1>6. CASE OverrideExpires
  BY <1>1, <1>6, AutomationAgrees, EmptySeq DEF OverrideExpires, flagVars
<1>7. ASSUME NEW t \in Type, SelectType(t)
      PROVE  Agreement'
  <2>1. << Plant(t) >> \in Seq(Frame)
    BY <1>7, Frames
  <2>2. QED
    BY <1>1, <1>7, <2>1, AutomationAgrees DEF SelectType, flagVars
<1>8. ASSUME NEW b \in {0, 1}, TypePump(b)
      PROVE  Agreement'
  <2>1. clean' = (clean /\ pump_button = (b = 1)) /\ pump_button' = pump_button
        /\ Water_flag' = Water_flag
    BY <1>8 DEF TypePump, flagVars
  <2>2. CASE ~clean'
    BY <2>2 DEF Agreement
  <2>3. CASE down' = down
    BY <2>1, <2>3 DEF Agreement, LastWord, Word
  <2>4. CASE clean' /\ down' = Append(down, Pump(b))
    <3>1. Pump(b) \in Frame /\ Bit(pump_button') = b
      BY <1>1, <1>8, <2>1, <2>4, Frames DEF Bit
    <3>2. << Pump(b) >> \in Seq(Frame) /\ Len(<< Pump(b) >>) = 1
          /\ << Pump(b) >>[1] = Pump(b) /\ << Pump(b) >> # << >>
      BY <3>1
    <3>3. down' = down \o << Pump(b) >>
      BY <1>1, <2>4, <3>1, AppendIsConcat
    <3>4. QED
      BY <1>1, <3>1, <3>2, <3>3, WordSent
  <2>5. QED
    BY <1>8, <2>2, <2>3, <2>4 DEF TypePump
<1>9. CASE ReceivePacket
  <2> DEFINE p == Head(up)
             m == IF p[1] = "soil" THEN p[2] ELSE moisture
             t == IF p[1] = "type" THEN p[2] ELSE plant_code
  <2>1. p \in Packet
    BY <1>1, <1>9, HeadTailProperties DEF ReceivePacket
  <2>2. t \in Type
    BY <1>1, <2>1, PacketsOnTheWay
  <2>3. UpdatePumpAutomation(t, m, override, << >>) /\ Water_flag' = Water_flag
    BY <1>9 DEF ReceivePacket, flagVars
  <2> HIDE DEF p, m, t
  <2>4. QED
    BY <1>1, <2>2, <2>3, AutomationAgrees, EmptySeq
<1>10. CASE ApplyFrame
  BY <1>1, <1>10, HeadGone DEF ApplyFrame, hostVars
<1>11. CASE LoseFrame
  BY <1>1, <1>11, HeadGone DEF LoseFrame, hostVars, flagVars
<1>12. (\E t \in Type : CameraType(t)) \/ Sched \/ UNCHANGED vars
         => UNCHANGED << down, Water_flag, pump_button, clean >>
  BY DEF CameraType, Sched, ReportAndWater, UpdateSoil, vars, hostVars, flagVars
<1>13. QED
  BY <1>2, <1>3, <1>4, <1>5, <1>6, <1>7, <1>8, <1>9, <1>10, <1>11, <1>12
     DEF Next, Host, Fault

-----------------------------------------------------------------------------
LEMMA Invariant == Spec => []Inv
<1>1. Init => Inv
  <2> SUFFICES ASSUME Init
               PROVE  Inv
    OBVIOUS
  <2>1. TypeOK
    BY InitType
  <2>2. StopsInTime /\ Agreement
    BY DEF Init, StopsInTime, Agreement
  <2>3. QED
    BY <2>1, <2>2 DEF Inv
<1>2. Inv /\ [Next]_vars => Inv'
  BY NextType, StopStep, AgreementStep DEF Inv
<1>3. QED
  BY <1>1, <1>2, PTL DEF Spec

(* While no pump frame was lost, refused or typed by hand since the        *)
(* connection, the permission to pump that the device has, or will have    *)
(* once what is on the way is applied, is what the button shows            *)
(* (ui_main.py:644-668, serial_panel.py:337-373, usart5.c:66-154), however *)
(* many frames are on the way; and every variable keeps its type.          *)
THEOREM PumpFollowsButton == Spec => []PumpAgrees
<1>1. Inv => PumpAgrees
  BY DEF Inv, Agreement, PumpAgrees
<1>2. QED
  BY <1>1, Invariant, PTL

(* The relay closes within two ticks (water.c:29-48, Soil.c:90-131), for   *)
(* every moisture and every threshold.                                     *)
THEOREM WaterStops == Spec => []WaterStopsInTime
<1>1. Inv => WaterStopsInTime
  BY DEF Inv, StopsInTime, WaterStopsInTime
<1>2. QED
  BY <1>1, Invariant, PTL
=============================================================================
