------------------------------ MODULE MCStreams ------------------------------
(***************************************************************************)
(* The four byte streams between the parts of the system, for TLC: the     *)
(* commands of the host (CommandLink), the reports of the camera           *)
(* (CameraLink), the telemetry of the device (Telemetry) and the readings  *)
(* of the range finder (RangingLink). They share no code that keeps state  *)
(* and no variable, so a state of all of them is any combination of states *)
(* of each, and it is enough to look at one at a time: "link" says at      *)
(* which, and the others rest. A link is looked at with other bounds when  *)
(* a property needs them: many lost bytes, or many frames.                 *)
(***************************************************************************)
EXTENDS CommandLink

CONSTANTS
  (* The constants of CameraLink, Telemetry and RangingLink, with a name of *)
  (* their own where two of the modules have one of that name.              *)
  Low, CameraCapacity, CameraMaxLen, MaxReports, MaxReportLosses,
  Payload, MaxPackets, MaxBurst, MaxBursts,
  Value, Noise, RangingCapacity, RangingMaxLen, MaxReadings, MaxReadingLosses,
  MaxNoise

VARIABLES
  link,
  (* the command link with two commands and the clock frame of the code    *)
  wire2, queue2, chunk2, parse_buf2, i2, pc2, due2, lost2, deaf2, drops2,
  (* the link that is looked at, when it is one of the others              *)
  line, buffer, sent, taken, damaged, losses,
  cnt, Distance, noises

commandVars == << wire, queue, chunk, parse_buf, i, pc, due, lost, deaf, drops >>
forgeVars == << wire2, queue2, chunk2, parse_buf2, i2, pc2, due2, lost2, deaf2,
                drops2 >>
frameVars == << line, buffer, sent, taken, damaged, losses >>
otherVars == << frameVars, cnt, Distance, noises >>

Forge == INSTANCE CommandLink
  WITH Command <- {"c1", "c2"}, TimeBytes <- 6, Capacity <- 2, MaxLen <- 9,
       MaxDue <- 1, MaxDrops <- 3,
       wire <- wire2, queue <- queue2, chunk <- chunk2, parse_buf <- parse_buf2,
       i <- i2, pc <- pc2, due <- due2, lost <- lost2, deaf <- deaf2,
       drops <- drops2

Camera == INSTANCE CameraLink
  WITH Capacity <- CameraCapacity, MaxLen <- CameraMaxLen, MaxFrames <- MaxReports,
       MaxLosses <- MaxReportLosses, parse_buf <- buffer, dispatched <- taken

(* Frames enough to fill the parse buffer twice.                           *)
Stall == INSTANCE CameraLink
  WITH Low <- {0}, Capacity <- 7, MaxLen <- 13, MaxFrames <- 9,
       MaxLosses <- 1, parse_buf <- buffer, dispatched <- taken

Packets == INSTANCE Telemetry
  WITH MaxFrames <- MaxPackets, MaxLosses <- MaxBursts,
       _receive_buffer <- buffer, received <- taken

Ranging == INSTANCE RangingLink
  WITH Capacity <- RangingCapacity, MaxLen <- RangingMaxLen,
       MaxFrames <- MaxReadings, MaxLosses <- MaxReadingLosses,
       parse_buf <- buffer, used <- taken

(* As many lost bytes as a reading has.                                    *)
Cuts == INSTANCE RangingLink
  WITH Value <- {400}, Noise <- {}, Capacity <- 14, MaxLen <- 20,
       MaxFrames <- 2, MaxLosses <- 7, MaxNoise <- 0,
       parse_buf <- buffer, used <- taken

ASSUME StreamsAssumption ==
  /\ Camera!CameraAssumption /\ Stall!CameraAssumption
  /\ Packets!TelemetryAssumption
  /\ Ranging!RangingAssumption /\ Cuts!RangingAssumption

-----------------------------------------------------------------------------
NoPacket == cnt = 1
NoReading == Distance = 0 /\ noises = 0
NoFrames == Camera!Init /\ NoPacket /\ NoReading

StreamsInit ==
  /\ Init /\ Forge!Init
  /\ \/ link \in {"command", "forge"} /\ NoFrames
     \/ link = "camera" /\ Camera!Init /\ NoPacket /\ NoReading
     \/ link = "stall" /\ Stall!Init /\ NoPacket /\ NoReading
     \/ link = "telemetry" /\ Packets!Init /\ NoReading
     \/ link = "ranging" /\ Ranging!Init /\ NoPacket
     \/ link = "cuts" /\ Cuts!Init /\ NoPacket

CommandStep == link = "command" /\ Next /\ UNCHANGED << link, forgeVars, otherVars >>
ForgeStep == link = "forge" /\ Forge!Next /\ UNCHANGED << link, commandVars, otherVars >>

Rest == UNCHANGED << link, commandVars, forgeVars >>
CameraStep == link = "camera" /\ Camera!Next /\ Rest /\ UNCHANGED << cnt, Distance, noises >>
StallStep == link = "stall" /\ Stall!Next /\ Rest /\ UNCHANGED << cnt, Distance, noises >>
PacketStep == link = "telemetry" /\ Packets!Next /\ Rest /\ UNCHANGED << Distance, noises >>
RangingStep == link = "ranging" /\ Ranging!Next /\ Rest /\ UNCHANGED cnt
CutsStep == link = "cuts" /\ Cuts!Next /\ Rest /\ UNCHANGED cnt

StreamsNext ==
  \/ CommandStep \/ ForgeStep \/ CameraStep \/ StallStep
  \/ PacketStep \/ RangingStep \/ CutsStep

StreamsSpec ==
  StreamsInit /\ [][StreamsNext]_<< link, commandVars, forgeVars, otherVars >>

-----------------------------------------------------------------------------
(* Commands (uart5_try_parse): without losses every frame sent is          *)
(* dispatched once, in order and as soon as its last byte is there, and    *)
(* neither buffer is overrun. See CommandLink.                             *)
CommandsInOrder == TypeOK /\ NothingLostInParsing /\ NothingHeldBack

(* Camera (uart4_try_parse): without losses every report is dispatched     *)
(* once and in order, less than a frame waits, and the parse buffer is     *)
(* never overrun, whatever the coordinates. See CameraLink.                *)
ReportsInOrder == link = "camera" => Camera!TypeOK /\ Camera!AllInOrder

(* Telemetry (_parse_receive_buffer): less than one packet is ever kept    *)
(* back, whatever was lost; without losses every packet is taken out once  *)
(* and in order. See Telemetry.                                            *)
PacketsInOrder ==
  link = "telemetry" => Packets!TypeOK /\ Packets!LessThanAFrame /\ Packets!AllInOrder

(* Ranging (usart1_try_parse): a reading that arrived whole is used, once  *)
(* and in its turn, whatever was lost or made up around it, and Distance   *)
(* is what the sensor wrote; without noise, fewer lost bytes than a        *)
(* reading has never make a distance out of parts of two readings.         *)
ReadingsUsed ==
  link = "ranging" =>
    /\ Ranging!TypeOK /\ Ranging!WholeReadingsUsed
    /\ Ranging!DistanceIsRead /\ Ranging!NothingInvented

(* What a loss costs. Commands: a lost byte silences the link for a        *)
(* bounded number of bytes, and parts of several frames are taken for a    *)
(* frame only after four bytes were lost. Camera: one lost byte never      *)
(* makes a report that was not sent, and the reports that it costs fit     *)
(* into the parse buffer. Telemetry: a burst costs, besides the packets it *)
(* hits, at most one, and makes at most one that nobody sent. Ranging:     *)
(* as many lost bytes as a reading has less one make no distance.          *)
LossesContained ==
  /\ []RecoveryBounded
  /\ Forge!NothingForged
  /\ [](link = "camera" => Camera!NothingInvented)
  /\ [](link = "stall" => Stall!TypeOK /\ Stall!StallBounded)
  /\ [](link = "telemetry" => Packets!DamageBounded)
  /\ [](link = "cuts" => Cuts!TypeOK /\ Cuts!NothingInvented)
=============================================================================
