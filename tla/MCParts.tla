------------------------------- MODULE MCParts -------------------------------
(***************************************************************************)
(* The smaller parts of the system, for TLC: the leaf inspection           *)
(* (LeafInspection), the buzzer (Buzzer), the announcements (Voice), the   *)
(* camera's vote and its mode (LeafVote, VisionMode), the port that the    *)
(* shell and the range finder share (Uart1Sharing), the fill-light         *)
(* (FillLight), the heading of a turn (Heading), the buttons of the host's *)
(* panel (PanelSync) and its accounts (Accounts). As modelled they share   *)
(* no variable: what one reads from another may have any value at any      *)
(* time. So it is enough to look at one at a time: "part" says at which,   *)
(* and the others rest.                                                    *)
(***************************************************************************)
EXTENDS LeafInspection, Sequences

CONSTANTS
  Times, Wait, MaxRaces,
  VOTE_WINDOW, STABLE_FRAMES, MaxFaults,
  Copies, RX_BUFFER_MAX, MaxLine, MaxLosses,
  Capacity, MaxBytes, Quarter, Half, Tol, MaxStep,
  MaxFlight, MaxPanelFaults,
  Phone, Password, None, Absent, Cut

VARIABLES
  part,
  (* Buzzer *)
  alarm, buzzer_pc, k, beeps, pin, steady, late,
  (* Voice *)
  OLED_MQ135ppm, Soil_AlarmFlag, My_humi, obsvoice_flag,
  obsvoice_waittime, airvoice_flag, soilvoice_flag, humivoice_flag, voice,
  since, air_held, races,
  (* LeafVote *)
  running, state_history, pending_state, pending_count, stable_state,
  last_sent_state, blade_state, faults, seen,
  (* VisionMode *)
  sent_mode, line, RX_MODE_BUFFER, RX_MODE_QUEUE, mode, losses, announced,
  (* Uart1Sharing *)
  open, serial_rx, ring, rx_indicate, shell, shell_sem, sched, u1, u1_sem,
  arrived, shell_got, u1_got, lost, settled,
  (* FillLight *)
  lightONOFF_flag, Soil_PlantType, duty, light_pc, light_steady,
  (* Heading *)
  heading, Yaw, Modestate, yaw_temprary, Target,
  (* PanelSync *)
  connected, page, shown, down, flag, panel_faults, trusted,
  (* Accounts *)
  file, data, save_pc, kept, reset

buzzerVars == << alarm, buzzer_pc, k, beeps, pin, steady, late >>
voiceVars ==
  << OLED_MQ135ppm, Soil_AlarmFlag, My_humi, obsvoice_flag,
     obsvoice_waittime, airvoice_flag, soilvoice_flag, humivoice_flag, voice,
     since, air_held, races >>
voteVars ==
  << running, state_history, pending_state, pending_count, stable_state,
     last_sent_state, blade_state, faults, seen >>
modeVars ==
  << sent_mode, line, RX_MODE_BUFFER, RX_MODE_QUEUE, mode, losses, announced >>
portVars ==
  << open, serial_rx, ring, rx_indicate, shell, shell_sem, sched, u1, u1_sem,
     arrived, shell_got, u1_got, lost, settled >>
lightVars == << lightONOFF_flag, Soil_PlantType, duty, light_pc, light_steady >>
headingVars == << heading, Yaw, Modestate, yaw_temprary, Target >>
panelVars == << connected, page, shown, down, flag, panel_faults, trusted >>
accountVars == << file, data, save_pc, kept, reset >>
allVars == << part, vars, buzzerVars, voiceVars, voteVars, modeVars, portVars,
              lightVars, headingVars, panelVars, accountVars >>

Beeper == INSTANCE Buzzer WITH pc <- buzzer_pc, i <- beeps
Speech == INSTANCE Voice
Vote == INSTANCE LeafVote
Vision == INSTANCE VisionMode WITH MaixMode_flag <- sent_mode
Port == INSTANCE Uart1Sharing
Light == INSTANCE FillLight WITH i <- duty, pc <- light_pc, steady <- light_steady
(* No caller opens uart2 in this commit (Heading, TurnReachesTarget): with *)
(* TRUE, what is said of turns is about a car whose port is opened.        *)
Course == INSTANCE Heading WITH ImuOpen <- TRUE
Panel == INSTANCE PanelSync WITH faults <- panel_faults, MaxFaults <- MaxPanelFaults
Login == INSTANCE Accounts WITH pc <- save_pc

ASSUME PartsAssumption ==
  /\ Beeper!BuzzerAssumption /\ Speech!VoiceAssumption
  /\ Vote!VoteAssumption /\ Vision!VisionAssumption
  /\ Port!SharingAssumption /\ Light!LightAssumption
  /\ Course!HeadingAssumption /\ Panel!PanelAssumption /\ Login!AccountsAssumption

-----------------------------------------------------------------------------
Parts == {"leaf", "buzzer", "voice", "vote", "mode", "port", "light", "heading",
          "panel", "accounts"}

(* A part that is not looked at rests in its first state. The car of a     *)
(* heading that rests points ahead.                                        *)
PartsInit ==
  /\ part \in Parts
  /\ Init /\ Beeper!Init /\ Speech!Init /\ Vote!Init /\ Vision!Init /\ Port!Init
  /\ Light!Init /\ Course!Init /\ Panel!Init /\ Login!Init
  /\ part # "heading" => heading = 0

(* "Only" the part at hand moves.                                          *)
OnlyLeaf ==
  /\ part = "leaf"
  /\ UNCHANGED << part, buzzerVars, voiceVars, voteVars, modeVars,
                  portVars, lightVars, headingVars, panelVars,
                  accountVars >>
OnlyBuzzer ==
  /\ part = "buzzer"
  /\ UNCHANGED << part, vars, voiceVars, voteVars, modeVars,
                  portVars, lightVars, headingVars, panelVars,
                  accountVars >>
OnlyVoice ==
  /\ part = "voice"
  /\ UNCHANGED << part, vars, buzzerVars, voteVars, modeVars,
                  portVars, lightVars, headingVars, panelVars,
                  accountVars >>
OnlyVote ==
  /\ part = "vote"
  /\ UNCHANGED << part, vars, buzzerVars, voiceVars, modeVars,
                  portVars, lightVars, headingVars, panelVars,
                  accountVars >>
OnlyMode ==
  /\ part = "mode"
  /\ UNCHANGED << part, vars, buzzerVars, voiceVars, voteVars,
                  portVars, lightVars, headingVars, panelVars,
                  accountVars >>
OnlyPort ==
  /\ part = "port"
  /\ UNCHANGED << part, vars, buzzerVars, voiceVars, voteVars,
                  modeVars, lightVars, headingVars, panelVars,
                  accountVars >>
OnlyLight ==
  /\ part = "light"
  /\ UNCHANGED << part, vars, buzzerVars, voiceVars, voteVars,
                  modeVars, portVars, headingVars, panelVars,
                  accountVars >>
OnlyHeading ==
  /\ part = "heading"
  /\ UNCHANGED << part, vars, buzzerVars, voiceVars, voteVars,
                  modeVars, portVars, lightVars, panelVars, accountVars >>
OnlyPanel ==
  /\ part = "panel"
  /\ UNCHANGED << part, vars, buzzerVars, voiceVars, voteVars,
                  modeVars, portVars, lightVars, headingVars, accountVars >>
OnlyAccounts ==
  /\ part = "accounts"
  /\ UNCHANGED << part, vars, buzzerVars, voiceVars, voteVars,
                  modeVars, portVars, lightVars, headingVars, panelVars >>

LeafStep == OnlyLeaf /\ Next
BuzzerStep == OnlyBuzzer /\ Beeper!Next
VoiceStep == OnlyVoice /\ Speech!Next
VoteStep == OnlyVote /\ Vote!Next
ModeStep == OnlyMode /\ Vision!Next
PortStep == OnlyPort /\ Port!Next
LightStep == OnlyLight /\ Light!Next
HeadingStep == OnlyHeading /\ Course!Next
PanelStep == OnlyPanel /\ Panel!Next
AccountStep == OnlyAccounts /\ Login!Next

PartsNext ==
  \/ LeafStep \/ BuzzerStep \/ VoiceStep \/ VoteStep \/ ModeStep \/ PortStep
  \/ LightStep \/ HeadingStep \/ PanelStep \/ AccountStep

PartsSpec == PartsInit /\ [][PartsNext]_allVars

(* The fairness of each part, of the steps in which it is looked at.       *)
LeafRuns == OnlyLeaf /\ Sched
BuzzerRuns ==
  OnlyBuzzer /\ (Beeper!Test \/ Beeper!Warm \/ Beeper!Again)
PictureTaken ==
  /\ OnlyVote
  /\ \E objs \in SUBSET {Vote!NORMAL, Vote!YELLOW, Vote!ROT} : Vote!Picture(objs, TRUE)
ModeSent == OnlyMode /\ Vision!SetMode
PlantSelected == OnlyMode /\ Vision!Selected
ModeRead == OnlyMode /\ Vision!Receive(Len(line))
RangingRuns == OnlyPort /\ Port!U1Thread
SchedRuns == OnlyPort /\ Port!Sched
ShellRuns == OnlyPort /\ Port!Shell
CarTurns ==
  OnlyHeading /\ (\E d \in 1 .. MaxStep : Course!TurnTick(d))
FrameApplied == OnlyPanel /\ Panel!Apply

PartsFairSpec ==
  /\ PartsSpec
  /\ WF_allVars(LeafRuns) /\ WF_allVars(BuzzerRuns) /\ WF_allVars(VoiceStep)
  /\ WF_allVars(PictureTaken)
  /\ WF_allVars(ModeSent) /\ WF_allVars(PlantSelected) /\ WF_allVars(ModeRead)
  /\ WF_allVars(RangingRuns) /\ WF_allVars(SchedRuns) /\ SF_allVars(ShellRuns)
  /\ WF_allVars(CarTurns) /\ WF_allVars(FrameApplied)

-----------------------------------------------------------------------------
(* The part never changes: at all times is at last. *)
LookedAt(p) == <>[](part = p)

(* Buzzer_open: an alarm that is over is heard for at most one round of    *)
(* beeps, wherever it ended, and no test ends in silence while a flag has  *)
(* been set from its beginning to its end.                                 *)
AlarmsHeard ==
  [](Beeper!TypeOK /\ Beeper!SilenceBounded) /\ Beeper!SteadyAlarmHeard

(* CheckVoice: an obstacle that comes and goes is announced at most once   *)
(* in the waiting time, and bad air that lasts after one waiting time of   *)
(* the obstacle, and one more for every race for Distance.                 *)
AnnouncedInTurn ==
  [](Speech!TypeOK /\ Speech!AirHeldBounded) /\ Speech!ObstacleSpaced

(* vote_state, update_stable_state: a single picture never becomes the     *)
(* verdict, and four in a row that agree do.                               *)
VerdictsVoted ==
  [](Vote!TypeOK /\ Vote!FourAgree) /\ Vote!NoVerdictOfOnePicture

(* The camera's mode buffer: the camera never lags behind by more than it  *)
(* keeps, and when everything that was sent has been read and followed, it *)
(* is in the mode sent last.                                               *)
ModeUpToDate == Vision!TypeOK /\ Vision!LagBounded /\ Vision!ReadIsLatest

(* send_state_packet, SetMode: a verdict that lasts reaches the device,    *)
(* and a mode that the device keeps reaches the camera, though frames and  *)
(* bytes are lost.                                                         *)
CameraFollowed ==
  /\ LookedAt("vote") => Vote!BladeFollows
  /\ LookedAt("mode") => Vision!ModeConverges

(* usart1_port_open: once sched10ms has asked after the shell, the shell   *)
(* takes no byte that arrives, and a byte in the buffer is always about to *)
(* be read.                                                                *)
PortHandedOver == Port!TypeOK /\ Port!ShellTakesOnlyEarly /\ Port!NothingStranded

(* usart1_port_open: the range finder gets its port, and then every byte,  *)
(* unless the buffer overflows.                                            *)
RangingReceives == LookedAt("port") => Port!RangingReceives

(* What the device does follows what it is told. Buzzer_open: a flag that  *)
(* stays set keeps the buzzer sounding, and once all stay clear it falls   *)
(* silent. CheckVoice: bad air and dry soil that last are announced once   *)
(* no obstacle is, and damp air once bad air is not either. LightContral:  *)
(* Full calls after the last change of its setting the light has the       *)
(* brightness of it. Car_Turn, if uart2 is opened: a turn ends, unless its *)
(* target is within the tolerance of the seam.                             *)
OutputsFollow ==
  /\ LookedAt("buzzer") => Beeper!BuzzerFollows
  /\ LookedAt("voice") => Speech!OthersGetThrough
  /\ [](Light!TypeOK /\ Light!SettlesInTime)
  /\ LookedAt("heading") => Course!TurnsEnd

(* Finding_obs, Car_Turn: when the car stops and looks, it faces the       *)
(* direction that was meant, wherever on the circle the scan began, and    *)
(* every turn goes the short way, on either side of the seam: if uart2,    *)
(* which brings the heading, is opened.                                    *)
TurnsAsMeant ==
  [](Course!TypeOK /\ Course!LooksWhereMeant) /\ Course!TurnsShortWay

(* The panel's buttons: a setting that no fault, typed frame, camera or    *)
(* new session has touched since the panel sent it is, or will be, the one *)
(* the panel shows.                                                        *)
PanelAgrees == Panel!TypeOK /\ Panel!PanelAgrees

(* The panel's buttons: a stop, or its release, that is shown and stays so *)
(* takes effect, even if it was chosen without a connection, once it has   *)
(* been sent and no fault follows.                                         *)
StopTakesEffect == LookedAt("panel") => Panel!StopTakesEffect

(* auth_state.py: a session is one of a registered account, in memory and  *)
(* in the file; a restart undoes no login, logout or registration the user *)
(* was told of; and an account keeps its password, unless _load replaces a *)
(* file it cannot read.                                                    *)
AccountsDurable ==
  /\ [](Login!TypeOK /\ Login!SessionHasAccount /\ Login!AnswerIsDurable)
  /\ Login!AccountsKept
=============================================================================
