------------------------------ MODULE PanelSync ------------------------------
(***************************************************************************)
(* The panel's mode, light and stop buttons (serial_panel.py, ui_main.py)  *)
(* against the device's flags (usart5.c, usart4.c). Nothing the device     *)
(* reports contains these flags: the panel shows what it has asked for.    *)
(* The pump and the plant type, which come back, are in Irrigation.        *)
(*                                                                         *)
(* A value of the device is written as the byte of the frame that sets it: *)
(* MaixMode_flag 1 or 2, lightONOFF_flag 0 or 1, and 1 - Motor_flag.       *)
(***************************************************************************)
EXTENDS Integers, SequencesExt

CONSTANTS
  MaxFlight, (* bound of the model: frames on their way                    *)
  MaxFaults  (* bound of the model: refusals, losses, restarts, typed      *)
             (* frames                                                     *)

PanelAssumption == MaxFlight \in Nat /\ MaxFlight >= 3 /\ MaxFaults \in Nat

Setting == {"mode", "light", "stop"}

VARIABLES
  connected,  (* is_connected()                                            *)
  page,       (* "dashboard", or "other" while logged out or asleep        *)
  shown,      (* _auto_seek_mode (0, 1, 2) and the two buttons             *)
  down,       (* frames on their way: a setting and a byte                 *)
  flag,       (* the device's flags                                        *)
  (* history *)
  faults,     (* faults so far                                             *)
  trusted     (* settings that nobody else has changed, and whose frames   *)
              (* all got through, since the panel last sent them           *)

vars == << connected, page, shown, down, flag, faults, trusted >>

(* The byte that stands for what the panel shows. *)
Wanted(s, v) == IF s = "mode" THEN IF v = 1 THEN 2 ELSE 1 ELSE v

DeviceInit == [mode |-> 2, light |-> 0, stop |-> 0]

Init ==
  /\ connected = FALSE /\ page = "other"
  /\ shown = [mode |-> 0, light |-> 0, stop |-> 0]
  /\ down = << >> /\ flag = DeviceInit
  /\ faults = 0 /\ trusted = {}

Frame(s, v) == << s, Wanted(s, v) >>

-----------------------------------------------------------------------------
(* send_payload for each of the frames, which are to bring the settings    *)
(* "sent" up to date: a closed port takes none, and an open one may refuse *)
(* one.                                                                    *)
Send(frames, sent) ==
  \/ /\ ~connected'
     /\ trusted' = trusted \ sent
     /\ UNCHANGED << down, faults >>
  \/ /\ connected' /\ Len(down) + Len(frames) <= MaxFlight
     /\ down' = down \o frames
     /\ trusted' = trusted \cup sent
     /\ UNCHANGED faults
  \/ /\ connected' /\ Len(down) + Len(frames) <= MaxFlight
     /\ faults < MaxFaults /\ faults' = faults + 1
     /\ \E n \in DOMAIN frames :
          /\ down' = down \o RemoveAt(frames, n)
          /\ trusted' = (trusted \cup sent) \ {frames[n][1]}

(* Faulty variant: the stop is not among what is sent again. *)
Connect_NoStop ==
  /\ page = "dashboard" /\ ~connected /\ connected' = TRUE
  /\ Send(<< Frame("mode", shown["mode"]), Frame("light", shown["light"]) >>,
          Setting)
  /\ UNCHANGED << page, shown, flag >>

(* connect_serial, _sync_device_state_after_connect                        *)
Connect ==
  /\ page = "dashboard" /\ ~connected /\ connected' = TRUE
  /\ Send(<< Frame("mode", shown["mode"]), Frame("light", shown["light"]),
             Frame("stop", shown["stop"]) >>, Setting)
  /\ UNCHANGED << page, shown, flag >>

(* disconnect_serial by hand or after a read error, and _poll_serial_ports *)
(* when the port is gone: the buttons stay as they are.                    *)
Disconnect ==
  /\ connected /\ connected' = FALSE
  /\ UNCHANGED << page, shown, down, flag, faults, trusted >>

(* Faulty variant: the button sends the mode it left.                      *)
CycleMode_SendsOld ==
  /\ page = "dashboard"
  /\ shown' = [shown EXCEPT !["mode"] = IF @ # 1 THEN 1 ELSE 2]
  /\ UNCHANGED << connected, page, flag >>
  /\ Send(<< Frame("mode", shown["mode"]) >>, {"mode"})

(* _cycle_auto_seek_button                                                 *)
CycleMode ==
  /\ page = "dashboard"
  /\ shown' = [shown EXCEPT !["mode"] = IF @ # 1 THEN 1 ELSE 2]
  /\ UNCHANGED << connected, page, flag >>
  /\ Send(<< Frame("mode", shown'["mode"]) >>, {"mode"})

(* set_fill_light_state, set_emergency_state                               *)
Toggle(s) ==
  /\ page = "dashboard"
  /\ shown' = [shown EXCEPT ![s] = 1 - @]
  /\ UNCHANGED << connected, page, flag >>
  /\ Send(<< Frame(s, shown'[s]) >>, {s})

(* _handle_send_command: a frame typed by hand leaves the buttons alone.   *)
TypeFrame(s, v) ==
  /\ page = "dashboard" /\ connected /\ Len(down) < MaxFlight
  /\ faults < MaxFaults /\ faults' = faults + 1
  /\ down' = Append(down, << s, v >>)
  /\ trusted' = trusted \ {s}
  /\ UNCHANGED << connected, page, shown, flag >>

(* _logout, _show_wake_page: the port stays open.                          *)
Leave ==
  /\ page = "dashboard" /\ page' = "other"
  /\ UNCHANGED << connected, shown, down, flag, faults, trusted >>

(* _show_dashboard_page, start_interaction_session: the mode button is     *)
(* reset, and nothing is sent.                                             *)
Enter ==
  /\ page = "other" /\ page' = "dashboard"
  /\ shown' = [shown EXCEPT !["mode"] = 0]
  /\ trusted' = IF shown["mode"] = 1 THEN trusted \ {"mode"} ELSE trusted
  /\ UNCHANGED << connected, down, flag, faults >>

Host == \/ Connect \/ Disconnect \/ CycleMode \/ Leave \/ Enter
        \/ \E s \in {"light", "stop"} : Toggle(s)
        \/ \E s \in Setting : \E v \in {Wanted(s, 0), Wanted(s, 1)} : TypeFrame(s, v)

-----------------------------------------------------------------------------
(* PlantSoft_DataProc                                                      *)
Apply ==
  /\ down # << >>
  /\ down' = Tail(down)
  /\ flag' = [flag EXCEPT ![Head(down)[1]] = Head(down)[2]]
  /\ UNCHANGED << connected, page, shown, faults, trusted >>

(* Maixcam_DataProc: the camera found the light, or did not; the handler   *)
(* takes its word in any mode.                                             *)
CameraLight(v) ==
  /\ flag' = [flag EXCEPT !["light"] = v]
  /\ trusted' = trusted \ {"light"}
  /\ UNCHANGED << connected, page, shown, down, faults >>

Lose ==
  /\ down # << >> /\ faults < MaxFaults /\ faults' = faults + 1
  /\ down' = Tail(down)
  /\ trusted' = trusted \ {Head(down)[1]}
  /\ UNCHANGED << connected, page, shown, flag >>

(* The device starts anew; the host's port does not notice.                *)
Restart ==
  /\ faults < MaxFaults /\ faults' = faults + 1
  /\ flag' = DeviceInit /\ down' = << >> /\ trusted' = {}
  /\ UNCHANGED << connected, page, shown >>

Device == Apply \/ Lose \/ Restart \/ \E v \in {0, 1} : CameraLight(v)

Next == Host \/ Device

Spec == Init /\ [][Next]_vars

(* The device's receiver and the host's event loop run.                    *)
FairSpec == Spec /\ WF_vars(Apply)

-----------------------------------------------------------------------------
TypeOK ==
  /\ connected \in BOOLEAN /\ page \in {"dashboard", "other"}
  /\ shown \in [Setting -> {0, 1, 2}] /\ flag \in [Setting -> {0, 1, 2}]
  /\ \A s \in {"light", "stop"} : shown[s] # 2
  /\ down \in Seq(Setting \X {0, 1, 2}) /\ Len(down) <= MaxFlight
  /\ faults \in 0 .. MaxFaults /\ trusted \subseteq Setting

(* The device will hold v once the frames on their way are applied: so     *)
(* says the last one for the setting or, if there is none, its flag.       *)
LastFrame(s, n) ==
  /\ n = 0 \/ down[n][1] = s
  /\ \A j \in DOMAIN down : j > n => down[j][1] # s
Due(s, v) ==
  \A n \in 0 .. Len(down) :
    LastFrame(s, n) => v = IF n = 0 THEN flag[s] ELSE down[n][2]

(* A setting that no fault, typed frame, camera or new session has touched *)
(* since the panel sent it is, or will be, the one the panel shows: clicks *)
(* while frames are on their way, while disconnected, and the              *)
(* synchronisation of a new connection end in the order of the clicks.     *)
PanelAgrees == \A s \in trusted : Due(s, Wanted(s, shown[s]))

(* A stop, or its release, that is shown and stays so takes effect, even   *)
(* if it was chosen without a connection, once a new one has sent it.      *)
StopTakesEffect ==
  \A v \in {0, 1} :
    <>[](shown["stop"] = v /\ "stop" \in trusted) => <>[](flag["stop"] = v)

(* The stop that the panel shows as in force (serial_panel.py:187) is      *)
(* lifted by the panel alone: a device that has stopped stays so as long   *)
(* as the button is down and no frame on its way releases it.              *)
StopIsNotLifted ==
  [][(flag["stop"] = 1 /\ shown["stop"] = 1 /\ shown'["stop"] = 1
        /\ \A n \in DOMAIN down : down[n] # << "stop", 0 >>)
     => flag'["stop"] = 1]_vars
=============================================================================
