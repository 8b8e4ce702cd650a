--------------------------- MODULE LeafInspection ---------------------------
(***************************************************************************)
(* The leaf-inspection motion of the gimbal (Plantleaf_ins, SportMode.c)   *)
(* as the sched10ms thread runs it through MaixCam_Sport, against the mode *)
(* commands that the UART5 receive thread applies (PlantSoft_DataProc,     *)
(* usart5.c).                                                              *)
(*                                                                         *)
(* u5rx (priority 15) preempts sched10ms (priority 18) between any two of  *)
(* its memory accesses, and never the other way round: a command is one    *)
(* atomic step, and the thread has a program counter with one value per    *)
(* access to a variable that a command also writes.                        *)
(*                                                                         *)
(* Finding_light and Finding_obs, which MaixCam_Sport calls as well, touch *)
(* none of the variables below: they are the subject of MotionControl.     *)
(***************************************************************************)
EXTENDS Integers

CONSTANTS
  StartDelay,   (* 300: ticks a new mode waits before it moves anything    *)
  WindTick,     (* 200: the call that turns the gimbal one circle forward  *)
  UnwindTick,   (* 900: the call that turns it back and ends the request   *)
  U16Max        (* 65535: the largest value of a uint16_t                  *)

ASSUME LeafAssumption ==
  /\ StartDelay \in Nat \ {0}
  /\ WindTick \in Nat
  /\ UnwindTick \in Nat
  /\ U16Max \in Nat
  /\ 1 < WindTick
  /\ WindTick < UnwindTick
  /\ UnwindTick <= U16Max
  /\ StartDelay <= U16Max

VARIABLES
  MaixMode_flag,      (* 1 leaf inspection, 2 light search                 *)
  Plantleaf_insflag,  (* 1 while an inspection is requested or running     *)
  starttime_cnt,      (* ticks since the last mode command, a uint16_t     *)
  time_cnt,           (* static local of Plantleaf_ins, a uint16_t         *)
  reg,                (* the register of the read-modify-write of ++       *)
  pc,                 (* where sched10ms is in MaixCam_Sport               *)
  circle,             (* gimbal output: circles forward minus circles back *)
  waited              (* history: ticks an undisturbed request has waited  *)

vars == << MaixMode_flag, Plantleaf_insflag, starttime_cnt, time_cnt, reg,
           pc, circle, waited >>

PCs == {"sleep", "load1", "store1", "gate", "leaf", "act", "clear",
        "mode2", "load2", "store2"}

(* The increment of a uint16_t. *)
Inc16(x) == IF x = U16Max THEN 0 ELSE x + 1

(* One wrap of time_cnt and two start delays; waited saturates above it.   *)
LongestWait == U16Max + 1 + 2 * StartDelay

(* Initial values of the globals and of the static local.                  *)
Init ==
  /\ MaixMode_flag = 2
  /\ Plantleaf_insflag = 1
  /\ starttime_cnt = 0
  /\ time_cnt = 0
  /\ reg = 0
  /\ pc = "sleep"
  /\ circle = 0
  /\ waited = 0

-----------------------------------------------------------------------------
(* The command handlers, run by u5rx.                                      *)

(* Faulty variant: the command also restarts the sequence of Plantleaf_ins. *)
LeafCommand_Restart ==
  /\ MaixMode_flag' = 1
  /\ Plantleaf_insflag' = 1
  /\ starttime_cnt' = 0
  /\ time_cnt' = 0
  /\ waited' = 0
  /\ UNCHANGED << reg, pc, circle >>

(* AA 10 01 55 *)
LeafCommand ==
  /\ MaixMode_flag' = 1
  /\ Plantleaf_insflag' = 1
  /\ starttime_cnt' = 0
  /\ waited' = 0
  /\ UNCHANGED << time_cnt, reg, pc, circle >>

(* Faulty variant: leaving leaf mode withdraws the request. *)
LightCommand_Cancel ==
  /\ MaixMode_flag' = 2
  /\ Plantleaf_insflag' = 0
  /\ starttime_cnt' = 0
  /\ waited' = 0
  /\ UNCHANGED << time_cnt, reg, pc, circle >>

(* AA 10 02 55: Modestate_light, which it may also reset, is not read here *)
LightCommand ==
  /\ MaixMode_flag' = 2
  /\ starttime_cnt' = 0
  /\ waited' = 0
  /\ UNCHANGED << Plantleaf_insflag, time_cnt, reg, pc, circle >>

Command == LeafCommand \/ LightCommand

-----------------------------------------------------------------------------
(* One tick of sched10ms.                                                  *)

(* if (MaixMode_flag == 1) *)
TestMode1 ==
  /\ pc = "sleep"
  /\ pc' = IF MaixMode_flag = 1 THEN "load1" ELSE "mode2"
  /\ waited' = IF MaixMode_flag # 1 \/ Plantleaf_insflag # 1 THEN 0
               ELSE IF waited <= LongestWait THEN waited + 1
               ELSE waited
  /\ UNCHANGED << MaixMode_flag, Plantleaf_insflag, starttime_cnt, time_cnt,
                  reg, circle >>

(* starttime_cnt++ is a load and a store, in either leg.                   *)
LoadStart(from, to) ==
  /\ pc = from
  /\ pc' = to
  /\ reg' = starttime_cnt
  /\ UNCHANGED << MaixMode_flag, Plantleaf_insflag, starttime_cnt, time_cnt,
                  circle, waited >>

StoreStart(from, to) ==
  /\ pc = from
  /\ pc' = to
  /\ starttime_cnt' = Inc16(reg)
  /\ UNCHANGED << MaixMode_flag, Plantleaf_insflag, time_cnt, reg, circle,
                  waited >>

(* Faulty variant: > for >=. *)
TestStart_Strict ==
  /\ pc = "gate"
  /\ pc' = IF starttime_cnt > StartDelay THEN "leaf" ELSE "mode2"
  /\ UNCHANGED << MaixMode_flag, Plantleaf_insflag, starttime_cnt, time_cnt,
                  reg, circle, waited >>

(* if (starttime_cnt >= 300) *)
TestStart ==
  /\ pc = "gate"
  /\ pc' = IF starttime_cnt >= StartDelay THEN "leaf" ELSE "mode2"
  /\ UNCHANGED << MaixMode_flag, Plantleaf_insflag, starttime_cnt, time_cnt,
                  reg, circle, waited >>

(* Plantleaf_ins: the test of the request.                                 *)
CountCall ==
  /\ pc = "leaf"
  /\ IF Plantleaf_insflag = 1
       THEN /\ time_cnt' = Inc16(time_cnt)
            /\ pc' = "act"
       ELSE /\ time_cnt' = 0
            /\ pc' = "mode2"
  /\ UNCHANGED << MaixMode_flag, Plantleaf_insflag, starttime_cnt, reg,
                  circle, waited >>

(* Plantleaf_ins: what this call sends to the gimbal. The pitch sent by    *)
(* the first call is not modelled.                                         *)
Act ==
  /\ pc = "act"
  /\ circle' = IF time_cnt = WindTick THEN circle + 1
               ELSE IF time_cnt = UnwindTick THEN circle - 1
               ELSE circle
  /\ pc' = IF time_cnt = UnwindTick THEN "clear" ELSE "mode2"
  /\ UNCHANGED << MaixMode_flag, Plantleaf_insflag, starttime_cnt, time_cnt,
                  reg, waited >>

(* Faulty variant: the request is never cleared. *)
ClearRequest_Forgotten ==
  /\ pc = "clear"
  /\ pc' = "mode2"
  /\ UNCHANGED << MaixMode_flag, Plantleaf_insflag, starttime_cnt, time_cnt,
                  reg, circle, waited >>

(* Plantleaf_insflag = 0, after the stepper command has been sent.         *)
ClearRequest ==
  /\ pc = "clear"
  /\ pc' = "mode2"
  /\ Plantleaf_insflag' = 0
  /\ UNCHANGED << MaixMode_flag, starttime_cnt, time_cnt, reg, circle,
                  waited >>

(* if (MaixMode_flag == 2): a second test, of a flag read again.           *)
TestMode2 ==
  /\ pc = "mode2"
  /\ pc' = IF MaixMode_flag = 2 THEN "load2" ELSE "sleep"
  /\ UNCHANGED << MaixMode_flag, Plantleaf_insflag, starttime_cnt, time_cnt,
                  reg, circle, waited >>

Sched ==
  \/ TestMode1
  \/ LoadStart("load1", "store1")
  \/ StoreStart("store1", "gate")
  \/ TestStart
  \/ CountCall
  \/ Act
  \/ ClearRequest
  \/ TestMode2
  \/ LoadStart("load2", "store2")
  \/ StoreStart("store2", "sleep")

Next == Command \/ Sched

Spec == Init /\ [][Next]_vars

(* rt_thread_mdelay(10) returns every tick and nothing of higher priority  *)
(* runs for ever: the thread keeps taking steps.                           *)
FairSpec == Spec /\ WF_vars(Sched)

-----------------------------------------------------------------------------
TypeOK ==
  /\ MaixMode_flag \in {1, 2}
  /\ Plantleaf_insflag \in {0, 1}
  /\ starttime_cnt \in 0 .. U16Max
  /\ time_cnt \in 0 .. U16Max
  /\ reg \in 0 .. U16Max
  /\ pc \in PCs
  /\ circle \in Int
  /\ waited \in 0 .. LongestWait + 1

(* The gimbal is never wound a second circle in one direction, whatever    *)
(* the order of mode commands, however often they interrupt an inspection  *)
(* and whichever counter wraps (BuJinMotor_Circle, SportMode.c:23,27).     *)
NeverOverwound == circle \in {0, 1}

(* When no inspection is requested the gimbal is back at its start: an     *)
(* inspection that was interrupted by mode 2 half way is resumed and       *)
(* unwound before its request is cleared (SportMode.c:28).                 *)
HomeWhenDone == Plantleaf_insflag = 0 => circle = 0

(* A request that no further command disturbs is finished within one wrap  *)
(* of time_cnt and two start delays. The wrap is really reached: a request *)
(* made between the end of an inspection and the next call of              *)
(* Plantleaf_ins finds time_cnt at UnwindTick (SportMode.c:14-34).         *)
CompletionBounded == waited <= LongestWait

(* If the host finally leaves the car in leaf mode, the inspection ends,   *)
(* and the gimbal stays at home; a request is finished in bounded time.    *)
InspectionEnds ==
  /\ [](TypeOK /\ CompletionBounded)
  /\ (<>[](MaixMode_flag = 1) /\ <>[][~Command]_vars)
       => <>[](Plantleaf_insflag = 0 /\ circle = 0)
=============================================================================
