-------------------------------- MODULE Voice --------------------------------
(***************************************************************************)
(* Voice announcements (usart6.c). Check_vioce runs in every tick of       *)
(* sched10ms. Each alarm has a flag that allows one announcement until the *)
(* alarm is over; the obstacle's also has a waiting time. The tests are    *)
(* one else-if chain, obstacle first.                                      *)
(*                                                                         *)
(* The sensors are sampled by sched10ms itself, after the announcements.   *)
(* Distance is written by the thread u1rx, which preempts sched10ms: the   *)
(* three reads of one call may see three values. What a call finds is      *)
(* "near", the first read below 400 and the second above 0, and "gone",    *)
(* the third 400 or more, in any combination.                              *)
(***************************************************************************)
EXTENDS Integers

CONSTANTS
  Wait,      (* ticks between two announcements of an obstacle; 800        *)
  MaxRaces   (* bound of the model: see "races"                            *)

VoiceAssumption == Wait \in Nat \ {0} /\ MaxRaces \in Nat

Ppm == {"low", "middle", "high"}     (* OLED_MQ135ppm: below 7.4, 9.0 ..   *)
Flag == {0, 1, 2}                    (* Soil_AlarmFlag                     *)
Damp == {"low", "middle", "high"}    (* My_humi: below 65, 70 ..           *)

VARIABLES
  OLED_MQ135ppm, Soil_AlarmFlag, My_humi,
  obsvoice_flag, obsvoice_waittime,
  airvoice_flag, soilvoice_flag, humivoice_flag,
  voice,       (* what the last call announced, or "nothing"               *)
  (* history *)
  since,       (* calls since the last announcement of an obstacle         *)
  air_held,    (* calls for which an armed air alarm has been held back    *)
  races        (* meanwhile, calls which took an obstacle to be near and   *)
               (* gone                                                     *)

inputs == << OLED_MQ135ppm, Soil_AlarmFlag, My_humi >>
flags == << obsvoice_flag, obsvoice_waittime, airvoice_flag, soilvoice_flag,
            humivoice_flag >>
vars == << inputs, flags, voice, since, air_held, races >>

Init ==
  /\ OLED_MQ135ppm = "low"
  /\ Soil_AlarmFlag = 0 /\ My_humi = "low"
  /\ obsvoice_flag = 1 /\ obsvoice_waittime = 0
  /\ airvoice_flag = 1 /\ soilvoice_flag = 1 /\ humivoice_flag = 1
  /\ voice = "nothing" /\ since = Wait /\ air_held = 0 /\ races = 0

-----------------------------------------------------------------------------
Waiting == IF obsvoice_waittime > 0 THEN obsvoice_waittime - 1 ELSE 0

WantObs(near) == near /\ obsvoice_flag # 0
WantAir == OLED_MQ135ppm = "high" /\ airvoice_flag # 0
WantSoil == Soil_AlarmFlag = 1 /\ soilvoice_flag # 0
WantHumi == My_humi = "high" /\ humivoice_flag # 0

(* Faulty variants: an obstacle whose flag is spent still ends the chain;  *)
(* the waiting time is not looked at.                                      *)
Choose_Hides(near) ==
  IF near THEN IF obsvoice_flag # 0 /\ Waiting = 0 THEN "obs" ELSE "nothing"
  ELSE IF WantAir THEN "air"
  ELSE IF WantSoil THEN "soil"
  ELSE IF WantHumi THEN "humi" ELSE "nothing"
Choose_AtOnce(near) ==
  IF WantObs(near) THEN "obs"
  ELSE IF WantAir THEN "air"
  ELSE IF WantSoil THEN "soil"
  ELSE IF WantHumi THEN "humi" ELSE "nothing"

(* What one call announces. *)
Choose(near) ==
  IF WantObs(near) THEN IF Waiting = 0 THEN "obs" ELSE "nothing"
  ELSE IF WantAir THEN "air"
  ELSE IF WantSoil THEN "soil"
  ELSE IF WantHumi THEN "humi" ELSE "nothing"

(* A flag is spent by the announcement and set when the alarm is over.     *)
Rearm(flag, kind, over) ==
  IF over THEN 1 ELSE IF voice' = kind THEN flag - 1 ELSE flag

(* Check_vioce, which reads Distance three times, and the new samples.     *)
CheckVoice(near, gone) ==
  /\ voice' = Choose(near)
  /\ obsvoice_waittime' = IF voice' = "obs" THEN Wait ELSE Waiting
  /\ obsvoice_flag' = Rearm(obsvoice_flag, "obs", gone)
  /\ airvoice_flag' = Rearm(airvoice_flag, "air", OLED_MQ135ppm = "low")
  /\ soilvoice_flag' = Rearm(soilvoice_flag, "soil", Soil_AlarmFlag = 0)
  /\ humivoice_flag' = Rearm(humivoice_flag, "humi", My_humi = "low")
  /\ since' = IF voice' = "obs" THEN 0 ELSE IF since < Wait THEN since + 1 ELSE since
  /\ IF WantAir /\ voice' # "air"
       THEN /\ air_held' = air_held + 1
            /\ races' = IF near /\ gone THEN races + 1 ELSE races
            /\ races' <= MaxRaces
       ELSE air_held' = 0 /\ races' = 0
  /\ OLED_MQ135ppm' \in Ppm /\ Soil_AlarmFlag' \in Flag /\ My_humi' \in Damp

Next == \E near, gone \in BOOLEAN : CheckVoice(near, gone)

Spec == Init /\ [][Next]_vars

(* sched10ms runs in every period.                                         *)
FairSpec == Spec /\ WF_vars(Next)

-----------------------------------------------------------------------------
TypeOK ==
  /\ OLED_MQ135ppm \in Ppm
  /\ Soil_AlarmFlag \in Flag /\ My_humi \in Damp
  /\ obsvoice_flag \in {0, 1} /\ obsvoice_waittime \in 0 .. Wait
  /\ airvoice_flag \in {0, 1} /\ soilvoice_flag \in {0, 1}
  /\ humivoice_flag \in {0, 1}
  /\ voice \in {"nothing", "obs", "air", "soil", "humi"}
  /\ since \in 0 .. Wait /\ air_held \in Nat /\ races \in 0 .. MaxRaces

(* An obstacle that comes and goes is announced at most once in the        *)
(* waiting time.                                                           *)
ObstacleSpaced == [][voice' = "obs" => since + 1 >= Wait]_vars

(* Bad air that lasts is announced after one waiting time of the obstacle, *)
(* and one more for every call in which the obstacle went away between the *)
(* test and the last read of Distance: only that sets the flag in the same *)
(* call that spent it.                                                     *)
AirHeldBounded == air_held <= Wait * (races + 1)

(* Once no obstacle is announced any more, bad air and dry soil that last  *)
(* are announced, however often the air changes. Damp air has two alarms   *)
(* above it, which may take turns, and waits for one more of them to rest. *)
OthersGetThrough ==
  /\ <>[](voice # "obs") => []<>(~WantAir) /\ []<>(~WantSoil)
  /\ <>[](voice \notin {"obs", "air"}) => []<>(~WantHumi)
=============================================================================
