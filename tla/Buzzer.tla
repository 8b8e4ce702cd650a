------------------------------- MODULE Buzzer --------------------------------
(***************************************************************************)
(* The alarm flags and the buzzer (MQ2.c, MQ135.c, Soil.c, buzzer.c). The  *)
(* thread buzzer, of priority 20, tests four flags one after the other,    *)
(* then beeps ten times without looking at them; sched10ms, of priority    *)
(* 18, may set them all anew between any two of its steps.                 *)
(***************************************************************************)
EXTENDS Integers, Sequences

CONSTANT Times   (* beeps per alarm; 10                                    *)

BuzzerAssumption == Times \in Nat \ {0}

(* The flags in the order in which Buzzer_open tests them.                 *)
Flags == << "MQ2", "MQ135", "Soil", "DHT11" >>

VARIABLES
  alarm,    (* the flags, by name                                          *)
  pc,       (* "test", "beep" or "pause"                                   *)
  k,        (* the flag to be tested                                       *)
  i,        (* beeps of the current alarm                                  *)
  pin,      (* BEE pin; 0 sounds                                           *)
  (* history *)
  steady,   (* the flags that have been set since the test began           *)
  late      (* beeps begun since the last alarm was over                   *)

vars == << alarm, pc, k, i, pin, steady, late >>

Names == {Flags[n] : n \in DOMAIN Flags}

(* The soil's flag has three values, and nothing raises the DHT11's.       *)
Samples == {a \in [Names -> {0, 1, 2}] :
              a["MQ2"] < 2 /\ a["MQ135"] < 2 /\ a["DHT11"] = 0}

Init ==
  /\ alarm = [f \in Names |-> 0]
  /\ pc = "test" /\ k = 1 /\ i = 0 /\ pin = 1
  /\ steady = {} /\ late = 0

Calm(a) == \A f \in Names : a[f] = 0
Late == IF Calm(alarm) THEN late + 1 ELSE 0

-----------------------------------------------------------------------------
(* The second half of a tick of sched10ms: Soil_UpdateAlarmFlag,           *)
(* MQ2_UpdateAlarmFlag, MQ135_UpdateAlarmFlag, DH11_UpdateAlarmFlag.       *)
Sample ==
  /\ alarm' \in Samples
  /\ steady' = {f \in steady : alarm'[f] # 0}
  /\ late' = IF Calm(alarm') THEN late ELSE 0
  /\ UNCHANGED << pc, k, i, pin >>

(* Faulty variants: the last two flags are not tested; the pin's sense is  *)
(* mixed up when the buzzer is closed.                                     *)
Test_TwoFlags ==
  /\ pc = "test"
  /\ IF alarm[Flags[k]] # 0
       THEN pc' = "beep" /\ k' = 1 /\ i' = 0 /\ UNCHANGED pin
       ELSE IF k < 2
         THEN k' = k + 1 /\ UNCHANGED << pc, i, pin >>
         ELSE k' = 1 /\ pc' = "pause" /\ pin' = 1 /\ UNCHANGED i
  /\ UNCHANGED << alarm, steady, late >>
Test_SoundsFirst ==
  /\ pc = "test"
  /\ IF alarm[Flags[k]] # 0
       THEN pc' = "beep" /\ k' = 1 /\ i' = 0 /\ UNCHANGED pin
       ELSE IF k < Len(Flags)
         THEN k' = k + 1 /\ UNCHANGED << pc, i, pin >>
         ELSE k' = 1 /\ pc' = "pause" /\ pin' = 0 /\ UNCHANGED i
  /\ UNCHANGED << alarm, steady, late >>

(* Buzzer_open: the first flag that is set ends the test; if there is none *)
(* the buzzer is closed.                                                   *)
Test ==
  /\ pc = "test"
  /\ IF alarm[Flags[k]] # 0
       THEN pc' = "beep" /\ k' = 1 /\ i' = 0 /\ UNCHANGED pin
       ELSE IF k < Len(Flags)
         THEN k' = k + 1 /\ UNCHANGED << pc, i, pin >>
         ELSE k' = 1 /\ pc' = "pause" /\ pin' = 1 /\ UNCHANGED i
  /\ UNCHANGED << alarm, steady, late >>

(* Faulty variant: the loop runs once too often.                           *)
Warm_OneMore ==
  /\ pc = "beep"
  /\ IF pin = 1
       THEN IF i <= Times
              THEN pin' = 0 /\ late' = Late /\ UNCHANGED << pc, i >>
              ELSE pc' = "pause" /\ UNCHANGED << pin, late, i >>
       ELSE pin' = 1 /\ i' = i + 1 /\ UNCHANGED << pc, late >>
  /\ UNCHANGED << alarm, k, steady >>

(* Buzzer_warm: 50 ms on, 50 ms off, Times times.                          *)
Warm ==
  /\ pc = "beep"
  /\ IF pin = 1
       THEN IF i < Times
              THEN pin' = 0 /\ late' = Late /\ UNCHANGED << pc, i >>
              ELSE pc' = "pause" /\ UNCHANGED << pin, late, i >>
       ELSE pin' = 1 /\ i' = i + 1 /\ UNCHANGED << pc, late >>
  /\ UNCHANGED << alarm, k, steady >>

(* buzzer_alarm_entry: 100 ms later the flags are tested again.            *)
Again ==
  /\ pc = "pause" /\ pc' = "test"
  /\ steady' = {f \in Names : alarm[f] # 0}
  /\ UNCHANGED << alarm, k, i, pin, late >>

Next == Sample \/ Test \/ Warm \/ Again

Spec == Init /\ [][Next]_vars

(* The thread runs whenever it is ready: the others all sleep.             *)
FairSpec == Spec /\ WF_vars(Test \/ Warm \/ Again)

-----------------------------------------------------------------------------
TypeOK ==
  /\ alarm \in Samples
  /\ pc \in {"test", "beep", "pause"} /\ k \in DOMAIN Flags
  /\ i \in 0 .. Times /\ pin \in {0, 1}
  /\ steady \subseteq Names /\ late \in Nat

(* An alarm that is over is heard for at most one round of beeps, wherever *)
(* in the round or in the test it ended.                                   *)
SilenceBounded == late <= Times

(* No test ends in silence while a flag has been set from its beginning to *)
(* its end: an alarm is missed only if it began or ended during the test.  *)
SteadyAlarmHeard == [][(pc = "test" /\ pc' = "pause") => steady = {}]_vars

(* A flag that stays set keeps the buzzer sounding, and once all stay      *)
(* clear it falls silent.                                                  *)
BuzzerFollows ==
  /\ \A f \in Names : <>[](alarm[f] # 0) => []<>(pin = 0)
  /\ <>[]Calm(alarm) => <>[](pin = 1)
=============================================================================
