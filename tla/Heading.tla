------------------------------ MODULE Heading --------------------------------
(***************************************************************************)
(* The headings of the obstacle scan (SportMode.c, Finding_obs; CarTurn.c, *)
(* Mypid.c). The car turns round, looks, and turns to two directions on    *)
(* either side as long as there is something in the way. Targets are       *)
(* brought into (-180, 180], the inertial unit reports [-180, 180), the    *)
(* controller unwraps the heading at the target, and the end of a turn is  *)
(* decided on the difference as it is.                                     *)
(*                                                                         *)
(* When the scan runs, and what it does to the wheels, is in               *)
(* MotionControl. Here the car is a heading: per tick it turns by up to    *)
(* MaxStep in the direction of the controller's output. Half a turn is     *)
(* Half units; the code has 180 degrees, of which floats hold 32768ths.    *)
(***************************************************************************)
EXTENDS Integers, FiniteSetsExt

CONSTANTS
  Half,     (* half a turn; 180                                            *)
  Tol,      (* a turn ends when it is less than this from its target; 5    *)
  MaxStep,  (* bound of the model: what the car turns in a tick            *)
  ImuOpen   (* somebody opens the port of the inertial unit                *)

HeadingAssumption ==
  /\ Half \in Nat \ {0} /\ Half % 6 = 0
  /\ Tol \in 1 .. Half /\ MaxStep \in 1 .. Tol
  /\ ImuOpen \in BOOLEAN

Turning == {1, 3, 5, 7, 9}
Looking == {2, 4, 6, 8, 10}

VARIABLES
  heading,       (* of the car                                             *)
  Yaw,           (* what the inertial unit last reported                   *)
  Modestate,
  yaw_temprary,  (* the direction away from the obstacle, or of the leg    *)
  Target         (* Pid_Trun.Target                                        *)

vars == << heading, Yaw, Modestate, yaw_temprary, Target >>

Abs(x) == IF x < 0 THEN -x ELSE x

(* What a unit reports that faces x. *)
Report(x) == ((x + Half) % (2 * Half)) - Half

Init ==
  /\ heading \in -Half .. Half - 1
  /\ Yaw = IF ImuOpen THEN heading ELSE 0
  /\ Modestate = 0 /\ yaw_temprary = 0 /\ Target = 0

(* The car turns by d, and the next report says so.                        *)
Moves(d) ==
  /\ heading' = Report(heading + d)
  /\ Yaw' = IF ImuOpen THEN heading' ELSE Yaw

Stands == UNCHANGED << heading, Yaw >>

-----------------------------------------------------------------------------
(* Where the turns go, seen from the direction away from the obstacle.     *)
Offset == [s \in Turning |->
             CASE s = 1 -> 0
               [] s = 3 -> Half \div 3
               [] s = 5 -> -(Half \div 3)
               [] s = 7 -> Half \div 2
               [] s = 9 -> -(Half \div 2)]

(* Yaw_change *)
YawChange(x) ==
  LET y == IF x > Half THEN x - 2 * Half ELSE x
  IN IF y > -Half THEN y ELSE y + 2 * Half

(* Faulty variant: the heading is taken as it is. *)
YawRead_Raw(target) == Yaw

(* Car_Turn: the heading nearest to the target.                            *)
YawRead(target) ==
  IF Yaw < target - Half THEN Yaw + 2 * Half
  ELSE IF Yaw > target + Half THEN Yaw - 2 * Half ELSE Yaw

(* Faulty variant: a dead band as wide as the tolerance. *)
Out_DeadBand(target) ==
  LET error == target - YawRead(target)
  IN IF error > Tol THEN 1 ELSE IF error < -Tol THEN -1 ELSE 0

(* PID_pOut_Max; only its sign is used here.                               *)
Out(target) ==
  LET error == target - YawRead(target)
  IN IF error > 0 THEN 1 ELSE IF error < 0 THEN -1 ELSE 0

(* Case 0: the distance has been short for long enough.                    *)
Begin ==
  /\ Modestate = 0 /\ Modestate' = 1
  /\ yaw_temprary' = Yaw + Half
  /\ UNCHANGED Target /\ Stands

(* Faulty variant: a turn ends as soon as its target is set. *)
Arrived_Always(target) == TRUE

(* The difference is not wrapped.                                          *)
Arrived(target) == Abs(Yaw - target) < Tol

(* Cases 1, 3, 5, 7, 9; the car moves on until the next tick.              *)
TurnTick(d) ==
  /\ Modestate \in Turning
  /\ Target' = YawChange(yaw_temprary + Offset[Modestate])
  /\ Modestate' = IF Arrived(Target') THEN Modestate + 1 ELSE Modestate
  /\ Moves(Out(Target') * d)
  /\ UNCHANGED yaw_temprary

(* Cases 2, 4, 6, 8, 10: the way is free, or the next turn follows.        *)
Look(free) ==
  /\ Modestate \in Looking
  /\ Modestate' = IF free THEN 11 ELSE (Modestate + 1) % 11
  /\ UNCHANGED << yaw_temprary, Target >> /\ Stands

(* Cases 11, 12: the leg keeps the heading, more or less.                  *)
Depart ==
  /\ Modestate = 11 /\ Modestate' = 12
  /\ yaw_temprary' = Yaw
  /\ UNCHANGED Target /\ Stands

Straight(d, over) ==
  /\ Modestate = 12
  /\ IF over THEN Modestate' = 0 /\ UNCHANGED Target /\ Stands
             ELSE /\ UNCHANGED Modestate /\ Target' = yaw_temprary
                  /\ Moves(Out(Target') * d)
  /\ UNCHANGED yaw_temprary

Next ==
  \/ Begin \/ Depart
  \/ \E d \in 0 .. MaxStep : TurnTick(d)
  \/ \E free \in BOOLEAN : Look(free)
  \/ \E d \in 0 .. 1, over \in BOOLEAN : Straight(d, over)

Spec == Init /\ [][Next]_vars

(* The tick comes, and a car that is told to turn does turn.               *)
FairSpec ==
  /\ Spec
  /\ WF_vars(\E d \in 1 .. MaxStep : TurnTick(d))

-----------------------------------------------------------------------------
TypeOK ==
  /\ heading \in -Half .. Half - 1 /\ Yaw \in -Half .. Half - 1
  /\ Modestate \in 0 .. 12
  /\ yaw_temprary \in -Half .. 2 * Half - 1
  /\ Target \in -Half .. Half

(* The angle between two directions. *)
Angle(x, y) == LET a == (x - y) % (2 * Half) IN Min({a, 2 * Half - a})

(* When the car stops and looks, it faces the direction that was meant,    *)
(* seen from the obstacle, but for the tolerance and what it turns in one  *)
(* tick, wherever on the circle the scan began.                            *)
LooksWhereMeant ==
  Modestate \in Looking =>
    Angle(heading, yaw_temprary + Offset[Modestate - 1]) < Tol + MaxStep

(* A turn goes the short way: no tick takes the car away from its target,  *)
(* but past it by at most a step, on either side of the seam.              *)
TurnsShortWay ==
  [][(Modestate \in Turning) =>
       Angle(heading', Target') <= Max({Angle(heading, Target'), MaxStep})]_vars

(* A turn ends, unless its target is within the tolerance of the seam,     *)
(* where headings that are as near lie on the other side.                  *)
TurnsEnd ==
  []<>(Modestate \notin Turning) \/ <>[](Abs(Target) > Half - Tol)

(* What the comment says (CarTurn.c:33): the car turns to the target.      *)
TurnReachesTarget == (Modestate \in Turning) ~> (Modestate \in Looking)
=============================================================================
