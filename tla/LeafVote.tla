------------------------------ MODULE LeafVote -------------------------------
(***************************************************************************)
(* The camera's judgement of a leaf (green.py, run_plant_mode): each       *)
(* picture gives a state, the last five states vote, a state that wins     *)
(* three votes in a row is stable, and the stable state is sent to the     *)
(* device, at once when it changes and again every 200 ms.                 *)
(***************************************************************************)
EXTENDS Integers, SequencesExt, FiniteSetsExt

CONSTANTS
  VOTE_WINDOW,   (* pictures that vote; 5                                  *)
  STABLE_FRAMES, (* votes in a row that make a state stable; 3             *)
  MaxFaults      (* bound of the model: writes that fail, frames lost      *)

VoteAssumption ==
  /\ VOTE_WINDOW \in Nat \ {0} /\ STABLE_FRAMES \in Nat \ {0}
  /\ MaxFaults \in Nat

NORMAL == 0
YELLOW == 1
ROT == 2
NONE == 3
State == {NORMAL, YELLOW, ROT, NONE}
Nothing == -1   (* Python's None                                           *)

VARIABLES
  running,        (* the camera is in run_plant_mode                       *)
  state_history, pending_state, pending_count, stable_state,
  last_sent_state,
  blade_state,    (* the device's copy                                     *)
  faults,         (* history: faults so far                                *)
  seen            (* history: the pictures that the last STABLE_FRAMES     *)
                  (* votes were about                                      *)

voteVars == << state_history, pending_state, pending_count, stable_state >>
vars == << running, voteVars, last_sent_state, blade_state, faults, seen >>

Start ==
  /\ state_history' = << >> /\ pending_state' = Nothing /\ pending_count' = 0
  /\ stable_state' = NONE /\ last_sent_state' = Nothing /\ seen' = << >>

Init ==
  /\ running = TRUE /\ blade_state = NONE /\ faults = 0
  /\ state_history = << >> /\ pending_state = Nothing /\ pending_count = 0
  /\ stable_state = NONE /\ last_sent_state = Nothing /\ seen = << >>

-----------------------------------------------------------------------------
(* summarize_objects: the gravest of the detections that are valid; the    *)
(* classes are numbered by gravity.                                        *)
Summarize(objs) == IF objs = {} THEN NONE ELSE Max(objs)

LastOf(s, n) == IF Len(s) <= n THEN s ELSE SubSeq(s, Len(s) - n + 1, Len(s))
Places(h, s) == {n \in DOMAIN h : h[n] = s}

(* The weights of vote_state, doubled: a picture weighs its place in the   *)
(* history.                                                                *)
Weight(h, s) ==
  LET weight[n \in 0 .. Len(h)] ==
        IF n = 0 THEN 0 ELSE weight[n - 1] + (IF h[n] = s THEN 2 * n ELSE 0)
  IN weight[Len(h)]

(* Faulty variant: one rotten leaf decides. *)
Score_RotDecides(h, s) ==
  Weight(h, s) + (IF s = ROT /\ Places(h, s) # {} THEN 30 ELSE 0)

(* The gravest abnormal state present gets a bonus.                        *)
Score(h, s) ==
  Weight(h, s) + (CASE s = ROT /\ Places(h, ROT) # {} -> 3
                    [] s = YELLOW /\ Places(h, ROT) = {} /\ Places(h, s) # {} -> 2
                    [] OTHER -> 0)

(* vote_state: of equal scores the first in the order of the map.          *)
VoteState(h) ==
  Min({s \in State : \A other \in State : Score(h, s) >= Score(h, other)})

(* Faulty variant: the count goes on over a change of state. *)
UpdateStable_NoReset(current) ==
  /\ pending_state' = current
  /\ pending_count' = Min({STABLE_FRAMES, pending_count + 1})
  /\ stable_state' = IF pending_count' >= STABLE_FRAMES THEN pending_state' ELSE stable_state

(* update_stable_state; counts above STABLE_FRAMES are not told apart.     *)
UpdateStable(current) ==
  /\ pending_state' = current
  /\ pending_count' = IF current = pending_state
                        THEN Min({STABLE_FRAMES, pending_count + 1}) ELSE 1
  /\ stable_state' = IF pending_count' >= STABLE_FRAMES THEN pending_state' ELSE stable_state

(* Faulty variant: a stable state is sent once. *)
SendState_Once(due) ==
  IF stable_state' = last_sent_state
    THEN UNCHANGED << last_sent_state, blade_state, faults >>
    ELSE \/ /\ last_sent_state' = stable_state'
            /\ blade_state' = stable_state' /\ UNCHANGED faults
         \/ /\ faults < MaxFaults /\ faults' = faults + 1
            /\ last_sent_state' = stable_state' /\ UNCHANGED blade_state

(* send_state_packet, and Maixcam_DataProc at the other end. A write may   *)
(* fail, and a frame may be lost after it was written.                     *)
SendState(due) ==
  IF stable_state' = last_sent_state /\ ~due
    THEN UNCHANGED << last_sent_state, blade_state, faults >>
    ELSE \/ /\ last_sent_state' = stable_state'
            /\ blade_state' = stable_state' /\ UNCHANGED faults
         \/ /\ faults < MaxFaults /\ faults' = faults + 1
            /\ last_sent_state' \in {last_sent_state, stable_state'}
            /\ UNCHANGED blade_state

(* One turn of the loop; "due" is 200 ms since the last frame.             *)
Picture(objs, due) ==
  /\ running
  /\ state_history' = LastOf(Append(state_history, Summarize(objs)), VOTE_WINDOW)
  /\ \E current \in {VoteState(state_history')} : UpdateStable(current)
  /\ seen' = LastOf(Append(seen, Summarize(objs)), VOTE_WINDOW + STABLE_FRAMES - 1)
  /\ SendState(due)
  /\ UNCHANGED running

(* The device asks for the other mode, and later for this one again.       *)
Leave ==
  /\ running /\ running' = FALSE
  /\ Start
  /\ UNCHANGED << blade_state, faults >>

Enter ==
  /\ ~running /\ running' = TRUE
  /\ UNCHANGED << voteVars, last_sent_state, blade_state, faults, seen >>

Next ==
  \/ \E objs \in SUBSET {NORMAL, YELLOW, ROT}, due \in BOOLEAN : Picture(objs, due)
  \/ Leave \/ Enter

Spec == Init /\ [][Next]_vars

(* Pictures are taken, and time passes between them. No mode is owed.      *)
FairSpec ==
  /\ Spec
  /\ WF_vars(\E objs \in SUBSET {NORMAL, YELLOW, ROT} : Picture(objs, TRUE))

-----------------------------------------------------------------------------
TypeOK ==
  /\ running \in BOOLEAN
  /\ state_history \in Seq(State) /\ Len(state_history) <= VOTE_WINDOW
  /\ pending_state \in State \cup {Nothing} /\ pending_count \in 0 .. STABLE_FRAMES
  /\ stable_state \in State /\ last_sent_state \in State \cup {Nothing}
  /\ blade_state \in State /\ faults \in 0 .. MaxFaults

(* A single picture never becomes the verdict, whatever came before and    *)
(* after it, in spite of the weight of the newest picture and the bonus of *)
(* a rotten leaf.                                                          *)
NoVerdictOfOnePicture ==
  [][stable_state' # stable_state /\ running'
       => Cardinality(Places(seen', stable_state')) >= 2]_vars

(* Four pictures in a row that agree become the verdict: two of them win   *)
(* the vote against any three older ones, and two more votes make it       *)
(* stable.                                                                 *)
FourAgree ==
  \A s \in State :
    (Len(seen) >= 4 /\ \A n \in 0 .. 3 : seen[Len(seen) - n] = s) => stable_state = s

(* A verdict that lasts reaches the device, though frames are lost.        *)
BladeFollows ==
  \A s \in State : <>[](running /\ stable_state = s) => <>[](blade_state = s)
=============================================================================
