----------------------------- MODULE VisionMode ------------------------------
(***************************************************************************)
(* How the camera learns its mode. The device (usart4.c, Maixcam_SetMode)  *)
(* repeats a frame of its mode for ever, three copies at a time; the       *)
(* camera (green.py) reads what has arrived between two pictures, keeps    *)
(* the last 64 bytes, takes frames out of them and follows the codes one   *)
(* by one. Bytes may be lost anywhere.                                     *)
(***************************************************************************)
EXTENDS Integers, SequencesExt, FiniteSetsExt

CONSTANTS
  Copies,        (* frames per transmission; 3                             *)
  RX_BUFFER_MAX, (* bytes the camera keeps; 64                             *)
  MaxLine,       (* bound of the model: bytes that wait for the camera     *)
  MaxLosses      (* bound of the model: bytes lost                         *)

VisionAssumption ==
  /\ Copies \in Nat \ {0} /\ RX_BUFFER_MAX \in Nat /\ RX_BUFFER_MAX >= 4
  /\ MaxLine \in Nat /\ MaxLine >= 4 * Copies /\ MaxLosses \in Nat

Mode == {1, 2}                        (* MODE_PLANT, MODE_LIGHT            *)
A4 == 164
B4 == 180
C4 == 196
Byte == Mode \cup {A4, B4, C4}
Frame(m) == << A4, B4, m, C4 >>

VARIABLES
  MaixMode_flag,
  line,            (* bytes sent and not yet read                          *)
  RX_MODE_BUFFER, RX_MODE_QUEUE,
  mode,            (* the camera's mode, 0 while the user selects a plant  *)
  losses,          (* history: bytes lost                                  *)
  announced        (* history: the mode of the last transmission, or 0     *)

vars == << MaixMode_flag, line, RX_MODE_BUFFER, RX_MODE_QUEUE, mode, losses,
           announced >>

Init ==
  /\ MaixMode_flag = 2 /\ line = << >>
  /\ RX_MODE_BUFFER = << >> /\ RX_MODE_QUEUE = << >>
  /\ mode = 0 /\ losses = 0 /\ announced = 0

-----------------------------------------------------------------------------
(* A command of the host.                                                  *)
Command(m) ==
  /\ MaixMode_flag' = m /\ m # MaixMode_flag
  /\ UNCHANGED << line, RX_MODE_BUFFER, RX_MODE_QUEUE, mode, losses, announced >>

(* Maixcam_SetMode: one frame after the other.                             *)
Transmission(m) == [n \in 1 .. 4 * Copies |-> Frame(m)[((n - 1) % 4) + 1]]

SetMode ==
  /\ Len(line) + 4 * Copies <= MaxLine
  /\ line' = line \o Transmission(MaixMode_flag)
  /\ announced' = MaixMode_flag
  /\ UNCHANGED << MaixMode_flag, RX_MODE_BUFFER, RX_MODE_QUEUE, mode, losses >>

LoseByte(n) ==
  /\ losses < MaxLosses /\ losses' = losses + 1
  /\ line' = RemoveAt(line, n)
  /\ UNCHANGED << MaixMode_flag, RX_MODE_BUFFER, RX_MODE_QUEUE, mode, announced >>

(* select_plant_type returns: main starts in DEFAULT_MODE.                 *)
Selected ==
  /\ mode = 0 /\ mode' = 1
  /\ UNCHANGED << MaixMode_flag, line, RX_MODE_BUFFER, RX_MODE_QUEUE, losses,
                  announced >>

-----------------------------------------------------------------------------
First(S) == IF S = {} THEN 0 ELSE Min(S)
HeaderFrom(b, i) == First({n \in i .. Len(b) - 1 : b[n] = A4 /\ b[n + 1] = B4})
TailFrom(b, i) == First({n \in i .. Len(b) : b[n] = C4})
Suffix(b, n) == SubSeq(b, Len(b) - n + 1, Len(b))

(* The payload of a frame counts if it is one byte that is a mode.         *)
Code(b, start, end) ==
  IF end = start + 3 /\ b[start + 2] \in Mode THEN << b[start + 2] >> ELSE << >>

(* _parse_mode_buffer: the codes, and the bytes that are left. One turn of *)
(* its loop begins at byte i; "parse" is what the turns after it find.     *)
ParseFrom(b, parse, i) ==
  LET start == HeaderFrom(b, i)
      end == TailFrom(b, start + 2)
  IN IF start = 0
       THEN [buf |-> Suffix(b, IF i <= Len(b) THEN 1 ELSE 0), queue |-> << >>]
     ELSE IF end = 0
       THEN [buf |-> SubSeq(b, start, Len(b)), queue |-> << >>]
     ELSE [parse[end + 1] EXCEPT !.queue = Code(b, start, end) \o @]

ParseModeBuffer(b) ==
  LET parse[i \in 1 .. Len(b) + 1] == ParseFrom(b, parse, i)
  IN parse[1]

(* Faulty variants: the oldest bytes are kept; none are dropped.           *)
Keep_Oldest(b) == IF Len(b) > RX_BUFFER_MAX THEN SubSeq(b, 1, RX_BUFFER_MAX) ELSE b
Keep_All(b) == b

Keep(b) == IF Len(b) > RX_BUFFER_MAX THEN Suffix(b, RX_BUFFER_MAX) ELSE b

(* Faulty variant: the code is compared with the default mode. *)
Follow_Default(queue) ==
  IF queue = << >> THEN UNCHANGED mode /\ RX_MODE_QUEUE' = queue
                   ELSE /\ mode' = IF Head(queue) # 1 THEN Head(queue) ELSE mode
                        /\ RX_MODE_QUEUE' = Tail(queue)

(* recv_mode_switch: a code that is not the current mode is the new one.   *)
Follow(queue) ==
  IF queue = << >> THEN UNCHANGED mode /\ RX_MODE_QUEUE' = queue
                   ELSE mode' = Head(queue) /\ RX_MODE_QUEUE' = Tail(queue)

(* recv_mode_packet: the queue first; only when it is empty is the line    *)
(* read, of which some bytes have arrived.                                 *)
Receive(arrived) ==
  /\ mode # 0
  /\ IF RX_MODE_QUEUE # << >>
       THEN Follow(RX_MODE_QUEUE) /\ UNCHANGED << line, RX_MODE_BUFFER >>
       ELSE LET bytes == SubSeq(line, 1, arrived)
                parsed == ParseModeBuffer(Keep(RX_MODE_BUFFER \o bytes))
            IN /\ line' = SubSeq(line, arrived + 1, Len(line))
               /\ RX_MODE_BUFFER' = parsed.buf
               /\ Follow(parsed.queue)
  /\ UNCHANGED << MaixMode_flag, losses, announced >>

Next ==
  \/ \E m \in Mode : Command(m)
  \/ SetMode \/ Selected
  \/ \E n \in DOMAIN line : LoseByte(n)
  \/ \E arrived \in 0 .. Len(line) : Receive(arrived)

Spec == Init /\ [][Next]_vars

(* sched10ms sends, the camera's loop reads everything again and again,    *)
(* and the user selects a plant.                                           *)
FairSpec ==
  /\ Spec
  /\ WF_vars(SetMode) /\ WF_vars(Selected) /\ WF_vars(Receive(Len(line)))

-----------------------------------------------------------------------------
TypeOK ==
  /\ MaixMode_flag \in Mode /\ mode \in {0} \cup Mode
  /\ line \in Seq(Byte) /\ Len(line) <= MaxLine /\ RX_MODE_BUFFER \in Seq(Byte)
  /\ RX_MODE_QUEUE \in Seq(Mode)
  /\ losses \in 0 .. MaxLosses /\ announced \in {0} \cup Mode

(* The camera never lags behind by more than what it keeps: its queue is   *)
(* filled only when it is empty, and from a buffer that was cut.           *)
LagBounded ==
  /\ Len(RX_MODE_BUFFER) <= RX_BUFFER_MAX
  /\ 4 * (Len(RX_MODE_QUEUE) + 1) <= RX_BUFFER_MAX

(* When everything that was sent has been read and followed, and no byte   *)
(* was lost, the camera is in the mode sent last: whatever was cut from    *)
(* the buffer and wherever the reads were, it was older.                   *)
ReadIsLatest ==
  (line = << >> /\ RX_MODE_QUEUE = << >> /\ announced # 0 /\ mode # 0
     /\ losses = 0 /\ RX_MODE_BUFFER = << >>) => mode = announced

(* Once the device keeps its mode, the camera takes it and keeps it,       *)
(* though bytes were lost.                                                 *)
ModeConverges ==
  \A m \in Mode : <>[](MaixMode_flag = m) => <>[](mode = m)
=============================================================================
