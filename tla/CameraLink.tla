----------------------------- MODULE CameraLink ------------------------------
(***************************************************************************)
(* The camera's reports to the device (green.py; uart4_port.c, usart4.c):  *)
(* frames of seven, four and three bytes, a parser that waits at a head    *)
(* until its frame is complete, and a dispatcher that looks for heads once *)
(* more inside the frame it is given.                                      *)
(*                                                                         *)
(* A byte is a pair of its value and, as history, the number of its frame. *)
(***************************************************************************)
EXTENDS Integers, SequencesExt, FiniteSetsExt

CONSTANTS
  Low,       (* values of the low byte of a coordinate; the high byte of a *)
             (* picture's coordinates is at most 2                         *)
  Capacity,  (* bytes the receive port holds; 63                           *)
  MaxLen,    (* UART4_MAX_LEN, the parse buffer; 400                       *)
  MaxFrames, (* bound of the model: frames sent                            *)
  MaxLosses  (* bound of the model: bytes lost                             *)

CameraAssumption ==
  /\ Low \subseteq 0 .. 255
  /\ Capacity \in Nat \ {0} /\ MaxLen \in Nat /\ MaxLen >= Capacity + 6
  /\ MaxFrames \in Nat /\ MaxLosses \in Nat

HEAD1 == 163
LOC == 177
STA == 178
TYP == 179
LED == 180
TAIL1 == 195

VARIABLES
  line,        (* bytes in the receive port                                *)
  parse_buf,   (* the first parse_len bytes                                *)
  (* history *)
  sent,        (* frames sent                                              *)
  dispatched,  (* the frames dispatched, 0 for one that nobody sent        *)
  damaged,     (* the frames that lost a byte                              *)
  losses

vars == << line, parse_buf, sent, dispatched, damaged, losses >>

Init ==
  /\ line = << >> /\ parse_buf = << >>
  /\ sent = 0 /\ dispatched = << >> /\ damaged = {} /\ losses = 0

-----------------------------------------------------------------------------
(* send_light_center_packet, send_state_packet, send_plant_type_packet,    *)
(* send_light_not_found_packet                                             *)
Frame == {<< HEAD1, LOC, 1, x, 0, y, TAIL1 >> : x, y \in Low}
           \cup {<< HEAD1, STA, 2, TAIL1 >>, << HEAD1, TYP, 5, TAIL1 >>,
                 << HEAD1, LED, TAIL1 >>}

SendPacket(f) ==
  /\ sent < MaxFrames /\ sent' = sent + 1
  /\ Len(line) + Len(f) <= Capacity
  /\ line' = line \o [k \in DOMAIN f |-> << f[k], sent' >>]
  /\ UNCHANGED << parse_buf, dispatched, damaged, losses >>

Lose(k) ==
  /\ losses < MaxLosses /\ losses' = losses + 1
  /\ line' = RemoveAt(line, k)
  /\ damaged' = damaged \cup {line[k][2]}
  /\ UNCHANGED << parse_buf, sent, dispatched >>

-----------------------------------------------------------------------------
First(S) == IF S = {} THEN 0 ELSE Min(S)
HeadFrom(b, i) == First({n \in i .. Len(b) : b[n][1] = HEAD1})
At(b, n, v) == n <= Len(b) /\ b[n][1] = v

(* Faulty variant: the tail of a coordinate is not looked at. *)
FrameLength_NoTail(b, n) ==
  CASE At(b, n + 1, LOC) /\ n + 6 <= Len(b) -> 7
    [] (At(b, n + 1, STA) \/ At(b, n + 1, TYP)) /\ At(b, n + 3, TAIL1) -> 4
    [] At(b, n + 1, LED) /\ At(b, n + 2, TAIL1) -> 3
    [] OTHER -> 0

(* The length of the whole frame at n, or 0.                               *)
FrameLength(b, n) ==
  CASE At(b, n + 1, LOC) /\ At(b, n + 6, TAIL1) -> 7
    [] (At(b, n + 1, STA) \/ At(b, n + 1, TYP)) /\ At(b, n + 3, TAIL1) -> 4
    [] At(b, n + 1, LED) /\ At(b, n + 2, TAIL1) -> 3
    [] OTHER -> 0

(* Maixcam_DataProc, which tries every place of the frame but the last;    *)
(* the tail of a second frame is taken from behind the first.              *)
Inner(b, n, l) ==
  {k \in n + 1 .. n + l - 2 : b[k][1] = HEAD1 /\ b[k + 1][1] \in {LOC, STA, TYP, LED}}

DataProc(b, n, l) ==
  IF Cardinality({b[k][2] : k \in n .. n + l - 1}) = 1 /\ Inner(b, n, l) = {}
    THEN << b[n][2] >> ELSE << 0 >>

(* Faulty variant: the bytes behind the last frame are dropped.            *)
Keep_Nothing(b, n) == [rest |-> << >>, frames |-> << >>]

Keep(b, n) == [rest |-> SubSeq(b, n, Len(b)), frames |-> << >>]

(* A turn of the parser's loop, whose further turns are parse: a head that *)
(* is not the head of a whole frame is waited for; of bytes without a head *)
(* the last one is kept.                                                   *)
ParseFrom(b, parse, i) ==
  LET n == HeadFrom(b, i)
      l == FrameLength(b, n)
  IN IF n = 0 THEN Keep(b, IF i <= Len(b) THEN Len(b) ELSE i)
     ELSE IF l = 0 THEN Keep(b, n)
     ELSE [parse[n + l] EXCEPT !.frames = DataProc(b, n, l) \o @]

(* uart4_try_parse: the frames in the buffer, and what is left of it.      *)
TryParse(b) ==
  LET parse[i \in 1 .. Len(b) + 1] == ParseFrom(b, parse, i) IN parse[1]

(* Faulty variant: the new bytes are cleared with the parse buffer.        *)
Extend_ClearAll(bytes) ==
  IF Len(parse_buf) + Len(bytes) > MaxLen THEN << >> ELSE parse_buf \o bytes

(* What does not fit clears the parse buffer. *)
Extend(bytes) ==
  IF Len(parse_buf) + Len(bytes) > MaxLen THEN bytes ELSE parse_buf \o bytes

(* uart4_rx_entry: what has arrived is read and parsed.                    *)
Read(arrived) ==
  LET parsed == TryParse(Extend(SubSeq(line, 1, arrived)))
  IN /\ line' = SubSeq(line, arrived + 1, Len(line))
     /\ parse_buf' = parsed.rest
     /\ dispatched' = dispatched \o parsed.frames
     /\ UNCHANGED << sent, damaged, losses >>

Next ==
  \/ \E f \in Frame : SendPacket(f)
  \/ \E k \in DOMAIN line : Lose(k)
  \/ \E arrived \in DOMAIN line : Read(arrived)

Spec == Init /\ [][Next]_vars

-----------------------------------------------------------------------------
TypeOK ==
  /\ Len(line) <= Capacity /\ Len(parse_buf) <= MaxLen
  /\ \A k \in DOMAIN line : line[k] \in (0 .. 255) \X (1 .. sent)
  /\ \A k \in DOMAIN parse_buf : parse_buf[k] \in (0 .. 255) \X (1 .. sent)
  /\ sent \in 0 .. MaxFrames /\ dispatched \in Seq(0 .. sent)
  /\ damaged \subseteq 1 .. sent /\ losses \in 0 .. MaxLosses

Undamaged == 1 .. sent \ damaged
Waiting == {line[k][2] : k \in DOMAIN line}
             \cup {parse_buf[k][2] : k \in DOMAIN parse_buf}
Missed == (Undamaged \ Waiting) \ ToSet(dispatched)

(* Without losses every report is dispatched once, in order, and less than *)
(* a frame waits, wherever the reads cut the bytes and whatever the        *)
(* coordinates: no head inside a coordinate is taken for one.              *)
AllInOrder ==
  losses = 0 => /\ Missed = {}
                /\ dispatched = [k \in DOMAIN dispatched |-> k]
                /\ Len(parse_buf) < 7

(* A lost byte may leave a head that waits for ever, and everything behind *)
(* it is held back; but then the parse buffer fills and is cleared, and    *)
(* reports are dispatched again: the reports that a lost byte costs, of    *)
(* three bytes at least, fit into the parse buffer. (A coordinate that     *)
(* holds a head may repeat the stall; the run leaves it out.)              *)
StallBounded == 3 * Cardinality(Missed) <= losses * MaxLen

(* A single lost byte never makes a report that the camera did not send:   *)
(* the tail of the damaged frame falls on the head of the next.            *)
NothingInvented == losses <= 1 => 0 \notin ToSet(dispatched)
=============================================================================
