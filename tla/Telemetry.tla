------------------------------ MODULE Telemetry ------------------------------
(***************************************************************************)
(* The reports of the device and the parser of the host (usart5.c,         *)
(* serial_panel.py). The device sends seven packets in turn, of three      *)
(* lengths; a payload may hold the bytes AA and 55. The host opens the     *)
(* port at any packet, reads at any moment what has arrived and takes the  *)
(* frames out. A burst of bytes may be lost: an overrun, or the frames     *)
(* that were cut when the port was opened.                                 *)
(*                                                                         *)
(* A byte is a pair of its value and, as history, the number of its frame. *)
(***************************************************************************)
EXTENDS Integers, SequencesExt, FiniteSetsExt

CONSTANTS
  Payload,   (* the values of a low byte, and of both bytes of a distance  *)
  MaxFrames, (* bound of the model: frames sent                            *)
  MaxBurst,  (* bound of the model: bytes lost in a burst                  *)
  MaxLosses  (* bound of the model: bursts                                 *)

TelemetryAssumption ==
  /\ Payload \subseteq 0 .. 255
  /\ MaxFrames \in Nat /\ MaxBurst \in Nat /\ MaxLosses \in Nat

AA == 170
Tail55 == 85

VARIABLES
  cnt,             (* the packet that is sent next                         *)
  line,            (* bytes sent and not yet read                          *)
  _receive_buffer,
  (* history *)
  sent,            (* frames sent                                          *)
  received,        (* the numbers of the frames taken out, 0 for one made  *)
                   (* of parts                                             *)
  damaged,         (* the frames that lost a byte                          *)
  losses           (* bursts so far                                        *)

vars == << cnt, line, _receive_buffer, sent, received, damaged, losses >>

Init ==
  /\ cnt \in 1 .. 7
  /\ line = << >> /\ _receive_buffer = << >>
  /\ sent = 0 /\ received = << >> /\ damaged = {} /\ losses = 0

-----------------------------------------------------------------------------
(* The tenths of a percent and of a degree, and the ppm, are below 1024.   *)
HighBytes(n) == IF n = 5 THEN Payload ELSE {3}
LowBytes(n) == IF n <= 5 THEN Payload ELSE {3}

(* The soil, the temperature, the humidity, the air; the distance; the     *)
(* state of the leaf and the plant type.                                   *)
Packet(n, x, y) ==
  CASE n \in 1 .. 4 -> << AA, 16, 15 + n, x, y, Tail55 >>
    [] n = 5        -> << AA, 32, 0, 0, x, y, Tail55 >>
    [] n = 6        -> << AA, 48, y, Tail55 >>
    [] n = 7        -> << AA, 112, y, Tail55 >>

(* SendData_to_PlantSoft, in every fourth tick.                            *)
SendPacket(x, y) ==
  /\ sent < MaxFrames /\ sent' = sent + 1
  /\ cnt' = 1 + (cnt % 7)
  /\ LET bytes == Packet(cnt, x, y)
     IN line' = line \o [k \in DOMAIN bytes |-> << bytes[k], sent' >>]
  /\ UNCHANGED << _receive_buffer, received, damaged, losses >>

Lose(from, to) ==
  /\ losses < MaxLosses /\ losses' = losses + 1
  /\ line' = SubSeq(line, 1, from - 1) \o SubSeq(line, to + 1, Len(line))
  /\ damaged' = damaged \cup {line[k][2] : k \in from .. to}
  /\ UNCHANGED << cnt, _receive_buffer, sent, received >>

-----------------------------------------------------------------------------
First(S) == IF S = {} THEN 0 ELSE Min(S)
HeaderFrom(b, i) == First({n \in i .. Len(b) : b[n][1] = AA})

(* Faulty variant: one byte too many for an obstacle. *)
ExpectedLength_Long(b, n) ==
  CASE b[n + 1][1] = 16 /\ b[n + 2][1] \in 16 .. 19 -> 6
    [] b[n + 1][1] = 32 -> 8
    [] b[n + 1][1] \in {48, 112} -> 4
    [] OTHER -> 0

(* _expected_frame_length of the frame at n, 0 for None.                   *)
ExpectedLength(b, n) ==
  CASE b[n + 1][1] = 16 /\ b[n + 2][1] \in 16 .. 19 -> 6
    [] b[n + 1][1] = 32 -> 7
    [] b[n + 1][1] \in {48, 112} -> 4
    [] OTHER -> 0

(* The frame of a run of bytes. *)
FrameOf(b, n, l) ==
  LET ids == {b[k][2] : k \in n .. n + l - 1}
  IN IF Cardinality(ids) = 1 THEN b[n][2] ELSE 0

(* Faulty variant: a false header costs all that has arrived. *)
Resume_All(b, n) == Len(b) + 1

(* Where the search goes on after a false header. *)
Resume(b, n) == n + 1

(* Faulty variant: a frame that is not complete is thrown away. *)
Keep_Nothing(b, n) == [rest |-> << >>, frames |-> << >>]

(* The bytes from n on are kept for the next time. *)
Keep(b, n) == [rest |-> SubSeq(b, n, Len(b)), frames |-> << >>]

(* A turn of the parser's loop, whose further turns are parse.             *)
ParseFrom(b, parse, i) ==
  LET n == HeaderFrom(b, i)
      l == ExpectedLength(b, n)
  IN IF Len(b) - i + 1 < 4 THEN Keep(b, i)
     ELSE IF n = 0 THEN Keep(b, Len(b) + 1)
     ELSE IF Len(b) - n + 1 < 4 THEN Keep(b, n)
     ELSE IF l = 0 THEN parse[Resume(b, n)]
     ELSE IF Len(b) - n + 1 < l THEN Keep(b, n)
     ELSE IF b[n + l - 1][1] # Tail55 THEN parse[Resume(b, n)]
     ELSE [parse[n + l] EXCEPT !.frames = << FrameOf(b, n, l) >> \o @]

(* _parse_receive_buffer: the frames in the buffer, and what is left of it.*)
ParseReceiveBuffer(b) ==
  LET parse[i \in 1 .. Len(b) + 1] == ParseFrom(b, parse, i) IN parse[1]

(* _read_serial_data: all that has arrived.                                *)
Read(arrived) ==
  LET parsed == ParseReceiveBuffer(_receive_buffer \o SubSeq(line, 1, arrived))
  IN /\ line' = SubSeq(line, arrived + 1, Len(line))
     /\ _receive_buffer' = parsed.rest
     /\ received' = received \o parsed.frames
     /\ UNCHANGED << cnt, sent, damaged, losses >>

Next ==
  \/ \E x \in HighBytes(cnt), y \in LowBytes(cnt) : SendPacket(x, y)
  \/ \E from \in DOMAIN line : \E to \in from .. Min({Len(line), from + MaxBurst - 1}) :
       Lose(from, to)
  \/ \E arrived \in DOMAIN line : Read(arrived)

Spec == Init /\ [][Next]_vars

-----------------------------------------------------------------------------
TypeOK ==
  /\ cnt \in 1 .. 7
  /\ \A k \in DOMAIN line : line[k] \in (0 .. 255) \X (1 .. sent)
  /\ \A k \in DOMAIN _receive_buffer : _receive_buffer[k] \in (0 .. 255) \X (1 .. sent)
  /\ sent \in 0 .. MaxFrames /\ received \in Seq(0 .. sent)
  /\ damaged \subseteq 1 .. sent /\ losses \in 0 .. MaxLosses

(* Less than one frame is ever kept back, whatever the bytes: a false      *)
(* header cannot make the host wait for more than the next frame.          *)
LessThanAFrame == Len(_receive_buffer) < 7

Undamaged == 1 .. sent \ damaged
Waiting == {line[k][2] : k \in DOMAIN line}
             \cup {_receive_buffer[k][2] : k \in DOMAIN _receive_buffer}
Missed == (Undamaged \ Waiting) \ ToSet(received)

(* Without losses every frame is taken out, once and in order, wherever    *)
(* the reads cut the bytes and whatever the payload.                       *)
AllInOrder ==
  losses = 0 => /\ Missed = {}
                /\ received = [k \in DOMAIN received |-> k]

(* A burst costs, besides the frames it hits, at most one frame, and makes *)
(* at most one that nobody sent.                                           *)
DamageBounded ==
  /\ Cardinality(Missed) <= losses
  /\ Cardinality({k \in DOMAIN received : received[k] = 0 \/ received[k] \in damaged})
       <= losses
=============================================================================
