---------------------------- MODULE CommandLink -----------------------------
(***************************************************************************)
(* The command link from the host program to the dispatcher of the         *)
(* firmware: the frames the host sends (serial_panel.py), the receive port *)
(* as the lossy queue it implements (LossyFifo, see SerialRx), and the     *)
(* parser that finds the frames again (uart5_rx_entry, uart5_try_parse).   *)
(*                                                                         *)
(* A byte is a name. A command c has the frame AA c c 55, c standing for   *)
(* its code and for its argument; the clock frame is AA 60, six bytes of   *)
(* time, 55. No byte but the first of a frame is AA and no byte of a time  *)
(* is 55, as long as the year is not 2085.                                 *)
(***************************************************************************)
EXTENDS Integers, SequencesExt

CONSTANTS
  Command,    (* the command frames of four bytes                          *)
  TimeBytes,  (* 6: the bytes of time in the clock frame                   *)
  Capacity,   (* 63: the bytes the receive port keeps                      *)
  MaxLen,     (* 400: UART5_MAX_LEN, of the read and of the parse buffer   *)
  MaxDue,     (* bound of the model: frames sent and not yet dispatched    *)
  MaxDrops    (* bound of the model: bytes the port may drop               *)

ASSUME LinkAssumption ==
  /\ Command \cap {"AA", "55", "60", "time"} = {}
  /\ TimeBytes \in Nat \ {0, 1}
  /\ Capacity \in Nat \ {0}
  /\ MaxLen \in Nat \ {0}
  /\ MaxDue \in Nat \ {0}
  /\ MaxDrops \in Nat

VARIABLES
  wire,       (* bytes of the frame the host is sending                    *)
  queue,      (* bytes in the receive port                                 *)
  chunk,      (* UART5DMA_RX_BUF: bytes read and not yet parsed            *)
  parse_buf,  (* the first parse_len bytes of parse_buf                    *)
  i,          (* the index of uart5_try_parse, from 1                      *)
  pc,         (* the receive thread: "read" or "scan"                      *)
  due,        (* history: frames sent and not dispatched, until a loss     *)
  lost,       (* history: the port or the parse buffer has dropped bytes   *)
  deaf,       (* history: bytes parsed since the last frame, of those that *)
              (* entered the port after its last drop                      *)
  drops       (* history: bytes the port has dropped                       *)

vars == << wire, queue, chunk, parse_buf, i, pc, due, lost, deaf, drops >>

Byte == Command \cup {"AA", "55", "60", "time"}

CommandFrame(c) == << "AA", c, c, "55" >>
TimeFrame == << "AA", "60" >> \o [k \in 1 .. TimeBytes |-> "time"] \o << "55" >>
Frame == {CommandFrame(c) : c \in Command} \cup {TimeFrame}

(* Two parse buffers, of which the second overflows into the frame that    *)
(* would have ended the first, and one byte less than a clock frame; deaf  *)
(* saturates above.                                                        *)
LongestDeaf == 2 * MaxLen + Len(TimeFrame) - 1

Port == INSTANCE LossyFifo

Init ==
  /\ Port!Init
  /\ wire = << >>
  /\ parse_buf = << >>
  /\ i = 1
  /\ pc = "read"
  /\ due = << >>
  /\ lost = FALSE
  /\ deaf = 0
  /\ drops = 0

-----------------------------------------------------------------------------
(* send_payload: the frames go out one after the other.                    *)
HostSend(f) ==
  /\ wire = << >>
  /\ Len(due) < MaxDue
  /\ wire' = f
  /\ due' = IF lost THEN due ELSE Append(due, f)
  /\ UNCHANGED << queue, chunk, parse_buf, i, pc, lost, deaf, drops >>

(* What a dropped byte does to the histories. *)
Drop ==
  /\ drops < MaxDrops
  /\ drops' = drops + 1
  /\ lost' = TRUE
  /\ due' = << >>
  /\ deaf' = -(Len(queue) + Len(chunk))

(* A byte reaches the port.                                                *)
LineByte ==
  /\ wire # << >>
  /\ wire' = Tail(wire)
  /\ Port!Receive(Head(wire))
  /\ IF Len(queue) < Capacity
       THEN UNCHANGED << lost, due, deaf, drops >>
       ELSE Drop
  /\ UNCHANGED << parse_buf, i, pc >>

(* uart5_rx_entry: rt_device_read takes bytes until it has MaxLen or the   *)
(* port is empty.                                                          *)
ReadByte ==
  /\ pc = "read"
  /\ Len(chunk) < MaxLen
  /\ Port!Read
  /\ UNCHANGED << wire, parse_buf, i, pc, due, lost, deaf, drops >>

(* parse_len += size, for the history. *)
Heard(n) == deaf' = IF deaf + n > LongestDeaf THEN LongestDeaf + 1 ELSE deaf + n

(* Faulty variant: a chunk that does not fit is dropped, not the buffer. *)
BeginParse_DropChunk ==
  /\ pc = "read"
  /\ queue = << >> \/ Len(chunk) = MaxLen
  /\ Port!HandOver
  /\ IF Len(parse_buf) + Len(chunk) > MaxLen
       THEN lost' = TRUE /\ due' = << >> /\ UNCHANGED parse_buf
       ELSE parse_buf' = parse_buf \o chunk /\ UNCHANGED << lost, due >>
  /\ Heard(Len(chunk))
  /\ i' = 1
  /\ pc' = "scan"
  /\ UNCHANGED << wire, drops >>

(* ... and appends them to parse_buf, which it empties first when they do  *)
(* not fit.                                                                *)
BeginParse ==
  /\ pc = "read"
  /\ queue = << >> \/ Len(chunk) = MaxLen
  /\ Port!HandOver
  /\ IF Len(parse_buf) + Len(chunk) > MaxLen
       THEN parse_buf' = chunk /\ lost' = TRUE /\ due' = << >>
       ELSE parse_buf' = parse_buf \o chunk /\ UNCHANGED << lost, due >>
  /\ Heard(Len(chunk))
  /\ i' = 1
  /\ pc' = "scan"
  /\ UNCHANGED << wire, drops >>

-----------------------------------------------------------------------------
(* uart5_try_parse: one action for each way through its loop.              *)

AtHead == i <= Len(parse_buf) /\ parse_buf[i] = "AA"
From(k) == SubSeq(parse_buf, k, Len(parse_buf))

HasTime ==
  /\ i + TimeBytes + 2 <= Len(parse_buf)
  /\ parse_buf[i + 1] = "60"
  /\ parse_buf[i + TimeBytes + 2] = "55"

(* Faulty variant: the bounds test lets the tail be read past the end. *)
HasCommand_Short ==
  /\ i + 2 <= Len(parse_buf)
  /\ i + 3 > Len(parse_buf) \/ parse_buf[i + 3] = "55"

(* Faulty variant: the tail is not looked at. *)
HasCommand_NoTail == i + 3 <= Len(parse_buf)

(* Faulty variant: a whole frame is not taken before a byte follows it. *)
HasCommand_Late ==
  /\ i + 4 <= Len(parse_buf)
  /\ parse_buf[i + 3] = "55"

HasCommand ==
  /\ i + 3 <= Len(parse_buf)
  /\ parse_buf[i + 3] = "55"

Skip ==
  /\ pc = "scan"
  /\ i <= Len(parse_buf)
  /\ parse_buf[i] # "AA"
  /\ i' = i + 1
  /\ UNCHANGED << wire, queue, chunk, parse_buf, pc, due, lost, deaf, drops >>

(* PlantSoft_DataProc is called with the frame of n bytes at i, which is   *)
(* then shifted out with everything before it.                             *)
Dispatch(n) ==
  /\ parse_buf' = From(i + n)
  /\ i' = 1
  /\ due' = IF due = << >> THEN due ELSE Tail(due)
  /\ deaf' = IF deaf > 0 THEN 0 ELSE deaf
  /\ UNCHANGED << wire, queue, chunk, pc, lost, drops >>

TakeTime == pc = "scan" /\ AtHead /\ HasTime /\ Dispatch(TimeBytes + 3)

TakeCommand == pc = "scan" /\ AtHead /\ ~HasTime /\ HasCommand /\ Dispatch(4)

(* A head without a frame: wait for more, whatever follows it.             *)
AwaitMore ==
  /\ pc = "scan"
  /\ AtHead
  /\ ~HasTime
  /\ ~HasCommand
  /\ parse_buf' = From(i)
  /\ i' = 1
  /\ pc' = "read"
  /\ UNCHANGED << wire, queue, chunk, due, lost, deaf, drops >>

(* No head: the last byte is kept.                                         *)
KeepLast ==
  /\ pc = "scan"
  /\ i > Len(parse_buf)
  /\ parse_buf' = IF parse_buf = << >> THEN << >> ELSE From(Len(parse_buf))
  /\ i' = 1
  /\ pc' = "read"
  /\ UNCHANGED << wire, queue, chunk, due, lost, deaf, drops >>

Parse == Skip \/ TakeTime \/ TakeCommand \/ AwaitMore \/ KeepLast

Next ==
  \/ \E f \in Frame : HostSend(f)
  \/ LineByte
  \/ ReadByte
  \/ BeginParse
  \/ Parse

Spec == Init /\ [][Next]_vars

-----------------------------------------------------------------------------
TypeOK ==
  /\ wire \in Seq(Byte) /\ queue \in Seq(Byte) /\ Len(queue) <= Capacity
  /\ chunk \in Seq(Byte) /\ Len(chunk) <= MaxLen
  /\ parse_buf \in Seq(Byte) /\ Len(parse_buf) <= MaxLen
  /\ i \in 1 .. Len(parse_buf) + 1
  /\ pc \in {"read", "scan"}
  /\ due \in Seq(Frame)
  /\ lost \in BOOLEAN
  /\ deaf \in -(Capacity + MaxLen) .. LongestDeaf + 1
  /\ drops \in 0 .. MaxDrops

(* The parser neither drops, repeats nor reorders: however the bytes are   *)
(* cut into reads, the frames sent and not dispatched are exactly the      *)
(* bytes in flight (uart5_port.c:37-79). It holds until the port or the    *)
(* parse buffer drops something.                                           *)
NothingLostInParsing ==
  ~lost => FlattenSeq(due) = parse_buf \o chunk \o queue \o wire

(* No frame waits for the next one: when the parser returns, a frame whose *)
(* last byte it has seen has been dispatched (uart5_port.c:49,59).         *)
NothingHeldBack ==
  (~lost /\ pc = "read" /\ due # << >>) => Len(parse_buf) < Len(Head(due))

(* A dropped byte may leave a head in front that no tail fits. Nothing,    *)
(* not even an emergency stop, is dispatched until the parse buffer runs   *)
(* over and is emptied (uart5_port.c:67-71,114-117): a bounded number of   *)
(* bytes, unless more are lost. It needs a buffer that is never filled     *)
(* without a whole frame in it, MaxLen >= 2 * Len(TimeFrame) - 1.          *)
RecoveryBounded == deaf <= LongestDeaf

(* Frames carry no checksum, but parts of several frames are taken for a   *)
(* frame, and a command the host did not send is carried out, only after   *)
(* as many bytes as the shortest frame has were lost: a 55 has to move to  *)
(* the place of another (uart5_port.c:49-65).                              *)
NothingForged ==
  [][drops < 4 =>
       /\ TakeCommand => SubSeq(parse_buf, i, i + 3) \in Frame
       /\ TakeTime => SubSeq(parse_buf, i, i + TimeBytes + 2) \in Frame]_vars
=============================================================================
