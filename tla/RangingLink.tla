----------------------------- MODULE RangingLink -----------------------------
(***************************************************************************)
(* The readings of the distance sensor (usart1_port.c, VL53_DMA.c): text   *)
(* in which a reading is "e:", four digits or spaces, and "m". The parser  *)
(* tries every place of its buffer and keeps what may be the beginning of  *)
(* a reading; unlike those of uart4 and uart5 it never waits at a head.    *)
(*                                                                         *)
(* A byte is a pair of its value and, as history, the number of its        *)
(* reading, 0 between readings.                                            *)
(***************************************************************************)
EXTENDS Integers, SequencesExt, FiniteSetsExt

CONSTANTS
  Value,     (* distances the sensor sends                                 *)
  Noise,     (* bytes between readings                                     *)
  Capacity,  (* bytes the receive port holds; 63                           *)
  MaxLen,    (* USART1_MAX_LEN, the parse buffer; 400                      *)
  MaxFrames, (* bound of the model: readings sent                          *)
  MaxLosses, (* bound of the model: bytes lost                             *)
  MaxNoise   (* bound of the model: bytes between readings                 *)

RangingAssumption ==
  /\ Value \subseteq 0 .. 9999 /\ Noise \subseteq 0 .. 255
  /\ Capacity \in Nat \ {0} /\ MaxLen \in Nat /\ MaxLen >= Capacity + 6
  /\ MaxFrames \in Nat /\ MaxLosses \in Nat /\ MaxNoise \in Nat

HEAD1 == 101
HEAD2 == 58
TAIL == 109
PackNum == 7

(* A uint16_t counts modulo this.                                          *)
UInt16 == 65536

VARIABLES
  line,       (* bytes in the receive port                                 *)
  parse_buf,  (* the first parse_len bytes                                 *)
  Distance,
  (* history *)
  sent,       (* the distances sent                                        *)
  used,       (* the numbers of the readings used, 0 for one nobody sent   *)
  damaged,    (* the numbers of the readings that lost a byte              *)
  losses, noises

vars == << line, parse_buf, Distance, sent, used, damaged, losses, noises >>

Init ==
  /\ line = << >> /\ parse_buf = << >> /\ Distance = 0
  /\ sent = << >> /\ used = << >> /\ damaged = {} /\ losses = 0 /\ noises = 0

-----------------------------------------------------------------------------
(* The sensor writes a distance in decimal, with spaces in front.          *)
Char(v, unit) ==
  IF v < unit /\ unit > 1 THEN 32 ELSE 48 + ((v \div unit) % 10)

Reading(v) ==
  << HEAD1, HEAD2, Char(v, 1000), Char(v, 100), Char(v, 10), Char(v, 1), TAIL >>

SendReading(v) ==
  /\ Len(sent) < MaxFrames /\ sent' = Append(sent, v)
  /\ Len(line) + PackNum <= Capacity
  /\ line' = line \o [k \in 1 .. PackNum |-> << Reading(v)[k], Len(sent') >>]
  /\ UNCHANGED << parse_buf, Distance, used, damaged, losses, noises >>

SendNoise(b) ==
  /\ noises < MaxNoise /\ noises' = noises + 1
  /\ Len(line) < Capacity
  /\ line' = Append(line, << b, 0 >>)
  /\ UNCHANGED << parse_buf, Distance, sent, used, damaged, losses >>

Lose(k) ==
  /\ losses < MaxLosses /\ losses' = losses + 1
  /\ line' = RemoveAt(line, k)
  /\ damaged' = damaged \cup {line[k][2]}
  /\ UNCHANGED << parse_buf, Distance, sent, used, noises >>

-----------------------------------------------------------------------------
(* Faulty variant: the tail is not compared. *)
IsFrame_NoTail(b, i) ==
  i + PackNum - 1 <= Len(b) /\ b[i][1] = HEAD1 /\ b[i + 1][1] = HEAD2

IsFrame(b, i) ==
  /\ i + PackNum - 1 <= Len(b)
  /\ b[i][1] = HEAD1 /\ b[i + 1][1] = HEAD2 /\ b[i + PackNum - 1][1] = TAIL

(* Faulty variant: a space is a character like the others. *)
Digit_NoSpace(c) == (c - 48) % 256

Digit(c) == IF c = 32 THEN 0 ELSE (c - 48) % 256

(* VL53_DataProc                                                           *)
DataProc(b, i) ==
  (Digit(b[i + 2][1]) * 1000 + Digit(b[i + 3][1]) * 100
     + Digit(b[i + 4][1]) * 10 + Digit(b[i + 5][1])) % UInt16

Origin(b, i) ==
  IF \E n \in DOMAIN sent : \A k \in 0 .. PackNum - 1 : b[i + k] = << Reading(sent[n])[k + 1], n >>
    THEN b[i][2] ELSE 0

(* Faulty variant: a frame that does not match is skipped as a whole.      *)
Advance_Frame(i) == i + PackNum

Advance(i) == i + 1

Keep(b, i) == SubSeq(b, i, Len(b))

(* A turn of the parser's loop, whose further turns are parse.             *)
ParseFrom(b, parse, i) ==
  IF i + PackNum - 1 > Len(b) THEN [rest |-> Keep(b, i), frames |-> << >>]
  ELSE IF IsFrame(b, i) THEN [parse[i + PackNum] EXCEPT !.frames = << i >> \o @]
  ELSE parse[Advance(i)]

(* usart1_try_parse: the bytes kept, and the places of the readings.       *)
TryParse(b) ==
  LET parse[i \in 1 .. Len(b) + PackNum] == ParseFrom(b, parse, i) IN parse[1]

(* What does not fit clears the parse buffer. *)
Extend(bytes) ==
  IF Len(parse_buf) + Len(bytes) > MaxLen THEN bytes ELSE parse_buf \o bytes

(* usart1_rx_entry: what has arrived is read and parsed.                   *)
Read(arrived) ==
  LET b == Extend(SubSeq(line, 1, arrived))
      parsed == TryParse(b)
  IN /\ line' = SubSeq(line, arrived + 1, Len(line))
     /\ parse_buf' = parsed.rest
     /\ Distance' = IF parsed.frames = << >> THEN Distance
                    ELSE DataProc(b, Last(parsed.frames))
     /\ used' = used \o [k \in DOMAIN parsed.frames |-> Origin(b, parsed.frames[k])]
     /\ UNCHANGED << sent, damaged, losses, noises >>

Next ==
  \/ \E v \in Value : SendReading(v)
  \/ \E b \in Noise : SendNoise(b)
  \/ \E k \in DOMAIN line : Lose(k)
  \/ \E arrived \in DOMAIN line : Read(arrived)

Spec == Init /\ [][Next]_vars

-----------------------------------------------------------------------------
(* What is kept between two reads is less than a reading, so a read always *)
(* fits behind it and the parse buffer is never cleared.                   *)
TypeOK ==
  /\ Len(line) <= Capacity /\ Len(parse_buf) < PackNum
  /\ \A k \in DOMAIN line : line[k] \in (0 .. 255) \X (0 .. Len(sent))
  /\ \A k \in DOMAIN parse_buf : parse_buf[k] \in (0 .. 255) \X (0 .. Len(sent))
  /\ Distance \in 0 .. UInt16 - 1
  /\ sent \in Seq(Value) /\ used \in Seq(0 .. Len(sent))
  /\ damaged \subseteq 0 .. Len(sent)
  /\ losses \in 0 .. MaxLosses /\ noises \in 0 .. MaxNoise

Waiting == {line[k][2] : k \in DOMAIN line}
             \cup {parse_buf[k][2] : k \in DOMAIN parse_buf}

(* A reading that arrived whole is used, once and in its turn, however     *)
(* many bytes around it were lost or made up and wherever the reads cut:   *)
(* no damaged reading holds back or swallows the next one.                 *)
WholeReadingsUsed ==
  /\ ToSet(used) \ {0} = (DOMAIN sent \ damaged) \ Waiting
  /\ \A k, l \in DOMAIN used : k < l /\ used[k] # 0 /\ used[l] # 0 => used[k] < used[l]

(* The distance is the one the sensor wrote in the last reading used, with *)
(* its spaces and digits: decoding undoes writing.                         *)
DistanceIsRead ==
  used # << >> /\ Last(used) # 0 => Distance = sent[Last(used)]

(* On a line without noise, fewer lost bytes than a reading has never make *)
(* a distance out of parts of two readings.                                *)
NothingInvented == noises = 0 /\ losses < PackNum => 0 \notin ToSet(used)
=============================================================================
