----------------------------- MODULE LossyFifo ------------------------------
(***************************************************************************)
(* What a receive port promises its parser: the bytes of the line, in      *)
(* order and unaltered; when the parser is late by more than Capacity      *)
(* bytes the oldest ones are dropped, never the newest and never a byte    *)
(* that was already handed over.                                           *)
(***************************************************************************)
EXTENDS Naturals, Sequences

CONSTANTS
  Byte,       (* the bytes of the line                                     *)
  Capacity    (* how many unread bytes are kept                            *)

VARIABLES
  queue,      (* received and not yet read, oldest first                   *)
  chunk       (* read and not yet given to the parser                      *)

Init == queue = << >> /\ chunk = << >>

Receive(b) ==
  /\ queue' = IF Len(queue) < Capacity
                THEN Append(queue, b)
                ELSE Append(Tail(queue), b)
  /\ UNCHANGED chunk

Read ==
  /\ queue # << >>
  /\ chunk' = Append(chunk, Head(queue))
  /\ queue' = Tail(queue)

HandOver ==
  /\ chunk # << >>
  /\ chunk' = << >>
  /\ UNCHANGED queue

Next == (\E b \in Byte : Receive(b)) \/ Read \/ HandOver

Spec == Init /\ [][Next]_<< queue, chunk >>
=============================================================================
