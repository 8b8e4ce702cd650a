------------------------------ MODULE SerialRx ------------------------------
(***************************************************************************)
(* One receive port of the firmware: the interrupt handler that fills the  *)
(* software ring of RT-Thread's serial driver (serial.c), the semaphore    *)
(* its indication releases (ipc.c), and the receive thread that drains the *)
(* ring into the parser (uart5_port.c; uart4_port.c and usart1_port.c,     *)
(* usart2_port.c, usart6_port.c are the same code with other names).       *)
(*                                                                         *)
(* The handler runs with the thread suspended; while isr is TRUE only it   *)
(* moves. The thread is interrupted between any two of the sections it     *)
(* protects with rt_hw_interrupt_disable, each of which is one action.     *)
(***************************************************************************)
EXTENDS Naturals, Sequences

CONSTANTS
  Byte,       (* the bytes of the line; 0 is what rt_memset leaves         *)
  BufSz,      (* 64: RT_SERIAL_RB_BUFSZ, the slots of the ring             *)
  MaxLen,     (* 400: UART5_MAX_LEN, the bytes one read may return         *)
  SemMax      (* 65535: RT_SEM_VALUE_MAX                                   *)

ASSUME SerialAssumption ==
  /\ 0 \in Byte
  /\ BufSz \in Nat /\ BufSz > 1
  /\ MaxLen \in Nat \ {0}
  /\ SemMax \in Nat \ {0}

VARIABLES
  port,       (* uart5_port_open: "closed", then "open", then "hooked"     *)
  buffer,     (* rx_fifo->buffer                                           *)
  put_index,  (* rx_fifo->put_index                                        *)
  get_index,  (* rx_fifo->get_index                                        *)
  is_full,    (* rx_fifo->is_full                                          *)
  isr,        (* TRUE while rt_hw_serial_isr runs                          *)
  sem,        (* sem->value                                                *)
  pc,         (* where the receive thread is                               *)
  chunk,      (* UART5DMA_RX_BUF: what this rt_device_read has returned    *)
  silent      (* history: no byte in the ring has been indicated           *)

ringVars == << buffer, put_index, get_index, is_full >>
vars == << port, buffer, put_index, get_index, is_full, isr, sem, pc, chunk,
           silent >>

(* "none": not created; "take": about to take the semaphore; "wait":       *)
(* suspended on it; "read": in rt_device_read; "parse": in the parser.     *)
PCs == {"none", "take", "wait", "read", "parse"}

Slots == 0 .. BufSz - 1

(* index += 1; if (index >= bufsz) index = 0;                              *)
Succ(i) == IF i + 1 >= BufSz THEN 0 ELSE i + 1

(* Faulty variant: a ring whose content wraps looks empty.                 *)
RxLength_NoWrap == IF put_index >= get_index THEN put_index - get_index ELSE 0

(* rx_length of rt_hw_serial_isr                                           *)
RxLength ==
  IF put_index >= get_index THEN put_index - get_index
  ELSE BufSz - (get_index - put_index)

(* The test of _serial_int_rx. *)
Empty == get_index = put_index /\ ~is_full

(* The port before the first UART5DMA_SendData; the ring is allocated and  *)
(* cleared when it is opened, which shows no difference here.              *)
Init ==
  /\ port = "closed"
  /\ buffer = [i \in Slots |-> 0]
  /\ put_index = 0
  /\ get_index = 0
  /\ is_full = FALSE
  /\ isr = FALSE
  /\ sem = 0
  /\ pc = "none"
  /\ chunk = << >>
  /\ silent = FALSE

-----------------------------------------------------------------------------
(* uart5_port_open, run by sched10ms on its first transmission: open the   *)
(* device with interrupt reception, then install the indication, then      *)
(* create and start the thread. Bytes may arrive from the first step on.   *)
OpenDevice ==
  /\ ~isr
  /\ port = "closed"
  /\ port' = "open"
  /\ UNCHANGED << ringVars, isr, sem, pc, chunk, silent >>

SetIndicate ==
  /\ ~isr
  /\ port = "open"
  /\ port' = "hooked"
  /\ UNCHANGED << ringVars, isr, sem, pc, chunk, silent >>

StartThread ==
  /\ ~isr
  /\ port = "hooked"
  /\ pc = "none"
  /\ pc' = "take"
  /\ UNCHANGED << port, ringVars, isr, sem, chunk, silent >>

-----------------------------------------------------------------------------
(* rt_hw_serial_isr, RT_SERIAL_EVENT_RX_IND.                               *)

(* Faulty variant: a full ring does not give up its oldest byte.           *)
StoreByte_KeepOldest(b) ==
  /\ port # "closed"
  /\ isr' = TRUE
  /\ buffer' = [buffer EXCEPT ![put_index] = b]
  /\ put_index' = Succ(put_index)
  /\ is_full' = IF put_index' = get_index THEN TRUE ELSE is_full
  /\ UNCHANGED << port, get_index, sem, pc, chunk, silent >>

(* One turn of its loop: the byte goes into the ring and, when the indices *)
(* meet, the oldest byte is given up.                                      *)
StoreByte(b) ==
  /\ port # "closed"
  /\ isr' = TRUE
  /\ buffer' = [buffer EXCEPT ![put_index] = b]
  /\ put_index' = Succ(put_index)
  /\ IF put_index' = get_index
       THEN /\ get_index' = Succ(get_index)
            /\ is_full' = TRUE
       ELSE UNCHANGED << get_index, is_full >>
  /\ UNCHANGED << port, sem, pc, chunk, silent >>

(* Faulty variant: an indication nobody waits for is dropped.              *)
Release_Lost ==
  /\ UNCHANGED sem
  /\ pc' = IF pc = "wait" THEN "read" ELSE pc

(* rt_sem_release: resume the suspended thread, or count, up to the limit. *)
Release ==
  IF pc = "wait"
    THEN pc' = "read" /\ UNCHANGED sem
    ELSE /\ sem' = IF sem < SemMax THEN sem + 1 ELSE sem
         /\ UNCHANGED pc

(* The loop ends when the data register is empty, and the callback runs.   *)
Indicate ==
  /\ isr
  /\ isr' = FALSE
  /\ IF port = "hooked" /\ RxLength > 0
       THEN Release /\ silent' = FALSE
       ELSE silent' = TRUE /\ UNCHANGED << sem, pc >>
  /\ UNCHANGED << port, ringVars, chunk >>

-----------------------------------------------------------------------------
(* uart5_rx_entry.                                                         *)

(* rt_sem_take(RT_WAITING_FOREVER) *)
TakeSem ==
  /\ ~isr
  /\ pc = "take"
  /\ IF sem > 0
       THEN sem' = sem - 1 /\ pc' = "read"
       ELSE pc' = "wait" /\ UNCHANGED sem
  /\ UNCHANGED << port, ringVars, isr, chunk, silent >>

(* Faulty variant: the full flag survives a read.                          *)
PopByte_StaysFull ==
  /\ ~isr
  /\ pc = "read"
  /\ Len(chunk) < MaxLen
  /\ ~Empty
  /\ chunk' = Append(chunk, buffer[get_index])
  /\ get_index' = Succ(get_index)
  /\ UNCHANGED << port, buffer, put_index, is_full, isr, sem, pc, silent >>

(* One turn of the loop of _serial_int_rx.                                 *)
PopByte ==
  /\ ~isr
  /\ pc = "read"
  /\ Len(chunk) < MaxLen
  /\ ~Empty
  /\ chunk' = Append(chunk, buffer[get_index])
  /\ get_index' = Succ(get_index)
  /\ is_full' = FALSE
  /\ UNCHANGED << port, buffer, put_index, isr, sem, pc, silent >>

(* The read returns; the do-while ends when it returned nothing.           *)
ReadReturns ==
  /\ ~isr
  /\ pc = "read"
  /\ Empty \/ Len(chunk) = MaxLen
  /\ pc' = IF chunk = << >> THEN "take" ELSE "parse"
  /\ UNCHANGED << port, ringVars, isr, sem, chunk, silent >>

(* The bytes go to uart5_try_parse, and the thread reads again.            *)
Parse ==
  /\ ~isr
  /\ pc = "parse"
  /\ pc' = "read"
  /\ chunk' = << >>
  /\ UNCHANGED << port, ringVars, isr, sem, silent >>

Open == OpenDevice \/ SetIndicate \/ StartThread
Isr == (\E b \in Byte : StoreByte(b)) \/ Indicate
Reader == TakeSem \/ PopByte \/ ReadReturns \/ Parse

Next == Open \/ Isr \/ Reader

Spec == Init /\ [][Next]_vars

(* A byte lasts 87 us on the line and the handler's loop a fraction of it, *)
(* so the handler returns; the thread (priority 15) and the opening thread *)
(* run when it has. Nothing forces a byte to arrive. Between two handlers  *)
(* the thread gets to run, but each of its steps may be preceded by one:   *)
(* hence SF for its steps.                                                 *)
FairSpec ==
  /\ Spec
  /\ WF_vars(Indicate)
  /\ SF_vars(Open)
  /\ SF_vars(Reader)

-----------------------------------------------------------------------------
TypeOK ==
  /\ port \in {"closed", "open", "hooked"}
  /\ buffer \in [Slots -> Byte]
  /\ put_index \in Slots
  /\ get_index \in Slots
  /\ is_full \in BOOLEAN
  /\ isr \in BOOLEAN
  /\ sem \in 0 .. SemMax
  /\ pc \in PCs
  /\ chunk \in Seq(Byte)
  /\ Len(chunk) <= MaxLen
  /\ silent \in BOOLEAN

(* Equal indices always mean an empty ring: the reader never takes a full  *)
(* ring for an empty one, nor stale slots for data (serial.c:284 reads     *)
(* is_full, serial.c:1221-1226 gives up a byte to keep them apart).        *)
NeverAmbiguous == put_index = get_index => ~is_full

(* No lost wakeup: once a byte has been indicated, a thread that is parked *)
(* or about to park finds a token, for every point at which the interrupt  *)
(* falls between the last empty read and rt_sem_take, and although the     *)
(* count saturates (uart5_port.c:102-124, ipc.c:460-484).                  *)
NoLostWakeup ==
  (RxLength > 0 /\ ~silent /\ ~isr) => (sem > 0 \/ pc \in {"read", "parse"})

(* The slot k places after the oldest unread byte. *)
SlotAt(k) == IF get_index + k < BufSz THEN get_index + k
             ELSE get_index + k - BufSz

(* Unread bytes, oldest first: the refinement mapping of the ring.         *)
Contents == [k \in 1 .. RxLength |-> buffer[SlotAt(k - 1)]]

(* The port implements the lossy queue, with one slot less than its ring.  *)
Fifo == INSTANCE LossyFifo WITH queue <- Contents, Capacity <- BufSz - 1
ImplementsFifo == Fifo!Spec

(* Bytes that were indicated reach the parser, without another byte        *)
(* having to arrive to push them.                                          *)
IndicatedBytesAreParsed ==
  (port = "hooked" /\ RxLength > 0 /\ ~silent) ~> (pc = "parse")
=============================================================================
