---------------------------- MODULE Uart1Sharing -----------------------------
(***************************************************************************)
(* The port of the range finder is the port of the console and its shell.  *)
(* The console has opened it for writing (kservice.c). The shell, tshell   *)
(* of priority 20, opens it for receiving and asks to be told of bytes     *)
(* (shell.c); usart1_port_open, which sched10ms of priority 18 calls in    *)
(* every tick, opens it only if it is not open, and asks as well           *)
(* (usart1_port.c). The receive thread u1rx has priority 15.               *)
(*                                                                         *)
(* rt_serial_open clears the flag "open" of a port that is opened again    *)
(* until rt_device_open sets it; a tick in between opens the port once     *)
(* more, and both may create a receive buffer.                             *)
(*                                                                         *)
(* A byte is its number. A thread takes a step only while no thread of     *)
(* higher priority is ready; the interrupt comes at any time.              *)
(***************************************************************************)
EXTENDS Integers, Sequences

CONSTANTS
  Capacity,  (* bytes in the receive buffer; 63                            *)
  MaxBytes   (* bound of the model: bytes that arrive                      *)

SharingAssumption == Capacity \in Nat \ {0} /\ MaxBytes \in Nat

VARIABLES
  open,       (* open_flag has RT_DEVICE_OFLAG_OPEN                        *)
  serial_rx,  (* a receive buffer exists, and the interrupt is on          *)
  ring,       (* the bytes in it                                           *)
  rx_indicate,(* who is told of a byte: "none", "shell" or "u1"            *)
  shell,      (* where tshell is                                           *)
  shell_sem,
  sched,      (* where sched10ms is in usart1_port_open                    *)
  u1,         (* u1rx: "none", "wait" or "read"                            *)
  u1_sem,
  (* history *)
  arrived,    (* bytes that have arrived                                   *)
  shell_got, u1_got, lost,
  settled     (* bytes that had arrived when u1rx took over from a shell   *)
              (* that is reading, or -1                                    *)

portVars == << open, serial_rx, ring, rx_indicate >>
history == << arrived, shell_got, u1_got, lost, settled >>
vars == << portVars, shell, shell_sem, sched, u1, u1_sem, history >>

Bytes == {ring[n] : n \in DOMAIN ring}

Init ==
  /\ open = TRUE /\ serial_rx = FALSE /\ ring = << >> /\ rx_indicate = "none"
  /\ shell = "begin" /\ shell_sem = 0 /\ sched = "idle"
  /\ u1 = "none" /\ u1_sem = 0
  /\ arrived = 0 /\ shell_got = {} /\ u1_got = {} /\ lost = {} /\ settled = -1

-----------------------------------------------------------------------------
(* rt_hw_serial_isr: a full buffer drops its oldest byte.                  *)
Isr ==
  /\ serial_rx /\ arrived < MaxBytes
  /\ arrived' = arrived + 1
  /\ IF Len(ring) < Capacity
       THEN ring' = Append(ring, arrived') /\ UNCHANGED lost
       ELSE /\ ring' = Append(Tail(ring), arrived')
            /\ lost' = lost \cup {Head(ring)}
  /\ shell_sem' = IF rx_indicate = "shell" THEN shell_sem + 1 ELSE shell_sem
  /\ u1_sem' = IF rx_indicate = "u1" THEN u1_sem + 1 ELSE u1_sem
  /\ UNCHANGED << open, serial_rx, rx_indicate, shell, sched, u1, shell_got,
                  u1_got, settled >>

-----------------------------------------------------------------------------
U1Blocked == u1 = "none" \/ (u1 = "wait" /\ u1_sem = 0)

(* usart1_rx_entry: woken, it reads until nothing is left.                 *)
U1 ==
  \/ /\ u1 = "wait" /\ u1_sem > 0
     /\ u1_sem' = u1_sem - 1 /\ u1' = "read"
     /\ UNCHANGED << ring, u1_got >>
  \/ /\ u1 = "read" /\ ring # << >>
     /\ u1_got' = u1_got \cup {Head(ring)} /\ ring' = Tail(ring)
     /\ UNCHANGED << u1, u1_sem >>
  \/ /\ u1 = "read" /\ ring = << >> /\ u1' = "wait"
     /\ UNCHANGED << ring, u1_sem, u1_got >>

U1Thread ==
  /\ U1
  /\ UNCHANGED << open, serial_rx, rx_indicate, shell, shell_sem, sched,
                  arrived, shell_got, lost, settled >>

(* usart1_port_open, which finds the port open but for the moment          *)
(* mentioned above.                                                        *)
OpenPort ==
  /\ sched = "idle" /\ sched' = "indicate"
  /\ open' = TRUE /\ serial_rx' = (serial_rx \/ ~open)
  /\ UNCHANGED << ring, rx_indicate, u1, settled >>

(* Faulty variant: it asks to be told only when it creates the thread. *)
SetIndicate_Once ==
  /\ sched = "indicate" /\ sched' = "start"
  /\ rx_indicate' = IF u1 = "none" THEN "u1" ELSE rx_indicate
  /\ settled' = IF settled = -1 /\ shell \in {"read", "wait"} THEN arrived ELSE settled
  /\ UNCHANGED << open, serial_rx, ring, u1 >>

SetIndicate ==
  /\ sched = "indicate" /\ sched' = "start"
  /\ rx_indicate' = "u1"
  /\ settled' = IF settled = -1 /\ shell \in {"read", "wait"} THEN arrived ELSE settled
  /\ UNCHANGED << open, serial_rx, ring, u1 >>

(* Faulty variant: the thread is created and not started. *)
StartThread_Never ==
  /\ sched = "start" /\ sched' = "idle"
  /\ UNCHANGED << portVars, u1, settled >>

StartThread ==
  /\ sched = "start" /\ sched' = "idle"
  /\ u1' = IF u1 = "none" THEN "wait" ELSE u1
  /\ UNCHANGED << portVars, settled >>

Sched ==
  /\ U1Blocked
  /\ OpenPort \/ SetIndicate \/ StartThread
  /\ UNCHANGED << shell, shell_sem, u1_sem, arrived, shell_got, u1_got, lost >>

-----------------------------------------------------------------------------
(* rt_serial_open for the shell: the flags are set anew, the buffer is     *)
(* looked for, and created if there was none.                              *)
ClearFlags ==
  /\ shell = "begin" /\ shell' = "test"
  /\ open' = FALSE
  /\ UNCHANGED << serial_rx, ring, rx_indicate, shell_sem, shell_got, lost >>

TestBuffer ==
  /\ shell = "test" /\ shell' = IF serial_rx THEN "mark" ELSE "create"
  /\ UNCHANGED << portVars, shell_sem, shell_got, lost >>

CreateBuffer ==
  /\ shell = "create" /\ shell' = "mark"
  /\ serial_rx' = TRUE /\ ring' = << >> /\ lost' = lost \cup Bytes
  /\ UNCHANGED << open, rx_indicate, shell_sem, shell_got >>

MarkOpen ==
  /\ shell = "mark" /\ shell' = "indicate"
  /\ open' = TRUE
  /\ UNCHANGED << serial_rx, ring, rx_indicate, shell_sem, shell_got, lost >>

(* Faulty variant: the old request is withdrawn last. *)
ShellIndicate_Withdrawn ==
  /\ shell = "indicate" /\ shell' = "read"
  /\ rx_indicate' = "none"
  /\ UNCHANGED << open, serial_rx, ring, shell_sem, shell_got, lost >>

(* finsh_set_device *)
ShellIndicate ==
  /\ shell = "indicate" /\ shell' = "read"
  /\ rx_indicate' = "shell"
  /\ UNCHANGED << open, serial_rx, ring, shell_sem, shell_got, lost >>

(* finsh_getchar: one byte at a time; without one it waits.                *)
GetChar ==
  /\ \/ /\ shell = "read" /\ ring # << >>
        /\ shell_got' = shell_got \cup {Head(ring)} /\ ring' = Tail(ring)
        /\ UNCHANGED << shell, shell_sem >>
     \/ /\ shell = "read" /\ ring = << >> /\ shell' = "wait"
        /\ UNCHANGED << ring, shell_sem, shell_got >>
     \/ /\ shell = "wait" /\ shell_sem > 0
        /\ shell_sem' = shell_sem - 1 /\ shell' = "read"
        /\ UNCHANGED << ring, shell_got >>
  /\ UNCHANGED << open, serial_rx, rx_indicate, lost >>

Shell ==
  /\ U1Blocked /\ sched = "idle"
  /\ \/ ClearFlags \/ TestBuffer \/ CreateBuffer \/ MarkOpen
     \/ ShellIndicate \/ GetChar
  /\ UNCHANGED << sched, u1, u1_sem, arrived, u1_got, settled >>

Next == Isr \/ U1Thread \/ Sched \/ Shell

Spec == Init /\ [][Next]_vars

(* Threads that are ready run; sched10ms sleeps between its ticks, so that *)
(* the shell runs too.                                                     *)
FairSpec == Spec /\ WF_vars(U1Thread) /\ WF_vars(Sched) /\ SF_vars(Shell)

-----------------------------------------------------------------------------
TypeOK ==
  /\ open \in BOOLEAN /\ serial_rx \in BOOLEAN
  /\ ring \in Seq(1 .. MaxBytes) /\ Len(ring) <= Capacity
  /\ rx_indicate \in {"none", "shell", "u1"}
  /\ shell \in {"begin", "test", "create", "mark", "indicate", "read", "wait"}
  /\ sched \in {"idle", "indicate", "start"} /\ u1 \in {"none", "wait", "read"}
  /\ shell_sem \in 0 .. MaxBytes /\ u1_sem \in 0 .. MaxBytes
  /\ arrived \in 0 .. MaxBytes /\ settled \in -1 .. MaxBytes
  /\ shell_got \cup u1_got \cup lost \subseteq 1 .. arrived

(* Once sched10ms has asked after the shell, every byte that arrives is    *)
(* for the range finder: the shell takes none of them, though it reads the *)
(* same buffer and may have wakeups left.                                  *)
ShellTakesOnlyEarly ==
  settled # -1 => \A b \in shell_got : b <= settled

(* A byte in the buffer is always about to be read, whoever was told of    *)
(* it, and whoever has asked since.                                        *)
NothingStranded ==
  ring # << >> => \/ shell # "wait" \/ shell_sem > 0
                  \/ u1 = "read" \/ u1_sem > 0

(* The range finder gets its port, though the shell asks for it too, and   *)
(* then every byte, unless the buffer overflows.                           *)
RangingReceives ==
  /\ <>[](settled # -1)
  /\ \A b \in 1 .. MaxBytes :
       []<>(b \in settled + 1 .. arrived => b \in u1_got \cup lost)
=============================================================================
