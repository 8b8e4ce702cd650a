----------------------------- MODULE PartsProofs -----------------------------
(***************************************************************************)
(* Proofs about the parts of MCParts, for every value of their constants.  *)
(* A part is proved about under its own specification, which MCParts       *)
(* implements: a step of another part is a step that this one rests in.    *)
(***************************************************************************)
EXTENDS MCParts, SequenceTheorems, TLAPS

(* A step of the whole is a step of the part, or leaves it alone. *)
LEMMA EachPart ==
  ASSUME [PartsNext]_allVars
  PROVE  /\ [Next]_vars
         /\ [Beeper!Next]_(Beeper!vars)
         /\ [Speech!Next]_(Speech!vars)
         /\ [Vote!Next]_(Vote!vars)
         /\ [Vision!Next]_(Vision!vars)
         /\ [Port!Next]_(Port!vars)
         /\ [Light!Next]_(Light!vars)
         /\ [Course!Next]_(Course!vars)
         /\ [Panel!Next]_(Panel!vars)
         /\ [Login!Next]_(Login!vars)
<1> USE DEF PartsNext, allVars,
     LeafStep, OnlyLeaf, BuzzerStep, OnlyBuzzer, VoiceStep, OnlyVoice,
     VoteStep, OnlyVote, ModeStep, OnlyMode, PortStep, OnlyPort,
     LightStep, OnlyLight, HeadingStep, OnlyHeading, PanelStep, OnlyPanel,
     AccountStep, OnlyAccounts
<1>1. [Beeper!Next]_(Beeper!vars)
  BY DEF buzzerVars, Beeper!vars
<1>2. [Speech!Next]_(Speech!vars)
  BY DEF voiceVars, Speech!vars, Speech!inputs, Speech!flags
<1>3. [Vote!Next]_(Vote!vars)
  BY DEF voteVars, Vote!vars, Vote!voteVars
<1>4. [Vision!Next]_(Vision!vars)
  BY DEF modeVars, Vision!vars
<1>5. [Port!Next]_(Port!vars)
  BY DEF portVars, Port!vars, Port!portVars, Port!history
<1>6. [Light!Next]_(Light!vars)
  BY DEF lightVars, Light!vars
<1>7. [Course!Next]_(Course!vars)
  BY DEF headingVars, Course!vars
<1>8. [Panel!Next]_(Panel!vars)
  BY DEF panelVars, Panel!vars
<1>9. [Login!Next]_(Login!vars)
  BY DEF accountVars, Login!vars
<1>10. [Next]_vars
  OBVIOUS
<1>11. QED
  BY <1>1, <1>2, <1>3, <1>4, <1>5, <1>6, <1>7, <1>8, <1>9, <1>10

(* So each part keeps to its own specification. *)
LEMMA PartsRun ==
  PartsSpec => /\ Spec
               /\ Beeper!Spec /\ Speech!Spec /\ Vote!Spec /\ Vision!Spec
               /\ Port!Spec /\ Light!Spec /\ Course!Spec /\ Panel!Spec
               /\ Login!Spec
<1>1. PartsInit => /\ Init
                   /\ Beeper!Init /\ Speech!Init /\ Vote!Init /\ Vision!Init
                   /\ Port!Init /\ Light!Init /\ Course!Init /\ Panel!Init
                   /\ Login!Init
  BY DEF PartsInit
<1>2. QED
  BY <1>1, EachPart, PTL
     DEF PartsSpec, Spec, Beeper!Spec, Speech!Spec, Vote!Spec, Vision!Spec, Port!Spec,
         Light!Spec, Course!Spec, Panel!Spec, Login!Spec

-----------------------------------------------------------------------------
(* Accounts (auth_state.py)                                                *)

(* A session is one of an account. *)
Registered(d) ==
  /\ d.session_logged_in <=> d.active_user # None
  /\ d.session_logged_in => Login!has_account(d, d.active_user)

(* Between two operations the file, the memory and the last answer are one *)
(* and the same; and unless the default data are on their way, the data in *)
(* memory still have every account of the last answer.                     *)
AccountsInv ==
  /\ Login!TypeOK
  /\ Registered(data)
  /\ file \in Login!Data => Registered(file) /\ file \in {kept, data}
  /\ save_pc \in {"idle", "return"} => file = data
  /\ save_pc = "idle" => kept = data
  /\ ~reset => \A p \in Phone :
       Login!has_account(kept, p) => data.accounts[p] = kept.accounts[p]

LEMMA AccountsInvariant == Login!Spec => []AccountsInv
<1> USE PartsAssumption DEF Login!AccountsAssumption
<1>1. Login!Init => AccountsInv
  <2>1. /\ Login!default_data \in Login!Data /\ Registered(Login!default_data)
        /\ \A p \in Phone : ~Login!has_account(Login!default_data, p)
    BY DEF Login!Data, Login!default_data, Registered, Login!has_account
  <2>2. QED
    BY <2>1 DEF Login!Init, AccountsInv, Login!TypeOK
<1>2. AccountsInv /\ [Login!Next]_(Login!vars) => AccountsInv'
  <2> SUFFICES ASSUME AccountsInv, [Login!Next]_(Login!vars)
               PROVE  AccountsInv'
    OBVIOUS
  <2> USE DEF AccountsInv, Login!TypeOK
  <2>1. ASSUME NEW p \in Phone, NEW w \in Password, Login!register_user(p, w)
        PROVE  AccountsInv'
    <3> DEFINE d == [accounts |-> [data.accounts EXCEPT ![p] = w],
                     active_user |-> p, session_logged_in |-> TRUE]
    <3>1. d \in Login!Data /\ Registered(d)
      BY DEF Login!Data, Registered, Login!has_account
    <3>2. \A q \in Phone : Login!has_account(data, q) => d.accounts[q] = data.accounts[q]
      BY <2>1 DEF Login!register_user, Login!Data, Login!has_account
    <3>3. QED
      BY <2>1, <3>1, <3>2 DEF Login!register_user, Login!BeginSave
  <2>2. ASSUME NEW p \in Phone, NEW w \in Password, Login!login_user(p, w)
        PROVE  AccountsInv'
    <3> DEFINE d == [data EXCEPT !.active_user = p, !.session_logged_in = TRUE]
    <3>1. d \in Login!Data /\ Registered(d) /\ d.accounts = data.accounts
      BY <2>2 DEF Login!login_user, Login!Data, Registered, Login!has_account
    <3>2. QED
      BY <2>2, <3>1 DEF Login!login_user, Login!BeginSave
  <2>3. CASE Login!logout_user
    <3> DEFINE d == [data EXCEPT !.session_logged_in = FALSE, !.active_user = None]
    <3>1. d \in Login!Data /\ Registered(d) /\ d.accounts = data.accounts
      BY <2>3 DEF Login!Data, Registered, Login!has_account
    <3>2. QED
      BY <2>3, <3>1 DEF Login!logout_user, Login!BeginSave
  <2>4. CASE Login!Empty
    BY <2>4 DEF Login!Empty
  <2>5. CASE Login!Write
    BY <2>5 DEF Login!Write
  <2>6. CASE Login!Return
    BY <2>6 DEF Login!Return
  <2>7. CASE Login!Die
    BY <2>7 DEF Login!Die
  <2>8. CASE Login!Load
    BY <2>8 DEF Login!Load
  <2>9. Login!default_data \in Login!Data /\ Registered(Login!default_data)
    BY DEF Login!Data, Login!default_data, Registered, Login!has_account
  <2>10. CASE Login!LoadDefault
    BY <2>9, <2>10 DEF Login!LoadDefault, Login!BeginSave
  <2>11. CASE Login!LoadUnreadable
    BY <2>9, <2>11 DEF Login!LoadUnreadable, Login!BeginSave
  <2>12. CASE UNCHANGED Login!vars
    BY <2>12 DEF Login!vars
  <2>13. QED
    BY <2>1, <2>2, <2>3, <2>4, <2>5, <2>6, <2>7, <2>8, <2>10, <2>11, <2>12
       DEF Login!Next
<1>3. QED
  BY <1>1, <1>2, PTL DEF Login!Spec

(* A session is one of a registered account, in memory and in the file; a  *)
(* file that can be read holds what the last answer said or the operation  *)
(* under way; and an account keeps its password except in a start that     *)
(* finds the file cut or unreadable and replaces it (auth_state.py): for   *)
(* any accounts. A program killed while the file is emptied loses them.    *)
THEOREM AccountsAreDurable == PartsSpec => AccountsDurable
<1>1. AccountsInv => Login!TypeOK /\ Login!SessionHasAccount /\ Login!AnswerIsDurable
  BY DEF AccountsInv, Login!SessionHasAccount, Login!AnswerIsDurable, Registered
<1>2. AccountsInv /\ [Login!Next]_(Login!vars)
        => [ reset \/ \A p \in Phone : Login!has_account(kept, p)
               => kept'.accounts[p] = kept.accounts[p] ]_(Login!vars)
  <2> SUFFICES ASSUME AccountsInv, Login!Next, ~reset,
                      NEW p \in Phone, Login!has_account(kept, p)
               PROVE  kept'.accounts[p] = kept.accounts[p]
    BY DEF Login!vars
  <2>1. kept' \in {kept, data}
    BY DEF Login!Next, Login!register_user, Login!login_user, Login!logout_user,
           Login!Empty, Login!Write, Login!Return, Login!Die, Login!Load,
           Login!LoadDefault, Login!LoadUnreadable, AccountsInv
  <2>2. QED
    BY <2>1 DEF AccountsInv
<1>3. QED
  BY <1>1, <1>2, PartsRun, AccountsInvariant, PTL
     DEF Login!Spec, AccountsDurable, Login!AccountsKept

-----------------------------------------------------------------------------
(* The port of the range finder (usart1_port.c, shell.c, serial.c)         *)

(* A byte that came after the port was handed over. *)
LateByte == \E n \in DOMAIN ring : ring[n] > settled

(* Every wakeup is one byte's, and a shell that is reading has asked.      *)
PortInv ==
  /\ Port!TypeOK
  /\ shell_sem <= arrived /\ u1_sem <= arrived
  /\ \A n \in DOMAIN ring : ring[n] \in 1 .. arrived
  /\ shell \in {"read", "wait"} => rx_indicate # "none"
  /\ Port!NothingStranded

(* Once the port is handed over the range finder is told of every byte,    *)
(* its thread exists or is about to, and a late byte wakes it before the   *)
(* shell may run.                                                          *)
HandedOver ==
  settled # -1 =>
    /\ shell \in {"read", "wait"} /\ rx_indicate = "u1"
    /\ u1 # "none" \/ sched = "start"
    /\ LateByte => u1 = "read" \/ u1_sem > 0
    /\ \A b \in shell_got : b <= settled

(* The buffer with a byte more, and with one less. *)
LEMMA RingGrows ==
  ASSUME NEW S, NEW q \in Seq(S), NEW b \in S
  PROVE  /\ Append(q, b) \in Seq(S) /\ Len(Append(q, b)) = Len(q) + 1
         /\ \A n \in DOMAIN Append(q, b) :
              Append(q, b)[n] = b \/ \E m \in DOMAIN q : Append(q, b)[n] = q[m]
  OBVIOUS

LEMMA RingShrinks ==
  ASSUME NEW S, NEW q \in Seq(S), q # << >>
  PROVE  /\ Tail(q) \in Seq(S) /\ Len(Tail(q)) = Len(q) - 1
         /\ 1 \in DOMAIN q /\ Head(q) = q[1]
         /\ \A n \in DOMAIN Tail(q) : \E m \in DOMAIN q : Tail(q)[n] = q[m]
<1>1. /\ Tail(q) \in Seq(S) /\ Len(Tail(q)) = Len(q) - 1 /\ Len(q) \in Nat \ {0}
      /\ \A n \in 1 .. Len(Tail(q)) : Tail(q)[n] = q[n + 1]
  BY EmptySeq, HeadTailProperties
<1>2. \A n \in DOMAIN Tail(q) : n + 1 \in DOMAIN q /\ Tail(q)[n] = q[n + 1]
  BY <1>1
<1>3. QED
  BY <1>1, <1>2

(* rt_hw_serial_isr on a buffer with room and on a full one. *)
LEMMA IsrRing ==
  ASSUME PortInv, Port!Isr
  PROVE  /\ ring' \in Seq(1 .. MaxBytes) /\ Len(ring') <= Capacity
         /\ arrived' = arrived + 1 /\ arrived' \in 0 .. MaxBytes
         /\ \A n \in DOMAIN ring' :
              ring'[n] = arrived' \/ \E m \in DOMAIN ring : ring'[n] = ring[m]
         /\ lost' \subseteq 1 .. arrived'
<1> USE PartsAssumption DEF Port!SharingAssumption
<1>1. /\ ring \in Seq(1 .. MaxBytes) /\ Len(ring) \in Nat /\ Len(ring) <= Capacity
      /\ arrived \in 0 .. MaxBytes /\ arrived < MaxBytes /\ arrived' = arrived + 1
      /\ lost \subseteq 1 .. arrived
      /\ \A n \in DOMAIN ring : ring[n] \in 1 .. arrived
  BY DEF PortInv, Port!TypeOK, Port!Isr
<1>2. arrived' \in 1 .. MaxBytes
  BY <1>1
<1>3. CASE Len(ring) < Capacity
  <2>1. ring' = Append(ring, arrived') /\ lost' = lost
    BY <1>3 DEF Port!Isr
  <2>2. QED
    BY <1>1, <1>2, <1>3, <2>1, RingGrows
<1>4. CASE ~(Len(ring) < Capacity)
  <2>1. ring' = Append(Tail(ring), arrived') /\ lost' = lost \cup {Head(ring)}
    BY <1>4 DEF Port!Isr
  <2>2. ring # << >>
    BY <1>1, <1>4
  <2>3. /\ Tail(ring) \in Seq(1 .. MaxBytes) /\ Len(Tail(ring)) = Len(ring) - 1
        /\ Head(ring) \in 1 .. arrived
        /\ \A n \in DOMAIN Tail(ring) : \E m \in DOMAIN ring : Tail(ring)[n] = ring[m]
    BY <1>1, <2>2, RingShrinks
  <2>4. /\ ring' \in Seq(1 .. MaxBytes) /\ Len(ring') = Len(ring)
        /\ \A n \in DOMAIN ring' :
             ring'[n] = arrived' \/ \E m \in DOMAIN Tail(ring) : ring'[n] = Tail(ring)[m]
    BY <1>1, <1>2, <2>1, <2>3, RingGrows
  <2>5. 1 .. arrived \subseteq 1 .. arrived' /\ arrived' \in 0 .. MaxBytes
    BY <1>1
  <2>6. lost' \subseteq 1 .. arrived'
    BY <1>1, <2>1, <2>3, <2>5
  <2>7. \A n \in DOMAIN ring' :
          ring'[n] = arrived' \/ \E m \in DOMAIN ring : ring'[n] = ring[m]
    BY <2>3, <2>4
  <2>8. QED
    BY <1>1, <2>4, <2>5, <2>6, <2>7
<1>5. QED
  BY <1>3, <1>4

LEMMA PortStepInv ==
  ASSUME PortInv, [Port!Next]_(Port!vars)
  PROVE  PortInv'
<1> USE PartsAssumption DEF Port!SharingAssumption
<1>1. /\ ring \in Seq(1 .. MaxBytes) /\ Len(ring) \in Nat /\ Len(ring) <= Capacity
      /\ arrived \in 0 .. MaxBytes /\ settled \in -1 .. MaxBytes
      /\ shell_sem \in 0 .. MaxBytes /\ u1_sem \in 0 .. MaxBytes
      /\ shell_sem <= arrived /\ u1_sem <= arrived
      /\ \A n \in DOMAIN ring : ring[n] \in 1 .. arrived
      /\ shell_got \subseteq 1 .. arrived /\ u1_got \subseteq 1 .. arrived
      /\ lost \subseteq 1 .. arrived
  BY DEF PortInv, Port!TypeOK
<1>2. ring # << >> =>
        /\ Tail(ring) \in Seq(1 .. MaxBytes) /\ Len(Tail(ring)) = Len(ring) - 1
        /\ Head(ring) \in 1 .. arrived
        /\ \A n \in DOMAIN Tail(ring) : Tail(ring)[n] \in 1 .. arrived
        /\ Len(Tail(ring)) <= Capacity
  <2>1. SUFFICES ASSUME ring # << >>
                 PROVE  /\ Tail(ring) \in Seq(1 .. MaxBytes)
                        /\ Len(Tail(ring)) = Len(ring) - 1
                        /\ Head(ring) \in 1 .. arrived
                        /\ \A n \in DOMAIN Tail(ring) : Tail(ring)[n] \in 1 .. arrived
                        /\ Len(Tail(ring)) <= Capacity
    OBVIOUS
  <2>2. /\ Tail(ring) \in Seq(1 .. MaxBytes) /\ Len(Tail(ring)) = Len(ring) - 1
        /\ 1 \in DOMAIN ring /\ Head(ring) = ring[1]
        /\ \A n \in DOMAIN Tail(ring) : \E m \in DOMAIN ring : Tail(ring)[n] = ring[m]
    BY <1>1, <2>1, RingShrinks
  <2>3. Len(Tail(ring)) <= Capacity
    BY <1>1, <2>2
  <2>4. QED
    BY <1>1, <2>2, <2>3
<1>3. CASE Port!Isr
  <2>1. /\ ring' \in Seq(1 .. MaxBytes) /\ Len(ring') <= Capacity
        /\ arrived' = arrived + 1 /\ arrived' \in 0 .. MaxBytes
        /\ lost' \subseteq 1 .. arrived'
        /\ \A n \in DOMAIN ring' : ring'[n] \in 1 .. arrived'
    <3>1. /\ ring' \in Seq(1 .. MaxBytes) /\ Len(ring') <= Capacity
          /\ arrived' = arrived + 1 /\ arrived' \in 0 .. MaxBytes
          /\ \A n \in DOMAIN ring' :
               ring'[n] = arrived' \/ \E m \in DOMAIN ring : ring'[n] = ring[m]
          /\ lost' \subseteq 1 .. arrived'
      BY <1>3, IsrRing
    <3>2. arrived' \in 1 .. arrived' /\ 1 .. arrived \subseteq 1 .. arrived'
      BY <1>1, <3>1
    <3>3. QED
      BY <1>1, <3>1, <3>2
  <2>2. /\ shell_sem' = IF rx_indicate = "shell" THEN shell_sem + 1 ELSE shell_sem
        /\ u1_sem' = IF rx_indicate = "u1" THEN u1_sem + 1 ELSE u1_sem
        /\ UNCHANGED << open, serial_rx, rx_indicate, shell, sched, u1, shell_got,
                        u1_got, settled >>
    BY <1>3 DEF Port!Isr
  <2>3. /\ shell_sem' \in 0 .. MaxBytes /\ u1_sem' \in 0 .. MaxBytes
        /\ shell_sem' <= arrived' /\ u1_sem' <= arrived'
    BY <1>1, <2>1, <2>2
  <2>4. Port!NothingStranded'
    BY <1>1, <2>2 DEF PortInv, Port!TypeOK, Port!NothingStranded
  <2>5. shell_got' \cup u1_got' \cup lost' \subseteq 1 .. arrived'
    <3>1. 1 .. arrived \subseteq 1 .. arrived'
      BY <1>1, <2>1
    <3>2. QED
      BY <1>1, <2>1, <2>2, <3>1
  <2>6. Port!TypeOK'
    BY <2>1, <2>2, <2>3, <2>5 DEF PortInv, Port!TypeOK
  <2>7. QED
    BY <2>1, <2>2, <2>3, <2>4, <2>6 DEF PortInv
<1>4. CASE Port!U1Thread
  <2>1. /\ UNCHANGED << open, serial_rx, rx_indicate, shell, shell_sem, sched,
                        arrived, shell_got, lost, settled >>
        /\ \/ /\ u1 = "wait" /\ u1_sem > 0 /\ u1_sem' = u1_sem - 1 /\ u1' = "read"
              /\ UNCHANGED << ring, u1_got >>
           \/ /\ u1 = "read" /\ ring # << >> /\ UNCHANGED << u1, u1_sem >>
              /\ u1_got' = u1_got \cup {Head(ring)} /\ ring' = Tail(ring)
           \/ /\ u1 = "read" /\ ring = << >> /\ u1' = "wait"
              /\ UNCHANGED << ring, u1_sem, u1_got >>
    BY <1>4 DEF Port!U1Thread, Port!U1
  <2>2. /\ ring' \in Seq(1 .. MaxBytes) /\ Len(ring') <= Capacity
        /\ \A n \in DOMAIN ring' : ring'[n] \in 1 .. arrived'
        /\ u1_got' \subseteq 1 .. arrived
        /\ u1_sem' \in 0 .. MaxBytes /\ u1_sem' <= arrived'
    <3>1. CASE u1 = "wait" /\ u1_sem' = u1_sem - 1 /\ u1_sem > 0
               /\ UNCHANGED << ring, u1_got, arrived >>
      BY <1>1, <3>1
    <3>2. CASE /\ ring # << >> /\ UNCHANGED << u1_sem, arrived >>
               /\ u1_got' = u1_got \cup {Head(ring)} /\ ring' = Tail(ring)
      <4>1. /\ ring' \in Seq(1 .. MaxBytes) /\ Len(ring') <= Capacity
            /\ \A n \in DOMAIN ring' : ring'[n] \in 1 .. arrived'
        BY <1>2, <3>2
      <4>2. u1_got' \subseteq 1 .. arrived
        BY <1>1, <1>2, <3>2
      <4>3. QED
        BY <1>1, <3>2, <4>1, <4>2
    <3>3. CASE UNCHANGED << ring, u1_sem, u1_got, arrived >>
      BY <1>1, <3>3
    <3>4. QED
      BY <2>1, <3>1, <3>2, <3>3
  <2>3. Port!NothingStranded'
    BY <2>1 DEF PortInv, Port!NothingStranded
  <2>4. Port!TypeOK'
    BY <1>1, <2>1, <2>2 DEF PortInv, Port!TypeOK
  <2>5. QED
    BY <2>1, <2>2, <2>3, <2>4 DEF PortInv
<1>5. CASE Port!Sched
  <2>1. /\ UNCHANGED << ring, shell, shell_sem, u1_sem, arrived, shell_got,
                        u1_got, lost >>
        /\ u1' = u1 \/ (u1 = "none" /\ u1' = "wait")
        /\ rx_indicate' \in {rx_indicate, "u1"}
        /\ settled' \in {settled, arrived}
    <3>1. CASE Port!OpenPort
      BY <1>5, <3>1 DEF Port!Sched, Port!OpenPort
    <3>2. CASE Port!SetIndicate
      BY <1>5, <3>2 DEF Port!Sched, Port!SetIndicate
    <3>3. CASE Port!StartThread
      BY <1>5, <3>3 DEF Port!Sched, Port!StartThread, Port!portVars
    <3>4. QED
      BY <1>5, <3>1, <3>2, <3>3 DEF Port!Sched
  <2>2. /\ sched' \in {"idle", "indicate", "start"}
        /\ open' \in BOOLEAN /\ serial_rx' \in BOOLEAN
    BY <1>5 DEF Port!Sched, Port!OpenPort, Port!SetIndicate, Port!StartThread,
                Port!portVars, PortInv, Port!TypeOK
  <2>3. Port!TypeOK'
    BY <1>1, <2>1, <2>2 DEF PortInv, Port!TypeOK
  <2>4. QED
    BY <2>1, <2>3 DEF PortInv, Port!NothingStranded
<1>6. CASE Port!Shell
  <2>1. UNCHANGED << sched, u1, u1_sem, arrived, u1_got, settled >>
    BY <1>6 DEF Port!Shell
  <2>2. CASE Port!ClearFlags \/ Port!TestBuffer \/ Port!MarkOpen \/ Port!ShellIndicate
    BY <2>1, <2>2 DEF PortInv, Port!TypeOK, Port!NothingStranded, Port!ClearFlags,
       Port!TestBuffer, Port!MarkOpen, Port!ShellIndicate, Port!portVars
  <2>3. CASE Port!CreateBuffer
    <3>1. /\ ring' = << >> /\ lost' = lost \cup Port!Bytes /\ serial_rx' = TRUE
          /\ shell' = "mark"
          /\ UNCHANGED << open, rx_indicate, shell_sem, shell_got >>
      BY <2>3 DEF Port!CreateBuffer
    <3>2. ring' \in Seq(1 .. MaxBytes) /\ Len(ring') = 0
      BY <3>1
    <3>3. Port!Bytes \subseteq 1 .. arrived
      BY <1>1 DEF Port!Bytes
    <3>4. Port!TypeOK'
      <4>1. shell_got' \cup u1_got' \cup lost' \subseteq 1 .. arrived'
        BY <1>1, <2>1, <3>1, <3>3
      <4>2. QED
        BY <1>1, <2>1, <3>1, <3>2, <4>1 DEF PortInv, Port!TypeOK
    <3>5. QED
      BY <1>1, <2>1, <3>1, <3>2, <3>4 DEF PortInv, Port!NothingStranded
  <2>4. CASE Port!GetChar
    <3>1. /\ UNCHANGED << open, serial_rx, rx_indicate, lost >>
          /\ \/ /\ shell = "read" /\ ring # << >>
                /\ shell_got' = shell_got \cup {Head(ring)} /\ ring' = Tail(ring)
                /\ UNCHANGED << shell, shell_sem >>
             \/ /\ shell = "read" /\ ring = << >> /\ shell' = "wait"
                /\ UNCHANGED << ring, shell_sem, shell_got >>
             \/ /\ shell = "wait" /\ shell_sem > 0
                /\ shell_sem' = shell_sem - 1 /\ shell' = "read"
                /\ UNCHANGED << ring, shell_got >>
      BY <2>4 DEF Port!GetChar
    <3>2. /\ ring' \in Seq(1 .. MaxBytes) /\ Len(ring') <= Capacity
          /\ \A n \in DOMAIN ring' : ring'[n] \in 1 .. arrived'
          /\ shell_got' \subseteq 1 .. arrived
          /\ shell_sem' \in 0 .. MaxBytes /\ shell_sem' <= arrived'
      <4>1. CASE /\ ring # << >> /\ UNCHANGED << shell_sem, arrived >>
                 /\ shell_got' = shell_got \cup {Head(ring)} /\ ring' = Tail(ring)
        <5>1. /\ ring' \in Seq(1 .. MaxBytes) /\ Len(ring') <= Capacity
              /\ \A n \in DOMAIN ring' : ring'[n] \in 1 .. arrived'
          BY <1>2, <4>1
        <5>2. shell_got' \subseteq 1 .. arrived
          BY <1>1, <1>2, <4>1
        <5>3. QED
          BY <1>1, <4>1, <5>1, <5>2
      <4>2. CASE UNCHANGED << ring, shell_sem, shell_got, arrived >>
        BY <1>1, <4>2
      <4>3. CASE /\ shell_sem' = shell_sem - 1 /\ shell_sem > 0
                 /\ UNCHANGED << ring, shell_got, arrived >>
        BY <1>1, <4>3
      <4>4. QED
        BY <2>1, <3>1, <4>1, <4>2, <4>3
    <3>3. Port!NothingStranded'
      BY <2>1, <3>1 DEF PortInv, Port!NothingStranded
    <3>4. Port!TypeOK'
      BY <1>1, <2>1, <3>1, <3>2 DEF PortInv, Port!TypeOK
    <3>5. QED
      BY <2>1, <3>1, <3>2, <3>3, <3>4 DEF PortInv
  <2>5. QED
    BY <1>6, <2>2, <2>3, <2>4 DEF Port!Shell
<1>7. CASE UNCHANGED Port!vars
  BY <1>7 DEF Port!vars, Port!portVars, Port!history, PortInv, Port!TypeOK,
              Port!NothingStranded
<1>8. QED
  BY <1>3, <1>4, <1>5, <1>6, <1>7 DEF Port!Next

LEMMA HandedOverStep ==
  ASSUME PortInv, HandedOver, [Port!Next]_(Port!vars)
  PROVE  HandedOver'
<1>1. /\ ring \in Seq(1 .. MaxBytes) /\ u1_sem \in 0 .. MaxBytes
      /\ \A n \in DOMAIN ring : ring[n] \in 1 .. arrived
      /\ arrived \in Nat /\ settled \in Int
      /\ shell_got \subseteq 1 .. arrived
  BY DEF PortInv, Port!TypeOK
<1>2. ring # << >> =>
        /\ \A n \in DOMAIN Tail(ring) : \E m \in DOMAIN ring : Tail(ring)[n] = ring[m]
        /\ 1 \in DOMAIN ring /\ Head(ring) = ring[1]
  BY <1>1, RingShrinks
<1>3. CASE Port!Isr
  <2>1. /\ u1_sem' = IF rx_indicate = "u1" THEN u1_sem + 1 ELSE u1_sem
        /\ UNCHANGED << rx_indicate, shell, sched, u1, shell_got, settled >>
    BY <1>3 DEF Port!Isr
  <2>2. QED
    BY <1>1, <2>1 DEF HandedOver
<1>4. CASE Port!U1Thread
  <2>1. /\ UNCHANGED << rx_indicate, shell, sched, shell_got, settled >>
        /\ \/ u1 = "wait" /\ u1' = "read"
           \/ u1 = "read" /\ u1' = u1 /\ ring # << >> /\ ring' = Tail(ring)
           \/ u1 = "read" /\ u1' = "wait" /\ ring = << >> /\ ring' = ring
    BY <1>4 DEF Port!U1Thread, Port!U1
  <2>2. ring = << >> => ~LateByte
    BY DEF LateByte
  <2>3. ring' = ring => (LateByte' <=> LateByte)
    BY <2>1 DEF LateByte
  <2>4. QED
    BY <2>1, <2>2, <2>3 DEF HandedOver
<1>5. CASE Port!Sched
  <2>1. UNCHANGED << ring, shell, u1_sem, arrived, shell_got >>
    BY <1>5 DEF Port!Sched, Port!OpenPort, Port!SetIndicate, Port!StartThread,
                Port!portVars
  <2>2. CASE settled' = settled /\ (rx_indicate' = rx_indicate \/ rx_indicate' = "u1")
             /\ (u1' # "none" \/ sched' = "start" \/ (u1' = u1 /\ sched # "start"))
             /\ (u1 = "read" => u1' = "read")
    BY <2>1, <2>2 DEF HandedOver, LateByte
  <2>3. CASE /\ settled = -1 /\ shell \in {"read", "wait"} /\ settled' = arrived
             /\ rx_indicate' = "u1" /\ sched' = "start" /\ u1' = u1
    BY <1>1, <2>1, <2>3 DEF HandedOver, LateByte
  <2>4. QED
    BY <1>5, <2>2, <2>3 DEF Port!Sched, Port!OpenPort, Port!SetIndicate,
       Port!StartThread, Port!portVars
<1>6. CASE Port!Shell
  <2>1. UNCHANGED << sched, u1, u1_sem, arrived, settled >> /\ sched = "idle"
        /\ Port!U1Blocked
    BY <1>6 DEF Port!Shell
  <2>2. settled # -1 => ~LateByte
    BY <1>1, <2>1 DEF HandedOver, Port!U1Blocked
  <2>3. CASE settled = -1
    BY <2>1, <2>3 DEF HandedOver
  <2>4. CASE settled # -1 /\ Port!GetChar
    <3>1. /\ rx_indicate' = rx_indicate /\ shell' \in {"read", "wait"}
          /\ \/ ring' = ring /\ shell_got' = shell_got
             \/ /\ ring # << >> /\ ring' = Tail(ring)
                /\ shell_got' = shell_got \cup {Head(ring)}
      BY <2>4 DEF Port!GetChar
    <3>2. ~LateByte'
      BY <1>2, <2>1, <2>2, <2>4, <3>1 DEF LateByte
    <3>3. \A b \in shell_got' : b <= settled
      <4>1. \A b \in shell_got : b <= settled
        BY <2>4 DEF HandedOver
      <4>2. ring # << >> => Head(ring) <= settled
        BY <1>1, <1>2, <2>2, <2>4 DEF LateByte
      <4>3. QED
        BY <3>1, <4>1, <4>2
    <3>4. QED
      BY <2>1, <2>4, <3>1, <3>2, <3>3 DEF HandedOver
  <2>5. CASE settled # -1 /\ ~Port!GetChar
    BY <1>6, <2>5 DEF Port!Shell, HandedOver, Port!ClearFlags, Port!TestBuffer,
       Port!CreateBuffer, Port!MarkOpen, Port!ShellIndicate
  <2>6. QED
    BY <2>3, <2>4, <2>5
<1>7. CASE UNCHANGED Port!vars
  BY <1>7 DEF Port!vars, Port!portVars, Port!history, HandedOver, LateByte
<1>8. QED
  BY <1>3, <1>4, <1>5, <1>6, <1>7 DEF Port!Next

(* Once sched10ms has asked after the shell, the shell takes no byte that  *)
(* arrives, though both threads may go on reading the buffer, and at no    *)
(* time does a byte stay in it with no thread awake or woken for it        *)
(* (usart1_port.c, shell.c): for every capacity, every number of bytes and *)
(* every order of the two openings.                                        *)
THEOREM PortIsHandedOver == PartsSpec => []PortHandedOver
<1>1. Port!Init => PortInv /\ HandedOver
  <2> SUFFICES ASSUME Port!Init
               PROVE  PortInv /\ HandedOver
    OBVIOUS
  <2> USE PartsAssumption DEF Port!SharingAssumption
  <2>1. ring = << >> /\ ring \in Seq(1 .. MaxBytes) /\ Len(ring) = 0
    BY DEF Port!Init
  <2>2. Port!TypeOK
    <3>1. open \in BOOLEAN /\ serial_rx \in BOOLEAN
      BY Zenon DEF Port!Init
    <3>2. /\ shell_sem = 0 /\ u1_sem = 0 /\ arrived = 0 /\ settled = -1
          /\ shell_got \cup u1_got \cup lost \subseteq 1 .. arrived
          /\ rx_indicate = "none" /\ shell = "begin" /\ sched = "idle" /\ u1 = "none"
      BY DEF Port!Init
    <3>3. QED
      BY <2>1, <3>1, <3>2 DEF Port!TypeOK
  <2>3. QED
    BY <2>1, <2>2 DEF Port!Init, PortInv, HandedOver, Port!NothingStranded
<1>2. PortInv /\ HandedOver /\ [Port!Next]_(Port!vars) => PortInv' /\ HandedOver'
  BY PortStepInv, HandedOverStep
<1>3. PortInv /\ HandedOver => PortHandedOver
  BY DEF PortInv, HandedOver, PortHandedOver, Port!ShellTakesOnlyEarly
<1>4. QED
  BY <1>1, <1>2, <1>3, PartsRun, PTL DEF Port!Spec

-----------------------------------------------------------------------------
(* The panel's buttons (serial_panel.py, ui_main.py, usart5.c)             *)

PanelFrame == Panel!Setting \X {0, 1, 2}
Shown(s) == Panel!Wanted(s, shown[s])
PanelInv == Panel!TypeOK /\ Panel!PanelAgrees

LEMMA PanelTypes ==
  ASSUME Panel!TypeOK
  PROVE  /\ down \in Seq(PanelFrame) /\ Len(down) \in Nat /\ Len(down) <= MaxFlight
         /\ shown \in [Panel!Setting -> {0, 1, 2}]
         /\ flag \in [Panel!Setting -> {0, 1, 2}]
         /\ panel_faults \in 0 .. MaxPanelFaults /\ trusted \subseteq Panel!Setting
  BY DEF Panel!TypeOK, PanelFrame

LEMMA ShownFrames ==
  \A s \in Panel!Setting, v \in {0, 1, 2} :
    /\ Panel!Wanted(s, v) \in {0, 1, 2}
    /\ Panel!Frame(s, v) \in PanelFrame
    /\ Panel!Frame(s, v)[1] = s /\ Panel!Frame(s, v)[2] = Panel!Wanted(s, v)
  BY DEF Panel!Wanted, Panel!Frame, PanelFrame

(* The frames but one. *)
LEMMA AllButOne ==
  ASSUME NEW S, NEW q \in Seq(S), NEW n \in DOMAIN q
  PROVE  /\ Panel!RemoveAt(q, n) \in Seq(S)
         /\ Len(Panel!RemoveAt(q, n)) = Len(q) - 1
         /\ \A j \in 1 .. Len(q) - 1 :
              Panel!RemoveAt(q, n)[j] = IF j < n THEN q[j] ELSE q[j + 1]
<1> DEFINE front == SubSeq(q, 1, n - 1)
           back == SubSeq(q, n + 1, Len(q))
<1>1. n \in 1 .. Len(q) /\ Len(q) \in Nat /\ \A j \in 1 .. Len(q) : q[j] \in S
  OBVIOUS
<1>2. /\ front \in Seq(S) /\ Len(front) = n - 1
      /\ \A j \in 1 .. n - 1 : front[j] = q[j]
  <2>1. \A j \in 1 .. n - 1 : q[j] \in S
    BY <1>1
  <2>2. QED
    BY <1>1, <2>1, SubSeqProperties
<1>3. /\ back \in Seq(S) /\ Len(back) = Len(q) - n
      /\ \A j \in 1 .. Len(q) - n : back[j] = q[n + j]
  <2>1. \A j \in n + 1 .. Len(q) : q[j] \in S
    BY <1>1
  <2>2. QED
    BY <1>1, <2>1, SubSeqProperties
<1>4. Panel!RemoveAt(q, n) = front \o back
  BY DEF Panel!RemoveAt
<1> HIDE DEF front, back
<1>5. /\ front \o back \in Seq(S)
      /\ Len(front \o back) = Len(q) - 1
      /\ \A j \in 1 .. Len(q) - 1 : (front \o back)[j] =
           IF j <= n - 1 THEN front[j] ELSE back[j - (n - 1)]
  BY <1>1, <1>2, <1>3, ConcatProperties
<1>6. ASSUME NEW j \in 1 .. Len(q) - 1
      PROVE  (front \o back)[j] = IF j < n THEN q[j] ELSE q[j + 1]
  <2>1. CASE j < n
    BY <1>1, <1>2, <1>5, <1>6, <2>1
  <2>2. CASE ~(j < n)
    <3>1. j - (n - 1) \in 1 .. Len(q) - n /\ n + (j - (n - 1)) = j + 1
      BY <1>1, <1>6, <2>2
    <3>2. (front \o back)[j] = back[j - (n - 1)]
      BY <1>1, <1>5, <1>6, <2>2
    <3>3. QED
      BY <1>3, <2>2, <3>1, <3>2
  <2>3. QED
    BY <2>1, <2>2
<1>7. QED
  BY <1>1, <1>4, <1>5, <1>6

(* Frames that are about a setting, and say nothing but v of it. *)
Mentions(q, s) == \E j \in 1 .. Len(q) : q[j][1] = s
SaysOnly(q, s, v) == \A j \in 1 .. Len(q) : q[j][1] = s => q[j][2] = v

(* What follows on the line decides, if it is about the setting; if it is  *)
(* not, what was due is due.                                               *)
LEMMA SentIsDue ==
  ASSUME down \in Seq(PanelFrame), NEW q \in Seq(PanelFrame), down' = down \o q,
         flag' = flag, NEW s, NEW v, SaysOnly(q, s, v),
         Mentions(q, s) \/ Panel!Due(s, v)
  PROVE  Panel!Due(s, v)'
<1>1. /\ Len(down) \in Nat /\ Len(q) \in Nat /\ DOMAIN down = 1 .. Len(down)
      /\ down' \in Seq(PanelFrame) /\ Len(down') = Len(down) + Len(q)
      /\ DOMAIN down' = 1 .. Len(down) + Len(q)
      /\ \A j \in 1 .. Len(down) + Len(q) :
           down'[j] = IF j <= Len(down) THEN down[j] ELSE q[j - Len(down)]
  BY ConcatProperties
<1>2. SUFFICES ASSUME NEW n \in 0 .. Len(down'), Panel!LastFrame(s, n)'
               PROVE  v = IF n = 0 THEN flag[s] ELSE down'[n][2]
  BY DEF Panel!Due
<1>3. /\ n = 0 \/ down'[n][1] = s
      /\ \A j \in 1 .. Len(down) + Len(q) : j > n => down'[j][1] # s
  BY <1>1, <1>2 DEF Panel!LastFrame
<1>4. CASE n > Len(down)
  <2>1. n - Len(down) \in 1 .. Len(q) /\ down'[n] = q[n - Len(down)]
    BY <1>1, <1>4
  <2>2. QED
    BY <1>1, <1>3, <1>4, <2>1 DEF SaysOnly
<1>5. CASE n <= Len(down)
  <2>1. \A j \in 1 .. Len(q) : q[j][1] # s
    <3> SUFFICES ASSUME NEW j \in 1 .. Len(q)
                 PROVE  q[j][1] # s
      OBVIOUS
    <3>1. /\ Len(down) + j \in 1 .. Len(down) + Len(q) /\ Len(down) + j > n
          /\ (Len(down) + j) - Len(down) = j /\ ~(Len(down) + j <= Len(down))
      BY <1>1, <1>5
    <3>2. down'[Len(down) + j] = q[j]
      BY <1>1, <3>1
    <3>3. QED
      BY <1>3, <3>1, <3>2
  <2>2. Panel!Due(s, v)
    BY <2>1 DEF Mentions
  <2>3. n # 0 => down'[n] = down[n]
    BY <1>1, <1>5
  <2>4. \A j \in 1 .. Len(down) : j > n => down[j][1] # s
    <3> SUFFICES ASSUME NEW j \in 1 .. Len(down), j > n
                 PROVE  down[j][1] # s
      OBVIOUS
    <3>1. j \in 1 .. Len(down) + Len(q) /\ down'[j] = down[j]
      BY <1>1
    <3>2. QED
      BY <1>3, <3>1
  <2>5. Panel!LastFrame(s, n)
    BY <1>1, <1>3, <2>3, <2>4 DEF Panel!LastFrame
  <2>6. n \in 0 .. Len(down)
    BY <1>1, <1>5
  <2>7. QED
    BY <2>2, <2>3, <2>5, <2>6 DEF Panel!Due
<1>6. QED
  BY <1>1, <1>4, <1>5

(* The frame at the head goes: it is applied, or it was of another setting.*)
LEMMA HeadIsGone ==
  ASSUME down \in Seq(PanelFrame), down # << >>, down' = Tail(down),
         NEW s, NEW v, Panel!Due(s, v),
         flag'[s] = IF Head(down)[1] = s THEN Head(down)[2] ELSE flag[s]
  PROVE  Panel!Due(s, v)'
<1>1. /\ Len(down) \in Nat \ {0} /\ DOMAIN down = 1 .. Len(down)
      /\ Len(down') = Len(down) - 1 /\ DOMAIN down' = 1 .. Len(down) - 1
      /\ \A j \in 1 .. Len(down) - 1 : down'[j] = down[j + 1]
      /\ Head(down) = down[1]
  BY EmptySeq, HeadTailProperties
<1>2. SUFFICES ASSUME NEW n \in 0 .. Len(down'), Panel!LastFrame(s, n)'
               PROVE  v = IF n = 0 THEN flag'[s] ELSE down'[n][2]
  BY DEF Panel!Due
<1>3. /\ n = 0 \/ down'[n][1] = s
      /\ \A j \in 1 .. Len(down) - 1 : j > n => down'[j][1] # s
  BY <1>1, <1>2 DEF Panel!LastFrame
<1>4. \A j \in 1 .. Len(down) : j > n + 1 => down[j][1] # s
  <2> SUFFICES ASSUME NEW j \in 1 .. Len(down), j > n + 1
               PROVE  down[j][1] # s
    OBVIOUS
  <2>1. j - 1 \in 1 .. Len(down) - 1 /\ j - 1 > n /\ down'[j - 1] = down[j]
    BY <1>1
  <2>2. QED
    BY <1>3, <2>1
<1>5. CASE n # 0 \/ Head(down)[1] = s
  <2>1. n + 1 \in 1 .. Len(down) /\ n + 1 # 0
    BY <1>1
  <2>2. /\ down[n + 1][1] = s
        /\ down[n + 1][2] = IF n = 0 THEN flag'[s] ELSE down'[n][2]
    BY <1>1, <1>3, <1>5, <2>1
  <2>3. Panel!LastFrame(s, n + 1)
    BY <1>1, <1>4, <2>1, <2>2 DEF Panel!LastFrame
  <2>4. n + 1 \in 0 .. Len(down)
    BY <2>1
  <2>5. QED
    BY <2>1, <2>2, <2>3, <2>4 DEF Panel!Due
<1>6. CASE n = 0 /\ Head(down)[1] # s
  <2>1. \A j \in 1 .. Len(down) : j > 0 => down[j][1] # s
    <3> SUFFICES ASSUME NEW j \in 1 .. Len(down)
                 PROVE  down[j][1] # s
      OBVIOUS
    <3>1. j = 1 \/ j > n + 1
      BY <1>6
    <3>2. QED
      BY <1>1, <1>4, <1>6, <3>1
  <2>2. Panel!LastFrame(s, 0) /\ 0 \in 0 .. Len(down)
    BY <1>1, <2>1 DEF Panel!LastFrame
  <2>3. v = flag[s]
    BY <2>2 DEF Panel!Due
  <2>4. QED
    BY <1>6, <2>3
<1>7. QED
  BY <1>5, <1>6

(* send_payload keeps the types, and what is shown is due wherever the     *)
(* frames were to bring it up to date and no one of them failed.           *)
LEMMA SendAgrees ==
  ASSUME PanelInv, NEW frames \in Seq(PanelFrame), NEW sent \in SUBSET Panel!Setting,
         \A j \in 1 .. Len(frames) :
           frames[j][2] = Panel!Wanted(frames[j][1], shown'[frames[j][1]]),
         \A s \in sent : \E j \in 1 .. Len(frames) : frames[j][1] = s,
         \A s \in Panel!Setting \ sent : shown'[s] = shown[s],
         Panel!Send(frames, sent), flag' = flag
  PROVE  /\ down' \in Seq(PanelFrame) /\ Len(down') <= MaxFlight
         /\ panel_faults' \in 0 .. MaxPanelFaults /\ trusted' \subseteq Panel!Setting
         /\ Panel!PanelAgrees'
<1> USE PartsAssumption DEF Panel!PanelAssumption
<1>1. /\ down \in Seq(PanelFrame) /\ Len(down) \in Nat /\ Len(down) <= MaxFlight
      /\ panel_faults \in 0 .. MaxPanelFaults /\ trusted \subseteq Panel!Setting
      /\ Len(frames) \in Nat
  BY PanelTypes DEF PanelInv
<1>2. ASSUME NEW q \in Seq(PanelFrame), down' = down \o q,
             trusted' \subseteq trusted \cup sent,
             \A j \in 1 .. Len(q) : \E m \in 1 .. Len(frames) : q[j] = frames[m],
             \A s \in trusted' \cap sent : \E j \in 1 .. Len(q) : q[j][1] = s
      PROVE  Panel!PanelAgrees'
  <2> SUFFICES ASSUME NEW s \in trusted', NEW v, v = Panel!Wanted(s, shown'[s])
               PROVE  Panel!Due(s, v)'
    BY DEF Panel!PanelAgrees, Panel!Due, Panel!LastFrame
  <2>1. /\ down \in Seq(PanelFrame) /\ q \in Seq(PanelFrame)
        /\ down' = down \o q /\ flag' = flag
    BY <1>1, <1>2
  <2>2. SaysOnly(q, s, v)
    <3> SUFFICES ASSUME NEW j \in 1 .. Len(q), q[j][1] = s
                 PROVE  q[j][2] = v
      BY DEF SaysOnly
    <3>1. PICK m \in 1 .. Len(frames) : q[j] = frames[m]
      BY <1>2
    <3>2. frames[m][1] = s /\ frames[m][2] = Panel!Wanted(s, shown'[s])
      BY <3>1
    <3>3. QED
      BY <3>1, <3>2
  <2>3. CASE s \in sent
    <3>1. Mentions(q, s)
      BY <1>2, <2>3 DEF Mentions
    <3>2. QED
      BY <2>1, <2>2, <3>1, SentIsDue
  <2>4. CASE s \notin sent
    <3>1. s \in trusted /\ v = Panel!Wanted(s, shown[s])
      BY <1>1, <1>2, <2>4
    <3>2. Panel!Due(s, v)
      BY <3>1 DEF PanelInv, Panel!PanelAgrees
    <3>3. QED
      BY <2>1, <2>2, <3>2, SentIsDue
  <2>5. QED
    BY <2>3, <2>4
<1>3. CASE trusted' = trusted \ sent /\ UNCHANGED << down, panel_faults >>
  <2>1. Panel!PanelAgrees'
    <3> SUFFICES ASSUME NEW s \in trusted', NEW v, v = Panel!Wanted(s, shown'[s])
                 PROVE  Panel!Due(s, v)'
      BY DEF Panel!PanelAgrees, Panel!Due, Panel!LastFrame
    <3>1. s \in trusted /\ v = Panel!Wanted(s, shown[s])
      BY <1>1, <1>3
    <3>2. Panel!Due(s, v)
      BY <3>1 DEF PanelInv, Panel!PanelAgrees
    <3>3. QED
      BY <1>3, <3>2 DEF Panel!Due, Panel!LastFrame
  <2>2. QED
    BY <1>1, <1>3, <2>1
<1>4. CASE /\ Len(down) + Len(frames) <= MaxFlight /\ down' = down \o frames
           /\ trusted' = trusted \cup sent /\ UNCHANGED panel_faults
  <2>1. down' \in Seq(PanelFrame) /\ Len(down') = Len(down) + Len(frames)
    BY <1>1, <1>4, ConcatProperties
  <2>2. Panel!PanelAgrees'
    BY <1>2, <1>4
  <2>3. QED
    BY <1>1, <1>4, <2>1, <2>2
<1>5. CASE /\ Len(down) + Len(frames) <= MaxFlight
           /\ panel_faults < MaxPanelFaults /\ panel_faults' = panel_faults + 1
           /\ \E n \in DOMAIN frames :
                /\ down' = down \o Panel!RemoveAt(frames, n)
                /\ trusted' = (trusted \cup sent) \ {frames[n][1]}
  <2>1. PICK n \in DOMAIN frames :
               /\ down' = down \o Panel!RemoveAt(frames, n)
               /\ trusted' = (trusted \cup sent) \ {frames[n][1]}
    BY <1>5
  <2> DEFINE q == Panel!RemoveAt(frames, n)
  <2>2. /\ q \in Seq(PanelFrame) /\ Len(q) = Len(frames) - 1
        /\ \A j \in 1 .. Len(frames) - 1 :
             q[j] = IF j < n THEN frames[j] ELSE frames[j + 1]
    BY AllButOne
  <2> HIDE DEF q
  <2>3. down' \in Seq(PanelFrame) /\ Len(down') = Len(down) + Len(q)
    BY <1>1, <2>1, <2>2, ConcatProperties DEF q
  <2>4. \A j \in 1 .. Len(q) : \E m \in 1 .. Len(frames) : q[j] = frames[m]
    <3> SUFFICES ASSUME NEW j \in 1 .. Len(q)
                 PROVE  \E m \in 1 .. Len(frames) : q[j] = frames[m]
      OBVIOUS
    <3>1. j \in 1 .. Len(frames) /\ j + 1 \in 1 .. Len(frames)
      BY <1>1, <2>2
    <3>2. q[j] = frames[j] \/ q[j] = frames[j + 1]
      BY <2>2
    <3>3. QED
      BY <3>1, <3>2
  <2>5. \A s \in trusted' \cap sent : \E j \in 1 .. Len(q) : q[j][1] = s
    <3> SUFFICES ASSUME NEW s \in trusted' \cap sent
                 PROVE  \E j \in 1 .. Len(q) : q[j][1] = s
      OBVIOUS
    <3>1. PICK m \in 1 .. Len(frames) : frames[m][1] = s
      OBVIOUS
    <3>2. m # n /\ n \in 1 .. Len(frames)
      BY <1>1, <2>1, <3>1
    <3>3. CASE m < n
      <4>1. m \in 1 .. Len(q) /\ q[m] = frames[m]
        BY <1>1, <2>2, <3>2, <3>3
      <4>2. QED
        BY <3>1, <4>1
    <3>4. CASE m > n
      <4>1. m - 1 \in 1 .. Len(q) /\ ~(m - 1 < n) /\ (m - 1) + 1 = m
        BY <1>1, <2>2, <3>2, <3>4
      <4>2. q[m - 1] = frames[m]
        BY <2>2, <4>1
      <4>3. QED
        BY <3>1, <4>1, <4>2
    <3>5. QED
      BY <3>2, <3>3, <3>4
  <2>6. Panel!PanelAgrees'
    BY <1>2, <2>1, <2>2, <2>4, <2>5 DEF q
  <2>7. trusted' \subseteq Panel!Setting
    BY <1>1, <2>1
  <2>8. Len(down') <= MaxFlight /\ panel_faults' \in 0 .. MaxPanelFaults
    BY <1>1, <1>5, <2>2, <2>3
  <2>9. QED
    BY <2>3, <2>6, <2>7, <2>8
<1>6. QED
  BY <1>3, <1>4, <1>5 DEF Panel!Send

LEMMA PanelInvariant == Panel!Spec => []PanelInv
<1> USE PartsAssumption DEF Panel!PanelAssumption
<1>1. Panel!Init => PanelInv
  <2> SUFFICES ASSUME Panel!Init
               PROVE  PanelInv
    OBVIOUS
  <2>1. down = << >> /\ down \in Seq(PanelFrame) /\ Len(down) = 0
    BY DEF Panel!Init
  <2>2. connected \in BOOLEAN
    BY Zenon DEF Panel!Init
  <2>3. /\ shown \in [Panel!Setting -> {0, 1, 2}]
        /\ flag \in [Panel!Setting -> {0, 1, 2}]
    BY DEF Panel!Init, Panel!DeviceInit, Panel!Setting
  <2>4. page \in {"dashboard", "other"} /\ panel_faults = 0 /\ trusted = {}
    BY DEF Panel!Init
  <2>5. QED
    <3>1. \A s \in {"light", "stop"} : shown[s] # 2
      BY DEF Panel!Init
    <3>2. QED
      BY <2>1, <2>2, <2>3, <2>4, <3>1
         DEF PanelInv, Panel!TypeOK, Panel!PanelAgrees, PanelFrame
<1>2. PanelInv /\ [Panel!Next]_(Panel!vars) => PanelInv'
  <2> SUFFICES ASSUME PanelInv, [Panel!Next]_(Panel!vars)
               PROVE  PanelInv'
    OBVIOUS
  <2>1. /\ down \in Seq(PanelFrame) /\ Len(down) \in Nat /\ Len(down) <= MaxFlight
        /\ shown \in [Panel!Setting -> {0, 1, 2}]
        /\ flag \in [Panel!Setting -> {0, 1, 2}]
        /\ panel_faults \in 0 .. MaxPanelFaults /\ trusted \subseteq Panel!Setting
        /\ connected \in BOOLEAN /\ page \in {"dashboard", "other"}
        /\ \A s \in {"light", "stop"} : shown[s] # 2
    BY PanelTypes DEF PanelInv, Panel!TypeOK
  <2>2. \A s \in Panel!Setting : shown[s] \in {0, 1, 2} /\ flag[s] \in {0, 1, 2}
    BY <2>1
  <2>3. ASSUME /\ connected' \in BOOLEAN /\ page' \in {"dashboard", "other"}
               /\ shown' \in [Panel!Setting -> {0, 1, 2}]
               /\ flag' \in [Panel!Setting -> {0, 1, 2}]
               /\ \A s \in {"light", "stop"} : shown'[s] # 2,
               /\ down' \in Seq(PanelFrame) /\ Len(down') <= MaxFlight
               /\ panel_faults' \in 0 .. MaxPanelFaults
               /\ trusted' \subseteq Panel!Setting,
               Panel!PanelAgrees'
        PROVE  PanelInv'
    BY <2>3 DEF PanelInv, Panel!TypeOK, PanelFrame
  <2>4. CASE Panel!Connect
    <3> DEFINE q == << Panel!Frame("mode", shown["mode"]),
                       Panel!Frame("light", shown["light"]),
                       Panel!Frame("stop", shown["stop"]) >>
    <3>1. /\ connected' = TRUE /\ UNCHANGED << page, shown, flag >>
          /\ Panel!Send(q, Panel!Setting)
      BY <2>4 DEF Panel!Connect
    <3>2. q \in Seq(PanelFrame) /\ Len(q) = 3
      BY <2>2, ShownFrames DEF Panel!Setting
    <3>3. /\ q[1][1] = "mode" /\ q[2][1] = "light" /\ q[3][1] = "stop"
          /\ q[1][2] = Panel!Wanted("mode", shown["mode"])
          /\ q[2][2] = Panel!Wanted("light", shown["light"])
          /\ q[3][2] = Panel!Wanted("stop", shown["stop"])
      BY <2>2, ShownFrames DEF Panel!Setting
    <3> HIDE DEF q
    <3>4. /\ \A j \in 1 .. Len(q) : q[j][2] = Panel!Wanted(q[j][1], shown'[q[j][1]])
          /\ \A s \in Panel!Setting : \E j \in 1 .. Len(q) : q[j][1] = s
      <4>1. \A j \in 1 .. 3 : j = 1 \/ j = 2 \/ j = 3
        OBVIOUS
      <4>2. 1 \in 1 .. 3 /\ 2 \in 1 .. 3 /\ 3 \in 1 .. 3
        OBVIOUS
      <4>3. shown' = shown
        BY <3>1
      <4>4. QED
        BY <3>2, <3>3, <4>1, <4>2, <4>3 DEF Panel!Setting
    <3>5. QED
      BY <2>1, <2>3, <3>1, <3>2, <3>4, SendAgrees
  <2>5. ASSUME NEW s \in Panel!Setting, NEW v \in {0, 1, 2}, v # 2 \/ s = "mode",
               shown' = [shown EXCEPT ![s] = v],
               Panel!Send(<< Panel!Frame(s, shown'[s]) >>, {s}),
               UNCHANGED << connected, page, flag >>
        PROVE  PanelInv'
    <3> DEFINE q == << Panel!Frame(s, shown'[s]) >>
    <3>1. /\ shown' \in [Panel!Setting -> {0, 1, 2}] /\ shown'[s] = v
          /\ \A r \in Panel!Setting \ {s} : shown'[r] = shown[r]
      BY <2>1, <2>5
    <3>6. \A r \in {"light", "stop"} : shown'[r] # 2
      BY <2>1, <2>5, <3>1 DEF Panel!Setting
    <3>2. /\ q \in Seq(PanelFrame) /\ Len(q) = 1
          /\ q[1][1] = s /\ q[1][2] = Panel!Wanted(s, shown'[s])
      BY <2>5, <3>1, ShownFrames
    <3>3. Panel!Send(q, {s})
      BY <2>5
    <3> HIDE DEF q
    <3>4. /\ \A j \in 1 .. Len(q) : q[j][2] = Panel!Wanted(q[j][1], shown'[q[j][1]])
          /\ \A r \in {s} : \E j \in 1 .. Len(q) : q[j][1] = r
      <4>1. 1 \in 1 .. Len(q) /\ \A j \in 1 .. Len(q) : j = 1
        BY <3>2
      <4>2. QED
        BY <3>2, <4>1
    <3>5. QED
      <4>1. {s} \in SUBSET Panel!Setting /\ flag' = flag
        BY <2>5
      <4>2. /\ down' \in Seq(PanelFrame) /\ Len(down') <= MaxFlight
            /\ panel_faults' \in 0 .. MaxPanelFaults
            /\ trusted' \subseteq Panel!Setting /\ Panel!PanelAgrees'
        BY <3>1, <3>2, <3>3, <3>4, <4>1, SendAgrees
      <4>3. QED
        BY <2>1, <2>3, <2>5, <3>1, <3>6, <4>2
  <2>6. CASE Panel!CycleMode
    <3>1. "mode" \in Panel!Setting
      BY DEF Panel!Setting
    <3>2. \E v \in {0, 1, 2} : shown' = [shown EXCEPT !["mode"] = v]
      BY <2>6 DEF Panel!CycleMode
    <3>3. QED
      BY <2>5, <2>6, <3>1, <3>2 DEF Panel!CycleMode
  <2>7. ASSUME NEW s \in {"light", "stop"}, Panel!Toggle(s)
        PROVE  PanelInv'
    <3>1. s \in Panel!Setting
      BY <2>7 DEF Panel!Setting
    <3>2. /\ shown' = [shown EXCEPT ![s] = 1 - shown[s]]
          /\ Panel!Send(<< Panel!Frame(s, shown'[s]) >>, {s})
          /\ UNCHANGED << connected, page, flag >>
      BY <2>7 DEF Panel!Toggle
    <3>3. 1 - shown[s] \in {0, 1, 2} /\ 1 - shown[s] # 2
      BY <2>1, <2>2, <2>7, <3>1
    <3>4. QED
      BY <2>5, <3>1, <3>2, <3>3
  <2>8. ASSUME NEW s \in Panel!Setting,
               NEW v \in {Panel!Wanted(s, 0), Panel!Wanted(s, 1)},
               Panel!TypeFrame(s, v)
        PROVE  PanelInv'
    <3> DEFINE q == << << s, v >> >>
    <3>1. /\ Len(down) < MaxFlight /\ down' = Append(down, << s, v >>)
          /\ panel_faults < MaxPanelFaults /\ panel_faults' = panel_faults + 1
          /\ trusted' = trusted \ {s}
          /\ UNCHANGED << connected, page, shown, flag >>
      BY <2>8 DEF Panel!TypeFrame
    <3>2. << s, v >> \in PanelFrame
      BY <2>8 DEF PanelFrame, Panel!Wanted
    <3>3. /\ down' \in Seq(PanelFrame) /\ Len(down') = Len(down) + 1
          /\ q \in Seq(PanelFrame) /\ Len(q) = 1 /\ q[1][1] = s
          /\ down' = down \o q
      <4>1. down' \in Seq(PanelFrame) /\ Len(down') = Len(down) + 1
        BY <2>1, <3>1, <3>2, AppendProperties
      <4>2. down' = down \o q
        BY <2>1, <3>1, <3>2, AppendIsConcat
      <4>3. q \in Seq(PanelFrame) /\ Len(q) = 1 /\ q[1][1] = s
        BY <3>2
      <4>4. QED
        BY <4>1, <4>2, <4>3
    <3> HIDE DEF q
    <3>4. Panel!PanelAgrees'
      <4> SUFFICES ASSUME NEW r \in trusted', NEW w, w = Panel!Wanted(r, shown'[r])
                   PROVE  Panel!Due(r, w)'
        BY DEF Panel!PanelAgrees, Panel!Due, Panel!LastFrame
      <4>1. r \in trusted /\ r # s /\ w = Panel!Wanted(r, shown[r])
        BY <3>1
      <4>2. Panel!Due(r, w)
        BY <4>1 DEF PanelInv, Panel!PanelAgrees
      <4>3. \A j \in 1 .. Len(q) : q[j][1] # r
        BY <3>3, <4>1
      <4>4. QED
        <5>1. /\ down \in Seq(PanelFrame) /\ q \in Seq(PanelFrame)
              /\ down' = down \o q /\ flag' = flag
          BY <2>1, <3>1, <3>3
        <5>2. SaysOnly(q, r, w)
          BY <4>3 DEF SaysOnly
        <5>3. QED
          BY <4>2, <5>1, <5>2, SentIsDue
    <3>5. QED
      BY <2>1, <2>3, <3>1, <3>3, <3>4
  <2>9. CASE Panel!Enter
    <3>1. /\ connected' = connected /\ page' = "dashboard" /\ flag' = flag
          /\ UNCHANGED << down, panel_faults >>
          /\ shown' = [shown EXCEPT !["mode"] = 0]
          /\ trusted' = IF shown["mode"] = 1 THEN trusted \ {"mode"} ELSE trusted
      BY <2>9 DEF Panel!Enter
    <3>2. /\ shown' \in [Panel!Setting -> {0, 1, 2}] /\ shown'["mode"] = 0
          /\ \A r \in Panel!Setting \ {"mode"} : shown'[r] = shown[r]
      BY <2>1, <3>1 DEF Panel!Setting
    <3>3. Panel!PanelAgrees'
      <4> SUFFICES ASSUME NEW r \in trusted', NEW w, w = Panel!Wanted(r, shown'[r])
                   PROVE  Panel!Due(r, w)'
        BY DEF Panel!PanelAgrees, Panel!Due, Panel!LastFrame
      <4>1. r \in trusted /\ w = Panel!Wanted(r, shown[r])
        BY <2>1, <3>1, <3>2 DEF Panel!Wanted
      <4>2. QED
        BY <3>1, <4>1 DEF PanelInv, Panel!PanelAgrees, Panel!Due, Panel!LastFrame
    <3>4. /\ \A r \in {"light", "stop"} : shown'[r] # 2
          /\ trusted' \subseteq Panel!Setting
      BY <2>1, <3>1, <3>2 DEF Panel!Setting
    <3>5. QED
      BY <2>1, <2>3, <3>1, <3>2, <3>3, <3>4
  <2>10. ASSUME down # << >>, down' = Tail(down), UNCHANGED << connected, page, shown >>,
                panel_faults' \in 0 .. MaxPanelFaults, trusted' \subseteq trusted,
                flag' \in [Panel!Setting -> {0, 1, 2}],
                \A r \in trusted' : flag'[r] =
                  IF Head(down)[1] = r THEN Head(down)[2] ELSE flag[r]
         PROVE  PanelInv'
    <3>1. down' \in Seq(PanelFrame) /\ Len(down') <= MaxFlight
      BY <2>1, <2>10, HeadTailProperties
    <3>2. Panel!PanelAgrees'
      <4> SUFFICES ASSUME NEW r \in trusted', NEW w, w = Panel!Wanted(r, shown'[r])
                   PROVE  Panel!Due(r, w)'
        BY DEF Panel!PanelAgrees, Panel!Due, Panel!LastFrame
      <4>1. Panel!Due(r, w)
        BY <2>10 DEF PanelInv, Panel!PanelAgrees
      <4>2. flag'[r] = IF Head(down)[1] = r THEN Head(down)[2] ELSE flag[r]
        BY <2>10
      <4>3. QED
        BY <2>1, <2>10, <4>1, <4>2, HeadIsGone
    <3>3. trusted' \subseteq Panel!Setting
      BY <2>1, <2>10
    <3>4. QED
      BY <2>1, <2>3, <2>10, <3>1, <3>2, <3>3
  <2>11. down # << >> => Head(down) \in PanelFrame
    BY <2>1, HeadTailProperties
  <2>12. CASE Panel!Apply
    <3>1. /\ down # << >> /\ down' = Tail(down)
          /\ flag' = [flag EXCEPT ![Head(down)[1]] = Head(down)[2]]
          /\ UNCHANGED << connected, page, shown, panel_faults, trusted >>
      BY <2>12 DEF Panel!Apply
    <3>2. Head(down)[1] \in Panel!Setting /\ Head(down)[2] \in {0, 1, 2}
      BY <2>11, <3>1 DEF PanelFrame
    <3>3. /\ flag' \in [Panel!Setting -> {0, 1, 2}]
          /\ \A r \in Panel!Setting : flag'[r] =
               IF Head(down)[1] = r THEN Head(down)[2] ELSE flag[r]
      BY <2>1, <3>1, <3>2
    <3>4. QED
      BY <2>1, <2>10, <3>1, <3>3
  <2>13. CASE Panel!Lose
    <3>1. /\ down # << >> /\ down' = Tail(down)
          /\ panel_faults < MaxPanelFaults /\ panel_faults' = panel_faults + 1
          /\ trusted' = trusted \ {Head(down)[1]}
          /\ UNCHANGED << connected, page, shown, flag >>
      BY <2>13 DEF Panel!Lose
    <3>2. panel_faults' \in 0 .. MaxPanelFaults
      BY <2>1, <3>1
    <3>3. QED
      BY <2>1, <2>10, <3>1, <3>2
  <2>14. CASE Panel!Restart
    <3>1. /\ panel_faults < MaxPanelFaults /\ panel_faults' = panel_faults + 1
          /\ flag' = Panel!DeviceInit /\ down' = << >> /\ trusted' = {}
          /\ UNCHANGED << connected, page, shown >>
      BY <2>14 DEF Panel!Restart
    <3>2. flag' \in [Panel!Setting -> {0, 1, 2}]
      BY <3>1 DEF Panel!DeviceInit, Panel!Setting
    <3>3. down' \in Seq(PanelFrame) /\ Len(down') = 0
      BY <3>1, EmptySeq
    <3>4. Panel!PanelAgrees'
      BY <3>1 DEF Panel!PanelAgrees
    <3>5. QED
      BY <2>1, <2>3, <3>1, <3>2, <3>3, <3>4
  <2>15. ASSUME NEW v \in {0, 1}, Panel!CameraLight(v)
         PROVE  PanelInv'
    <3>1. /\ flag' = [flag EXCEPT !["light"] = v] /\ trusted' = trusted \ {"light"}
          /\ UNCHANGED << connected, page, shown, down, panel_faults >>
      BY <2>15 DEF Panel!CameraLight
    <3>2. /\ flag' \in [Panel!Setting -> {0, 1, 2}]
          /\ \A r \in trusted' : flag'[r] = flag[r] /\ r \in trusted
          /\ trusted' \subseteq Panel!Setting
      BY <2>1, <2>15, <3>1
    <3>3. Panel!PanelAgrees'
      BY <3>1, <3>2 DEF PanelInv, Panel!PanelAgrees, Panel!Due, Panel!LastFrame
    <3>4. QED
      BY <2>1, <2>3, <3>1, <3>2, <3>3
  <2>16. CASE Panel!Disconnect \/ Panel!Leave \/ UNCHANGED Panel!vars
    <3>1. /\ UNCHANGED << shown, down, flag, panel_faults, trusted >>
          /\ connected' \in BOOLEAN /\ page' \in {"dashboard", "other"}
      BY <2>1, <2>16 DEF Panel!Disconnect, Panel!Leave, Panel!vars
    <3>2. Panel!PanelAgrees'
      BY <3>1 DEF PanelInv, Panel!PanelAgrees, Panel!Due, Panel!LastFrame
    <3>3. QED
      BY <2>1, <2>3, <3>1, <3>2
  <2>17. QED
    BY <2>4, <2>6, <2>7, <2>8, <2>9, <2>12, <2>13, <2>14, <2>15, <2>16
       DEF Panel!Next, Panel!Host, Panel!Device
<1>3. QED
  BY <1>1, <1>2, PTL DEF Panel!Spec

(* The panel shows what the device will hold of a setting that no fault,   *)
(* typed frame, camera or new session has touched since the panel sent it  *)
(* (serial_panel.py:337-373, usart5.c:66-154), however many clicks,        *)
(* connections and frames there are.                                       *)
THEOREM PanelIsRight == PartsSpec => []PanelAgrees
<1>1. PanelInv => PanelAgrees
  BY DEF PanelInv, PanelAgrees
<1>2. QED
  BY <1>1, PartsRun, PanelInvariant, PTL
-----------------------------------------------------------------------------
(* Buzzer (buzzer.c)                                                       *)

(* The flags that a test has still to look at. *)
Untested(f) == \E n \in k .. 4 : f = Beeper!Flags[n]

(* While a flag is set no beep is late. A round begins with a flag that is *)
(* set, so there are no more late beeps than it has had beeps; and a flag  *)
(* that has been set since the test began has not been tested yet.         *)
BuzzerInv ==
  /\ Beeper!TypeOK
  /\ ~Beeper!Calm(alarm) => late = 0
  /\ late <= Times
  /\ buzzer_pc = "beep" => late <= beeps + (1 - pin)
  /\ pin = 0 => buzzer_pc = "beep" /\ beeps < Times
  /\ buzzer_pc # "test" => k = 1
  /\ buzzer_pc = "test" => \A f \in steady : alarm[f] # 0 /\ Untested(f)

LEMMA FlagNames ==
  /\ DOMAIN Beeper!Flags = 1 .. 4 /\ Len(Beeper!Flags) = 4
  /\ Beeper!Names = {"MQ2", "MQ135", "Soil", "DHT11"}
  /\ \A n \in 1 .. 4 : Beeper!Flags[n] \in Beeper!Names
<1>1. DOMAIN Beeper!Flags = 1 .. 4 /\ Len(Beeper!Flags) = 4
  BY DEF Beeper!Flags
<1>2. /\ Beeper!Flags[1] = "MQ2" /\ Beeper!Flags[2] = "MQ135"
      /\ Beeper!Flags[3] = "Soil" /\ Beeper!Flags[4] = "DHT11"
  BY DEF Beeper!Flags
<1>3. \A n \in 1 .. 4 : n = 1 \/ n = 2 \/ n = 3 \/ n = 4
  OBVIOUS
<1>4. QED
  BY <1>1, <1>2, <1>3 DEF Beeper!Names

LEMMA BuzzerInvariant == Beeper!Spec => []BuzzerInv
<1> USE PartsAssumption DEF Beeper!BuzzerAssumption
<1>1. Beeper!Init => BuzzerInv
  <2> SUFFICES ASSUME Beeper!Init PROVE BuzzerInv
    OBVIOUS
  <2>1. alarm \in Beeper!Samples
    BY FlagNames DEF Beeper!Init, Beeper!Samples
  <2>2. Beeper!Calm(alarm)
    BY DEF Beeper!Init, Beeper!Calm
  <2>3. QED
    BY <2>1, <2>2, FlagNames DEF Beeper!Init, BuzzerInv, Beeper!TypeOK
<1>2. BuzzerInv /\ [Beeper!Next]_(Beeper!vars) => BuzzerInv'
  <2> SUFFICES ASSUME BuzzerInv, [Beeper!Next]_(Beeper!vars)
               PROVE  BuzzerInv'
    OBVIOUS
  <2>0. /\ k \in 1 .. 4 /\ beeps \in 0 .. Times /\ pin \in {0, 1} /\ late \in Nat
        /\ Times \in Nat \ {0} /\ buzzer_pc \in {"test", "beep", "pause"}
        /\ steady \subseteq Beeper!Names /\ alarm \in Beeper!Samples
    BY FlagNames DEF BuzzerInv, Beeper!TypeOK
  <2>1. CASE Beeper!Sample
    <3>0. /\ late' = IF Beeper!Calm(alarm') THEN late ELSE 0
          /\ steady' \subseteq Beeper!Names /\ alarm' \in Beeper!Samples
          /\ UNCHANGED << buzzer_pc, k, beeps, pin >>
      BY <2>0, <2>1 DEF Beeper!Sample
    <3>1. Beeper!TypeOK'
      BY <2>0, <3>0, FlagNames DEF Beeper!TypeOK
    <3>2. buzzer_pc' = "test" => \A f \in steady' : alarm'[f] # 0 /\ Untested(f)'
      BY <2>1 DEF Beeper!Sample, BuzzerInv, Untested
    <3>3. /\ ~Beeper!Calm(alarm)' => late' = 0
          /\ late' <= Times
          /\ buzzer_pc' = "beep" => late' <= beeps' + (1 - pin')
      BY <2>0, <3>0 DEF BuzzerInv, Beeper!Calm
    <3>4. QED
      BY <2>1, <3>1, <3>2, <3>3 DEF Beeper!Sample, BuzzerInv
  <2>2. CASE Beeper!Test
    <3>0. pin = 1
      BY <2>0, <2>2 DEF Beeper!Test, BuzzerInv
    <3>1. CASE alarm[Beeper!Flags[k]] # 0
      <4>1. ~Beeper!Calm(alarm)
        BY <2>0, <3>1, FlagNames DEF Beeper!Calm
      <4>2. /\ buzzer_pc' = "beep" /\ k' = 1 /\ beeps' = 0 /\ pin' = 1
            /\ late' = 0 /\ late = 0 /\ alarm' = alarm /\ steady' = steady
        BY <2>2, <3>0, <3>1, <4>1 DEF Beeper!Test, BuzzerInv
      <4>3. QED
        BY <2>0, <4>2, FlagNames DEF BuzzerInv, Beeper!TypeOK
    <3>2. CASE alarm[Beeper!Flags[k]] = 0 /\ k < 4
      <4>1. /\ buzzer_pc = "test" /\ k' = k + 1
            /\ UNCHANGED << buzzer_pc, beeps, pin, alarm, steady, late >>
        BY <2>2, <3>2, FlagNames DEF Beeper!Test
      <4>2. \A f \in steady : alarm[f] # 0 /\ \E n \in k + 1 .. 4 : f = Beeper!Flags[n]
        BY <2>0, <3>2, <4>1 DEF BuzzerInv, Untested
      <4>3. (~Beeper!Calm(alarm) => late = 0)'
        BY <4>1 DEF BuzzerInv, Beeper!Calm
      <4>4. QED
        BY <2>0, <3>2, <4>1, <4>2, <4>3, FlagNames DEF BuzzerInv, Beeper!TypeOK, Untested
    <3>3. CASE alarm[Beeper!Flags[k]] = 0 /\ k = 4
      <4>1. /\ buzzer_pc' = "pause" /\ k' = 1 /\ pin' = 1
            /\ UNCHANGED << beeps, alarm, steady, late >>
        BY <2>2, <3>3, FlagNames DEF Beeper!Test
      <4>2. (~Beeper!Calm(alarm) => late = 0)'
        BY <4>1 DEF BuzzerInv, Beeper!Calm
      <4>3. QED
        BY <2>0, <4>1, <4>2, FlagNames DEF BuzzerInv, Beeper!TypeOK
    <3>4. QED
      BY <2>0, <3>1, <3>2, <3>3
  <2>3. CASE Beeper!Warm
    <3>1. /\ buzzer_pc = "beep" /\ UNCHANGED << alarm, k, steady >> /\ k = 1
          /\ late <= beeps + (1 - pin)
      BY <2>3 DEF Beeper!Warm, BuzzerInv
    <3>2. ~Beeper!Calm(alarm)' => late = 0 /\ late' = 0
      BY <2>3, <3>1 DEF Beeper!Warm, Beeper!Late, BuzzerInv, Beeper!Calm
    <3>3. CASE pin = 1 /\ beeps < Times
      <4>1. /\ pin' = 0 /\ late' \in {0, late + 1} /\ UNCHANGED << buzzer_pc, beeps >>
        BY <2>3, <3>3 DEF Beeper!Warm, Beeper!Late
      <4>2. QED
        BY <2>0, <3>1, <3>2, <3>3, <4>1 DEF BuzzerInv, Beeper!TypeOK
    <3>4. CASE pin = 1 /\ ~(beeps < Times)
      <4>1. buzzer_pc' = "pause" /\ UNCHANGED << pin, late, beeps >>
        BY <2>3, <3>4 DEF Beeper!Warm
      <4>2. QED
        BY <2>0, <3>1, <3>2, <3>4, <4>1 DEF BuzzerInv, Beeper!TypeOK
    <3>5. CASE pin = 0
      <4>1. pin' = 1 /\ beeps' = beeps + 1 /\ UNCHANGED << buzzer_pc, late >>
        BY <2>3, <3>5 DEF Beeper!Warm
      <4>2. QED
        BY <2>0, <3>1, <3>2, <3>5, <4>1 DEF BuzzerInv, Beeper!TypeOK
    <3>6. QED
      BY <2>0, <3>3, <3>4, <3>5
  <2>4. CASE Beeper!Again
    <3>1. /\ buzzer_pc = "pause" /\ buzzer_pc' = "test" /\ k = 1
          /\ steady' = {f \in Beeper!Names : alarm[f] # 0}
          /\ UNCHANGED << alarm, k, beeps, pin, late >>
      BY <2>4 DEF Beeper!Again, BuzzerInv
    <3>2. \A f \in Beeper!Names : \E n \in 1 .. 4 : f = Beeper!Flags[n]
      BY FlagNames DEF Beeper!Names
    <3>3. \A f \in steady' : alarm'[f] # 0 /\ Untested(f)'
      BY <3>1, <3>2 DEF Untested
    <3>4. (~Beeper!Calm(alarm) => late = 0)'
      BY <3>1 DEF BuzzerInv, Beeper!Calm
    <3>5. QED
      BY <2>0, <3>1, <3>3, <3>4 DEF BuzzerInv, Beeper!TypeOK
  <2>5. CASE UNCHANGED Beeper!vars
    BY <2>5 DEF Beeper!vars, BuzzerInv, Beeper!TypeOK, Beeper!Calm, Untested
  <2>6. QED
    BY <2>1, <2>2, <2>3, <2>4, <2>5 DEF Beeper!Next
<1>3. QED
  BY <1>1, <1>2, PTL DEF Beeper!Spec

(* An alarm that is over is heard for at most one round of beeps, and a    *)
(* test ends in silence only if no flag was set throughout (Buzzer_open,   *)
(* Buzzer_warm): for any number of beeps.                                  *)
THEOREM AlarmsAreHeard == PartsSpec => AlarmsHeard
<1>1. BuzzerInv => Beeper!TypeOK /\ Beeper!SilenceBounded
  BY DEF BuzzerInv, Beeper!SilenceBounded
<1>2. BuzzerInv /\ [Beeper!Next]_(Beeper!vars)
        => [(buzzer_pc = "test" /\ buzzer_pc' = "pause") => steady = {}]_(Beeper!vars)
  <2> SUFFICES ASSUME BuzzerInv, Beeper!Next, buzzer_pc = "test", buzzer_pc' = "pause"
               PROVE  steady = {}
    BY DEF Beeper!vars
  <2>1. k = 4 /\ alarm[Beeper!Flags[k]] = 0
    BY FlagNames DEF Beeper!Next, Beeper!Sample, Beeper!Test, Beeper!Warm,
                     Beeper!Again, BuzzerInv, Beeper!TypeOK
  <2>2. QED
    BY <2>1 DEF BuzzerInv, Untested
<1>3. QED
  BY <1>1, <1>2, PartsRun, BuzzerInvariant, PTL
     DEF Beeper!Spec, AlarmsHeard, Beeper!SteadyAlarmHeard

-----------------------------------------------------------------------------
(* Announcements (usart6.c)                                                *)

(* The waiting time and the calls since the last announcement of an        *)
(* obstacle add up. While the obstacle is armed, an air alarm that is held *)
(* back has used as much of the waiting time as is over, and some of it is *)
(* left.                                                                   *)
VoiceInv ==
  /\ Speech!TypeOK
  /\ since + obsvoice_waittime >= Wait
  /\ Speech!AirHeldBounded
  /\ obsvoice_flag = 1 =>
       /\ air_held <= Wait * races + (Wait - obsvoice_waittime)
       /\ air_held > 0 => obsvoice_waittime >= 1

(* What is announced was armed, and an obstacle is announced only when its *)
(* waiting time is over.                                                   *)
LEMMA Announced ==
  ASSUME NEW near \in BOOLEAN, NEW gone \in BOOLEAN, Speech!TypeOK,
         Speech!CheckVoice(near, gone)
  PROVE  /\ voice' \in {"nothing", "obs", "air", "soil", "humi"}
         /\ voice' = "obs" =>
              obsvoice_flag = 1 /\ obsvoice_waittime <= 1
         /\ voice' = "air" => airvoice_flag = 1
         /\ voice' = "soil" => soilvoice_flag = 1
         /\ voice' = "humi" => humivoice_flag = 1
         /\ (Speech!WantAir /\ voice' # "air") =>
              /\ near /\ obsvoice_flag = 1
              /\ obsvoice_waittime <= 1 => voice' = "obs"
BY DEF Speech!TypeOK, Speech!CheckVoice, Speech!Choose, Speech!WantObs,
       Speech!WantAir, Speech!WantSoil, Speech!WantHumi, Speech!Waiting

LEMMA WaitsAddUp ==
  ASSUME NEW w \in Nat, NEW r \in Nat
  PROVE  w * r \in Nat /\ w * (r + 1) = w * r + w
OBVIOUS

LEMMA VoiceInvariant == Speech!Spec => []VoiceInv
<1> USE PartsAssumption DEF Speech!VoiceAssumption
<1>1. Speech!Init => VoiceInv
  <2>1. Wait * 0 = 0 /\ Wait * (0 + 1) = Wait
    OBVIOUS
  <2>2. QED
    BY <2>1 DEF Speech!Init, VoiceInv, Speech!TypeOK, Speech!AirHeldBounded,
                Speech!Ppm, Speech!Flag, Speech!Damp
<1>2. VoiceInv /\ [Speech!Next]_(Speech!vars) => VoiceInv'
  <2> SUFFICES ASSUME VoiceInv, [Speech!Next]_(Speech!vars)
               PROVE  VoiceInv'
    OBVIOUS
  <2>1. ASSUME NEW near \in BOOLEAN, NEW gone \in BOOLEAN,
               Speech!CheckVoice(near, gone)
        PROVE  VoiceInv'
    <3>1. /\ Speech!TypeOK /\ Wait \in Nat \ {0} /\ since \in 0 .. Wait
          /\ obsvoice_flag \in {0, 1} /\ obsvoice_waittime \in 0 .. Wait
          /\ air_held \in Nat /\ races \in 0 .. MaxRaces /\ MaxRaces \in Nat
      BY DEF VoiceInv, Speech!TypeOK
    <3>2. /\ voice' \in {"nothing", "obs", "air", "soil", "humi"}
          /\ voice' = "obs" => obsvoice_flag = 1 /\ obsvoice_waittime <= 1
          /\ voice' = "air" => airvoice_flag = 1
          /\ voice' = "soil" => soilvoice_flag = 1
          /\ voice' = "humi" => humivoice_flag = 1
          /\ (Speech!WantAir /\ voice' # "air") =>
               /\ near /\ obsvoice_flag = 1
               /\ obsvoice_waittime <= 1 => voice' = "obs"
      BY <2>1, <3>1, Announced
    <3>3. /\ obsvoice_flag' \in {0, 1} /\ airvoice_flag' \in {0, 1}
          /\ soilvoice_flag' \in {0, 1} /\ humivoice_flag' \in {0, 1}
      BY <2>1, <3>1, <3>2 DEF Speech!CheckVoice, Speech!Rearm, Speech!TypeOK
    <3>4. /\ obsvoice_waittime' = IF voice' = "obs" THEN Wait
                                  ELSE IF obsvoice_waittime > 0
                                    THEN obsvoice_waittime - 1 ELSE 0
          /\ since' = IF voice' = "obs" THEN 0
                      ELSE IF since < Wait THEN since + 1 ELSE since
          /\ obsvoice_flag' = IF gone THEN 1
                              ELSE IF voice' = "obs" THEN obsvoice_flag - 1
                              ELSE obsvoice_flag
      BY <2>1 DEF Speech!CheckVoice, Speech!Waiting, Speech!Rearm
    <3>5. obsvoice_waittime' \in 0 .. Wait /\ since' \in 0 .. Wait
      BY <3>1, <3>4
    <3>6. since' + obsvoice_waittime' >= Wait
      BY <3>1, <3>4 DEF VoiceInv
    <3>7. CASE Speech!WantAir /\ voice' # "air"
      <4> DEFINE P == Wait * races
                 Q == Wait * races'
                 R == Wait * (races' + 1)
      <4>1. /\ air_held' = air_held + 1 /\ races' \in {races, races + 1}
            /\ gone => races' = races + 1
            /\ races' <= MaxRaces
        BY <2>1, <3>2, <3>7 DEF Speech!CheckVoice
      <4>2. air_held' \in Nat /\ races' \in 0 .. MaxRaces /\ races' \in Nat
        BY <3>1, <4>1
      <4>3. P \in Nat /\ Wait * (races + 1) = P + Wait
        BY <3>1, WaitsAddUp
      <4>4. Q \in Nat /\ R = Q + Wait
        BY <3>1, <4>2, WaitsAddUp
      <4>5. P <= Q /\ (gone => Q = P + Wait)
        <5>1. CASE races' = races
          BY <3>1, <4>1, <4>3, <5>1
        <5>2. CASE races' = races + 1
          BY <3>1, <4>3, <5>2
        <5>3. QED
          BY <4>1, <5>1, <5>2
      <4>6. /\ air_held <= P + (Wait - obsvoice_waittime)
            /\ air_held > 0 => obsvoice_waittime >= 1
        BY <3>2, <3>7 DEF VoiceInv
      <4> HIDE DEF P, Q, R
      <4>7. CASE voice' = "obs"
        <5>1. /\ obsvoice_waittime' = Wait /\ obsvoice_waittime <= 1
              /\ obsvoice_flag' = 1 => gone
          BY <3>2, <3>4, <4>7
        <5>2. air_held' <= P + Wait
          BY <3>1, <4>1, <4>3, <4>6, <5>1
        <5>3. air_held' <= R
          BY <3>1, <4>2, <4>3, <4>4, <4>5, <5>2
        <5>4. obsvoice_flag' = 1 =>
                /\ air_held' <= Q + (Wait - obsvoice_waittime')
                /\ air_held' > 0 => obsvoice_waittime' >= 1
          BY <3>1, <4>2, <4>3, <4>4, <4>5, <5>1, <5>2
        <5>5. QED
          BY <2>1, <3>2, <3>3, <3>5, <3>6, <4>2, <5>3, <5>4
             DEF Q, R, VoiceInv, Speech!TypeOK, Speech!AirHeldBounded, Speech!CheckVoice,
                 Speech!Ppm, Speech!Flag, Speech!Damp
      <4>8. CASE voice' # "obs"
        <5>1. /\ obsvoice_waittime > 1
              /\ obsvoice_waittime' = obsvoice_waittime - 1
          BY <3>1, <3>2, <3>4, <3>7, <4>8
        <5>2. air_held' <= P + (Wait - obsvoice_waittime')
          BY <3>1, <4>1, <4>3, <4>6, <5>1
        <5>3. air_held' <= Q + (Wait - obsvoice_waittime')
          <6>1. /\ P \in Int /\ Q \in Int /\ P <= Q
                /\ air_held' \in Int /\ Wait - obsvoice_waittime' \in Int
            BY <3>1, <3>5, <4>2, <4>3, <4>4, <4>5
          <6>2. \A x, y, a, d \in Int : x <= y /\ a <= x + d => a <= y + d
            OBVIOUS
          <6>3. QED
            BY <5>2, <6>1, <6>2
        <5>4. /\ air_held' <= R
              /\ air_held' > 0 => obsvoice_waittime' >= 1
          BY <3>1, <3>5, <4>2, <4>3, <4>4, <4>5, <5>1, <5>3
        <5>5. QED
          BY <2>1, <3>2, <3>3, <3>5, <3>6, <4>2, <5>3, <5>4
             DEF Q, R, VoiceInv, Speech!TypeOK, Speech!AirHeldBounded, Speech!CheckVoice,
                 Speech!Ppm, Speech!Flag, Speech!Damp
      <4>9. QED
        BY <4>7, <4>8
    <3>8. CASE ~(Speech!WantAir /\ voice' # "air")
      <4>1. air_held' = 0 /\ races' = 0
        BY <2>1, <3>8 DEF Speech!CheckVoice
      <4>2. Wait * races' = 0 /\ Wait * (races' + 1) = Wait /\ races' \in 0 .. MaxRaces
        BY <3>1, <4>1
      <4>3. QED
        BY <2>1, <3>1, <3>2, <3>3, <3>5, <3>6, <4>1, <4>2
           DEF VoiceInv, Speech!TypeOK, Speech!AirHeldBounded, Speech!CheckVoice,
               Speech!Ppm, Speech!Flag, Speech!Damp
    <3>9. QED
      BY <3>7, <3>8
  <2>2. CASE UNCHANGED Speech!vars
    BY <2>2 DEF Speech!vars, Speech!inputs, Speech!flags, VoiceInv, Speech!TypeOK,
                Speech!AirHeldBounded
  <2>3. QED
    BY <2>1, <2>2 DEF Speech!Next
<1>3. QED
  BY <1>1, <1>2, PTL DEF Speech!Spec

(* An obstacle is announced at most once in the waiting time, and bad air  *)
(* that lasts is held back for at most one waiting time and one more for   *)
(* every race for Distance (Check_vioce): for any waiting time.            *)
THEOREM AirIsAnnounced == PartsSpec => AnnouncedInTurn
<1>1. VoiceInv => Speech!TypeOK /\ Speech!AirHeldBounded
  BY DEF VoiceInv
<1>2. VoiceInv /\ [Speech!Next]_(Speech!vars)
        => [voice' = "obs" => since + 1 >= Wait]_(Speech!vars)
  <2> SUFFICES ASSUME VoiceInv, NEW near \in BOOLEAN, NEW gone \in BOOLEAN,
                      Speech!CheckVoice(near, gone), voice' = "obs"
               PROVE  since + 1 >= Wait
    BY DEF Speech!Next
  <2>1. obsvoice_waittime <= 1
    BY Announced DEF VoiceInv
  <2>2. QED
    BY <2>1, PartsAssumption DEF VoiceInv, Speech!TypeOK, Speech!VoiceAssumption
<1>3. QED
  BY <1>1, <1>2, PartsRun, VoiceInvariant, PTL
     DEF Speech!Spec, AnnouncedInTurn, Speech!ObstacleSpaced

-----------------------------------------------------------------------------
(* Headings (SportMode.c, CarTurn.c)                                       *)

Round == 2 * Half

(* Two numbers stand for the same direction. *)
Same(x, y) == \E q \in Int : x = y + Round * q

HeadingInv ==
  /\ Course!TypeOK
  /\ Yaw = heading
  /\ Modestate = 12 => yaw_temprary \in -Half .. Half - 1
  /\ Course!LooksWhereMeant

LEMMA SameRound ==
  ASSUME Half \in Nat \ {0}, NEW x \in Int
  PROVE  /\ Same(x, x) /\ Same(x + Round, x) /\ Same(x - Round, x)
         /\ Same(x, x + Round) /\ Same(x, x - Round)
<1>1. Round \in Int
  BY DEF Round
<1>2. /\ x = x + Round * 0 /\ x + Round = x + Round * 1
      /\ x - Round = x + Round * (-1)
      /\ x = (x + Round) + Round * (-1) /\ x = (x - Round) + Round * 1
  BY <1>1
<1>3. 0 \in Int /\ 1 \in Int /\ -1 \in Int
  OBVIOUS
<1>4. QED
  BY <1>2, <1>3 DEF Same

LEMMA SameSum ==
  ASSUME Half \in Nat \ {0}, NEW x \in Int, NEW y \in Int, NEW d \in Int, Same(x, y)
  PROVE  Same(x + d, y + d) /\ Same(d - x, d - y)
<1>1. PICK q \in Int : x = y + Round * q
  BY DEF Same
<1>2. -q \in Int /\ Round * (-q) = -(Round * q) /\ Round * q \in Int
  BY DEF Round
<1>3. /\ x + d = (y + d) + Round * q
      /\ d - x = (d - y) + Round * (-q)
  BY <1>1, <1>2
<1>4. QED
  BY <1>2, <1>3 DEF Same

LEMMA SameTurned ==
  ASSUME Half \in Nat \ {0}, NEW x \in Int, NEW y \in Int, Same(x, y)
  PROVE  Same(y, x)
<1>1. PICK q \in Int : x = y + Round * q
  BY DEF Same
<1>2. -q \in Int /\ Round * (-q) = -(Round * q) /\ Round * q \in Int
  BY DEF Round
<1>3. y = x + Round * (-q)
  BY <1>1, <1>2
<1>4. QED
  BY <1>2, <1>3 DEF Same

LEMMA SameChain ==
  ASSUME Half \in Nat \ {0}, NEW x \in Int, NEW y \in Int, NEW z \in Int,
         Same(x, y), Same(y, z)
  PROVE  Same(x, z)
<1>1. PICK q \in Int : x = y + Round * q
  BY DEF Same
<1>2. PICK p \in Int : y = z + Round * p
  BY DEF Same
<1>3. /\ Round * (p + q) = Round * p + Round * q
      /\ Round * p \in Int /\ Round * q \in Int /\ p + q \in Int
  BY DEF Round
<1>4. x = z + Round * (p + q)
  BY <1>1, <1>2, <1>3
<1>5. QED
  BY <1>3, <1>4 DEF Same

(* A report is the direction, between -Half and Half. *)
LEMMA ReportIs ==
  ASSUME Half \in Nat \ {0}, NEW x \in Int
  PROVE  Course!Report(x) \in -Half .. Half - 1 /\ Same(Course!Report(x), x)
<1>1. Round \in Nat \ {0}
  BY DEF Round
<1>2. /\ (x + Half) % Round \in 0 .. Round - 1
      /\ (x + Half) \div Round \in Int
      /\ x + Half = Round * ((x + Half) \div Round) + ((x + Half) % Round)
  BY <1>1
<1>3. -((x + Half) \div Round) \in Int
      /\ Round * (-((x + Half) \div Round)) = -(Round * ((x + Half) \div Round))
  BY <1>1, <1>2
<1>4. Course!Report(x) = ((x + Half) % Round) - Half
  BY DEF Course!Report, Round
<1>5. Course!Report(x) = x + Round * (-((x + Half) \div Round))
  <2>1. Round * ((x + Half) \div Round) \in Int
    BY <1>1, <1>2
  <2>2. QED
    BY <1>2, <1>3, <1>4, <2>1
<1>6. Course!Report(x) \in -Half .. Half - 1
  BY <1>2, <1>4 DEF Round
<1>7. QED
  BY <1>3, <1>5, <1>6 DEF Same

LEMMA TwoOf ==
  ASSUME NEW a \in Int, NEW b \in Int
  PROVE  /\ Course!Min({a, b}) = IF a <= b THEN a ELSE b
         /\ Course!Max({a, b}) = IF a <= b THEN b ELSE a
BY DEF Course!Min, Course!Max

(* The angle of two directions that differ by d, where d goes the short    *)
(* way.                                                                    *)
LEMMA AngleIs ==
  ASSUME Half \in Nat \ {0}, NEW x \in Int, NEW y \in Int, NEW d \in -Half .. Half,
         Same(x - y, d)
  PROVE  Course!Angle(x, y) = Course!Abs(d)
<1>1. Round \in Nat \ {0}
  BY DEF Round
<1>2. PICK q \in Int : x - y = d + Round * q
  BY DEF Same
<1>3. ASSUME NEW r \in 0 .. Round - 1, NEW p \in Int, x - y = Round * p + r
      PROVE  (x - y) % Round = r
  BY <1>1, <1>3
<1>4. CASE d >= 0
  <2>1. d \in 0 .. Round - 1 /\ x - y = Round * q + d
    <3>1. Round * q \in Int
      BY <1>1
    <3>2. QED
      BY <1>2, <1>4, <3>1 DEF Round
  <2>2. (x - y) % Round = d
    BY <1>3, <2>1
  <2>3. Course!Angle(x, y) = Course!Min({d, Round - d})
    BY <2>2 DEF Course!Angle, Round
  <2>4. QED
    BY <1>1, <1>4, <2>3, TwoOf DEF Course!Abs, Round
<1>5. CASE d < 0
  <2>1. /\ d + Round \in 0 .. Round - 1 /\ q - 1 \in Int
        /\ x - y = Round * (q - 1) + (d + Round)
    <3>1. Round * q \in Int /\ Round * (q - 1) = Round * q - Round
      BY <1>1
    <3>2. d + Round \in 0 .. Round - 1
      BY <1>5 DEF Round
    <3>3. QED
      BY <1>1, <1>2, <3>1, <3>2
  <2>2. (x - y) % Round = d + Round
    BY <1>3, <2>1
  <2>3. Course!Angle(x, y) = Course!Min({d + Round, Round - (d + Round)})
    BY <2>2 DEF Course!Angle, Round
  <2>4. /\ d + Round \in Int /\ Round - (d + Round) = -d /\ -d \in Int
        /\ d + Round <= -d => d + Round = -d
    BY <1>5 DEF Round
  <2>5. QED
    BY <1>5, <2>3, <2>4, TwoOf DEF Course!Abs
<1>6. QED
  BY <1>4, <1>5

(* Half a turn, a third and a quarter of a turn. *)
LEMMA Offsets ==
  ASSUME Half \in Nat \ {0}
  PROVE  /\ DOMAIN Course!Offset = Course!Turning
         /\ \A s \in Course!Turning : Course!Offset[s] \in Int /\ 2 * Course!Offset[s] \in -Half .. Half
<1>1. /\ Half \div 3 \in Int /\ 0 <= Half \div 3 /\ 3 * (Half \div 3) <= Half
      /\ Half \div 2 \in Int /\ 0 <= Half \div 2 /\ 2 * (Half \div 2) <= Half
  OBVIOUS
<1>2. \A s \in Course!Turning :
        Course!Offset[s] \in {0, Half \div 3, -(Half \div 3), Half \div 2, -(Half \div 2)}
  BY DEF Course!Offset, Course!Turning
<1>3. \A z \in {0, Half \div 3, -(Half \div 3), Half \div 2, -(Half \div 2)} :
        z \in Int /\ 2 * z \in -Half .. Half
  BY <1>1
<1>4. QED
  BY <1>2, <1>3 DEF Course!Offset

(* Yaw_change brings a target to where it can be compared. *)
LEMMA YawChangeIs ==
  ASSUME Half \in Nat \ {0}, NEW x \in -2 * Half .. 3 * Half
  PROVE  Course!YawChange(x) \in -Half .. Half /\ Same(Course!YawChange(x), x)
<1>1. /\ Course!YawChange(x) \in {x, x - Round, x + Round}
      /\ Course!YawChange(x) \in -Half .. Half
  BY DEF Course!YawChange, Round
<1>2. Same(x, x) /\ Same(x + Round, x) /\ Same(x - Round, x)
  BY SameRound
<1>3. QED
  BY <1>1, <1>2

(* A tick of a turn towards t: what is left of the way goes down by d, or  *)
(* is overshot by less.                                                    *)
LEMMA TurnsTowards ==
  ASSUME Half \in Nat \ {0}, Yaw \in -Half .. Half - 1, Yaw = heading,
         MaxStep \in 1 .. Half, NEW t \in -Half .. Half, NEW d \in 0 .. MaxStep,
         Course!Moves(Course!Out(t) * d)
  PROVE  \E e, r \in -Half .. Half :
           /\ Same(t - heading, e) /\ Same(heading' - t, r)
           /\ heading' \in -Half .. Half - 1 /\ Yaw' = heading'
           /\ Course!Angle(heading, t) = Course!Abs(e)
           /\ Course!Angle(heading', t) = Course!Abs(r)
           /\ Course!Abs(r) <= Course!Abs(e) \/ Course!Abs(r) <= MaxStep
           /\ Course!Abs(r) <= Course!Abs(e) + MaxStep
           /\ Course!Abs(Yaw - t) < Half => Course!Abs(e) = Course!Abs(Yaw - t)
<1> DEFINE e == t - Course!YawRead(t)
           s == Course!Out(t) * d
           r == s - e
<1>1. /\ Course!YawRead(t) \in {Yaw, Yaw - Round, Yaw + Round}
      /\ e \in -Half .. Half
      /\ Course!Abs(Yaw - t) < Half => Course!YawRead(t) = Yaw
  BY DEF Course!YawRead, Course!Abs, Round
<1>2. /\ s = IF e > 0 THEN d ELSE IF e < 0 THEN -d ELSE 0
  <2>1. Course!Out(t) = IF e > 0 THEN 1 ELSE IF e < 0 THEN -1 ELSE 0
    BY DEF Course!Out
  <2>2. 1 * d = d /\ (-1) * d = -d /\ 0 * d = 0
    OBVIOUS
  <2>3. QED
    BY <2>1, <2>2
<1> HIDE DEF s
<1>3. /\ r \in -Half .. Half
      /\ Course!Abs(r) <= Course!Abs(e) \/ Course!Abs(r) <= MaxStep
      /\ Course!Abs(r) <= Course!Abs(e) + MaxStep
  BY <1>1, <1>2 DEF Course!Abs
<1>4. Same(t - heading, e)
  <2>1. Course!YawRead(t) \in Int /\ Same(heading, Course!YawRead(t))
    BY <1>1, SameRound DEF Round
  <2>2. QED
    BY <2>1, SameSum
<1>5. /\ heading' = Course!Report(heading + s) /\ Yaw' = heading'
      /\ heading' \in -Half .. Half - 1 /\ Same(heading', heading + s)
  BY <1>1, <1>2, ReportIs DEF Course!Moves, s
<1>6. Same(heading' - t, r)
  <2> DEFINE way == t - heading
             back == -t
  <2>1. s \in Int /\ e \in Int /\ way \in Int /\ back \in Int /\ heading + s \in Int
        /\ heading' \in Int
    BY <1>1, <1>2, <1>5
  <2>2. Same(way, e)
    BY <1>4
  <2>3. heading' + back = heading' - t /\ (heading + s) + back = s - way
    BY <1>5, <2>1
  <2> HIDE DEF way, back, e
  <2>4. Same(heading' + back, (heading + s) + back)
    BY <1>5, <2>1, SameSum
  <2>5. Same(s - way, s - e)
    BY <2>1, <2>2, SameSum
  <2>6. Same(heading' - t, s - way) /\ heading' - t \in Int /\ s - way \in Int /\ s - e \in Int
    BY <2>1, <2>3, <2>4
  <2>7. QED
    BY <2>5, <2>6, SameChain
<1>7. Course!Angle(heading', t) = Course!Abs(r)
  BY <1>3, <1>5, <1>6, AngleIs
<1>8. Course!Angle(heading, t) = Course!Abs(e)
  <2>1. Same(heading - t, -e)
    <3> DEFINE way == t - heading
    <3>1. way \in Int /\ e \in Int /\ Same(way, e)
      BY <1>1, <1>4
    <3>2. 0 - way = heading - t /\ 0 - e = -e
      BY <1>1
    <3> HIDE DEF way, e
    <3>3. \A z \in Int : Same(z - way, z - e)
      BY <3>1, SameSum
    <3>4. QED
      BY <3>2, <3>3
  <2>2. -e \in -Half .. Half /\ Course!Abs(-e) = Course!Abs(e)
    BY <1>1 DEF Course!Abs
  <2>3. Course!Angle(heading, t) = Course!Abs(-e)
    BY <2>1, <2>2, AngleIs
  <2>4. QED
    BY <2>2, <2>3
<1>9. Course!Abs(Yaw - t) < Half => Course!Abs(e) = Course!Abs(Yaw - t)
  BY <1>1 DEF Course!Abs
<1> HIDE DEF e, r
<1>10. QED
  BY <1>1, <1>3, <1>4, <1>5, <1>6, <1>7, <1>8, <1>9

LEMMA HeadingInvariant == Course!Spec => []HeadingInv
<1> USE PartsAssumption DEF Course!HeadingAssumption
<1>0. Half \in Nat \ {0} /\ MaxStep \in 1 .. Half /\ Tol \in 1 .. Half
  OBVIOUS
<1>1. Course!Init => HeadingInv
  BY DEF Course!Init, HeadingInv, Course!TypeOK, Course!LooksWhereMeant, Course!Looking
<1>2. HeadingInv /\ [Course!Next]_(Course!vars) => HeadingInv'
  <2> SUFFICES ASSUME HeadingInv, [Course!Next]_(Course!vars)
               PROVE  HeadingInv'
    OBVIOUS
  <2>0. /\ heading \in -Half .. Half - 1 /\ Yaw = heading
        /\ Yaw \in -Half .. Half - 1
        /\ Modestate \in 0 .. 12 /\ yaw_temprary \in -Half .. 2 * Half - 1
        /\ Target \in -Half .. Half
        /\ Modestate = 12 => yaw_temprary \in -Half .. Half - 1
    BY DEF HeadingInv, Course!TypeOK
  <2>1. CASE Course!Begin
    BY <2>0, <2>1 DEF Course!Begin, Course!Stands, HeadingInv, Course!TypeOK,
                      Course!LooksWhereMeant, Course!Looking
  <2>2. CASE Course!Depart
    BY <2>0, <2>2 DEF Course!Depart, Course!Stands, HeadingInv, Course!TypeOK,
                      Course!LooksWhereMeant, Course!Looking
  <2>3. ASSUME NEW d \in 0 .. MaxStep, Course!TurnTick(d)
        PROVE  HeadingInv'
    <3> DEFINE way == yaw_temprary + Course!Offset[Modestate]
    <3>1. /\ Modestate \in Course!Turning /\ Modestate \in 1 .. 9
          /\ Modestate' \in {Modestate, Modestate + 1}
          /\ yaw_temprary' = yaw_temprary /\ Target' = Course!YawChange(way)
          /\ Modestate' = Modestate + 1 => Course!Arrived(Target')
          /\ Course!Moves(Course!Out(Target') * d)
      BY <2>3 DEF Course!TurnTick, Course!Turning
    <3>2. way \in -2 * Half .. 3 * Half
      BY <1>0, <2>0, <3>1, Offsets
    <3> HIDE DEF way
    <3>3. Target' \in -Half .. Half /\ Same(Target', way)
      BY <1>0, <3>1, <3>2, YawChangeIs
    <3>4. PICK e, r \in -Half .. Half :
             /\ Same(heading' - Target', r)
             /\ heading' \in -Half .. Half - 1 /\ Yaw' = heading'
             /\ Course!Abs(r) <= Course!Abs(e) + MaxStep
             /\ Course!Abs(Yaw - Target') < Half => Course!Abs(e) = Course!Abs(Yaw - Target')
      <4> DEFINE t == Target'
      <4>1. t \in -Half .. Half /\ Course!Moves(Course!Out(t) * d)
        BY <3>1, <3>3
      <4> HIDE DEF t
      <4>2. \E e, r \in -Half .. Half :
             /\ Same(heading' - t, r)
             /\ heading' \in -Half .. Half - 1 /\ Yaw' = heading'
             /\ Course!Abs(r) <= Course!Abs(e) + MaxStep
             /\ Course!Abs(Yaw - t) < Half => Course!Abs(e) = Course!Abs(Yaw - t)
        BY <1>0, <2>0, <4>1, TurnsTowards
      <4>3. QED
        BY <4>2 DEF t
    <3>5. Same(heading' - way, r)
      <4>1. Same(heading' - Target', heading' - way)
        BY <1>0, <3>2, <3>3, <3>4, SameSum
      <4> DEFINE x == heading' - way
                 y == heading' - Target'
      <4>2. x \in Int /\ y \in Int /\ Same(y, x) /\ Same(y, r)
        BY <3>2, <3>3, <3>4, <4>1
      <4> HIDE DEF x, y
      <4>3. Same(x, r)
        BY <1>0, <4>2, SameTurned, SameChain
      <4>4. QED
        BY <4>3 DEF x
    <3>6. Course!Angle(heading', way) = Course!Abs(r)
      BY <1>0, <3>2, <3>4, <3>5, AngleIs
    <3>7. Modestate' = Modestate + 1 => Course!Abs(r) < Tol + MaxStep
      BY <1>0, <2>0, <3>1, <3>3, <3>4 DEF Course!Arrived, Course!Abs
    <3>8. Course!LooksWhereMeant'
      <4>1. CASE Modestate' = Modestate
        BY <3>1, <4>1 DEF Course!LooksWhereMeant, Course!Looking, Course!Turning
      <4>2. CASE Modestate' = Modestate + 1
        <5>1. Modestate' - 1 = Modestate
          BY <2>0, <4>2
        <5>2. Course!Angle(heading', yaw_temprary' + Course!Offset[Modestate' - 1])
                < Tol + MaxStep
          BY <3>1, <3>6, <3>7, <4>2, <5>1 DEF way
        <5>3. QED
          BY <5>2 DEF Course!LooksWhereMeant
      <4>3. QED
        BY <3>1, <4>1, <4>2
    <3>9. QED
      BY <2>0, <3>1, <3>3, <3>4, <3>8 DEF HeadingInv, Course!TypeOK
  <2>4. ASSUME NEW free \in BOOLEAN, Course!Look(free)
        PROVE  HeadingInv'
    <3>1. /\ Modestate' \in {0, 3, 5, 7, 9, 11}
          /\ UNCHANGED << heading, Yaw, yaw_temprary, Target >>
      BY <2>4 DEF Course!Look, Course!Looking, Course!Stands
    <3>2. QED
      BY <2>0, <3>1 DEF HeadingInv, Course!TypeOK, Course!LooksWhereMeant, Course!Looking
  <2>5. ASSUME NEW d \in 0 .. 1, NEW over \in BOOLEAN, Course!Straight(d, over)
        PROVE  HeadingInv'
    <3>1. CASE over
      BY <2>0, <2>5, <3>1 DEF Course!Straight, Course!Stands, HeadingInv, Course!TypeOK,
                              Course!LooksWhereMeant, Course!Looking
    <3>2. CASE ~over
      <4>1. /\ Modestate' = 12 /\ Modestate = 12 /\ yaw_temprary' = yaw_temprary
            /\ Target' = yaw_temprary /\ Course!Moves(Course!Out(Target') * d)
        BY <2>5, <3>2 DEF Course!Straight
      <4>2. \A t : Course!Out(t) \in {-1, 0, 1}
        BY DEF Course!Out
      <4>3. \A z \in {-1, 0, 1} : z * d \in Int
        OBVIOUS
      <4>4. Course!Out(Target') * d \in Int
        BY <4>2, <4>3
      <4>5. heading' \in -Half .. Half - 1 /\ Yaw' = heading'
        BY <1>0, <2>0, <4>1, <4>4, ReportIs DEF Course!Moves
      <4>6. QED
        BY <2>0, <4>1, <4>5 DEF HeadingInv, Course!TypeOK, Course!LooksWhereMeant,
                                Course!Looking
    <3>3. QED
      BY <3>1, <3>2
  <2>6. CASE UNCHANGED Course!vars
    BY <2>6 DEF Course!vars, HeadingInv, Course!TypeOK, Course!LooksWhereMeant
  <2>7. QED
    BY <2>1, <2>2, <2>3, <2>4, <2>5, <2>6 DEF Course!Next
<1>3. QED
  BY <1>1, <1>2, PTL DEF Course!Spec

(* When the car stops and looks it faces the direction that was meant, and *)
(* no tick takes it away from its target but past it by at most a step     *)
(* (Finding_obs, Car_Turn), if uart2 is opened: for any size of the        *)
(* circle, of the tolerance and of a step that is not above it.            *)
THEOREM CarTurnsAsMeant == PartsSpec => TurnsAsMeant
<1> USE PartsAssumption DEF Course!HeadingAssumption
<1>1. HeadingInv => Course!TypeOK /\ Course!LooksWhereMeant
  BY DEF HeadingInv
<1>2. HeadingInv /\ [Course!Next]_(Course!vars)
        => [ (Modestate \in Course!Turning) =>
               Course!Angle(heading', Target')
                 <= Course!Max({Course!Angle(heading, Target'), MaxStep}) ]_(Course!vars)
  <2> SUFFICES ASSUME HeadingInv, NEW d \in 0 .. MaxStep, Course!TurnTick(d)
               PROVE  Course!Angle(heading', Target')
                        <= Course!Max({Course!Angle(heading, Target'), MaxStep})
    BY DEF Course!Next, Course!Begin, Course!Depart, Course!Look, Course!Straight,
           Course!Turning, Course!Looking
  <2> DEFINE way == yaw_temprary + Course!Offset[Modestate]
             t == Target'
  <2>0. /\ Half \in Nat \ {0} /\ MaxStep \in 1 .. Half
        /\ Yaw \in -Half .. Half - 1 /\ Yaw = heading
        /\ Modestate \in Course!Turning /\ yaw_temprary \in -Half .. 2 * Half - 1
    BY DEF HeadingInv, Course!TypeOK, Course!TurnTick
  <2>1. way \in -2 * Half .. 3 * Half
    BY <2>0, Offsets
  <2> HIDE DEF way
  <2>2. t = Course!YawChange(way) /\ Course!Moves(Course!Out(t) * d)
    BY DEF Course!TurnTick, way
  <2>3. t \in -Half .. Half
    BY <2>0, <2>1, <2>2, YawChangeIs
  <2> HIDE DEF t
  <2>4. PICK e, r \in -Half .. Half :
           /\ Course!Angle(heading, t) = Course!Abs(e)
           /\ Course!Angle(heading', t) = Course!Abs(r)
           /\ Course!Abs(r) <= Course!Abs(e) \/ Course!Abs(r) <= MaxStep
    BY <2>0, <2>2, <2>3, TurnsTowards
  <2>5. Course!Abs(e) \in Int /\ Course!Abs(r) \in Int /\ MaxStep \in Int
    BY <2>0 DEF Course!Abs
  <2>6. Course!Angle(heading', t) <= Course!Max({Course!Angle(heading, t), MaxStep})
    <3> DEFINE a == Course!Angle(heading, t)
               b == Course!Angle(heading', t)
    <3>1. a \in Int /\ b \in Int /\ MaxStep \in Int /\ (b <= a \/ b <= MaxStep)
      BY <2>4, <2>5
    <3> HIDE DEF a, b
    <3>2. \A z \in Int : Course!Max({a, z}) = IF a <= z THEN z ELSE a
      BY <3>1, TwoOf
    <3>3. b <= Course!Max({a, MaxStep})
      BY <3>1, <3>2
    <3>4. QED
      BY <3>3 DEF a, b
  <2>7. QED
    BY <2>6 DEF t
<1>3. QED
  BY <1>1, <1>2, PartsRun, HeadingInvariant, PTL
     DEF Course!Spec, TurnsAsMeant, Course!TurnsShortWay

-----------------------------------------------------------------------------
(* Fill-light (PWM.c)                                                      *)

(* A call that has found the light on, and whose setting has not changed   *)
(* since, still finds it on.                                               *)
LightInv ==
  /\ Light!TypeOK
  /\ light_pc = "switch" /\ light_steady >= 0 => lightONOFF_flag = 1
  /\ Light!SettlesInTime

LEMMA Brightness ==
  ASSUME Light!LightAssumption
  PROVE  /\ Quarter \in Nat \ {0} /\ Light!Full = 4 * Quarter
         /\ \A t \in Light!Type : Light!Level(t) \in 1 .. Light!Full
BY DEF Light!LightAssumption, Light!Full, Light!Type, Light!Level

LEMMA LightInvariant == Light!Spec => []LightInv
<1>0. /\ Quarter \in Nat \ {0} /\ Light!Full = 4 * Quarter
      /\ \A t \in Light!Type : Light!Level(t) \in 1 .. Light!Full
  BY PartsAssumption, Brightness
<1>1. Light!Init => LightInv
  BY <1>0 DEF Light!Init, LightInv, Light!TypeOK, Light!SettlesInTime, Light!Distance,
              Light!Target, Light!Type
<1>2. LightInv /\ [Light!Next]_(Light!vars) => LightInv'
  <2> SUFFICES ASSUME LightInv, [Light!Next]_(Light!vars)
               PROVE  LightInv'
    OBVIOUS
  <2>0. /\ lightONOFF_flag \in {0, 1} /\ Soil_PlantType \in Light!Type
        /\ duty \in 0 .. Light!Full /\ light_pc \in {"idle", "switch"}
        /\ light_steady \in -1 .. Light!Full
        /\ Light!Target \in 0 .. Light!Full
        /\ Light!Target = IF lightONOFF_flag = 1
                            THEN Light!Level(Soil_PlantType) ELSE 0
        /\ Light!Level(Soil_PlantType) \in 1 .. Light!Full
        /\ Light!Full \in Nat
    BY <1>0 DEF LightInv, Light!TypeOK, Light!Target
  (* The setting changes, and the brightness does not.                     *)
  <2>1. ASSUME /\ lightONOFF_flag' \in {0, 1} /\ Soil_PlantType' \in Light!Type
               /\ UNCHANGED << duty, light_pc >> /\ Light!Changed
        PROVE  LightInv'
    <3>0. Light!Target' = IF lightONOFF_flag' = 1
                            THEN Light!Level(Soil_PlantType') ELSE 0
      BY DEF Light!Target, Light!Level
    <3>1. /\ Light!Target' \in 0 .. Light!Full
          /\ Light!Target' = 0 <=> lightONOFF_flag' # 1
      BY <1>0, <2>1, <3>0
    <3>2. light_steady' = IF Light!Target' = Light!Target THEN light_steady
                          ELSE IF light_pc = "idle" THEN 0 ELSE -1
      BY <2>1 DEF Light!Changed
    <3> DEFINE old == Light!Target
               new == Light!Target'
    <3>3. /\ old \in 0 .. Light!Full /\ new \in 0 .. Light!Full
          /\ light_steady' = IF new = old THEN light_steady
                             ELSE IF light_pc = "idle" THEN 0 ELSE -1
          /\ new = 0 <=> lightONOFF_flag' # 1
          /\ old = 0 <=> lightONOFF_flag # 1
      BY <2>0, <3>1, <3>2
    <3>4. (IF duty < old THEN old - duty ELSE duty - old) <= Light!Full - light_steady
      BY DEF LightInv, Light!SettlesInTime, Light!Distance
    <3> HIDE DEF old, new
    <3>5. (IF duty' < new THEN new - duty' ELSE duty' - new) <= Light!Full - light_steady'
      BY <2>0, <2>1, <3>3, <3>4
    <3>6. light_pc' = "switch" /\ light_steady' >= 0 => lightONOFF_flag' = 1
      BY <2>0, <2>1, <3>3 DEF LightInv
    <3>7. Light!SettlesInTime'
      BY <3>5 DEF new, Light!SettlesInTime, Light!Distance, Light!Full
    <3>8. Light!TypeOK'
      BY <2>0, <2>1, <3>3 DEF Light!TypeOK, Light!Type, Light!Full
    <3>9. QED
      BY <3>6, <3>7, <3>8 DEF LightInv
  <2>2. ASSUME NEW v \in {0, 1}, Light!SetLight(v)
        PROVE  LightInv'
    BY <2>0, <2>1, <2>2 DEF Light!SetLight
  <2>3. ASSUME NEW t \in Light!Type, Light!SetType(t)
        PROVE  LightInv'
    BY <2>0, <2>1, <2>3 DEF Light!SetType
  (* The brightness takes a step, and the setting stays.                   *)
  <2>4. ASSUME NEW target \in 0 .. Light!Full,
               light_steady >= 0 => target = Light!Target,
               Light!LED_PWM(target), Light!Counted, light_pc' = "idle",
               UNCHANGED << lightONOFF_flag, Soil_PlantType >>
        PROVE  LightInv'
    <3>1. Light!Target' = Light!Target
      BY <2>4 DEF Light!Target, Light!Level
    <3> DEFINE aim == Light!Target
    <3>2. (IF duty < aim THEN aim - duty ELSE duty - aim) <= Light!Full - light_steady
      BY DEF LightInv, Light!SettlesInTime, Light!Distance
    <3>3. aim \in 0 .. Light!Full /\ (light_steady >= 0 => target = aim)
      BY <2>0, <2>4
    <3>4. /\ duty' = IF duty < target THEN duty + 1
                     ELSE IF duty > target THEN duty - 1 ELSE duty
          /\ light_steady' = IF light_steady < Light!Full THEN light_steady + 1
                             ELSE Light!Full
      BY <2>4 DEF Light!LED_PWM, Light!Counted
    <3>5. duty' \in 0 .. Light!Full /\ light_steady' \in -1 .. Light!Full
      BY <2>0, <3>4
    <3>6. (IF duty' < aim THEN aim - duty' ELSE duty' - aim) <= Light!Full - light_steady'
      <4> HIDE DEF aim
      <4>1. QED
        BY <2>0, <3>2, <3>3, <3>4, <3>5
    <3>7. Light!SettlesInTime'
      BY <3>1, <3>6 DEF Light!SettlesInTime, Light!Distance, Light!Full
    <3>8. QED
      BY <2>0, <2>4, <3>5, <3>7 DEF LightInv, Light!TypeOK, Light!Full, Light!Type
  <2>5. CASE Light!CallOff
    <3>1. 0 \in 0 .. Light!Full /\ Light!Target = 0
      BY <2>0, <2>5 DEF Light!CallOff
    <3>2. QED
      BY <2>4, <2>5, <3>1 DEF Light!CallOff
  <2>6. CASE Light!CallOn
    BY <2>0, <2>6 DEF Light!CallOn, LightInv, Light!TypeOK, Light!SettlesInTime,
                      Light!Distance, Light!Target, Light!Level, Light!Full, Light!Type
  <2>7. CASE Light!Switch
    <3> DEFINE target == Light!Level(Soil_PlantType)
    <3>1. target \in 0 .. Light!Full /\ (light_steady >= 0 => target = Light!Target)
      BY <2>0, <2>7 DEF Light!Switch, LightInv
    <3>2. Light!LED_PWM(target) /\ Light!Counted /\ light_pc' = "idle"
          /\ UNCHANGED << lightONOFF_flag, Soil_PlantType >>
      BY <2>7 DEF Light!Switch
    <3> HIDE DEF target
    <3>3. QED
      BY <2>4, <3>1, <3>2
  <2>8. CASE UNCHANGED Light!vars
    BY <2>8 DEF Light!vars, LightInv, Light!TypeOK, Light!SettlesInTime, Light!Distance,
                Light!Target, Light!Level
  <2>9. QED
    BY <2>2, <2>3, <2>5, <2>6, <2>7, <2>8 DEF Light!Next, Light!LightContral
<1>3. QED
  BY <1>1, <1>2, PTL DEF Light!Spec

(* Full calls of LightContral after the last change of its setting the     *)
(* light has the brightness of it, also if the change fell into a call     *)
(* (LightContral, LED_PWM): for any brightness.                            *)
THEOREM LightSettles == PartsSpec => [](Light!TypeOK /\ Light!SettlesInTime)
<1>1. LightInv => Light!TypeOK /\ Light!SettlesInTime
  BY DEF LightInv
<1>2. QED
  BY <1>1, PartsRun, LightInvariant, PTL

-----------------------------------------------------------------------------
(* The leaf inspection (Plantleaf_ins): the part of MCParts that is not an *)
(* instance, proved about under Spec and vars.                             *)

(* The calls of Plantleaf_ins whose stepper command has been sent: the     *)
(* counter is already incremented when pc is "act".                        *)
Acted == IF pc = "act" THEN time_cnt - 1 ELSE time_cnt

(* The calls between the one that winds and the one that unwinds.          *)
Winding == WindTick <= Acted /\ Acted < UnwindTick

(* The inductive invariant. circle is tied to the counter, not to the      *)
(* request flag: the commands write the flag and never the counter.        *)
WindingInv ==
  /\ TypeOK
  /\ circle = IF Winding THEN 1 ELSE 0
  /\ Plantleaf_insflag = 0 => ~Winding
  /\ pc = "act" => Plantleaf_insflag = 1
  /\ pc = "clear" => time_cnt = UnwindTick

(* Every variable of the leaf inspection stays within its type, the        *)
(* uint16_t counters wrapping.                                             *)
LEMMA InspectionTypes == Spec => []TypeOK
<1> USE LeafAssumption DEF TypeOK, PCs, LongestWait
<1>1. Init => TypeOK
  BY DEF Init
<1>2. TypeOK /\ [Next]_vars => TypeOK'
  <2> SUFFICES ASSUME TypeOK, [Next]_vars PROVE TypeOK'
    OBVIOUS
  <2>1. CASE LeafCommand
    BY <2>1 DEF LeafCommand
  <2>2. CASE LightCommand
    BY <2>2 DEF LightCommand
  <2>3. CASE TestMode1
    BY <2>3 DEF TestMode1
  <2>4. CASE LoadStart("load1", "store1")
    BY <2>4 DEF LoadStart
  <2>5. CASE StoreStart("store1", "gate")
    BY <2>5 DEF StoreStart, Inc16
  <2>6. CASE TestStart
    BY <2>6 DEF TestStart
  <2>7. CASE CountCall
    BY <2>7 DEF CountCall, Inc16
  <2>8. CASE Act
    BY <2>8 DEF Act
  <2>9. CASE ClearRequest
    BY <2>9 DEF ClearRequest
  <2>10. CASE TestMode2
    BY <2>10 DEF TestMode2
  <2>11. CASE LoadStart("load2", "store2")
    BY <2>11 DEF LoadStart
  <2>12. CASE StoreStart("store2", "sleep")
    BY <2>12 DEF StoreStart, Inc16
  <2>13. CASE UNCHANGED vars
    BY <2>13 DEF vars
  <2> QED
    BY <2>1, <2>2, <2>3, <2>4, <2>5, <2>6, <2>7, <2>8, <2>9, <2>10, <2>11,
       <2>12, <2>13 DEF Next, Command, Sched
<1> QED
  BY <1>1, <1>2, PTL DEF Spec

(* The wound state follows the counter in every reachable state.           *)
LEMMA WindingInvariant == Spec => []WindingInv
<1> USE LeafAssumption DEF WindingInv, Winding, Acted
<1>1. Init => WindingInv
  BY DEF Init, TypeOK, PCs, LongestWait
<1>2. WindingInv /\ TypeOK' /\ [Next]_vars => WindingInv'
  <2> SUFFICES ASSUME WindingInv, TypeOK', [Next]_vars PROVE WindingInv'
    OBVIOUS
  <2> USE DEF TypeOK
  <2>1. CASE Command
    BY <2>1 DEF Command, LeafCommand, LightCommand
  <2>2. CASE TestMode1 \/ TestStart \/ TestMode2
    BY <2>2 DEF TestMode1, TestStart, TestMode2
  <2>3. CASE LoadStart("load1", "store1") \/ LoadStart("load2", "store2")
    BY <2>3 DEF LoadStart
  <2>4. CASE StoreStart("store1", "gate") \/ StoreStart("store2", "sleep")
    BY <2>4 DEF StoreStart
  <2>5. CASE CountCall
    <3>1. CASE Plantleaf_insflag = 1
      <4>1. Acted = time_cnt /\ Acted' = time_cnt' - 1
        BY <2>5, <3>1 DEF CountCall
      <4>2. circle' = circle /\ Plantleaf_insflag' = 1 /\ pc' = "act"
        BY <2>5, <3>1 DEF CountCall
      <4>3. CASE time_cnt = U16Max
        BY <2>5, <3>1, <4>1, <4>2, <4>3 DEF CountCall, Inc16
      <4>4. CASE time_cnt # U16Max
        <5>1. Acted' = Acted
          BY <2>5, <3>1, <4>1, <4>4 DEF CountCall, Inc16
        <5> QED
          BY <4>2, <5>1
      <4> QED
        BY <4>3, <4>4
    <3>2. CASE Plantleaf_insflag = 0
      BY <2>5, <3>2 DEF CountCall
    <3> QED
      BY <3>1, <3>2
  <2>6. CASE Act
    <3>1. CASE time_cnt = WindTick
      BY <2>6, <3>1 DEF Act
    <3>2. CASE time_cnt = UnwindTick
      BY <2>6, <3>2 DEF Act
    <3>3. CASE time_cnt # WindTick /\ time_cnt # UnwindTick
      BY <2>6, <3>3 DEF Act
    <3> QED
      BY <3>1, <3>2, <3>3
  <2>7. CASE ClearRequest
    BY <2>7 DEF ClearRequest
  <2>8. CASE UNCHANGED vars
    BY <2>8 DEF vars
  <2> QED
    BY <2>1, <2>2, <2>3, <2>4, <2>5, <2>6, <2>7, <2>8 DEF Next, Sched
<1> QED
  BY <1>1, <1>2, InspectionTypes, PTL DEF Spec

(* For every order of commands and every value of the delays, the gimbal   *)
(* is never wound twice (BuJinMotor_Circle in Plantleaf_ins).              *)
THEOREM GimbalNeverOverwound == PartsSpec => []NeverOverwound
<1>1. WindingInv => NeverOverwound
  BY DEF WindingInv, NeverOverwound
<1> QED
  BY <1>1, WindingInvariant, PartsRun, PTL

(* A cleared request leaves the gimbal where the inspection found it.      *)
THEOREM GimbalHomeWhenDone == PartsSpec => []HomeWhenDone
<1>1. WindingInv => HomeWhenDone
  BY DEF WindingInv, HomeWhenDone
<1> QED
  BY <1>1, WindingInvariant, PartsRun, PTL

(* How long a request waits. Turn is the number of values of a counter,    *)
(* OpenTicks those of starttime_cnt at which Plantleaf_ins is called.      *)
Turn == U16Max + 1
OpenTicks == Turn - StartDelay

(* The calls of Plantleaf_ins since the one that unwinds, by the counter. *)
SinceUnwind(c) ==
  IF c >= UnwindTick THEN c - UnwindTick ELSE c + Turn - UnwindTick

(* The ticks without a call before starttime_cnt was s, if o with a call   *)
(* were among them.                                                        *)
ClosedTicks(s, o) ==
  IF s < StartDelay
    THEN s + 1 + (IF o < OpenTicks THEN 0 ELSE StartDelay)
    ELSE IF o <= s - StartDelay THEN 0
    ELSE IF o <= s - StartDelay + OpenTicks THEN StartDelay ELSE 2 * StartDelay

Budget(s, o) == o + ClosedTicks(s, o)

(* A request has waited no longer than the calls it has had, and the ticks *)
(* without a call that lie between them.                                   *)
PatienceInv ==
  /\ TypeOK
  /\ waited <= LongestWait
  /\ pc \in {"load2", "store2"} \/ MaixMode_flag = 2 => waited = 0
  /\ Plantleaf_insflag = 0 /\ pc \in {"load1", "store1", "gate", "leaf"} => waited = 0
  /\ Plantleaf_insflag = 1 =>
       LET o == SinceUnwind(time_cnt)
           s == starttime_cnt
       IN /\ pc \in {"sleep", "mode2"} => waited <= Budget(s, o)
          /\ pc = "load1" => waited <= Budget(s, o) + 1
          /\ pc = "store1" => waited <= Budget(reg, o) + 1
          /\ pc = "gate" => waited <= Budget(s, IF s < StartDelay THEN o ELSE o + 1)
          /\ pc = "leaf" => waited <= Budget(s, o + 1)
          /\ pc = "act" /\ time_cnt # UnwindTick => waited <= Budget(s, o)

LEMMA SinceIs ==
  ASSUME NEW c \in 0 .. U16Max
  PROVE  /\ SinceUnwind(c) \in 0 .. U16Max
         /\ Inc16(c) \in 0 .. U16Max
         /\ Inc16(c) # UnwindTick => SinceUnwind(Inc16(c)) = SinceUnwind(c) + 1
BY LeafAssumption DEF SinceUnwind, Inc16, Turn

LEMMA BudgetIs ==
  ASSUME NEW s \in 0 .. U16Max, NEW o \in 0 .. Turn
  PROVE  /\ Budget(s, o) \in Nat
         /\ o <= Budget(s, o) /\ Budget(s, o) <= o + 2 * StartDelay
<1>1. ClosedTicks(s, o) \in Int
      /\ 0 <= ClosedTicks(s, o) /\ ClosedTicks(s, o) <= 2 * StartDelay
  BY LeafAssumption DEF ClosedTicks, OpenTicks, Turn
<1>2. o \in Int
  BY LeafAssumption DEF Turn
<1> HIDE DEF ClosedTicks
<1>3. QED
  BY <1>1, <1>2, LeafAssumption DEF Budget, Turn

(* Each tick that a request waits is one of its calls or one more tick     *)
(* without a call: starttime_cnt has no time to go round twice.            *)
LEMMA BudgetGrows ==
  ASSUME 2 * StartDelay <= U16Max + 1,
         NEW s \in 0 .. U16Max, NEW o \in 0 .. U16Max
  PROVE  LET t == Inc16(s)
         IN  Budget(s, o) + 1 <= Budget(t, IF t < StartDelay THEN o ELSE o + 1)
<1> USE LeafAssumption DEF Budget, ClosedTicks, OpenTicks, Turn
<1>1. CASE s = U16Max
  BY <1>1 DEF Inc16
<1>2. CASE s # U16Max /\ s + 1 < StartDelay
  BY <1>2 DEF Inc16
<1>3. CASE s # U16Max /\ s < StartDelay /\ s + 1 >= StartDelay
  BY <1>3 DEF Inc16
<1>4. CASE s # U16Max /\ s >= StartDelay
  BY <1>4 DEF Inc16
<1>5. QED
  BY <1>1, <1>2, <1>3, <1>4

LEMMA PatienceInvariant ==
  2 * StartDelay <= U16Max + 1 => (Spec => []PatienceInv)
<1> SUFFICES ASSUME 2 * StartDelay <= U16Max + 1 PROVE Spec => []PatienceInv
  OBVIOUS
<1>1. TypeOK =>
        /\ SinceUnwind(time_cnt) \in 0 .. U16Max
        /\ SinceUnwind(time_cnt) + 1 \in 0 .. Turn
        /\ SinceUnwind(time_cnt) \in 0 .. Turn
  BY SinceIs, LeafAssumption DEF TypeOK, Turn
<1>2. Init => PatienceInv
  <2> SUFFICES ASSUME Init PROVE PatienceInv
    OBVIOUS
  <2>1. TypeOK /\ waited = 0 /\ pc = "sleep"
    BY LeafAssumption DEF Init, TypeOK, PCs, LongestWait
  <2>2. Budget(starttime_cnt, SinceUnwind(time_cnt)) \in Nat
    BY <1>1, <2>1, BudgetIs DEF TypeOK
  <2>3. QED
    BY <2>1, <2>2, LeafAssumption DEF PatienceInv, LongestWait
<1>3. PatienceInv /\ TypeOK' /\ [Next]_vars => PatienceInv'
  <2> SUFFICES ASSUME PatienceInv, TypeOK', [Next]_vars PROVE PatienceInv'
    OBVIOUS
  <2> DEFINE o == SinceUnwind(time_cnt)
             s == starttime_cnt
  <2>0. TypeOK
    BY DEF PatienceInv
  <2>1. ASSUME waited' = 0 PROVE PatienceInv'
    <3>1. /\ SinceUnwind(time_cnt') \in 0 .. U16Max
          /\ starttime_cnt' \in 0 .. U16Max /\ reg' \in 0 .. U16Max
      BY SinceIs DEF TypeOK
    <3>2. \A r \in 0 .. U16Max : /\ Budget(r, SinceUnwind(time_cnt')) \in Nat
                                 /\ Budget(r, SinceUnwind(time_cnt') + 1) \in Nat
      BY <3>1, BudgetIs, LeafAssumption DEF Turn
    <3>3. QED
      BY <2>1, <3>1, <3>2, LeafAssumption DEF PatienceInv, LongestWait
  <2>2. CASE Command
    BY <2>1, <2>2 DEF Command, LeafCommand, LightCommand
  <2>3. CASE TestMode1
    <3>1. CASE MaixMode_flag # 1 \/ Plantleaf_insflag # 1
      BY <2>1, <2>3, <3>1 DEF TestMode1
    <3>2. CASE ~(MaixMode_flag # 1 \/ Plantleaf_insflag # 1)
      <4>1. /\ waited <= LongestWait /\ waited' = waited + 1 /\ pc' = "load1"
            /\ waited <= Budget(s, o) /\ Plantleaf_insflag = 1
        BY <2>3, <3>2 DEF TestMode1, PatienceInv
      <4>2. Budget(s, o) \in Nat /\ Budget(s, o) <= o + 2 * StartDelay /\ o \in 0 .. U16Max
        BY <1>1, <2>0, BudgetIs DEF TypeOK
      <4>3. waited' <= Budget(s, o) + 1 /\ waited' <= LongestWait
        BY <2>0, <4>1, <4>2, LeafAssumption DEF TypeOK, LongestWait
      <4>4. QED
        BY <2>0, <2>3, <3>2, <4>1, <4>3 DEF TestMode1, PatienceInv, TypeOK
    <3>3. QED
      BY <3>1, <3>2
  <2>4. CASE LoadStart("load1", "store1")
    BY <2>4 DEF LoadStart, PatienceInv
  <2>5. CASE StoreStart("store1", "gate")
    <3>1. CASE Plantleaf_insflag = 0
      BY <2>1, <2>5, <3>1 DEF StoreStart, PatienceInv
    <3>2. CASE Plantleaf_insflag = 1
      <4> DEFINE t == Inc16(reg)
                 n == IF t < StartDelay THEN o ELSE o + 1
      <4>1. /\ waited <= Budget(reg, o) + 1 /\ waited' = waited /\ starttime_cnt' = t
            /\ time_cnt' = time_cnt /\ pc' = "gate" /\ waited <= LongestWait
            /\ MaixMode_flag' = MaixMode_flag /\ MaixMode_flag = 2 => waited = 0
        BY <2>5, <3>2 DEF StoreStart, PatienceInv
      <4>2. Budget(reg, o) + 1 <= Budget(t, n)
        BY <1>1, <2>0, BudgetGrows DEF TypeOK
      <4>3. Budget(reg, o) \in Nat /\ waited \in Nat
        BY <1>1, <2>0, BudgetIs DEF TypeOK
      <4>4. t \in 0 .. U16Max /\ n \in 0 .. Turn
        BY <1>1, <2>0, SinceIs DEF TypeOK
      <4>5. Budget(t, n) \in Nat
        BY <4>4, BudgetIs
      <4>6. waited' <= Budget(t, n)
        BY <4>1, <4>2, <4>3, <4>5
      <4>7. QED
        BY <4>1, <4>6, <2>5, <3>2 DEF PatienceInv, StoreStart
    <3>3. QED
      BY <2>0, <3>1, <3>2 DEF TypeOK
  <2>6. CASE TestStart
    <3>1. CASE s < StartDelay
      <4>1. pc' = "mode2" /\ pc = "gate"
        BY <2>0, <2>6, <3>1, LeafAssumption DEF TestStart, TypeOK
      <4>2. /\ starttime_cnt' = starttime_cnt /\ time_cnt' = time_cnt /\ waited' = waited
            /\ MaixMode_flag' = MaixMode_flag /\ Plantleaf_insflag' = Plantleaf_insflag
        BY <2>6 DEF TestStart
      <4>3. Plantleaf_insflag = 1 => waited <= Budget(s, o)
        BY <3>1, <4>1 DEF PatienceInv
      <4>4. QED
        BY <4>1, <4>2, <4>3 DEF PatienceInv
    <3>2. CASE ~(s < StartDelay)
      <4>1. pc' = "leaf"
        BY <2>0, <2>6, <3>2, LeafAssumption DEF TestStart, TypeOK
      <4>2. QED
        BY <2>6, <3>2, <4>1 DEF TestStart, PatienceInv
    <3>3. QED
      BY <3>1, <3>2
  <2>7. CASE CountCall
    <3>1. CASE Plantleaf_insflag = 0
      BY <2>1, <2>7, <3>1 DEF CountCall, PatienceInv
    <3>2. CASE Plantleaf_insflag = 1
      <4>1. time_cnt' # UnwindTick => SinceUnwind(time_cnt') = o + 1
        BY <2>0, <2>7, <3>2, SinceIs DEF CountCall, TypeOK
      <4>2. QED
        BY <2>7, <3>2, <4>1 DEF CountCall, PatienceInv
    <3>3. QED
      BY <2>0, <3>1, <3>2 DEF TypeOK
  <2>8. CASE Act
    BY <2>8 DEF Act, PatienceInv
  <2>9. CASE ClearRequest
    BY <2>9 DEF ClearRequest, PatienceInv
  <2>10. CASE TestMode2
    BY <2>10 DEF TestMode2, PatienceInv
  <2>11. CASE LoadStart("load2", "store2")
    BY <2>11 DEF LoadStart, PatienceInv
  <2>12. CASE StoreStart("store2", "sleep")
    BY <2>1, <2>12 DEF StoreStart, PatienceInv
  <2>13. CASE UNCHANGED vars
    BY <2>13 DEF vars, PatienceInv
  <2>14. QED
    BY <2>2, <2>3, <2>4, <2>5, <2>6, <2>7, <2>8, <2>9, <2>10, <2>11, <2>12,
       <2>13 DEF Next, Sched
<1>4. QED
  BY <1>2, <1>3, InspectionTypes, PTL DEF Spec

(* A request that no command disturbs is finished within one wrap of       *)
(* time_cnt and two start delays, if a start delay is at most half a turn  *)
(* of starttime_cnt (300 of 65536 in the code): else starttime_cnt may     *)
(* wrap, and close the gate, once more (Plantleaf_ins, MaixCam_Sport).     *)
THEOREM RequestIsFinished ==
  2 * StartDelay <= U16Max + 1 => (PartsSpec => []CompletionBounded)
<1>1. PatienceInv => CompletionBounded
  BY DEF PatienceInv, CompletionBounded
<1>2. QED
  BY <1>1, PatienceInvariant, PartsRun, PTL
=============================================================================
