---------------------------- MODULE CameraProofs -----------------------------
(***************************************************************************)
(* Proofs about the camera: what its parser returns for a stream of frames *)
(* cut anywhere, that it follows the device's mode (VisionMode), and what  *)
(* becomes its verdict on a leaf (LeafVote). The parser and the weights of *)
(* a vote are recursive functions over sequences; what they return is      *)
(* proved by induction, which is the least element of a set.               *)
(***************************************************************************)
EXTENDS PartsProofs, FiniteSetTheorems, WellFoundedInduction

-----------------------------------------------------------------------------
(* Induction over the natural numbers, of a set                            *)

LessThan == {p \in Nat \X Nat : p[1] < p[2]}

LEMMA Least ==
  ASSUME NEW T, T \subseteq Nat, T # {}
  PROVE  \E m \in T : \A n \in T : m <= n
<1>1. IsWellFoundedOn(LessThan, Nat)
  BY NatLessThanWellFounded DEF OpToRel, LessThan
<1>2. PICK m \in T : \A n \in T : ~(<< n, m >> \in LessThan)
  BY <1>1, WFMin
<1>3. \A n \in Nat : << n, m >> \in LessThan <=> n < m
  BY DEF LessThan
<1>4. ASSUME NEW n \in T PROVE m <= n
  <2>1. n \in Nat /\ m \in Nat /\ ~(n < m)
    BY <1>2, <1>3
  <2>2. QED
    BY <2>1
<1>5. QED
  BY <1>4

LEMMA Induction ==
  ASSUME NEW T, 0 \in T, \A n \in Nat : n \in T => n + 1 \in T
  PROVE  \A n \in Nat : n \in T
<1> SUFFICES ASSUME Nat \ T # {} PROVE FALSE
  OBVIOUS
<1>1. PICK m \in Nat \ T : \A n \in Nat \ T : m <= n
  BY Least
<1>2. m - 1 \in Nat /\ m - 1 \in T
  BY <1>1
<1>3. QED
  BY <1>1, <1>2

-----------------------------------------------------------------------------
(* The camera's mode (usart4.c, green.py)                                  *)

LEMMA FirstIs ==
  ASSUME NEW S, S \subseteq Nat \ {0}
  PROVE  /\ Vision!First(S) = 0 <=> S = {}
         /\ S # {} => Vision!First(S) \in S
         /\ \A n \in S : Vision!First(S) <= n
<1>1. CASE S = {}
  BY <1>1 DEF Vision!First
<1>2. CASE S # {}
  <2>1. \E m \in S : \A n \in S : m <= n
    BY <1>2, Least
  <2>2. Vision!Min(S) \in S /\ \A n \in S : Vision!Min(S) <= n
    BY <2>1 DEF Vision!Min
  <2>3. QED
    BY <1>2, <2>2 DEF Vision!First
<1>3. QED
  BY <1>1, <1>2

(* The next header at or after byte i, and the next end of a frame.        *)
LEMMA HeaderIs ==
  ASSUME NEW b \in Seq(Vision!Byte), NEW i \in Nat \ {0}
  PROVE  LET h == Vision!HeaderFrom(b, i)
         IN /\ h = 0 \/ (h \in i .. Len(b) - 1 /\ b[h] = 164 /\ b[h + 1] = 180)
            /\ \A n \in i .. Len(b) - 1 :
                 (b[n] = 164 /\ b[n + 1] = 180) => h # 0 /\ h <= n
<1> DEFINE S == {n \in i .. Len(b) - 1 : b[n] = 164 /\ b[n + 1] = 180}
<1>1. S \subseteq Nat \ {0}
  OBVIOUS
<1>2. Vision!HeaderFrom(b, i) = Vision!First(S)
  BY DEF Vision!HeaderFrom, Vision!A4, Vision!B4
<1>3. /\ Vision!First(S) = 0 <=> S = {}
      /\ S # {} => Vision!First(S) \in S
      /\ \A n \in S : Vision!First(S) <= n
  <2> HIDE DEF S
  <2>1. QED
    BY <1>1, FirstIs
<1>4. \A n : n \in S <=> n \in i .. Len(b) - 1 /\ b[n] = 164 /\ b[n + 1] = 180
  OBVIOUS
<1> HIDE DEF S
<1> DEFINE h == Vision!HeaderFrom(b, i)
<1>5. h = 0 \/ (h \in i .. Len(b) - 1 /\ b[h] = 164 /\ b[h + 1] = 180)
  BY <1>2, <1>3, <1>4
<1>6. ASSUME NEW n \in i .. Len(b) - 1, b[n] = 164, b[n + 1] = 180
      PROVE  h # 0 /\ h <= n
  <2>1. n \in S
    BY <1>4, <1>6
  <2>2. QED
    BY <1>2, <1>3, <2>1
<1>7. QED
  BY <1>5, <1>6

LEMMA TailIs ==
  ASSUME NEW b \in Seq(Vision!Byte), NEW i \in Nat \ {0}
  PROVE  LET t == Vision!TailFrom(b, i)
         IN /\ t = 0 \/ (t \in i .. Len(b) /\ b[t] = 196)
            /\ \A n \in i .. Len(b) : b[n] = 196 => t # 0 /\ t <= n
<1> DEFINE S == {n \in i .. Len(b) : b[n] = 196}
<1>1. S \subseteq Nat \ {0}
  OBVIOUS
<1>2. Vision!TailFrom(b, i) = Vision!First(S)
  BY DEF Vision!TailFrom, Vision!C4
<1>3. /\ Vision!First(S) = 0 <=> S = {}
      /\ S # {} => Vision!First(S) \in S
      /\ \A n \in S : Vision!First(S) <= n
  <2> HIDE DEF S
  <2>1. QED
    BY <1>1, FirstIs
<1>4. \A n : n \in S <=> n \in i .. Len(b) /\ b[n] = 196
  OBVIOUS
<1> HIDE DEF S
<1>5. QED
  BY <1>2, <1>3, <1>4

(* The turns of the parser's loop, from byte "from" on. *)
Turns(b, f, from) ==
  \A i \in from .. Len(b) + 1 : f[i] = Vision!ParseFrom(b, f, i)

(* A turn looks only at turns that begin after it. *)
LEMMA TurnsForward ==
  ASSUME NEW b \in Seq(Vision!Byte), NEW i \in 1 .. Len(b) + 1, NEW f, NEW g,
         \A n \in i + 1 .. Len(b) + 1 : f[n] = g[n]
  PROVE  Vision!ParseFrom(b, f, i) = Vision!ParseFrom(b, g, i)
<1> DEFINE h == Vision!HeaderFrom(b, i)
           t == Vision!TailFrom(b, h + 2)
<1>0. Len(b) \in Nat /\ i \in Nat \ {0}
  OBVIOUS
<1>1. h = 0 \/ h \in i .. Len(b) - 1
  BY <1>0, HeaderIs
<1> HIDE DEF h
<1>2. h # 0 => (t = 0 \/ t \in h + 2 .. Len(b))
  <2>1. ASSUME h # 0 PROVE h + 2 \in Nat \ {0}
    BY <1>0, <1>1, <2>1
  <2>2. QED
    BY <2>1, TailIs
<1> HIDE DEF t
<1>3. h # 0 /\ t # 0 => f[t + 1] = g[t + 1]
  BY <1>0, <1>1, <1>2
<1>4. QED
  BY <1>3 DEF Vision!ParseFrom, h, t

(* The loop ends. *)
LEMMA ParserRuns ==
  ASSUME NEW b \in Seq(Vision!Byte)
  PROVE  \E f : f = [i \in 1 .. Len(b) + 1 |-> Vision!ParseFrom(b, f, i)]
<1> DEFINE T == {d \in Nat : d <= Len(b) + 1 => \E f : Turns(b, f, Len(b) + 2 - d)}
<1>0. Len(b) \in Nat
  OBVIOUS
<1>1. 0 \in T
  BY <1>0 DEF Turns
<1>2. ASSUME NEW d \in Nat, d \in T PROVE d + 1 \in T
  <2> SUFFICES ASSUME d + 1 <= Len(b) + 1
               PROVE  \E f : Turns(b, f, Len(b) + 2 - (d + 1))
    OBVIOUS
  <2>1. PICK f : Turns(b, f, Len(b) + 2 - d)
    BY <1>0, <1>2
  <2> DEFINE first == Len(b) + 1 - d
             g == [i \in first .. Len(b) + 1 |->
                     IF i = first THEN Vision!ParseFrom(b, f, i) ELSE f[i]]
  <2>2. /\ first \in 1 .. Len(b) + 1 /\ first = Len(b) + 2 - (d + 1)
        /\ first + 1 = Len(b) + 2 - d
    BY <1>0, <1>2
  <2>3. /\ \A i \in first + 1 .. Len(b) + 1 : f[i] = g[i]
        /\ g[first] = Vision!ParseFrom(b, f, first)
    BY <1>0, <2>2
  <2>4. ASSUME NEW i \in first .. Len(b) + 1
        PROVE  g[i] = Vision!ParseFrom(b, g, i)
    <3>1. i \in 1 .. Len(b) + 1
      BY <1>0, <2>2
    <3>2. \A n \in i + 1 .. Len(b) + 1 : f[n] = g[n]
      BY <1>0, <2>2, <2>3
    <3> HIDE DEF g
    <3>3. Vision!ParseFrom(b, f, i) = Vision!ParseFrom(b, g, i)
      BY <3>1, <3>2, TurnsForward
    <3>4. CASE i = first
      BY <2>3, <3>3, <3>4
    <3>5. CASE i # first
      <4>1. i \in first + 1 .. Len(b) + 1
        BY <1>0, <2>2, <3>5
      <4>2. f[i] = Vision!ParseFrom(b, f, i)
        BY <2>1, <2>2, <4>1 DEF Turns
      <4>3. QED
        BY <2>3, <3>3, <4>1, <4>2
    <3>6. QED
      BY <3>4, <3>5
  <2> HIDE DEF g
  <2>5. Turns(b, g, first)
    BY <2>4 DEF Turns
  <2>6. QED
    BY <2>2, <2>5
<1>3. Len(b) + 1 \in T
  <2> HIDE DEF T
  <2>1. \A n \in Nat : n \in T
    BY <1>1, <1>2, Induction
  <2>2. QED
    BY <1>0, <2>1
<1>4. PICK f : Turns(b, f, 1)
  <2>1. Len(b) + 2 - (Len(b) + 1) = 1
    BY <1>0
  <2>2. QED
    BY <1>0, <1>3, <2>1
<1> DEFINE g == [i \in 1 .. Len(b) + 1 |-> f[i]]
<1>5. ASSUME NEW i \in 1 .. Len(b) + 1
      PROVE  g[i] = Vision!ParseFrom(b, g, i)
  <2>1. \A n \in i + 1 .. Len(b) + 1 : f[n] = g[n]
    BY <1>0
  <2>2. g[i] = Vision!ParseFrom(b, f, i)
    BY <1>4 DEF Turns
  <2> HIDE DEF g
  <2>3. QED
    BY <2>1, <2>2, TurnsForward
<1>6. g = [i \in 1 .. Len(b) + 1 |-> Vision!ParseFrom(b, g, i)]
  <2>1. \A i \in 1 .. Len(b) + 1 : f[i] = Vision!ParseFrom(b, g, i)
    BY <1>5
  <2> DEFINE p(i) == Vision!ParseFrom(b, g, i)
  <2> HIDE DEF p
  <2>2. \A i \in 1 .. Len(b) + 1 : f[i] = p(i)
    BY <2>1 DEF p
  <2>3. g = [i \in 1 .. Len(b) + 1 |-> p(i)]
    BY <2>2
  <2>4. QED
    BY <2>3 DEF p
<1> HIDE DEF g
<1>7. QED
  BY <1>6

(* So what _parse_mode_buffer returns is what its first turn finds. *)
LEMMA ParserReturns ==
  ASSUME NEW b \in Seq(Vision!Byte)
  PROVE  \E f : Turns(b, f, 1) /\ Vision!ParseModeBuffer(b) = f[1]
<1> DEFINE f == CHOOSE f : f = [i \in 1 .. Len(b) + 1 |-> Vision!ParseFrom(b, f, i)]
<1>1. Vision!ParseModeBuffer(b) = f[1]
  BY DEF Vision!ParseModeBuffer
<1>2. f = [i \in 1 .. Len(b) + 1 |-> Vision!ParseFrom(b, f, i)]
  BY ParserRuns
<1> HIDE DEF f
<1>3. Turns(b, f, 1)
  BY <1>2 DEF Turns
<1>4. QED
  BY <1>1, <1>3

(* What the parser keeps is no longer than what it got, and every code it  *)
(* finds took four bytes.                                                  *)
Parsed(b, i, r) ==
  /\ r.buf \in Seq(Vision!Byte) /\ Len(r.buf) <= Len(b)
  /\ r.queue \in Seq(Vision!Mode) /\ 4 * Len(r.queue) <= Len(b) + 1 - i
  /\ r = [buf |-> r.buf, queue |-> r.queue]

LEMMA SuffixIs ==
  ASSUME NEW S, NEW b \in Seq(S), NEW n \in 0 .. Len(b)
  PROVE  /\ Vision!Suffix(b, n) \in Seq(S) /\ Len(Vision!Suffix(b, n)) = n
         /\ \A j \in 1 .. n : Vision!Suffix(b, n)[j] = b[Len(b) - n + j]
<1>1. Len(b) \in Nat /\ \A j \in Len(b) - n + 1 .. Len(b) : b[j] \in S
  OBVIOUS
<1>2. Vision!Suffix(b, n) = SubSeq(b, Len(b) - n + 1, Len(b))
  BY DEF Vision!Suffix
<1>3. /\ SubSeq(b, Len(b) - n + 1, Len(b)) \in Seq(S)
      /\ Len(SubSeq(b, Len(b) - n + 1, Len(b)))
           = IF Len(b) - n + 1 <= Len(b) THEN Len(b) - (Len(b) - n + 1) + 1 ELSE 0
      /\ \A j \in 1 .. Len(b) - (Len(b) - n + 1) + 1 :
           SubSeq(b, Len(b) - n + 1, Len(b))[j] = b[Len(b) - n + 1 + j - 1]
  BY <1>1, SubSeqProperties
<1>4. QED
  BY <1>1, <1>2, <1>3

(* One turn of the loop, by cases. *)
LEMMA TurnIs ==
  ASSUME NEW b \in Seq(Vision!Byte), NEW i \in 1 .. Len(b) + 1, NEW f,
         \A n \in i + 1 .. Len(b) + 1 : Parsed(b, n, f[n])
  PROVE  LET h == Vision!HeaderFrom(b, i)
             t == Vision!TailFrom(b, h + 2)
             r == Vision!ParseFrom(b, f, i)
         IN /\ h = 0 => r = [buf |-> Vision!Suffix(b, IF i <= Len(b) THEN 1 ELSE 0),
                             queue |-> << >>]
            /\ h # 0 /\ t = 0 => r = [buf |-> SubSeq(b, h, Len(b)), queue |-> << >>]
            /\ h # 0 /\ t # 0 =>
                 /\ h \in i .. Len(b) - 1 /\ t \in h + 2 .. Len(b)
                 /\ r = [buf |-> f[t + 1].buf,
                         queue |-> Vision!Code(b, h, t) \o f[t + 1].queue]
<1> DEFINE h == Vision!HeaderFrom(b, i)
           t == Vision!TailFrom(b, h + 2)
           r == Vision!ParseFrom(b, f, i)
<1>0. Len(b) \in Nat /\ i \in Nat \ {0}
  OBVIOUS
<1>1. h = 0 \/ h \in i .. Len(b) - 1
  BY <1>0, HeaderIs
<1>2. r = IF h = 0
            THEN [buf |-> Vision!Suffix(b, IF i <= Len(b) THEN 1 ELSE 0),
                  queue |-> << >>]
          ELSE IF t = 0
            THEN [buf |-> SubSeq(b, h, Len(b)), queue |-> << >>]
          ELSE [f[t + 1] EXCEPT !.queue = Vision!Code(b, h, t) \o @]
  BY DEF Vision!ParseFrom
<1>3. ASSUME h # 0, t # 0 PROVE t \in h + 2 .. Len(b)
  <2> HIDE DEF h
  <2>1. h + 2 \in Nat \ {0}
    BY <1>0, <1>1, <1>3
  <2>2. QED
    BY <1>3, <2>1, TailIs
<1> HIDE DEF h, t, r
<1>4. ASSUME h # 0, t # 0
      PROVE  /\ h \in i .. Len(b) - 1 /\ t \in h + 2 .. Len(b)
             /\ r = [buf |-> f[t + 1].buf,
                     queue |-> Vision!Code(b, h, t) \o f[t + 1].queue]
  <2>1. h \in i .. Len(b) - 1 /\ t \in h + 2 .. Len(b) /\ t + 1 \in i + 1 .. Len(b) + 1
    BY <1>0, <1>1, <1>3, <1>4
  <2>2. f[t + 1] = [buf |-> f[t + 1].buf, queue |-> f[t + 1].queue]
    BY <2>1 DEF Parsed
  <2>3. r = [f[t + 1] EXCEPT !.queue = Vision!Code(b, h, t) \o @]
    BY <1>2, <1>4
  <2>4. r = [buf |-> f[t + 1].buf, queue |-> Vision!Code(b, h, t) \o f[t + 1].queue]
    BY <2>2, <2>3
  <2>5. QED
    BY <2>1, <2>4
<1>5. QED
  BY <1>2, <1>4 DEF h, t, r

LEMMA TurnParsed ==
  ASSUME NEW b \in Seq(Vision!Byte), NEW i \in 1 .. Len(b) + 1, NEW f,
         \A n \in i + 1 .. Len(b) + 1 : Parsed(b, n, f[n])
  PROVE  Parsed(b, i, Vision!ParseFrom(b, f, i))
<1> DEFINE h == Vision!HeaderFrom(b, i)
           t == Vision!TailFrom(b, h + 2)
           r == Vision!ParseFrom(b, f, i)
<1>0. Len(b) \in Nat /\ i \in Nat \ {0}
  OBVIOUS
<1>1. /\ h = 0 => r = [buf |-> Vision!Suffix(b, IF i <= Len(b) THEN 1 ELSE 0),
                       queue |-> << >>]
      /\ h # 0 /\ t = 0 => r = [buf |-> SubSeq(b, h, Len(b)), queue |-> << >>]
      /\ h # 0 /\ t # 0 =>
           /\ h \in i .. Len(b) - 1 /\ t \in h + 2 .. Len(b)
           /\ r = [buf |-> f[t + 1].buf,
                   queue |-> Vision!Code(b, h, t) \o f[t + 1].queue]
  BY TurnIs
<1>2. h = 0 \/ h \in i .. Len(b) - 1
  BY <1>0, HeaderIs
<1>3. << >> \in Seq(Vision!Mode) /\ Len(<< >>) = 0
  BY EmptySeq
<1> SUFFICES Parsed(b, i, r)
  OBVIOUS
<1> HIDE DEF h, t, r
<1>4. CASE h = 0
  <2> DEFINE n == IF i <= Len(b) THEN 1 ELSE 0
  <2>1. n \in 0 .. Len(b)
    BY <1>0
  <2> HIDE DEF n
  <2>2. /\ Vision!Suffix(b, n) \in Seq(Vision!Byte)
        /\ Len(Vision!Suffix(b, n)) <= Len(b)
    BY <1>0, <2>1, SuffixIs
  <2>3. r = [buf |-> Vision!Suffix(b, n), queue |-> << >>]
    BY <1>1, <1>4 DEF n
  <2>4. QED
    BY <1>0, <1>3, <2>2, <2>3 DEF Parsed
<1>5. CASE h # 0 /\ t = 0
  <2>1. \A j \in h .. Len(b) : b[j] \in Vision!Byte
    BY <1>0, <1>2, <1>5
  <2> DEFINE rest == SubSeq(b, h, Len(b))
  <2>2. rest \in Seq(Vision!Byte) /\ Len(rest) <= Len(b)
    BY <1>0, <1>2, <1>5, <2>1, SubSeqProperties
  <2>3. r = [buf |-> rest, queue |-> << >>]
    BY <1>1, <1>5
  <2> HIDE DEF rest
  <2>4. QED
    BY <1>0, <1>3, <2>2, <2>3 DEF Parsed
<1>6. CASE h # 0 /\ t # 0
  <2> DEFINE c == Vision!Code(b, h, t)
             q == f[t + 1].queue
  <2>1. /\ h \in i .. Len(b) - 1 /\ t \in h + 2 .. Len(b) /\ t + 1 \in i + 1 .. Len(b) + 1
        /\ r = [buf |-> f[t + 1].buf, queue |-> c \o q]
    BY <1>0, <1>1, <1>2, <1>6
  <2>2. Parsed(b, t + 1, f[t + 1])
    BY <2>1
  <2>3. /\ c \in Seq(Vision!Mode) /\ Len(c) \in 0 .. 1
        /\ Len(c) = 1 => t = h + 3
    <3>1. CASE t = h + 3 /\ b[h + 2] \in Vision!Mode
      <4>1. c = << b[h + 2] >>
        BY <3>1 DEF Vision!Code
      <4> HIDE DEF c
      <4>2. QED
        BY <3>1, <4>1
    <3>2. CASE ~(t = h + 3 /\ b[h + 2] \in Vision!Mode)
      <4>1. c = << >>
        BY <3>2 DEF Vision!Code
      <4>2. QED
        BY <1>3, <4>1
    <3>3. QED
      BY <3>1, <3>2
  <2>4. q \in Seq(Vision!Mode) /\ 4 * Len(q) <= Len(b) - t /\ Len(q) \in Nat
    BY <1>0, <2>1, <2>2 DEF Parsed
  <2>5. c \o q \in Seq(Vision!Mode) /\ Len(c \o q) = Len(c) + Len(q)
    BY <2>3, <2>4, ConcatProperties
  <2> HIDE DEF c, q
  <2>6. 4 * Len(c \o q) <= Len(b) + 1 - i
    BY <1>0, <2>1, <2>3, <2>4, <2>5
  <2>7. QED
    BY <2>1, <2>2, <2>5, <2>6 DEF Parsed
<1>7. QED
  BY <1>4, <1>5, <1>6

LEMMA AllParsed ==
  ASSUME NEW b \in Seq(Vision!Byte), NEW f, Turns(b, f, 1)
  PROVE  \A i \in 1 .. Len(b) + 1 : Parsed(b, i, f[i])
<1> DEFINE T == {d \in Nat : \A i \in 1 .. Len(b) + 1 :
                   i >= Len(b) + 2 - d => Parsed(b, i, f[i])}
<1>0. Len(b) \in Nat
  OBVIOUS
<1>1. 0 \in T
  BY <1>0
<1>2. ASSUME NEW d \in Nat, d \in T PROVE d + 1 \in T
  <2>1. ASSUME NEW i \in 1 .. Len(b) + 1, i >= Len(b) + 2 - (d + 1)
        PROVE  Parsed(b, i, f[i])
    <3>1. \A n \in i + 1 .. Len(b) + 1 : Parsed(b, n, f[n])
      BY <1>0, <1>2, <2>1
    <3>2. f[i] = Vision!ParseFrom(b, f, i)
      BY DEF Turns
    <3>3. QED
      BY <3>1, <3>2, TurnParsed
  <2>2. QED
    BY <2>1
<1>3. ASSUME NEW i \in 1 .. Len(b) + 1 PROVE Parsed(b, i, f[i])
  <2>1. Len(b) + 1 \in T
    <3> HIDE DEF T
    <3>1. \A n \in Nat : n \in T
      BY <1>1, <1>2, Induction
    <3>2. QED
      BY <1>0, <3>1
  <2>2. QED
    BY <1>0, <2>1
<1>4. QED
  BY <1>3

(* Bytes of whole frames, from the one after the o-th of such a stream on. *)
FrameByte(p, x) ==
  /\ p % 4 = 1 => x = 164
  /\ p % 4 = 2 => x = 180
  /\ p % 4 = 3 => x \in {1, 2}
  /\ p % 4 = 0 => x = 196
Framed(s, o) == \A j \in 1 .. Len(s) : FrameByte(o + j, s[j])

(* A turn that begins with a frame leaves what comes after the last whole  *)
(* frame, and the code of that frame comes last.                           *)
Unfinished(b, o) == (o + Len(b)) % 4
InFrame(b, o, i, r) ==
  /\ r.buf = Vision!Suffix(b, Unfinished(b, o))
  /\ Unfinished(b, o) <= Len(b) + 1 - i
  /\ i + 4 <= Len(b) + 1 =>
       Len(r.queue) > 0 /\ r.queue[Len(r.queue)] = b[Len(b) - Unfinished(b, o) - 1]

LEMMA ByteClass ==
  ASSUME NEW p \in Nat, NEW x, FrameByte(p, x)
  PROVE  /\ p % 4 \in 0 .. 3
         /\ x = 164 => p % 4 = 1
         /\ x = 196 => p % 4 = 0
BY DEF FrameByte

LEMMA AlignedTurn ==
  ASSUME NEW b \in Seq(Vision!Byte), NEW o \in Nat, Framed(b, o),
         NEW i \in 1 .. Len(b) + 1, (o + i) % 4 = 1, NEW f,
         \A n \in i + 1 .. Len(b) + 1 : Parsed(b, n, f[n]),
         i + 4 <= Len(b) + 1 => InFrame(b, o, i + 4, f[i + 4])
  PROVE  InFrame(b, o, i, Vision!ParseFrom(b, f, i))
<1> DEFINE h == Vision!HeaderFrom(b, i)
           t == Vision!TailFrom(b, h + 2)
           r == Vision!ParseFrom(b, f, i)
           m == Len(b) + 1 - i
           e == Unfinished(b, o)
<1>0. Len(b) \in Nat /\ i \in Nat \ {0} /\ m \in Nat
  OBVIOUS
<1>1. /\ h = 0 => r = [buf |-> Vision!Suffix(b, IF i <= Len(b) THEN 1 ELSE 0),
                       queue |-> << >>]
      /\ h # 0 /\ t = 0 => r = [buf |-> SubSeq(b, h, Len(b)), queue |-> << >>]
      /\ h # 0 /\ t # 0 =>
           /\ h \in i .. Len(b) - 1 /\ t \in h + 2 .. Len(b)
           /\ r = [buf |-> f[t + 1].buf,
                   queue |-> Vision!Code(b, h, t) \o f[t + 1].queue]
  BY TurnIs
<1>2. /\ h = 0 \/ (h \in i .. Len(b) - 1)
      /\ \A n \in i .. Len(b) - 1 :
           (b[n] = 164 /\ b[n + 1] = 180) => h # 0 /\ h <= n
  BY <1>0, HeaderIs
<1>3. e = m % 4 /\ e \in 0 .. 3
  BY <1>0 DEF Unfinished
<1>4. \A n \in i .. Len(b) : FrameByte(o + n, b[n])
  BY <1>0 DEF Framed
<1> SUFFICES InFrame(b, o, i, r)
  OBVIOUS
<1> HIDE DEF h, t, r
<1>5. CASE m <= 1
  <2>1. h = 0
    BY <1>0, <1>2, <1>5
  <2>2. e = IF i <= Len(b) THEN 1 ELSE 0
    BY <1>0, <1>3, <1>5
  <2>3. r.buf = Vision!Suffix(b, e)
    BY <1>1, <2>1, <2>2
  <2>4. QED
    BY <1>0, <1>3, <1>5, <2>2, <2>3 DEF InFrame
<1>6. CASE m >= 2
  <2>1. b[i] = 164 /\ b[i + 1] = 180
    <3>1. FrameByte(o + i, b[i]) /\ FrameByte(o + (i + 1), b[i + 1])
      BY <1>0, <1>4, <1>6
    <3>2. (o + i) % 4 = 1 /\ (o + (i + 1)) % 4 = 2
      BY <1>0
    <3>3. QED
      BY <3>1, <3>2 DEF FrameByte
  <2>2. h = i
    <3>1. i \in i .. Len(b) - 1
      BY <1>0, <1>6
    <3>2. QED
      BY <1>0, <1>2, <2>1, <3>1
  <2>3. m >= 3 => b[i + 2] \in {1, 2}
    <3>1. SUFFICES ASSUME m >= 3 PROVE b[i + 2] \in {1, 2}
      OBVIOUS
    <3>2. FrameByte(o + (i + 2), b[i + 2]) /\ (o + (i + 2)) % 4 = 3
      BY <1>0, <1>4, <3>1
    <3>3. QED
      BY <3>2 DEF FrameByte
  <2>4. /\ t = 0 \/ (t \in i + 2 .. Len(b) /\ b[t] = 196)
        /\ \A n \in i + 2 .. Len(b) : b[n] = 196 => t # 0 /\ t <= n
    <3>1. i + 2 \in Nat \ {0} /\ t = Vision!TailFrom(b, i + 2)
      BY <1>0, <2>2 DEF t
    <3>2. QED
      BY <3>1, TailIs
  <2>5. CASE m <= 3
    <3>1. t = 0
      <4>1. ASSUME t # 0 PROVE FALSE
        <5>1. t = i + 2 /\ m >= 3 /\ b[t] = 196
          BY <1>0, <2>4, <2>5, <4>1
        <5>2. QED
          BY <2>3, <5>1
      <4>2. QED
        BY <4>1
    <3>2. e = m /\ i = Len(b) - e + 1
      BY <1>0, <1>3, <1>6, <2>5
    <3>3. r.buf = Vision!Suffix(b, e)
      BY <1>0, <1>1, <2>2, <3>1, <3>2 DEF Vision!Suffix
    <3>4. QED
      BY <1>0, <1>3, <2>5, <3>2, <3>3 DEF InFrame
  <2>6. CASE m >= 4
    <3>1. t = i + 3
      <4>1. FrameByte(o + (i + 3), b[i + 3]) /\ (o + (i + 3)) % 4 = 0 /\ i + 3 \in i + 2 .. Len(b)
        BY <1>0, <1>4, <2>6
      <4>2. t # 0 /\ t <= i + 3
        BY <2>4, <4>1 DEF FrameByte
      <4>3. t # i + 2
        <5>1. b[t] = 196
          BY <2>4, <4>2
        <5>2. QED
          BY <2>3, <2>6, <5>1, <1>0
      <4>4. QED
        BY <1>0, <2>4, <4>2, <4>3
    <3> DEFINE q == f[i + 4].queue
               c == b[i + 2]
    <3>2. t + 1 = i + 4 /\ i + 4 \in i + 1 .. Len(b) + 1 /\ i + 4 <= Len(b) + 1
      BY <1>0, <2>6, <3>1
    <3>3. Parsed(b, i + 4, f[i + 4]) /\ InFrame(b, o, i + 4, f[i + 4])
      BY <3>2
    <3>4. c \in Vision!Mode /\ Vision!Code(b, h, t) = << c >>
      BY <1>0, <2>2, <2>3, <2>6, <3>1 DEF Vision!Code, Vision!Mode
    <3>5. h # 0 /\ t # 0
      BY <1>0, <2>2, <3>1
    <3>6. r = [buf |-> f[i + 4].buf, queue |-> << c >> \o q]
      BY <1>1, <3>2, <3>4, <3>5
    <3>7. /\ q \in Seq(Vision!Mode) /\ Len(q) \in Nat /\ 4 * Len(q) <= m - 4
          /\ e <= m - 4 /\ f[i + 4].buf = Vision!Suffix(b, e)
          /\ m >= 8 => Len(q) > 0 /\ q[Len(q)] = b[Len(b) - e - 1]
      BY <1>0, <3>3 DEF Parsed, InFrame
    <3> HIDE DEF q, c
    <3>8. << c >> \in Seq(Vision!Mode) /\ Len(<< c >>) = 1 /\ << c >>[1] = c
      BY <3>4
    <3>9. /\ Len(<< c >> \o q) = 1 + Len(q)
          /\ \A n \in 1 .. 1 + Len(q) :
               (<< c >> \o q)[n] = IF n <= 1 THEN << c >>[n] ELSE q[n - 1]
      BY <3>7, <3>8, ConcatProperties
    <3>10. (<< c >> \o q)[1 + Len(q)] = b[Len(b) - e - 1]
      <4>1. CASE m >= 8
        <5>1. Len(q) > 0 /\ 1 + Len(q) \in 1 .. 1 + Len(q) /\ ~(1 + Len(q) <= 1)
              /\ (1 + Len(q)) - 1 = Len(q)
          BY <3>7, <4>1
        <5>2. (<< c >> \o q)[1 + Len(q)] = q[Len(q)]
          BY <3>9, <5>1
        <5>3. QED
          BY <3>7, <4>1, <5>2
      <4>2. CASE m < 8
        <5>1. Len(q) = 0
          BY <1>0, <3>7, <4>2
        <5>2. Len(b) - e - 1 = i + 2
          BY <1>0, <1>3, <2>6, <4>2
        <5>3. (<< c >> \o q)[1] = c
          BY <3>8, <3>9, <5>1
        <5>4. QED
          BY <5>1, <5>2, <5>3 DEF c
      <4>3. QED
        BY <1>0, <4>1, <4>2
    <3> DEFINE z == << c >> \o q
    <3>11. r.buf = Vision!Suffix(b, e) /\ r.queue = z
      BY <3>6, <3>7
    <3>12. Len(z) = 1 + Len(q) /\ z[1 + Len(q)] = b[Len(b) - e - 1]
      BY <3>9, <3>10
    <3> HIDE DEF z
    <3>13. Len(z) > 0 /\ z[Len(z)] = b[Len(b) - e - 1]
      BY <3>7, <3>12
    <3>14. e <= m
      BY <1>0, <1>3, <2>6
    <3>15. QED
      BY <3>11, <3>13, <3>14 DEF InFrame
  <2>7. QED
    BY <1>0, <2>5, <2>6
<1>7. QED
  BY <1>0, <1>5, <1>6

LEMMA AllAligned ==
  ASSUME NEW b \in Seq(Vision!Byte), NEW o \in Nat, Framed(b, o), NEW f, Turns(b, f, 1)
  PROVE  \A i \in 1 .. Len(b) + 1 : (o + i) % 4 = 1 => InFrame(b, o, i, f[i])
<1> DEFINE T == {d \in Nat : \A i \in 1 .. Len(b) + 1 :
                   i >= Len(b) + 2 - d /\ (o + i) % 4 = 1 => InFrame(b, o, i, f[i])}
<1>0. Len(b) \in Nat
  OBVIOUS
<1>1. 0 \in T
  BY <1>0
<1>2. ASSUME NEW d \in Nat, d \in T PROVE d + 1 \in T
  <2>1. ASSUME NEW i \in 1 .. Len(b) + 1, i >= Len(b) + 2 - (d + 1), (o + i) % 4 = 1
        PROVE  InFrame(b, o, i, f[i])
    <3>1. \A n \in i + 1 .. Len(b) + 1 : Parsed(b, n, f[n])
      BY <1>0, AllParsed
    <3>2. i + 4 <= Len(b) + 1 => InFrame(b, o, i + 4, f[i + 4])
      <4>1. (o + (i + 4)) % 4 = 1
        BY <2>1
      <4>2. QED
        BY <1>0, <1>2, <2>1, <4>1
    <3>3. f[i] = Vision!ParseFrom(b, f, i)
      BY DEF Turns
    <3>4. QED
      BY <2>1, <3>1, <3>2, <3>3, AlignedTurn
  <2>2. QED
    BY <2>1
<1>3. Len(b) + 1 \in T
  <2> HIDE DEF T
  <2>1. \A n \in Nat : n \in T
    BY <1>1, <1>2, Induction
  <2>2. QED
    BY <1>0, <2>1
<1>4. QED
  BY <1>0, <1>3

(* What _parse_mode_buffer makes of a stream of frames that begins         *)
(* anywhere, within a frame of which a part was cut off too: it finds the  *)
(* next frame, leaves the bytes after the last whole one, and the last     *)
(* code it finds is that frame's.                                          *)
THEOREM ParserFindsFrames ==
  ASSUME NEW b \in Seq(Vision!Byte), NEW o \in Nat, Framed(b, o),
         o % 4 = 0 \/ Len(b) >= 4
  PROVE  LET r == Vision!ParseModeBuffer(b)
             e == Unfinished(b, o)
         IN /\ Parsed(b, 1, r) /\ e <= Len(b) /\ r.buf = Vision!Suffix(b, e)
            /\ e = 0 /\ Len(b) >= 4 =>
                 Len(r.queue) > 0 /\ r.queue[Len(r.queue)] = b[Len(b) - 1]
<1> DEFINE r == Vision!ParseModeBuffer(b)
           e == Unfinished(b, o)
           h == Vision!HeaderFrom(b, 1)
<1>0. Len(b) \in Nat
  OBVIOUS
<1>1. PICK f : Turns(b, f, 1) /\ r = f[1]
  BY ParserReturns
<1>2. Parsed(b, 1, r)
  BY <1>0, <1>1, AllParsed
<1>3. e = (o + Len(b)) % 4 /\ e \in 0 .. 3
  BY <1>0 DEF Unfinished
<1>4. \A i \in 1 .. Len(b) + 1 : (o + i) % 4 = 1 => InFrame(b, o, i, f[i])
  BY <1>1, AllAligned
<1>5. /\ h = 0 \/ (h \in 1 .. Len(b) - 1 /\ b[h] = 164)
      /\ \A n \in 1 .. Len(b) - 1 :
           (b[n] = 164 /\ b[n + 1] = 180) => h # 0 /\ h <= n
  BY HeaderIs
<1> SUFFICES /\ e <= Len(b) /\ r.buf = Vision!Suffix(b, e)
             /\ e = 0 /\ Len(b) >= 4 =>
                  Len(r.queue) > 0 /\ r.queue[Len(r.queue)] = b[Len(b) - 1]
  BY <1>2
<1> HIDE DEF r, e
<1>6. CASE o % 4 = 0
  <2>1. (o + 1) % 4 = 1 /\ 1 \in 1 .. Len(b) + 1
    BY <1>0, <1>6
  <2>2. InFrame(b, o, 1, r)
    BY <1>1, <1>4, <2>1
  <2>3. QED
    BY <1>0, <1>3, <2>2 DEF InFrame, e
<1>7. CASE o % 4 # 0 /\ Len(b) >= 4
  <2> DEFINE j == 5 - (o % 4)
  <2>1. j \in 2 .. 4 /\ (o + j) % 4 = 1 /\ j \in 1 .. Len(b) + 1
    BY <1>0, <1>7
  <2>2. \A n \in 1 .. j - 1 : (o + n) % 4 # 1
    BY <1>7
  <2> HIDE DEF j
  <2>3. h # 0 => h >= j
    <3>1. SUFFICES ASSUME h # 0 PROVE h >= j
      OBVIOUS
    <3>2. h \in 1 .. Len(b) - 1 /\ b[h] = 164
      BY <1>5, <3>1
    <3>3. FrameByte(o + h, b[h]) /\ o + h \in Nat
      BY <1>0, <3>2 DEF Framed
    <3>4. (o + h) % 4 = 1
      BY <3>2, <3>3, ByteClass
    <3>5. QED
      BY <1>0, <2>1, <2>2, <3>2, <3>4
  <2>4. CASE j + 1 <= Len(b)
    <3>1. b[j] = 164 /\ b[j + 1] = 180
      <4>1. FrameByte(o + j, b[j]) /\ FrameByte(o + (j + 1), b[j + 1])
        BY <1>0, <2>1, <2>4 DEF Framed
      <4>2. (o + (j + 1)) % 4 = 2
        BY <2>1
      <4>3. QED
        BY <2>1, <4>1, <4>2 DEF FrameByte
    <3>2. h = j
      BY <1>0, <1>5, <2>1, <2>3, <2>4, <3>1
    <3>3. Vision!HeaderFrom(b, j) = j
      <4>1. /\ Vision!HeaderFrom(b, j) = 0 \/ Vision!HeaderFrom(b, j) \in j .. Len(b) - 1
            /\ \A n \in j .. Len(b) - 1 :
                 (b[n] = 164 /\ b[n + 1] = 180)
                   => Vision!HeaderFrom(b, j) # 0 /\ Vision!HeaderFrom(b, j) <= n
        BY <2>1, HeaderIs
      <4>2. QED
        BY <1>0, <2>1, <2>4, <3>1, <4>1
    <3>4. Vision!ParseFrom(b, f, 1) = Vision!ParseFrom(b, f, j)
      <4> DEFINE t == Vision!TailFrom(b, j + 2)
                 more == [f[t + 1] EXCEPT !.queue = Vision!Code(b, j, t) \o @]
      <4>1. j # 0 /\ Vision!HeaderFrom(b, 1) = j
        BY <2>1, <3>2
      <4>2. Vision!ParseFrom(b, f, 1)
              = IF t = 0 THEN [buf |-> SubSeq(b, j, Len(b)), queue |-> << >>] ELSE more
        BY ONLY <4>1 DEF Vision!ParseFrom
      <4>3. Vision!ParseFrom(b, f, j)
              = IF t = 0 THEN [buf |-> SubSeq(b, j, Len(b)), queue |-> << >>] ELSE more
        BY ONLY <3>3, <4>1 DEF Vision!ParseFrom
      <4> HIDE DEF t, more
      <4>4. QED
        BY <4>2, <4>3
    <3>5. r = f[j]
      BY <1>0, <1>1, <2>1, <3>4 DEF Turns
    <3>6. InFrame(b, o, j, r)
      BY <1>4, <2>1, <3>5
    <3>7. e = 0 => j + 4 <= Len(b) + 1
      BY <1>0, <1>3, <2>1, <2>4
    <3>8. QED
      BY <1>0, <1>3, <2>1, <3>6, <3>7 DEF InFrame, e
  <2>5. CASE ~(j + 1 <= Len(b))
    <3>1. Len(b) = 4 /\ j = 4 /\ e = 1
      <4>1. Len(b) >= 4 /\ Len(b) \in Nat /\ j \in {2, 3, 4} /\ ~(j + 1 <= Len(b))
        BY <1>0, <1>7, <2>1, <2>5
      <4>2. \A n, i \in Nat : n >= 4 /\ i <= 4 /\ ~(i + 1 <= n) => n = 4 /\ i = 4
        OBVIOUS
      <4>3. j \in Nat /\ j <= 4
        BY <4>1
      <4>4. Len(b) = 4 /\ j = 4
        BY <4>1, <4>2, <4>3
      <4>5. QED
        BY <1>3, <2>1, <4>4
    <3>2. h = 0
      BY <1>5, <2>3, <3>1
    <3>3. r.buf = Vision!Suffix(b, 1)
      BY <1>0, <1>1, <3>1, <3>2 DEF Turns, Vision!ParseFrom
    <3>4. QED
      BY <3>1, <3>3
  <2>6. QED
    BY <2>4, <2>5
<1>8. QED
  BY <1>6, <1>7

(* Where the bytes of a stream are after some of them arrived.             *)
LEMMA Arrives ==
  ASSUME NEW S, NEW x \in Seq(S), NEW l \in Seq(S), NEW a \in 0 .. Len(l)
  PROVE  LET b == x \o SubSeq(l, 1, a)
             more == SubSeq(l, a + 1, Len(l))
         IN /\ b \in Seq(S) /\ Len(b) = Len(x) + a
            /\ more \in Seq(S) /\ Len(more) = Len(l) - a
            /\ \A n \in 1 .. Len(b) : b[n] = (x \o l)[n]
            /\ \A n \in 1 .. Len(more) : more[n] = (x \o l)[Len(x) + a + n]
<1> DEFINE front == SubSeq(l, 1, a)
           more == SubSeq(l, a + 1, Len(l))
<1>0. Len(x) \in Nat /\ Len(l) \in Nat /\ \A n \in 1 .. Len(l) : l[n] \in S
  OBVIOUS
<1>1. /\ front \in Seq(S) /\ Len(front) = a
      /\ \A n \in 1 .. a : front[n] = l[n]
  <2>1. \A n \in 1 .. a : l[n] \in S
    BY <1>0
  <2>2. /\ front \in Seq(S) /\ Len(front) = IF 1 <= a THEN a - 1 + 1 ELSE 0
        /\ \A n \in 1 .. a - 1 + 1 : front[n] = l[1 + n - 1]
    BY <1>0, <2>1, SubSeqProperties
  <2> HIDE DEF front
  <2>3. QED
    BY <1>0, <2>2
<1>2. /\ more \in Seq(S) /\ Len(more) = Len(l) - a
      /\ \A n \in 1 .. Len(l) - a : more[n] = l[a + n]
  <2>1. \A n \in a + 1 .. Len(l) : l[n] \in S
    BY <1>0
  <2>2. /\ more \in Seq(S)
        /\ Len(more) = IF a + 1 <= Len(l) THEN Len(l) - (a + 1) + 1 ELSE 0
        /\ \A n \in 1 .. Len(l) - (a + 1) + 1 : more[n] = l[a + 1 + n - 1]
    BY <1>0, <2>1, SubSeqProperties
  <2> HIDE DEF more
  <2>3. QED
    BY <1>0, <2>2
<1>3. /\ Len(x \o l) = Len(x) + Len(l)
      /\ \A n \in 1 .. Len(x) + Len(l) :
           (x \o l)[n] = IF n <= Len(x) THEN x[n] ELSE l[n - Len(x)]
  BY ConcatProperties
<1> HIDE DEF front, more
<1>4. /\ x \o front \in Seq(S) /\ Len(x \o front) = Len(x) + a
      /\ \A n \in 1 .. Len(x) + a :
           (x \o front)[n] = IF n <= Len(x) THEN x[n] ELSE front[n - Len(x)]
  BY <1>1, ConcatProperties
<1>5. \A n \in 1 .. Len(x) + a : (x \o front)[n] = (x \o l)[n]
  BY <1>0, <1>1, <1>3, <1>4
<1>6. \A n \in 1 .. Len(l) - a : more[n] = (x \o l)[Len(x) + a + n]
  BY <1>0, <1>2, <1>3
<1>7. QED
  BY <1>2, <1>4, <1>5, <1>6 DEF front, more

(* What is kept is the end of what arrived. *)
LEMMA KeepIs ==
  ASSUME NEW S, NEW b \in Seq(S), RX_BUFFER_MAX \in Nat
  PROVE  LET c == Vision!Keep(b)
             o == Len(b) - Len(c)
         IN /\ c \in Seq(S) /\ o \in Nat /\ Len(c) <= RX_BUFFER_MAX
            /\ o = 0 \/ Len(c) = RX_BUFFER_MAX
            /\ \A n \in 1 .. Len(c) : c[n] = b[o + n]
<1>0. Len(b) \in Nat
  OBVIOUS
<1>1. CASE Len(b) > RX_BUFFER_MAX
  <2> DEFINE c == Vision!Keep(b)
  <2>1. c = Vision!Suffix(b, RX_BUFFER_MAX)
    BY <1>1 DEF Vision!Keep
  <2>2. /\ c \in Seq(S) /\ Len(c) = RX_BUFFER_MAX
        /\ \A j \in 1 .. RX_BUFFER_MAX : c[j] = b[Len(b) - RX_BUFFER_MAX + j]
    <3>1. RX_BUFFER_MAX \in 0 .. Len(b)
      BY <1>0, <1>1
    <3>2. QED
      BY <2>1, <3>1, SuffixIs
  <2> HIDE DEF c
  <2>3. QED
    BY <1>0, <1>1, <2>2 DEF c
<1>2. CASE ~(Len(b) > RX_BUFFER_MAX)
  BY <1>0, <1>2 DEF Vision!Keep
<1>3. QED
  BY <1>1, <1>2

(* Of a stream of which nothing was lost whole frames remain, the last of  *)
(* them of the mode announced last; and if nothing remains the last code   *)
(* is of that mode.                                                        *)
Stream == RX_MODE_BUFFER \o line
InStep(s, queue, current, latest) ==
  /\ Len(s) % 4 = 0 /\ Framed(s, 0)
  /\ latest # 0 =>
       IF Len(s) > 0 THEN s[Len(s) - 1] = latest
       ELSE IF queue # << >> THEN queue[Len(queue)] = latest ELSE current = latest

ModeInv ==
  /\ Vision!TypeOK /\ Vision!LagBounded
  /\ losses = 0 => InStep(Stream, RX_MODE_QUEUE, mode, announced)

(* Follow takes the first of the codes. *)
LEMMA FollowIs ==
  ASSUME NEW q \in Seq(Vision!Mode), mode \in {0} \cup Vision!Mode, Vision!Follow(q)
  PROVE  /\ mode' \in {0} \cup Vision!Mode /\ RX_MODE_QUEUE' \in Seq(Vision!Mode)
         /\ q = << >> => mode' = mode /\ RX_MODE_QUEUE' = q
         /\ q # << >> => /\ Len(RX_MODE_QUEUE') = Len(q) - 1
                         /\ IF RX_MODE_QUEUE' = << >> THEN mode' = q[Len(q)]
                            ELSE RX_MODE_QUEUE'[Len(RX_MODE_QUEUE')] = q[Len(q)]
<1>1. CASE q = << >>
  BY <1>1 DEF Vision!Follow
<1>2. CASE q # << >>
  <2> DEFINE z == Tail(q)
  <2>1. /\ Head(q) \in Vision!Mode /\ z \in Seq(Vision!Mode) /\ Len(z) = Len(q) - 1
        /\ \A i \in 1 .. Len(z) : z[i] = q[i + 1]
        /\ Len(q) \in Nat \ {0} /\ Head(q) = q[1]
    BY <1>2, HeadTailProperties, EmptySeq
  <2>2. mode' = Head(q) /\ RX_MODE_QUEUE' = z
    BY <1>2 DEF Vision!Follow
  <2> HIDE DEF z
  <2>3. CASE z = << >>
    <3>1. Len(z) = 0
      BY <2>3
    <3>2. Len(q) = 1
      BY <2>1, <3>1
    <3>3. QED
      BY <1>2, <2>1, <2>2, <2>3, <3>2
  <2>4. CASE z # << >>
    <3>1. Len(z) \in Nat \ {0}
      BY <2>1, <2>4, EmptySeq
    <3>2. z[Len(z)] = q[Len(q)]
      <4>1. Len(z) \in 1 .. Len(z) /\ Len(z) + 1 = Len(q)
        BY <2>1, <3>1
      <4>2. z[Len(z)] = q[Len(z) + 1]
        BY <2>1, <4>1
      <4>3. QED
        BY <4>1, <4>2
    <3>3. QED
      BY <1>2, <2>1, <2>2, <2>4, <3>2
  <2>5. QED
    BY <2>3, <2>4
<1>3. QED
  BY <1>1, <1>2

(* The bytes of a transmission (Maixcam_SetMode) are whole frames. *)
LEMMA TransmissionIs ==
  ASSUME NEW m \in Vision!Mode, Copies \in Nat \ {0}
  PROVE  LET s == Vision!Transmission(m)
         IN /\ s \in Seq(Vision!Byte) /\ Len(s) = 4 * Copies /\ Framed(s, 0)
            /\ s[4 * Copies - 1] = m
<1> DEFINE s == Vision!Transmission(m)
<1>1. /\ Vision!Frame(m)[1] = 164 /\ Vision!Frame(m)[2] = 180
      /\ Vision!Frame(m)[3] = m /\ Vision!Frame(m)[4] = 196
  BY DEF Vision!Frame, Vision!A4, Vision!B4, Vision!C4
<1>2. 164 \in Vision!Byte /\ 180 \in Vision!Byte /\ m \in Vision!Byte /\ 196 \in Vision!Byte
  BY DEF Vision!Byte, Vision!A4, Vision!B4, Vision!C4
<1>3. \A k4 \in Nat \ {0} : ((k4 - 1) % 4) + 1 \in 1 .. 4
                           /\ ((k4 - 1) % 4) + 1 = IF k4 % 4 = 0 THEN 4 ELSE k4 % 4
  OBVIOUS
<1>4. s = [n \in 1 .. 4 * Copies |-> Vision!Frame(m)[((n - 1) % 4) + 1]]
  BY DEF Vision!Transmission
<1>5. \A n \in 1 .. 4 * Copies :
        s[n] = Vision!Frame(m)[IF n % 4 = 0 THEN 4 ELSE n % 4]
  <2>1. SUFFICES ASSUME NEW n \in 1 .. 4 * Copies
                 PROVE  s[n] = Vision!Frame(m)[IF n % 4 = 0 THEN 4 ELSE n % 4]
    OBVIOUS
  <2>2. s[n] = Vision!Frame(m)[((n - 1) % 4) + 1]
    BY <1>4
  <2>3. n \in Nat \ {0}
    OBVIOUS
  <2>4. QED
    BY <1>3, <2>2, <2>3
<1>6. DOMAIN s = 1 .. 4 * Copies
  BY <1>4
<1> HIDE DEF s
<1>7. ASSUME NEW n \in 1 .. 4 * Copies
      PROVE  s[n] \in Vision!Byte /\ FrameByte(n, s[n])
  <2>1. n % 4 \in {0, 1, 2, 3} /\ m \in {1, 2}
    BY DEF Vision!Mode
  <2>2. QED
    BY <1>1, <1>2, <1>5, <2>1 DEF FrameByte
<1>8. s \in Seq(Vision!Byte) /\ Len(s) = 4 * Copies
  <2>1. 4 * Copies \in Nat
    OBVIOUS
  <2>2. s = [n \in 1 .. 4 * Copies |-> s[n]]
    BY <1>4
  <2>3. s \in [1 .. 4 * Copies -> Vision!Byte]
    BY <1>7, <2>2
  <2>4. QED
    BY <2>1, <2>3
<1>9. Framed(s, 0)
  <2>1. ASSUME NEW n \in 1 .. Len(s) PROVE FrameByte(0 + n, s[n])
    <3>1. n \in 1 .. 4 * Copies /\ 0 + n = n
      BY <1>8
    <3>2. QED
      BY <1>7, <3>1
  <2>2. QED
    BY <2>1 DEF Framed
<1>10. s[4 * Copies - 1] = m
  <2>1. 4 * Copies - 1 \in 1 .. 4 * Copies /\ (4 * Copies - 1) % 4 = 3
    OBVIOUS
  <2>2. QED
    BY <1>1, <1>5, <2>1
<1>11. QED
  BY <1>8, <1>9, <1>10 DEF s

(* Whole frames after whole frames. *)
LEMMA FramesJoin ==
  ASSUME NEW s \in Seq(Vision!Byte), NEW t \in Seq(Vision!Byte), Len(s) % 4 = 0,
         Framed(s, 0), Framed(t, 0)
  PROVE  Framed(s \o t, 0)
<1>0. Len(s) \in Nat /\ Len(t) \in Nat
  OBVIOUS
<1>1. /\ Len(s \o t) = Len(s) + Len(t)
      /\ \A i \in 1 .. Len(s) + Len(t) :
           (s \o t)[i] = IF i <= Len(s) THEN s[i] ELSE t[i - Len(s)]
  BY ConcatProperties
<1>2. ASSUME NEW j \in 1 .. Len(s \o t)
      PROVE  FrameByte(0 + j, (s \o t)[j])
  <2>1. CASE j <= Len(s)
    <3>1. j \in 1 .. Len(s) /\ (s \o t)[j] = s[j]
      BY <1>0, <1>1, <2>1
    <3>2. QED
      BY <3>1 DEF Framed
  <2>2. CASE ~(j <= Len(s))
    <3> DEFINE i == j - Len(s)
    <3>0. i \in 1 .. Len(t) /\ (s \o t)[j] = t[i] /\ j \in Nat
      BY <1>0, <1>1, <2>2
    <3>1. i \in 1 .. Len(t) /\ (s \o t)[j] = t[i] /\ i % 4 = j % 4
      <4>1. \A u, v \in Nat : u % 4 = 0 /\ v >= u => (v - u) % 4 = v % 4
        OBVIOUS
      <4>2. j >= Len(s)
        BY <1>0, <2>2, <3>0
      <4>3. i % 4 = j % 4
        BY <1>0, <3>0, <4>1, <4>2
      <4> HIDE DEF i
      <4>4. QED
        BY <3>0, <4>3
    <3> HIDE DEF i
    <3>2. FrameByte(0 + i, t[i]) /\ 0 + i = i /\ 0 + j = j
      BY <1>0, <1>1, <3>1 DEF Framed
    <3>3. QED
      BY <3>1, <3>2 DEF FrameByte
  <2>3. QED
    BY <2>1, <2>2
<1>3. QED
  BY <1>2 DEF Framed

(* What a read leaves of the stream is its end, and it is cut between      *)
(* frames; if it leaves nothing, the last code found is the last sent.     *)
LEMMA ReadIs ==
  ASSUME NEW x \in Seq(Vision!Byte), NEW l \in Seq(Vision!Byte), NEW a \in 0 .. Len(l),
         Len(x \o l) % 4 = 0, Framed(x \o l, 0), RX_BUFFER_MAX \in Nat, RX_BUFFER_MAX >= 4
  PROVE  LET s == x \o l
             r == Vision!ParseModeBuffer(Vision!Keep(x \o SubSeq(l, 1, a)))
             z == r.buf \o SubSeq(l, a + 1, Len(l))
         IN /\ Len(z) % 4 = 0 /\ Framed(z, 0)
            /\ Len(z) > 0 => Len(s) > 0 /\ z[Len(z) - 1] = s[Len(s) - 1]
            /\ Len(z) = 0 /\ Len(s) > 0 =>
                 Len(r.queue) > 0 /\ r.queue[Len(r.queue)] = s[Len(s) - 1]
<1> DEFINE s == x \o l
           b == x \o SubSeq(l, 1, a)
           more == SubSeq(l, a + 1, Len(l))
           c == Vision!Keep(b)
           o == Len(b) - Len(c)
           r == Vision!ParseModeBuffer(c)
           e == Unfinished(c, o)
           z == r.buf \o more
<1>1. /\ b \in Seq(Vision!Byte) /\ Len(b) = Len(x) + a
      /\ more \in Seq(Vision!Byte) /\ Len(more) = Len(l) - a
      /\ \A n \in 1 .. Len(b) : b[n] = s[n]
      /\ \A n \in 1 .. Len(more) : more[n] = s[Len(x) + a + n]
  BY ONLY Arrives, x \in Seq(Vision!Byte), l \in Seq(Vision!Byte), a \in 0 .. Len(l)
<1>2. /\ s \in Seq(Vision!Byte) /\ Len(s) = Len(x) + Len(l)
      /\ Len(s) % 4 = 0 /\ \A n \in 1 .. Len(s) : FrameByte(0 + n, s[n])
  BY ConcatProperties DEF Framed
<1>3. Len(x) \in Nat /\ Len(l) \in Nat /\ a \in Nat /\ a <= Len(l)
  OBVIOUS
<1> HIDE DEF s, b, more
<1>4. /\ c \in Seq(Vision!Byte) /\ o \in Nat /\ Len(c) <= RX_BUFFER_MAX
      /\ o = 0 \/ Len(c) = RX_BUFFER_MAX
      /\ \A n \in 1 .. Len(c) : c[n] = b[o + n]
  BY <1>1, KeepIs
<1> HIDE DEF c
<1>5. Len(b) \in Nat /\ Len(c) \in Nat /\ o + Len(c) = Len(b) /\ Len(s) \in Nat
  BY <1>1, <1>2, <1>4
<1> HIDE DEF o
<1>6. \A n \in 1 .. Len(c) : o + n \in 1 .. Len(s) /\ c[n] = s[o + n]
  <2>1. \A n \in 1 .. Len(c) : o + n \in 1 .. Len(b)
    BY <1>4, <1>5
  <2>2. Len(b) <= Len(s)
    BY <1>1, <1>2, <1>3
  <2>3. QED
    BY <1>1, <1>4, <1>5, <2>1, <2>2
<1>7. Framed(c, o)
  <2>1. ASSUME NEW n \in 1 .. Len(c) PROVE FrameByte(o + n, c[n])
    <3>1. FrameByte(0 + (o + n), s[o + n]) /\ c[n] = s[o + n]
      BY <1>2, <1>6
    <3>2. o + n \in Nat
      BY <1>4
    <3>3. QED
      BY <3>1, <3>2 DEF FrameByte
  <2>2. QED
    BY <2>1 DEF Framed
<1>8. /\ Parsed(c, 1, r) /\ e <= Len(c) /\ r.buf = Vision!Suffix(c, e)
      /\ e = 0 /\ Len(c) >= 4 =>
           Len(r.queue) > 0 /\ r.queue[Len(r.queue)] = c[Len(c) - 1]
  <2>1. o % 4 = 0 \/ Len(c) >= 4
    <3>1. CASE o = 0
      BY <3>1
    <3>2. CASE Len(c) = RX_BUFFER_MAX
      BY <3>2
    <3>3. QED
      BY <1>4, <3>1, <3>2
  <2>2. QED
    BY <1>4, <1>7, <2>1, ParserFindsFrames
<1> HIDE DEF r
<1>9. e = Len(b) % 4 /\ e \in 0 .. 3
  BY <1>5 DEF Unfinished
<1> HIDE DEF e
<1>9a. e <= Len(c) /\ e \in Nat /\ o \in Nat
  BY <1>4, <1>8, <1>9
<1>10. /\ r.buf \in Seq(Vision!Byte) /\ Len(r.buf) = e
       /\ \A n \in 1 .. e : r.buf[n] = c[Len(c) - e + n]
  <2>1. e \in 0 .. Len(c)
    BY <1>5, <1>8, <1>9
  <2>2. QED
    BY <1>4, <1>8, <2>1, SuffixIs
<1>11. \A n \in 1 .. e : r.buf[n] = s[(Len(b) - e) + n]
  <2>1. SUFFICES ASSUME NEW n \in 1 .. e PROVE r.buf[n] = s[(Len(b) - e) + n]
    OBVIOUS
  <2>2. Len(c) - e + n \in 1 .. Len(c) /\ o + (Len(c) - e + n) = (Len(b) - e) + n
    BY <1>5, <1>9a
  <2>3. c[Len(c) - e + n] = s[o + (Len(c) - e + n)]
    BY <1>6, <2>2
  <2>4. QED
    BY <1>10, <2>2, <2>3
<1> DEFINE d == Len(b) - e
<1>12. d \in Nat /\ d % 4 = 0 /\ d + e = Len(b)
  <2>1. \A u \in Nat : u - (u % 4) \in Nat /\ (u - (u % 4)) % 4 = 0
    OBVIOUS
  <2>2. d \in Nat /\ d % 4 = 0
    BY <1>5, <1>9, <2>1
  <2>3. QED
    BY <1>5, <1>9a, <2>2
<1>13. /\ Len(z) = e + Len(more)
       /\ \A n \in 1 .. e + Len(more) : z[n] = IF n <= e THEN r.buf[n] ELSE more[n - e]
  <2> DEFINE left == r.buf
  <2>1. left \in Seq(Vision!Byte) /\ Len(left) = e
    BY <1>10
  <2> HIDE DEF left
  <2>2. /\ Len(left \o more) = Len(left) + Len(more)
        /\ \A n \in 1 .. Len(left) + Len(more) :
             (left \o more)[n] = IF n <= Len(left) THEN left[n] ELSE more[n - Len(left)]
    BY <1>1, <2>1, ConcatProperties
  <2>3. z = left \o more
    BY DEF z, left
  <2> HIDE DEF z
  <2>4. QED
    BY <2>1, <2>2, <2>3 DEF left
<1> HIDE DEF z
<1>14. Len(z) \in Nat /\ d + Len(z) = Len(s)
  BY <1>1, <1>2, <1>3, <1>5, <1>9, <1>13
<1>15. \A n \in 1 .. Len(z) : z[n] = s[d + n]
  <2>1. SUFFICES ASSUME NEW n \in 1 .. Len(z) PROVE z[n] = s[d + n]
    OBVIOUS
  <2>2. CASE n <= e
    <3>1. n \in 1 .. e /\ n \in 1 .. e + Len(more)
      BY <1>9, <1>13, <2>2
    <3>2. z[n] = r.buf[n]
      BY <1>13, <2>2, <3>1
    <3>3. QED
      BY <1>11, <3>1, <3>2
  <2>3. CASE ~(n <= e)
    <3>1. /\ n - e \in 1 .. Len(more) /\ n \in 1 .. e + Len(more)
          /\ Len(x) + a + (n - e) = d + n
      BY <1>1, <1>3, <1>9, <1>13, <2>3
    <3>2. z[n] = more[n - e]
      BY <1>13, <2>3, <3>1
    <3>3. more[n - e] = s[Len(x) + a + (n - e)]
      BY <1>1, <3>1
    <3>4. QED
      BY <3>1, <3>2, <3>3
  <2>4. QED
    BY <2>2, <2>3
<1> HIDE DEF d
<1>16. Len(z) % 4 = 0
  <2>1. \A u, v \in Nat : u % 4 = 0 /\ (u + v) % 4 = 0 => v % 4 = 0
    OBVIOUS
  <2>2. QED
    BY <1>2, <1>12, <1>14, <2>1
<1>17. Framed(z, 0)
  <2>1. ASSUME NEW n \in 1 .. Len(z) PROVE FrameByte(0 + n, z[n])
    <3>1. d + n \in 1 .. Len(s) /\ n \in Nat
      BY <1>12, <1>14
    <3>2. FrameByte(0 + (d + n), s[d + n]) /\ z[n] = s[d + n]
      BY <1>2, <1>15, <3>1
    <3>3. \A u, v \in Nat : u % 4 = 0 => (u + v) % 4 = v % 4
      OBVIOUS
    <3>4. (0 + (d + n)) % 4 = (0 + n) % 4
      BY <1>12, <3>1, <3>3
    <3>5. QED
      BY <3>2, <3>4 DEF FrameByte
  <2>2. QED
    BY <2>1 DEF Framed
<1>18. Len(z) > 0 => Len(s) > 0 /\ z[Len(z) - 1] = s[Len(s) - 1]
  <2>1. SUFFICES ASSUME Len(z) > 0 PROVE Len(s) > 0 /\ z[Len(z) - 1] = s[Len(s) - 1]
    OBVIOUS
  <2>2. Len(z) - 1 \in 1 .. Len(z) /\ d + (Len(z) - 1) = Len(s) - 1 /\ Len(s) > 0
    BY <1>12, <1>14, <1>16, <2>1
  <2>3. QED
    BY <1>15, <2>2
<1>19. Len(z) = 0 /\ Len(s) > 0 =>
         Len(r.queue) > 0 /\ r.queue[Len(r.queue)] = s[Len(s) - 1]
  <2>1. SUFFICES ASSUME Len(z) = 0, Len(s) > 0
                 PROVE  Len(r.queue) > 0 /\ r.queue[Len(r.queue)] = s[Len(s) - 1]
    OBVIOUS
  <2>2. e = 0 /\ Len(b) = Len(s)
    <3>1. e + (Len(l) - a) = 0 /\ Len(b) = Len(x) + a /\ Len(s) = Len(x) + Len(l)
      BY <1>1, <1>2, <1>13, <2>1
    <3>2. QED
      BY <1>3, <1>9a, <3>1
  <2>3. Len(b) >= 4
    BY <1>2, <1>5, <2>1, <2>2
  <2>4. Len(c) >= 4
    BY <1>4, <1>5, <2>3
  <2>5. Len(c) - 1 \in 1 .. Len(c) /\ o + (Len(c) - 1) = Len(s) - 1
    BY <1>4, <1>5, <2>2, <2>4
  <2>6. c[Len(c) - 1] = s[Len(s) - 1]
    BY <1>6, <2>5
  <2>7. QED
    BY <1>8, <2>2, <2>4, <2>6
<1>20. QED
  BY <1>16, <1>17, <1>18, <1>19 DEF z, r, c, b, more, s

(* A read of the camera (recv_mode_packet). *)
LEMMA ReceiveInvariant ==
  ASSUME ModeInv, NEW a \in 0 .. Len(line), Vision!Receive(a),
         RX_BUFFER_MAX \in Nat, RX_BUFFER_MAX >= 4
  PROVE  ModeInv'
<1>0. /\ sent_mode \in Vision!Mode /\ mode \in {0} \cup Vision!Mode
      /\ line \in Seq(Vision!Byte) /\ Len(line) <= MaxLine /\ Len(line) \in Nat
      /\ RX_MODE_BUFFER \in Seq(Vision!Byte) /\ Len(RX_MODE_BUFFER) \in Nat
      /\ RX_MODE_QUEUE \in Seq(Vision!Mode) /\ Len(RX_MODE_QUEUE) \in Nat
      /\ losses \in 0 .. MaxLosses /\ announced \in {0} \cup Vision!Mode
      /\ Len(RX_MODE_BUFFER) <= RX_BUFFER_MAX
      /\ 4 * (Len(RX_MODE_QUEUE) + 1) <= RX_BUFFER_MAX
      /\ losses = 0 => InStep(Stream, RX_MODE_QUEUE, mode, announced)
  BY DEF ModeInv, Vision!TypeOK, Vision!LagBounded
<1>1. Stream \in Seq(Vision!Byte) /\ Len(Stream) = Len(RX_MODE_BUFFER) + Len(line)
  BY <1>0, ConcatProperties DEF Stream
<1>2. UNCHANGED << sent_mode, losses, announced >>
  BY DEF Vision!Receive
<1>3. CASE RX_MODE_QUEUE # << >>
  <2>1. UNCHANGED << line, RX_MODE_BUFFER >> /\ Vision!Follow(RX_MODE_QUEUE)
    BY <1>3 DEF Vision!Receive
  <2>2. /\ mode' \in {0} \cup Vision!Mode /\ RX_MODE_QUEUE' \in Seq(Vision!Mode)
        /\ Len(RX_MODE_QUEUE') = Len(RX_MODE_QUEUE) - 1
        /\ IF RX_MODE_QUEUE' = << >> THEN mode' = RX_MODE_QUEUE[Len(RX_MODE_QUEUE)]
           ELSE RX_MODE_QUEUE'[Len(RX_MODE_QUEUE')] = RX_MODE_QUEUE[Len(RX_MODE_QUEUE)]
    BY <1>0, <1>3, <2>1, FollowIs
  <2>3. Vision!TypeOK' /\ Vision!LagBounded'
    <3>1. 4 * (Len(RX_MODE_QUEUE') + 1) <= RX_BUFFER_MAX
      BY <1>0, <2>2
    <3>2. QED
      BY <1>0, <1>2, <2>1, <2>2, <3>1
      DEF Vision!TypeOK, Vision!LagBounded, Vision!Mode, Vision!Byte
  <2>4. losses' = 0 => InStep(Stream', RX_MODE_QUEUE', mode', announced')
    <3>1. Stream' = Stream
      BY <2>1 DEF Stream
    <3>2. QED
      BY <1>0, <1>2, <1>3, <2>2, <3>1 DEF InStep
  <2>5. QED
    BY <2>3, <2>4 DEF ModeInv
<1>4. CASE RX_MODE_QUEUE = << >>
  <2> DEFINE b == RX_MODE_BUFFER \o SubSeq(line, 1, a)
             more == SubSeq(line, a + 1, Len(line))
             c == Vision!Keep(b)
             r == Vision!ParseModeBuffer(c)
             q == r.queue
             z == r.buf \o more
  <2>1. line' = more /\ RX_MODE_BUFFER' = r.buf /\ Vision!Follow(q)
    BY <1>4 DEF Vision!Receive
  <2>2. /\ b \in Seq(Vision!Byte) /\ Len(b) = Len(RX_MODE_BUFFER) + a
        /\ more \in Seq(Vision!Byte) /\ Len(more) = Len(line) - a
    BY <1>0, Arrives
  <2>3. losses = 0 =>
          /\ Len(z) % 4 = 0 /\ Framed(z, 0)
          /\ Len(z) > 0 => Len(Stream) > 0 /\ z[Len(z) - 1] = Stream[Len(Stream) - 1]
          /\ Len(z) = 0 /\ Len(Stream) > 0 =>
               Len(q) > 0 /\ q[Len(q)] = Stream[Len(Stream) - 1]
    <3>1. SUFFICES ASSUME losses = 0
                   PROVE  /\ Len(z) % 4 = 0 /\ Framed(z, 0)
                          /\ Len(z) > 0 => Len(Stream) > 0
                                           /\ z[Len(z) - 1] = Stream[Len(Stream) - 1]
                          /\ Len(z) = 0 /\ Len(Stream) > 0 =>
                               Len(q) > 0 /\ q[Len(q)] = Stream[Len(Stream) - 1]
      OBVIOUS
    <3>2. Len(RX_MODE_BUFFER \o line) % 4 = 0 /\ Framed(RX_MODE_BUFFER \o line, 0)
      BY <1>0, <3>1 DEF InStep, Stream
    <3>3. QED
      BY ONLY <1>0, <3>2, ReadIs, a \in 0 .. Len(line), RX_BUFFER_MAX \in Nat,
              RX_BUFFER_MAX >= 4 DEF Stream
  <2> HIDE DEF b, more
  <2>4. c \in Seq(Vision!Byte) /\ Len(c) \in Nat /\ Len(c) <= RX_BUFFER_MAX
        /\ Len(c) <= Len(b)
    <3>1. /\ c \in Seq(Vision!Byte) /\ Len(b) - Len(c) \in Nat
          /\ Len(c) <= RX_BUFFER_MAX
      BY <2>2, KeepIs
    <3> HIDE DEF c
    <3>2. Len(b) \in Nat /\ Len(c) \in Nat
      BY <2>2, <3>1
    <3>3. QED
      BY <3>1, <3>2
  <2> HIDE DEF c
  <2>5. Parsed(c, 1, r)
    <3>1. PICK f : Turns(c, f, 1) /\ r = f[1]
      BY <2>4, ParserReturns
    <3>2. 1 \in 1 .. Len(c) + 1
      BY <2>4
    <3>3. QED
      BY <2>4, <3>1, <3>2, AllParsed
  <2> HIDE DEF r
  <2>6. /\ r.buf \in Seq(Vision!Byte) /\ Len(r.buf) <= Len(c) /\ Len(r.buf) \in Nat
        /\ q \in Seq(Vision!Mode) /\ 4 * Len(q) <= Len(c) /\ Len(q) \in Nat
    BY <2>4, <2>5 DEF Parsed
  <2>7. Len(z) = Len(r.buf) + Len(more) /\ Len(more) \in Nat
    <3> DEFINE left == r.buf
    <3>1. left \in Seq(Vision!Byte)
      BY <2>6
    <3> HIDE DEF left
    <3>2. Len(left \o more) = Len(left) + Len(more)
      <4>1. more \in Seq(Vision!Byte)
        BY <2>2
      <4>2. QED
        BY ONLY <3>1, <4>1, ConcatProperties
    <3>3. Len(more) \in Nat
      BY <2>2
    <3>4. QED
      BY <3>2, <3>3 DEF left
  <2>8. Stream' = z
    BY <2>1 DEF Stream
  <2> HIDE DEF q, z
  <2>9. /\ mode' \in {0} \cup Vision!Mode /\ RX_MODE_QUEUE' \in Seq(Vision!Mode)
        /\ q = << >> => mode' = mode /\ RX_MODE_QUEUE' = q
        /\ q # << >> => /\ Len(RX_MODE_QUEUE') = Len(q) - 1
                        /\ IF RX_MODE_QUEUE' = << >> THEN mode' = q[Len(q)]
                           ELSE RX_MODE_QUEUE'[Len(RX_MODE_QUEUE')] = q[Len(q)]
    BY <1>0, <2>1, <2>6, FollowIs
  <2>10. q = << >> <=> Len(q) = 0
    BY <2>6, EmptySeq
  <2>11. Vision!TypeOK' /\ Vision!LagBounded'
    <3>1. Len(more) <= MaxLine /\ Len(r.buf) <= RX_BUFFER_MAX
      <4>1. Len(more) = Len(line) - a /\ Len(line) \in Nat /\ a \in Nat
        BY <1>0, <2>2
      <4>2. Len(r.buf) <= Len(c) /\ Len(c) <= RX_BUFFER_MAX
            /\ Len(r.buf) \in Nat /\ Len(c) \in Nat
        BY <2>4, <2>6
      <4>3. Len(line) <= MaxLine /\ MaxLine \in Nat
        BY <1>0, PartsAssumption DEF Vision!VisionAssumption
      <4>4. Len(more) <= MaxLine
        BY <4>1, <4>3
      <4>5. \A u, v, w \in Nat : u <= v /\ v <= w => u <= w
        OBVIOUS
      <4>6. QED
        BY <4>2, <4>4, <4>5
    <3>2. 4 * (Len(RX_MODE_QUEUE') + 1) <= RX_BUFFER_MAX
      BY <2>4, <2>6, <2>9, <2>10
    <3>3. QED
      BY <1>0, <1>2, <2>1, <2>2, <2>6, <2>9, <3>1, <3>2
      DEF Vision!TypeOK, Vision!LagBounded, Vision!Mode, Vision!Byte
  <2>12. ASSUME losses' = 0
         PROVE  InStep(Stream', RX_MODE_QUEUE', mode', announced')
    <3>1. /\ losses = 0 /\ Len(Stream) \in Nat /\ Len(z) \in Nat
          /\ InStep(Stream, RX_MODE_QUEUE, mode, announced)
      BY <1>0, <1>1, <1>2, <2>6, <2>7, <2>12
    <3>2. announced # 0 /\ Len(Stream) > 0 => Stream[Len(Stream) - 1] = announced
      BY <3>1 DEF InStep
    <3>3. ASSUME announced # 0, Len(z) > 0 PROVE z[Len(z) - 1] = announced
      BY <2>3, <3>1, <3>2, <3>3
    <3>4. ASSUME announced # 0, Len(z) = 0, Len(Stream) > 0
          PROVE  IF RX_MODE_QUEUE' # << >>
                   THEN RX_MODE_QUEUE'[Len(RX_MODE_QUEUE')] = announced
                   ELSE mode' = announced
      <4>1. Len(q) > 0 /\ q[Len(q)] = announced
        BY <2>3, <3>1, <3>2, <3>4
      <4>2. QED
        BY <2>9, <2>10, <4>1
    <3>5. ASSUME announced # 0, Len(Stream) = 0
          PROVE  RX_MODE_QUEUE' = << >> /\ mode' = announced
      <4>1. mode = announced
        BY <1>4, <3>1, <3>5 DEF InStep
      <4>2. Len(c) = 0
        <5>1. Len(RX_MODE_BUFFER) + Len(line) = 0
          BY <1>1, <3>5
        <5>2. Len(RX_MODE_BUFFER) = 0 /\ Len(line) = 0
          BY <1>0, <5>1
        <5>3. Len(b) = 0
          BY <2>2, <5>2
        <5>4. QED
          BY <2>4, <5>3
      <4>3. q = << >>
        BY <2>6, <2>10, <4>2
      <4>4. QED
        BY <2>9, <4>1, <4>3
    <3>6. announced # 0 =>
            IF Len(z) > 0 THEN z[Len(z) - 1] = announced
            ELSE IF RX_MODE_QUEUE' # << >>
                   THEN RX_MODE_QUEUE'[Len(RX_MODE_QUEUE')] = announced
                   ELSE mode' = announced
      BY <3>1, <3>3, <3>4, <3>5
    <3>7. InStep(z, RX_MODE_QUEUE', mode', announced)
      BY <2>3, <3>1, <3>6 DEF InStep
    <3>8. QED
      BY <1>2, <2>8, <3>7
  <2>13. QED
    BY <2>11, <2>12 DEF ModeInv
<1>5. QED
  BY <1>3, <1>4

LEMMA ModeInvariant == Vision!Spec => []ModeInv
<1> USE PartsAssumption DEF Vision!VisionAssumption
<1>1. Vision!Init => ModeInv
  <2> SUFFICES ASSUME Vision!Init PROVE ModeInv
    OBVIOUS
  <2>1. /\ << >> \in Seq(Vision!Byte) /\ << >> \in Seq(Vision!Mode) /\ Len(<< >>) = 0
        /\ Stream = << >>
    BY EmptySeq, ConcatEmptySeq DEF Vision!Init, Stream
  <2>2. 0 % 4 = 0 /\ Framed(<< >>, 0)
    BY <2>1 DEF Framed
  <2>3. QED
    BY <2>1, <2>2 DEF Vision!Init, ModeInv, Vision!TypeOK, Vision!LagBounded, InStep,
                      Vision!Mode
<1>2. ModeInv /\ [Vision!Next]_(Vision!vars) => ModeInv'
  <2> SUFFICES ASSUME ModeInv, [Vision!Next]_(Vision!vars)
               PROVE  ModeInv'
    OBVIOUS
  <2>0. /\ sent_mode \in Vision!Mode /\ mode \in {0} \cup Vision!Mode
        /\ line \in Seq(Vision!Byte) /\ Len(line) <= MaxLine /\ Len(line) \in Nat
        /\ RX_MODE_BUFFER \in Seq(Vision!Byte) /\ Len(RX_MODE_BUFFER) \in Nat
        /\ RX_MODE_QUEUE \in Seq(Vision!Mode) /\ Len(RX_MODE_QUEUE) \in Nat
        /\ losses \in 0 .. MaxLosses /\ announced \in {0} \cup Vision!Mode
        /\ Len(RX_MODE_BUFFER) <= RX_BUFFER_MAX
        /\ 4 * (Len(RX_MODE_QUEUE) + 1) <= RX_BUFFER_MAX
        /\ losses = 0 => InStep(Stream, RX_MODE_QUEUE, mode, announced)
    BY DEF ModeInv, Vision!TypeOK, Vision!LagBounded
  <2>1. Stream \in Seq(Vision!Byte) /\ Len(Stream) = Len(RX_MODE_BUFFER) + Len(line)
    BY <2>0, ConcatProperties DEF Stream
  <2>2. ASSUME NEW m \in Vision!Mode, Vision!Command(m)
        PROVE  ModeInv'
    BY <2>2 DEF Vision!Command, ModeInv, Vision!TypeOK, Vision!LagBounded, Stream, Vision!Mode, Vision!Byte
  <2>3. CASE Vision!SetMode
    <3> DEFINE s == Vision!Transmission(sent_mode)
               z == Stream \o s
    <3>1. /\ Len(line) + 4 * Copies <= MaxLine /\ line' = line \o s
          /\ announced' = sent_mode
          /\ UNCHANGED << sent_mode, RX_MODE_BUFFER, RX_MODE_QUEUE, mode, losses >>
      BY <2>3 DEF Vision!SetMode
    <3>2. /\ s \in Seq(Vision!Byte) /\ Len(s) = 4 * Copies /\ Framed(s, 0)
          /\ s[4 * Copies - 1] = sent_mode
      BY <2>0, TransmissionIs
    <3> HIDE DEF s
    <3>3. line' \in Seq(Vision!Byte) /\ Len(line') <= MaxLine
      BY <2>0, <3>1, <3>2, ConcatProperties
    <3>4. Stream' = z
      <4>1. (RX_MODE_BUFFER \o line) \o s = RX_MODE_BUFFER \o (line \o s)
        <5>1. \A u, v, w \in Seq(Vision!Byte) : (u \o v) \o w = u \o (v \o w)
          BY ConcatAssociative
        <5> HIDE DEF z
        <5>2. QED
          BY <2>0, <3>2, <5>1
      <4>2. QED
        BY <3>1, <4>1 DEF Stream
    <3> HIDE DEF z
    <3>5. /\ Len(z) = Len(Stream) + 4 * Copies
          /\ \A i \in 1 .. Len(Stream) + 4 * Copies :
               z[i] = IF i <= Len(Stream) THEN Stream[i] ELSE s[i - Len(Stream)]
      <4> DEFINE old == Stream
      <4>1. old \in Seq(Vision!Byte) /\ z = old \o s
        BY <2>1 DEF z
      <4> HIDE DEF old
      <4>2. /\ Len(z) = Len(old) + Len(s)
            /\ \A i \in 1 .. Len(old) + Len(s) :
                 z[i] = IF i <= Len(old) THEN old[i] ELSE s[i - Len(old)]
        BY <3>2, <4>1, ConcatProperties
      <4>3. QED
        BY <3>2, <4>2 DEF old
    <3>6. losses = 0 => Framed(z, 0) /\ Len(z) % 4 = 0
      <4> DEFINE old == Stream
      <4>1. losses = 0 => Len(old) % 4 = 0 /\ Framed(old, 0)
        BY <2>0 DEF InStep
      <4>2. old \in Seq(Vision!Byte) /\ z = old \o s /\ Len(old) \in Nat
        BY <2>1 DEF z
      <4>3. Len(z) = Len(old) + 4 * Copies
        BY <3>5
      <4> HIDE DEF old
      <4>4. losses = 0 => Framed(z, 0)
        BY <3>2, <4>1, <4>2, FramesJoin
      <4>5. losses = 0 => Len(z) % 4 = 0
        BY <4>1, <4>2, <4>3
      <4>6. QED
        BY <4>4, <4>5
    <3>7. Len(z) > 0 /\ z[Len(z) - 1] = sent_mode
      <4>1. /\ Len(Stream) \in Nat
            /\ Len(z) - 1 \in 1 .. Len(Stream) + 4 * Copies /\ ~(Len(z) - 1 <= Len(Stream))
            /\ (Len(z) - 1) - Len(Stream) = 4 * Copies - 1
        BY <2>0, <2>1, <3>5
      <4>2. QED
        BY <3>2, <3>5, <4>1
    <3>8. Vision!TypeOK' /\ Vision!LagBounded'
      BY <2>0, <3>1, <3>3 DEF Vision!TypeOK, Vision!LagBounded, Vision!Mode, Vision!Byte
    <3>9. losses' = 0 => InStep(Stream', RX_MODE_QUEUE', mode', announced')
      BY <3>1, <3>4, <3>6, <3>7 DEF InStep
    <3>10. QED
      BY <3>8, <3>9 DEF ModeInv
  <2>4. CASE Vision!Selected
    <3>1. /\ mode = 0 /\ mode' = 1
          /\ UNCHANGED << sent_mode, line, RX_MODE_BUFFER, RX_MODE_QUEUE, losses, announced >>
      BY <2>4 DEF Vision!Selected
    <3>2. losses = 0 => InStep(Stream, RX_MODE_QUEUE, 1, announced)
      BY <2>0, <3>1 DEF InStep
    <3>3. QED
      BY <3>1, <3>2 DEF ModeInv, Vision!TypeOK, Vision!LagBounded, Stream,
                        Vision!Mode, Vision!Byte
  <2>5. ASSUME NEW n \in DOMAIN line, Vision!LoseByte(n)
        PROVE  ModeInv'
    <3>1. /\ losses' \in 0 .. MaxLosses /\ losses' # 0
          /\ line' = Vision!RemoveAt(line, n)
          /\ UNCHANGED << sent_mode, RX_MODE_BUFFER, RX_MODE_QUEUE, mode, announced >>
      BY <2>0, <2>5 DEF Vision!LoseByte
    <3>2. line' \in Seq(Vision!Byte) /\ Len(line') <= MaxLine
      <4>1. n \in 1 .. Len(line) /\ \A i \in 1 .. Len(line) : line[i] \in Vision!Byte
        BY <2>0
      <4> DEFINE front == SubSeq(line, 1, n - 1)
                 back == SubSeq(line, n + 1, Len(line))
      <4>2. \A i \in 1 .. n - 1 : line[i] \in Vision!Byte
        BY <2>0, <4>1
      <4>3. \A i \in n + 1 .. Len(line) : line[i] \in Vision!Byte
        BY <2>0, <4>1
      <4>4. front \in Seq(Vision!Byte) /\ Len(front) = n - 1
        BY <2>0, <4>1, <4>2, SubSeqProperties
      <4>5. back \in Seq(Vision!Byte) /\ Len(back) = Len(line) - n
        BY <2>0, <4>1, <4>3, SubSeqProperties
      <4>6. line' = front \o back
        BY <3>1 DEF Vision!RemoveAt
      <4> HIDE DEF front, back
      <4>7. QED
        BY <2>0, <4>1, <4>4, <4>5, <4>6, ConcatProperties
    <3>3. QED
      BY <2>0, <3>1, <3>2 DEF ModeInv, Vision!TypeOK, Vision!LagBounded, Vision!Mode,
                              Vision!Byte
  <2>6. ASSUME NEW arrived_now \in 0 .. Len(line), Vision!Receive(arrived_now)
        PROVE  ModeInv'
    BY <2>6, ReceiveInvariant
  <2>7. CASE UNCHANGED Vision!vars
    BY <2>7 DEF Vision!vars, ModeInv, Vision!TypeOK, Vision!LagBounded, Stream,
                Vision!Mode, Vision!Byte
  <2>8. QED
    BY <2>2, <2>3, <2>4, <2>5, <2>6, <2>7 DEF Vision!Next
<1>3. QED
  BY <1>1, <1>2, PTL DEF Vision!Spec

(* The camera follows the device: it never lags by more than it keeps, and *)
(* when nothing was lost and everything was read, it is in the mode sent   *)
(* last, however the reads cut the frames and whatever it threw away.      *)
THEOREM ModeIsUpToDate == PartsSpec => []ModeUpToDate
<1>1. Vision!Spec => []ModeInv
  BY ModeInvariant
<1>2. ModeInv => ModeUpToDate
  <2> SUFFICES ASSUME ModeInv PROVE ModeUpToDate
    OBVIOUS
  <2>1. Vision!ReadIsLatest
    <3>1. SUFFICES ASSUME line = << >>, RX_MODE_QUEUE = << >>, announced # 0, losses = 0,
                          RX_MODE_BUFFER = << >>
                   PROVE  mode = announced
      BY DEF Vision!ReadIsLatest
    <3>2. Len(Stream) = 0
      BY <3>1, ConcatEmptySeq, EmptySeq DEF Stream
    <3>3. QED
      BY <3>1, <3>2 DEF ModeInv, InStep
  <2>2. QED
    BY <2>1 DEF ModeUpToDate, ModeInv
<1>3. QED
  BY <1>1, <1>2, PartsRun, PTL

-----------------------------------------------------------------------------
(* The vote over the camera's pictures (green.py)                          *)

(* The weight of a state after each turn of the loop of vote_state. *)
Weighs(h, s, w) ==
  /\ w[0] = 0
  /\ \A n \in 1 .. Len(h) : w[n] = w[n - 1] + (IF h[n] = s THEN 2 * n ELSE 0)

LEMMA WeightRuns ==
  ASSUME NEW h \in Seq(Vote!State), NEW s
  PROVE  \E w : w = [n \in 0 .. Len(h) |->
                       IF n = 0 THEN 0
                       ELSE w[n - 1] + (IF h[n] = s THEN 2 * n ELSE 0)]
<1> DEFINE Upto(w, d) ==
             /\ w[0] = 0
             /\ \A n \in 1 .. d : w[n] = w[n - 1] + (IF h[n] = s THEN 2 * n ELSE 0)
           T == {d \in Nat : \E w : Upto(w, d)}
<1>0. Len(h) \in Nat
  OBVIOUS
<1>1. 0 \in T
  <2>1. Upto([n \in {0} |-> 0], 0)
    OBVIOUS
  <2>2. QED
    BY <2>1
<1>2. ASSUME NEW d \in Nat, d \in T PROVE d + 1 \in T
  <2>1. PICK w : Upto(w, d)
    BY <1>2
  <2> DEFINE g == [n \in 0 .. d + 1 |->
                     IF n = d + 1 THEN w[d] + (IF h[n] = s THEN 2 * n ELSE 0) ELSE w[n]]
  <2>2. /\ \A n \in 0 .. d : g[n] = w[n]
        /\ g[d + 1] = w[d] + (IF h[d + 1] = s THEN 2 * (d + 1) ELSE 0)
    OBVIOUS
  <2> HIDE DEF g
  <2>3. g[0] = 0
    BY <2>1, <2>2
  <2>4. ASSUME NEW n \in 1 .. d + 1
        PROVE  g[n] = g[n - 1] + (IF h[n] = s THEN 2 * n ELSE 0)
    <3>1. CASE n = d + 1
      <4>1. n - 1 = d /\ d \in 0 .. d
        BY <3>1
      <4>2. QED
        BY <2>2, <3>1, <4>1
    <3>2. CASE n # d + 1
      <4>1. n \in 1 .. d /\ n \in 0 .. d /\ n - 1 \in 0 .. d
        BY <3>2
      <4>2. QED
        BY <2>1, <2>2, <4>1
    <3>3. QED
      BY <3>1, <3>2
  <2>5. QED
    BY <2>3, <2>4
<1>3. Len(h) \in T
  <2> HIDE DEF T
  <2>1. QED
    BY <1>0, <1>1, <1>2, Induction
<1>4. PICK w : Upto(w, Len(h))
  BY <1>3
<1> DEFINE g == [n \in 0 .. Len(h) |-> w[n]]
           p(v, n) == IF n = 0 THEN 0 ELSE v[n - 1] + (IF h[n] = s THEN 2 * n ELSE 0)
<1>5. ASSUME NEW n \in 0 .. Len(h) PROVE w[n] = p(g, n)
  <2>1. CASE n = 0
    BY <1>4, <2>1
  <2>2. CASE n # 0
    <3>1. n \in 1 .. Len(h) /\ n - 1 \in 0 .. Len(h)
      BY <1>0, <2>2
    <3>2. g[n - 1] = w[n - 1]
      BY <3>1
    <3>3. w[n] = w[n - 1] + (IF h[n] = s THEN 2 * n ELSE 0)
      BY <1>4, <3>1
    <3> HIDE DEF g
    <3>4. QED
      BY <2>2, <3>2, <3>3
  <2>3. QED
    BY <2>1, <2>2
<1>6. g = [n \in 0 .. Len(h) |-> p(g, n)]
  <2> DEFINE x(n) == p(g, n)
  <2> HIDE DEF p, x
  <2>1. \A n \in 0 .. Len(h) : w[n] = x(n)
    BY <1>5 DEF x
  <2>2. g = [n \in 0 .. Len(h) |-> x(n)]
    BY <2>1
  <2>3. QED
    BY <2>2 DEF x
<1> HIDE DEF g
<1>7. QED
  BY <1>6

LEMMA WeightIs ==
  ASSUME NEW h \in Seq(Vote!State), NEW s
  PROVE  \E w : Weighs(h, s, w) /\ Vote!Weight(h, s) = w[Len(h)]
<1> DEFINE w == CHOOSE w : w = [n \in 0 .. Len(h) |->
                                  IF n = 0 THEN 0
                                  ELSE w[n - 1] + (IF h[n] = s THEN 2 * n ELSE 0)]
<1>0. Len(h) \in Nat
  OBVIOUS
<1>1. Vote!Weight(h, s) = w[Len(h)]
  BY DEF Vote!Weight
<1>2. w = [n \in 0 .. Len(h) |->
             IF n = 0 THEN 0 ELSE w[n - 1] + (IF h[n] = s THEN 2 * n ELSE 0)]
  BY WeightRuns
<1> HIDE DEF w
<1>3. Weighs(h, s, w)
  <2>1. w[0] = 0
    BY <1>0, <1>2
  <2>2. ASSUME NEW n \in 1 .. Len(h)
        PROVE  w[n] = w[n - 1] + (IF h[n] = s THEN 2 * n ELSE 0)
    <3>1. n \in 0 .. Len(h) /\ n # 0
      BY <1>0
    <3>2. QED
      BY <1>2, <3>1
  <2>3. QED
    BY <2>1, <2>2 DEF Weighs
<1>4. QED
  BY <1>1, <1>3

(* A weight never falls, and rises only where the state was seen. *)
LEMMA WeightGrows ==
  ASSUME NEW h \in Seq(Vote!State), NEW s, NEW w, Weighs(h, s, w)
  PROVE  /\ \A n \in 0 .. Len(h) : w[n] \in Nat
         /\ \A m, n \in 0 .. Len(h) : m <= n => w[m] <= w[n]
         /\ \A m, n \in 0 .. Len(h) :
              m <= n /\ (\A j \in m + 1 .. n : h[j] # s) => w[n] = w[m]
<1>0. Len(h) \in Nat
  OBVIOUS
<1>1. \A n \in 0 .. Len(h) : w[n] \in Nat
  <2> DEFINE T == {n \in Nat : n <= Len(h) => w[n] \in Nat}
  <2>1. 0 \in T
    BY DEF Weighs
  <2>2. ASSUME NEW n \in Nat, n \in T PROVE n + 1 \in T
    <3> SUFFICES ASSUME n + 1 <= Len(h) PROVE w[n + 1] \in Nat
      OBVIOUS
    <3>1. n + 1 \in 1 .. Len(h) /\ (n + 1) - 1 = n /\ w[n] \in Nat
      BY <1>0, <2>2
    <3>2. w[n + 1] = w[n] + (IF h[n + 1] = s THEN 2 * (n + 1) ELSE 0)
      BY <3>1 DEF Weighs
    <3>3. QED
      BY <3>1, <3>2
  <2>3. \A n \in Nat : n \in T
    <3> HIDE DEF T
    <3>1. QED
      BY <2>1, <2>2, Induction
  <2>4. QED
    BY <2>3
<1>2. ASSUME NEW n \in 1 .. Len(h)
      PROVE  /\ n \in 0 .. Len(h) /\ n - 1 \in 0 .. Len(h)
             /\ w[n - 1] <= w[n] /\ (h[n] # s => w[n] = w[n - 1])
  <2>1. n \in 0 .. Len(h) /\ n - 1 \in 0 .. Len(h)
    BY <1>0
  <2>2. w[n - 1] \in Nat /\ w[n] = w[n - 1] + (IF h[n] = s THEN 2 * n ELSE 0)
    BY <1>1, <2>1 DEF Weighs
  <2>3. QED
    BY <2>1, <2>2
<1>3. ASSUME NEW m \in 0 .. Len(h)
      PROVE  \A n \in 0 .. Len(h) : m <= n =>
               /\ w[m] <= w[n]
               /\ (\A j \in m + 1 .. n : h[j] # s) => w[n] = w[m]
  <2> DEFINE T == {d \in Nat : m + d <= Len(h) =>
                     /\ w[m] <= w[m + d]
                     /\ (\A j \in m + 1 .. m + d : h[j] # s) => w[m + d] = w[m]}
  <2>1. 0 \in T
    <3>1. m + 0 = m /\ w[m] \in Nat
      BY <1>0, <1>1
    <3>2. QED
      BY <3>1
  <2>2. ASSUME NEW d \in Nat, d \in T PROVE d + 1 \in T
    <3> SUFFICES ASSUME m + (d + 1) <= Len(h)
                 PROVE  /\ w[m] <= w[m + (d + 1)]
                        /\ (\A j \in m + 1 .. m + (d + 1) : h[j] # s)
                             => w[m + (d + 1)] = w[m]
      OBVIOUS
    <3> DEFINE n == m + (d + 1)
    <3>1. /\ n \in 1 .. Len(h) /\ n - 1 = m + d /\ m + d <= Len(h)
          /\ n \in m + 1 .. n /\ \A j \in m + 1 .. m + d : j \in m + 1 .. n
      BY <1>0
    <3>2. w[m] <= w[n - 1]
          /\ ((\A j \in m + 1 .. m + d : h[j] # s) => w[n - 1] = w[m])
      BY <2>2, <3>1
    <3> HIDE DEF n
    <3>3. /\ n - 1 \in 0 .. Len(h) /\ n \in 0 .. Len(h)
          /\ w[n - 1] <= w[n] /\ (h[n] # s => w[n] = w[n - 1])
      BY <1>2, <3>1
    <3>4. w[n - 1] \in Nat /\ w[n] \in Nat /\ w[m] \in Nat
      BY <1>1, <3>3
    <3>5. w[m] <= w[n]
      BY <3>2, <3>3, <3>4
    <3>6. (\A j \in m + 1 .. n : h[j] # s) => w[n] = w[m]
      BY <3>1, <3>2, <3>3
    <3>7. QED
      BY <3>5, <3>6 DEF n
  <2>3. \A d \in Nat : d \in T
    <3> HIDE DEF T
    <3>1. QED
      BY <2>1, <2>2, Induction
  <2>4. ASSUME NEW n \in 0 .. Len(h), m <= n
        PROVE  /\ w[m] <= w[n]
               /\ (\A j \in m + 1 .. n : h[j] # s) => w[n] = w[m]
    <3>1. n - m \in Nat /\ m + (n - m) = n
      BY <1>0, <2>4
    <3>2. n - m \in T
      BY <2>3, <3>1
    <3>3. m + (n - m) <= Len(h) =>
            /\ w[m] <= w[m + (n - m)]
            /\ (\A j \in m + 1 .. m + (n - m) : h[j] # s) => w[m + (n - m)] = w[m]
      BY <3>2
    <3>4. QED
      BY <1>0, <3>1, <3>3
  <2>5. QED
    BY <2>4
<1>4. QED
  BY <1>1, <1>3

(* What the votes below need of a weight. *)
LEMMA WeightFacts ==
  ASSUME NEW h \in Seq(Vote!State), NEW s
  PROVE  LET x == Vote!Weight(h, s)
             L == Len(h)
         IN /\ x \in Nat
            /\ (\A j \in 1 .. L : h[j] # s) => x = 0
            /\ \A n \in 1 .. L : h[n] = s => x >= 2 * n
            /\ \A n \in 1 .. L : (\A j \in 1 .. L : h[j] = s => j = n) => x <= 2 * n
            /\ L >= 2 /\ h[L] = s /\ h[L - 1] = s => x >= 4 * L - 2
            /\ L \in 2 .. 5 /\ (\A j \in 1 .. L : h[j] = s => j <= L - 2)
                 => x <= (L - 2) * (L - 1)
<1> DEFINE x == Vote!Weight(h, s)
           L == Len(h)
<1>1. L \in Nat
  OBVIOUS
<1>2. PICK w : Weighs(h, s, w) /\ x = w[L]
  BY WeightIs
<1> HIDE DEF x
<1>3. /\ \A n \in 0 .. L : w[n] \in Nat
      /\ \A m, n \in 0 .. L : m <= n => w[m] <= w[n]
      /\ \A m, n \in 0 .. L : m <= n /\ (\A j \in m + 1 .. n : h[j] # s) => w[n] = w[m]
  BY <1>2, WeightGrows
<1>4. /\ w[0] = 0
      /\ \A n \in 1 .. L : w[n] = w[n - 1] + (IF h[n] = s THEN 2 * n ELSE 0)
  BY <1>2 DEF Weighs
<1> HIDE DEF L
<1>5. x \in Nat
  BY <1>1, <1>2, <1>3
<1>6. (\A j \in 1 .. L : h[j] # s) => x = 0
  <2>1. 0 \in 0 .. L /\ L \in 0 .. L /\ 0 <= L /\ 0 + 1 = 1
    BY <1>1
  <2>2. QED
    BY <1>2, <1>3, <1>4, <2>1
<1>7. ASSUME NEW n \in 1 .. L, h[n] = s
      PROVE  w[n] = w[n - 1] + 2 * n /\ w[n - 1] \in Nat /\ x >= 2 * n
  <2>1. /\ n \in 0 .. L /\ n - 1 \in 0 .. L /\ L \in 0 .. L /\ n <= L
      BY <1>1
  <2>2. w[n - 1] \in Nat /\ w[n] \in Nat /\ w[n] = w[n - 1] + 2 * n /\ w[n] <= x
    BY <1>2, <1>3, <1>4, <1>7, <2>1
  <2>3. QED
    BY <1>5, <2>2
<1>8. ASSUME NEW n \in 1 .. L, \A j \in 1 .. L : h[j] = s => j = n
      PROVE  x <= 2 * n
  <2>1. /\ 0 \in 0 .. L /\ n \in 0 .. L /\ n - 1 \in 0 .. L /\ L \in 0 .. L
        /\ n <= L /\ 0 <= n - 1
      BY <1>1
  <2>2. \A j \in n + 1 .. L : h[j] # s
    BY <1>1, <1>8
  <2>3. w[L] = w[n]
    BY <1>3, <2>1, <2>2
  <2>4. \A j \in 0 + 1 .. n - 1 : h[j] # s
    BY <1>1, <1>8
  <2>5. w[n - 1] = w[0]
    BY <1>3, <2>1, <2>4
  <2>6. w[n] = w[n - 1] + (IF h[n] = s THEN 2 * n ELSE 0)
    BY <1>4
  <2>7. x = IF h[n] = s THEN 2 * n ELSE 0
    BY <1>2, <1>4, <2>3, <2>5, <2>6
  <2>8. QED
    BY <2>7
<1>9. ASSUME L >= 2, h[L] = s, h[L - 1] = s PROVE x >= 4 * L - 2
  <2>1. /\ L \in 1 .. L /\ L - 1 \in 1 .. L /\ (L - 1) - 1 \in 0 .. L /\ L - 1 \in Nat
    BY <1>1, <1>9
  <2>2. w[L] = w[L - 1] + 2 * L
    BY <1>7, <1>9, <2>1
  <2>3. w[L - 1] = w[(L - 1) - 1] + 2 * (L - 1) /\ w[(L - 1) - 1] \in Nat
    BY <1>7, <1>9, <2>1
  <2>4. QED
    BY <1>1, <1>2, <2>2, <2>3
<1>10. ASSUME L \in 2 .. 5, \A j \in 1 .. L : h[j] = s => j <= L - 2
       PROVE  x <= (L - 2) * (L - 1)
  <2>1. L - 2 \in 0 .. L /\ L \in 0 .. L /\ L - 2 <= L
    BY <1>10
  <2>2. \A j \in (L - 2) + 1 .. L : h[j] # s
    BY <1>10
  <2>3. x = w[L - 2]
    BY <1>2, <1>3, <2>1, <2>2
  <2>4. ASSUME NEW n \in 1 .. L PROVE w[n - 1] \in Nat /\ w[n] <= w[n - 1] + 2 * n
    <3>1. n - 1 \in 0 .. L
      BY <1>1
    <3>2. w[n - 1] \in Nat /\ w[n] = w[n - 1] + (IF h[n] = s THEN 2 * n ELSE 0)
      BY <1>3, <1>4, <3>1
    <3>3. QED
      BY <3>2
  <2>5. CASE L = 2
    BY <1>4, <2>3, <2>5
  <2>6. CASE L = 3
    <3>1. w[1] <= w[0] + 2
      BY <2>4, <2>6
    <3>2. QED
      BY <1>4, <2>3, <2>6, <3>1
  <2>7. CASE L = 4
    <3>1. w[1] <= w[0] + 2 /\ w[2] <= w[1] + 4 /\ w[1] \in Nat /\ w[2] \in Nat
      BY <1>3, <2>4, <2>7
    <3>2. QED
      BY <1>4, <2>3, <2>7, <3>1
  <2>8. CASE L = 5
    <3>1. /\ w[1] <= w[0] + 2 /\ w[2] <= w[1] + 4 /\ w[3] <= w[2] + 6
          /\ w[1] \in Nat /\ w[2] \in Nat /\ w[3] \in Nat
      BY <1>3, <2>4, <2>8
    <3>2. QED
      BY <1>4, <2>3, <2>8, <3>1
  <2>9. QED
    BY <1>10, <2>5, <2>6, <2>7, <2>8
<1>11. QED
  BY <1>5, <1>6, <1>7, <1>8, <1>9, <1>10 DEF x, L

(* The bonus is at most three, and nothing without a weight. *)
LEMMA ScoreIs ==
  ASSUME NEW h \in Seq(Vote!State), NEW s \in Vote!State
  PROVE  LET x == Vote!Score(h, s)
             L == Len(h)
         IN /\ x \in Nat
            /\ (\A j \in 1 .. L : h[j] # s) => x = 0
            /\ \A n \in 1 .. L : h[n] = s => x >= 2 * n
            /\ \A n \in 1 .. L : (\A j \in 1 .. L : h[j] = s => j = n) => x <= 2 * n + 3
            /\ L >= 2 /\ h[L] = s /\ h[L - 1] = s => x >= 4 * L - 2
            /\ L \in 2 .. 5 /\ (\A j \in 1 .. L : h[j] = s => j <= L - 2)
                 => x <= (L - 2) * (L - 1) + 3
<1> DEFINE x == Vote!Score(h, s)
           w == Vote!Weight(h, s)
           L == Len(h)
           bonus == CASE s = Vote!ROT /\ Vote!Places(h, Vote!ROT) # {} -> 3
                      [] s = Vote!YELLOW /\ Vote!Places(h, Vote!ROT) = {}
                           /\ Vote!Places(h, s) # {} -> 2
                      [] OTHER -> 0
<1>1. /\ w \in Nat
      /\ (\A j \in 1 .. L : h[j] # s) => w = 0
      /\ \A n \in 1 .. L : h[n] = s => w >= 2 * n
      /\ \A n \in 1 .. L : (\A j \in 1 .. L : h[j] = s => j = n) => w <= 2 * n
      /\ L >= 2 /\ h[L] = s /\ h[L - 1] = s => w >= 4 * L - 2
      /\ L \in 2 .. 5 /\ (\A j \in 1 .. L : h[j] = s => j <= L - 2)
           => w <= (L - 2) * (L - 1)
  BY WeightFacts
<1>2. x = w + bonus
  BY DEF Vote!Score
<1>3. bonus \in 0 .. 3
  OBVIOUS
<1>4. (\A j \in 1 .. L : h[j] # s) => bonus = 0
  <2>1. SUFFICES ASSUME \A j \in 1 .. L : h[j] # s PROVE bonus = 0
    OBVIOUS
  <2>2. Vote!Places(h, s) = {}
    BY <2>1 DEF Vote!Places
  <2>3. QED
    BY <2>2
<1> HIDE DEF x, w, bonus
<1>5. x \in Nat /\ x >= w /\ x <= w + 3 /\ L \in Nat
  BY <1>1, <1>2, <1>3
<1>6. (\A j \in 1 .. L : h[j] # s) => x = 0
  BY <1>1, <1>2, <1>4
<1>7. \A n \in 1 .. L : h[n] = s => x >= 2 * n
  BY <1>1, <1>5
<1>8. \A n \in 1 .. L : (\A j \in 1 .. L : h[j] = s => j = n) => x <= 2 * n + 3
  BY <1>1, <1>5
<1>9. L >= 2 /\ h[L] = s /\ h[L - 1] = s => x >= 4 * L - 2
  BY <1>1, <1>5
<1>10. L \in 2 .. 5 /\ (\A j \in 1 .. L : h[j] = s => j <= L - 2)
         => x <= (L - 2) * (L - 1) + 3
  <2> DEFINE y == (L - 2) * (L - 1)
  <2>1. L \in 2 .. 5 => y \in Nat
    BY <1>5
  <2>2. L \in 2 .. 5 /\ (\A j \in 1 .. L : h[j] = s => j <= L - 2) => w <= y
    BY <1>1
  <2> HIDE DEF y
  <2>3. L \in 2 .. 5 /\ (\A j \in 1 .. L : h[j] = s => j <= L - 2) => x <= y + 3
    BY <1>1, <1>5, <2>1, <2>2
  <2>4. QED
    BY <2>3 DEF y
<1>11. QED
  BY <1>5, <1>6, <1>7, <1>8, <1>9, <1>10 DEF x

(* The winner of a vote is a state that no other has beaten. *)
LEMMA VoteIs ==
  ASSUME NEW h \in Seq(Vote!State)
  PROVE  LET v == Vote!VoteState(h)
         IN /\ v \in Vote!State
            /\ \A other \in Vote!State : Vote!Score(h, v) >= Vote!Score(h, other)
<1> DEFINE score(s) == Vote!Score(h, s)
           Best == {s \in Vote!State : \A other \in Vote!State : score(s) >= score(other)}
<1>1. \A s \in Vote!State : score(s) \in Nat
  BY ScoreIs
<1>2. Vote!VoteState(h) = Vote!Min(Best)
  BY DEF Vote!VoteState
<1> HIDE DEF score
<1>3. Vote!State = {0, 1, 2, 3}
  BY DEF Vote!State, Vote!NORMAL, Vote!YELLOW, Vote!ROT, Vote!NONE
<1>4. \E s \in Vote!State : \A other \in Vote!State : score(s) >= score(other)
  <2>1. score(0) \in Nat /\ score(1) \in Nat /\ score(2) \in Nat /\ score(3) \in Nat
    BY <1>1, <1>3
  <2>2. \A a, b, c, d \in Nat :
          \/ a >= b /\ a >= c /\ a >= d
          \/ b >= a /\ b >= c /\ b >= d
          \/ c >= a /\ c >= b /\ c >= d
          \/ d >= a /\ d >= b /\ d >= c
    OBVIOUS
  <2>3. \A a \in Nat : a >= a
    OBVIOUS
  <2>4. \E s \in {0, 1, 2, 3} : /\ score(s) >= score(0) /\ score(s) >= score(1)
                               /\ score(s) >= score(2) /\ score(s) >= score(3)
    BY <2>1, <2>2, <2>3
  <2>5. QED
    BY <1>3, <2>4
<1>5. \E s \in Best : \A y \in Best : s <= y
  <2>1. Best \subseteq {0, 1, 2, 3} /\ Best # {}
    BY <1>3, <1>4
  <2> HIDE DEF Best
  <2>2. CASE 0 \in Best
    BY <2>1, <2>2
  <2>3. CASE 0 \notin Best /\ 1 \in Best
    BY <2>1, <2>3
  <2>4. CASE 0 \notin Best /\ 1 \notin Best /\ 2 \in Best
    BY <2>1, <2>4
  <2>5. CASE 0 \notin Best /\ 1 \notin Best /\ 2 \notin Best
    <3>1. 3 \in Best
      BY <2>1, <2>5
    <3>2. QED
      BY <2>1, <2>5, <3>1
  <2>6. QED
    BY <2>2, <2>3, <2>4, <2>5
<1>6. Vote!Min(Best) \in Best
  <2> HIDE DEF Best
  <2>1. QED
    BY <1>5 DEF Vote!Min
<1>7. QED
  BY <1>2, <1>6 DEF score

(* A state that wins was seen; if once only, in one of the last two        *)
(* pictures: an older one weighs less than the newest, bonus or not.       *)
LEMMA WinnerWasSeen ==
  ASSUME NEW h \in Seq(Vote!State), Len(h) > 0
  PROVE  LET v == Vote!VoteState(h)
         IN /\ v \in Vote!State
            /\ \E n \in 1 .. Len(h) : h[n] = v
            /\ \A n \in 1 .. Len(h) :
                 (\A j \in 1 .. Len(h) : h[j] = v => j = n) => n >= Len(h) - 1
<1> DEFINE v == Vote!VoteState(h)
           L == Len(h)
           newest == h[L]
           x == Vote!Score(h, v)
           y == Vote!Score(h, newest)
<1>0. L \in Nat /\ L \in 1 .. L /\ newest \in Vote!State
  OBVIOUS
<1>1. v \in Vote!State /\ x >= y
  BY <1>0, VoteIs
<1>2. y \in Nat /\ y >= 2 * L
  BY <1>0, ScoreIs
<1>3. /\ x \in Nat
      /\ (\A j \in 1 .. L : h[j] # v) => x = 0
      /\ \A n \in 1 .. L : (\A j \in 1 .. L : h[j] = v => j = n) => x <= 2 * n + 3
  BY <1>1, ScoreIs
<1> HIDE DEF v, x, y
<1>4. \E n \in 1 .. L : h[n] = v
  BY <1>0, <1>1, <1>2, <1>3
<1>5. ASSUME NEW n \in 1 .. L, \A j \in 1 .. L : h[j] = v => j = n
      PROVE  n >= L - 1
  <2>1. x <= 2 * n + 3
    BY <1>3, <1>5
  <2>2. 2 * L <= 2 * n + 3
    BY <1>0, <1>1, <1>2, <1>3, <2>1
  <2>3. QED
    BY <1>0, <2>2
<1>6. QED
  BY <1>1, <1>4, <1>5 DEF v

(* Two newest pictures that agree win against any three older ones. *)
LEMMA TwoNewestWin ==
  ASSUME NEW h \in Seq(Vote!State), Len(h) \in 2 .. 5, NEW s \in Vote!State,
         h[Len(h)] = s, h[Len(h) - 1] = s
  PROVE  Vote!VoteState(h) = s
<1> DEFINE v == Vote!VoteState(h)
           L == Len(h)
           x == Vote!Score(h, v)
           y == Vote!Score(h, s)
<1>1. v \in Vote!State /\ x >= y
  BY VoteIs
<1>2. y \in Nat /\ y >= 4 * L - 2
  BY ScoreIs
<1> SUFFICES ASSUME v # s PROVE FALSE
  OBVIOUS
<1>3. /\ x \in Nat
      /\ L \in 2 .. 5 /\ (\A j \in 1 .. L : h[j] = v => j <= L - 2)
           => x <= (L - 2) * (L - 1) + 3
  BY <1>1, ScoreIs
<1> HIDE DEF v, x, y
<1>4. \A j \in 1 .. L : h[j] = v => j <= L - 2
  <2>1. SUFFICES ASSUME NEW j \in 1 .. L, h[j] = v PROVE j <= L - 2
    OBVIOUS
  <2>2. j # L /\ j # L - 1
    BY <2>1
  <2>3. QED
    BY <2>2
<1>5. x <= (L - 2) * (L - 1) + 3
  BY <1>3, <1>4
<1>6. L = 2 \/ L = 3 \/ L = 4 \/ L = 5
  OBVIOUS
<1> HIDE DEF L
<1>7. QED
  BY <1>1, <1>2, <1>3, <1>5, <1>6

-----------------------------------------------------------------------------
(* The pictures that the vote of j pictures ago was about. *)
Window(pics, j) == Vote!LastOf(SubSeq(pics, 1, Len(pics) - j), VOTE_WINDOW)

(* The history is the end of what was seen; as many votes as were counted  *)
(* had the pending state as their winner, and the one before had not.      *)
VoteInv ==
  /\ Vote!TypeOK
  /\ seen \in Seq(Vote!State) /\ Len(seen) <= VOTE_WINDOW + STABLE_FRAMES - 1
  /\ state_history = Vote!LastOf(seen, VOTE_WINDOW)
  /\ pending_count <= Len(seen)
  /\ seen # << >> => pending_count > 0
  /\ \A j \in 0 .. STABLE_FRAMES - 1 :
       /\ j < pending_count => Vote!VoteState(Window(seen, j)) = pending_state
       /\ j = pending_count /\ j < Len(seen)
            => Vote!VoteState(Window(seen, j)) # pending_state
  /\ pending_count >= STABLE_FRAMES => stable_state = pending_state

LEMMA LastOfIs ==
  ASSUME NEW S, NEW s \in Seq(S), NEW m \in Nat
  PROVE  LET t == Vote!LastOf(s, m)
             d == Len(s) - Len(t)
         IN /\ t \in Seq(S) /\ d \in Nat
            /\ Len(t) = IF Len(s) <= m THEN Len(s) ELSE m
            /\ \A j \in 1 .. Len(t) : t[j] = s[d + j]
<1>0. Len(s) \in Nat
  OBVIOUS
<1>1. CASE Len(s) <= m
  <2>1. Vote!LastOf(s, m) = s
    BY <1>1 DEF Vote!LastOf
  <2>2. QED
    BY <1>0, <1>1, <2>1
<1>2. CASE ~(Len(s) <= m)
  <2> DEFINE a == Len(s) - m + 1
             t == SubSeq(s, a, Len(s))
  <2>1. Vote!LastOf(s, m) = t
    BY <1>2 DEF Vote!LastOf
  <2>2. \A j \in a .. Len(s) : s[j] \in S
    BY <1>0, <1>2
  <2>3. /\ a \in 1 .. Len(s) + 1 /\ a \in Int /\ a <= Len(s) + 1 /\ a > 0
        /\ Len(s) - a + 1 = m
    BY <1>0, <1>2
  <2>4. /\ t \in Seq(S) /\ Len(t) = m
        /\ \A j \in 1 .. m : t[j] = s[a + j - 1]
    <3>1. /\ t \in Seq(S)
          /\ Len(t) = IF a <= Len(s) THEN Len(s) - a + 1 ELSE 0
          /\ \A j \in 1 .. Len(s) - a + 1 : t[j] = s[a + j - 1]
      BY <1>0, <2>2, <2>3, SubSeqProperties
    <3> HIDE DEF t, a
    <3>2. QED
      BY <1>0, <2>3, <3>1
  <2>5. \A j \in 1 .. m : a + j - 1 = (Len(s) - m) + j
    BY <1>0
  <2> HIDE DEF t, a
  <2>6. QED
    BY <1>0, <1>2, <2>1, <2>4, <2>5
<1>3. QED
  BY <1>1, <1>2

(* The pictures of a window, as places of what was seen. *)
LEMMA WindowIs ==
  ASSUME NEW pics \in Seq(Vote!State), NEW j \in Nat, j <= Len(pics), VOTE_WINDOW \in Nat
  PROVE  LET t == Window(pics, j)
             L == Len(t)
             d == Len(pics) - j - L
         IN /\ t \in Seq(Vote!State) /\ d \in Nat
            /\ L = IF Len(pics) - j <= VOTE_WINDOW THEN Len(pics) - j ELSE VOTE_WINDOW
            /\ \A n \in 1 .. L : t[n] = pics[d + n]
<1> DEFINE s == SubSeq(pics, 1, Len(pics) - j)
           t == Window(pics, j)
<1>0. Len(pics) \in Nat /\ Len(pics) - j \in Nat
  OBVIOUS
<1>1. /\ s \in Seq(Vote!State) /\ Len(s) = Len(pics) - j
      /\ \A n \in 1 .. Len(pics) - j : s[n] = pics[n]
  <2> DEFINE b == Len(pics) - j
  <2>1. \A n \in 1 .. b : pics[n] \in Vote!State
    BY <1>0
  <2>2. /\ s \in Seq(Vote!State) /\ Len(s) = IF 1 <= b THEN b - 1 + 1 ELSE 0
        /\ \A n \in 1 .. b - 1 + 1 : s[n] = pics[1 + n - 1]
    BY <1>0, <2>1, SubSeqProperties
  <2> HIDE DEF s
  <2>3. QED
    BY <1>0, <2>2
<1>2. t = Vote!LastOf(s, VOTE_WINDOW)
  BY DEF Window
<1> HIDE DEF s, t
<1>3. /\ t \in Seq(Vote!State) /\ Len(s) - Len(t) \in Nat
      /\ Len(t) = IF Len(s) <= VOTE_WINDOW THEN Len(s) ELSE VOTE_WINDOW
      /\ \A n \in 1 .. Len(t) : t[n] = s[(Len(s) - Len(t)) + n]
  <2> DEFINE r == Vote!LastOf(s, VOTE_WINDOW)
  <2>1. /\ r \in Seq(Vote!State) /\ Len(s) - Len(r) \in Nat
        /\ Len(r) = IF Len(s) <= VOTE_WINDOW THEN Len(s) ELSE VOTE_WINDOW
        /\ \A n \in 1 .. Len(r) : r[n] = s[(Len(s) - Len(r)) + n]
    <3>1. s \in Seq(Vote!State) /\ VOTE_WINDOW \in Nat
      BY <1>1
    <3>2. QED
      BY ONLY <3>1, LastOfIs
  <2> HIDE DEF r
  <2>2. QED
    BY ONLY <1>2, <2>1 DEF r
<1>4. Len(t) \in Nat
  BY <1>3
<1>5. \A n \in 1 .. Len(t) :
        /\ (Len(s) - Len(t)) + n \in 1 .. Len(pics) - j
        /\ t[n] = pics[(Len(pics) - j - Len(t)) + n]
  <2>1. SUFFICES ASSUME NEW n \in 1 .. Len(t)
                 PROVE  /\ (Len(s) - Len(t)) + n \in 1 .. Len(pics) - j
                        /\ t[n] = pics[(Len(pics) - j - Len(t)) + n]
    OBVIOUS
  <2>2. (Len(s) - Len(t)) + n \in 1 .. Len(pics) - j
    BY <1>0, <1>1, <1>3, <1>4
  <2>3. (Len(s) - Len(t)) + n = (Len(pics) - j - Len(t)) + n
    BY <1>1
  <2>4. QED
    BY <1>1, <1>3, <2>2, <2>3
<1>6. QED
  BY <1>0, <1>1, <1>3, <1>5 DEF t

(* After a picture a window is the one of a picture less before. *)
LEMMA WindowMoves ==
  ASSUME NEW pics \in Seq(Vote!State), NEW x \in Vote!State, NEW j \in Nat,
         VOTE_WINDOW \in Nat, STABLE_FRAMES \in Nat, j + 1 < STABLE_FRAMES,
         Len(pics) <= VOTE_WINDOW + STABLE_FRAMES - 1, j <= Len(pics)
  PROVE  LET more == Vote!LastOf(Append(pics, x), VOTE_WINDOW + STABLE_FRAMES - 1)
         IN Window(more, j + 1) = Window(pics, j)
<1> DEFINE cap == VOTE_WINDOW + STABLE_FRAMES - 1
           all == Append(pics, x)
           more == Vote!LastOf(all, cap)
           t == Window(pics, j)
           u == Window(more, j + 1)
<1>0. Len(pics) \in Nat /\ cap \in Nat
  OBVIOUS
<1>1. /\ all \in Seq(Vote!State) /\ Len(all) = Len(pics) + 1
      /\ \A n \in 1 .. Len(pics) : all[n] = pics[n]
  OBVIOUS
<1> HIDE DEF all
<1>2. /\ more \in Seq(Vote!State)
      /\ Len(more) = IF Len(all) <= cap THEN Len(all) ELSE cap
      /\ \A n \in 1 .. Len(more) : more[n] = all[(Len(all) - Len(more)) + n]
  <2>1. all \in Seq(Vote!State) /\ cap \in Nat
    BY <1>0, <1>1
  <2> HIDE DEF cap
  <2>2. QED
    BY ONLY <2>1, LastOfIs
<1>3. /\ t \in Seq(Vote!State) /\ Len(pics) - j - Len(t) \in Nat
      /\ Len(t) = IF Len(pics) - j <= VOTE_WINDOW THEN Len(pics) - j ELSE VOTE_WINDOW
      /\ \A n \in 1 .. Len(t) : t[n] = pics[(Len(pics) - j - Len(t)) + n]
  BY WindowIs
<1> HIDE DEF more
<1>4. Len(more) \in Nat /\ j + 1 <= Len(more) /\ j + 1 \in Nat
  BY <1>0, <1>1, <1>2
<1>5. /\ u \in Seq(Vote!State) /\ Len(more) - (j + 1) - Len(u) \in Nat
      /\ Len(u) = IF Len(more) - (j + 1) <= VOTE_WINDOW THEN Len(more) - (j + 1)
                  ELSE VOTE_WINDOW
      /\ \A n \in 1 .. Len(u) : u[n] = more[(Len(more) - (j + 1) - Len(u)) + n]
  BY <1>2, <1>4, WindowIs
<1> HIDE DEF t, u
<1>6. Len(t) \in Nat /\ Len(u) \in Nat /\ Len(u) = Len(t)
  <2>1. /\ Len(more) = IF Len(pics) + 1 <= cap THEN Len(pics) + 1 ELSE cap
        /\ Len(t) = IF Len(pics) - j <= VOTE_WINDOW THEN Len(pics) - j ELSE VOTE_WINDOW
        /\ Len(u) = IF Len(more) - (j + 1) <= VOTE_WINDOW THEN Len(more) - (j + 1)
                    ELSE VOTE_WINDOW
        /\ Len(t) \in Nat /\ Len(u) \in Nat
    BY <1>1, <1>2, <1>3, <1>5
  <2>2. CASE Len(pics) + 1 <= cap
    <3>1. Len(more) - (j + 1) = Len(pics) - j
      BY <1>0, <2>1, <2>2
    <3>2. QED
      BY <2>1, <3>1
  <2>3. CASE ~(Len(pics) + 1 <= cap)
    <3>1. Len(more) = cap /\ Len(pics) = cap
      BY <1>0, <2>1, <2>3
    <3>2. Len(more) - (j + 1) >= VOTE_WINDOW /\ Len(pics) - j >= VOTE_WINDOW
      BY <1>0, <3>1
    <3>3. Len(u) = VOTE_WINDOW
      <4>1. \A a, b \in Int : a >= b => (IF a <= b THEN a ELSE b) = b
        OBVIOUS
      <4>2. QED
        BY <1>4, <2>1, <3>2, <4>1
    <3>4. Len(t) = VOTE_WINDOW
      <4>1. \A a, b \in Int : a >= b => (IF a <= b THEN a ELSE b) = b
        OBVIOUS
      <4>2. QED
        BY <1>0, <2>1, <3>2, <4>1
    <3>5. QED
      BY <2>1, <3>3, <3>4
  <2>4. QED
    BY <2>2, <2>3
<1>7. ASSUME NEW n \in 1 .. Len(t) PROVE u[n] = t[n]
  <2> DEFINE m == (Len(more) - (j + 1) - Len(u)) + n
             i1 == (Len(pics) - j - Len(t)) + n
  <2>1. m \in 1 .. Len(more) /\ u[n] = more[m]
    <3>1. n \in 1 .. Len(u)
      BY <1>6
    <3>2. Len(more) - (j + 1) - Len(u) \in Nat
      BY <1>5
    <3>3. m \in 1 .. Len(more)
      BY <1>4, <1>6, <3>1, <3>2
    <3>4. QED
      BY <1>5, <3>1, <3>3
  <2>2. more[m] = all[(Len(all) - Len(more)) + m]
    BY <1>2, <2>1
  <2>3. (Len(all) - Len(more)) + m = i1 /\ i1 \in 1 .. Len(pics)
    BY <1>0, <1>1, <1>3, <1>4, <1>6
  <2>4. t[n] = pics[i1]
    BY <1>3
  <2> HIDE DEF m, i1
  <2>5. QED
    BY <1>1, <2>1, <2>2, <2>3, <2>4
<1>8. u = t
  <2>1. u \in [1 .. Len(u) -> Vote!State] /\ t \in [1 .. Len(t) -> Vote!State]
    BY <1>3, <1>5, LenProperties
  <2>2. DOMAIN u = 1 .. Len(t) /\ DOMAIN t = 1 .. Len(t)
    BY <1>6, <2>1
  <2>3. u = [n \in 1 .. Len(t) |-> u[n]] /\ t = [n \in 1 .. Len(t) |-> t[n]]
    BY <1>6, <2>1
  <2>4. QED
    BY <1>7, <2>3
<1>9. QED
  BY <1>8 DEF t, u, more, all

LEMMA LowerOfTwo ==
  ASSUME NEW a \in Int, NEW b \in Int
  PROVE  Vote!Min({a, b}) = IF a <= b THEN a ELSE b
<1> DEFINE S == {a, b}
<1>1. \A y : y \in S <=> y = a \/ y = b
  OBVIOUS
<1> HIDE DEF S
<1>2. \E y \in S : \A z \in S : y <= z
  BY <1>1
<1>3. Vote!Min(S) \in S /\ \A z \in S : Vote!Min(S) <= z
  BY <1>2 DEF Vote!Min
<1>4. Vote!Min(S) = IF a <= b THEN a ELSE b
  BY <1>1, <1>3
<1>5. QED
  BY <1>4 DEF S

LEMMA SummaryIs ==
  ASSUME NEW objs \in SUBSET {Vote!NORMAL, Vote!YELLOW, Vote!ROT}
  PROVE  Vote!Summarize(objs) \in Vote!State
<1> USE DEF Vote!State, Vote!NORMAL, Vote!YELLOW, Vote!ROT, Vote!NONE
<1>1. CASE objs = {}
  BY <1>1 DEF Vote!Summarize
<1>2. CASE objs # {}
  <2>1. objs \subseteq {0, 1, 2}
    OBVIOUS
  <2>2. \E y \in objs : \A z \in objs : y >= z
    <3>1. CASE 2 \in objs
      BY <2>1, <3>1
    <3>2. CASE 2 \notin objs /\ 1 \in objs
      BY <2>1, <3>2
    <3>3. CASE 2 \notin objs /\ 1 \notin objs
      <4>1. 0 \in objs
        BY <1>2, <2>1, <3>3
      <4>2. QED
        BY <2>1, <3>3, <4>1
    <3>4. QED
      BY <3>1, <3>2, <3>3
  <2>3. Vote!Max(objs) \in objs
    BY <2>2 DEF Vote!Max
  <2>4. QED
    BY <1>2, <2>1, <2>3 DEF Vote!Summarize
<1>3. QED
  BY <1>1, <1>2

LEMMA WholeSeq ==
  ASSUME NEW S, NEW s \in Seq(S)
  PROVE  SubSeq(s, 1, Len(s) - 0) = s
<1>1. Len(s) \in Nat /\ Len(s) - 0 = Len(s)
  OBVIOUS
<1>2. SubSeq(s, 1, Len(s)) = s
  OBVIOUS
<1>3. QED
  BY <1>1, <1>2

(* The end of a longer record is the same, with the new picture. *)
LEMMA HistoryIsEnd ==
  ASSUME NEW pics \in Seq(Vote!State), NEW x \in Vote!State,
         NEW w \in Nat \ {0}, NEW c \in Nat, c >= w
  PROVE  LET h == Vote!LastOf(Append(Vote!LastOf(pics, w), x), w)
         IN /\ h = Vote!LastOf(Vote!LastOf(Append(pics, x), c), w)
            /\ h \in Seq(Vote!State) /\ Len(h) <= w /\ Len(h) > 0
<1> DEFINE old == Vote!LastOf(pics, w)
           longer == Append(old, x)
           all == Append(pics, x)
           more == Vote!LastOf(all, c)
           h == Vote!LastOf(longer, w)
           g == Vote!LastOf(more, w)
<1>0. Len(pics) \in Nat /\ w \in Nat
  OBVIOUS
<1>1. /\ old \in Seq(Vote!State) /\ Len(old) \in Nat
      /\ Len(old) = IF Len(pics) <= w THEN Len(pics) ELSE w
      /\ \A n \in 1 .. Len(old) : old[n] = pics[(Len(pics) - Len(old)) + n]
  <2>1. /\ old \in Seq(Vote!State)
        /\ Len(old) = IF Len(pics) <= w THEN Len(pics) ELSE w
        /\ \A n \in 1 .. Len(old) : old[n] = pics[(Len(pics) - Len(old)) + n]
    BY <1>0, LastOfIs
  <2> HIDE DEF old
  <2>2. QED
    BY <1>0, <2>1
<1> HIDE DEF old
<1>2. /\ longer \in Seq(Vote!State) /\ Len(longer) = Len(old) + 1
      /\ longer[Len(old) + 1] = x /\ \A n \in 1 .. Len(old) : longer[n] = old[n]
  BY <1>1
<1>3. /\ all \in Seq(Vote!State) /\ Len(all) = Len(pics) + 1
      /\ all[Len(pics) + 1] = x /\ \A n \in 1 .. Len(pics) : all[n] = pics[n]
  OBVIOUS
<1> HIDE DEF longer, all
<1>4. /\ more \in Seq(Vote!State)
      /\ Len(more) = IF Len(all) <= c THEN Len(all) ELSE c
      /\ \A n \in 1 .. Len(more) : more[n] = all[(Len(all) - Len(more)) + n]
  <2>1. all \in Seq(Vote!State) /\ c \in Nat
    BY <1>3
  <2>2. QED
    BY ONLY <2>1, LastOfIs
<1>5. /\ h \in Seq(Vote!State)
      /\ Len(h) = IF Len(longer) <= w THEN Len(longer) ELSE w
      /\ \A n \in 1 .. Len(h) : h[n] = longer[(Len(longer) - Len(h)) + n]
  <2>1. longer \in Seq(Vote!State) /\ w \in Nat
    BY <1>0, <1>2
  <2>2. QED
    BY ONLY <2>1, LastOfIs
<1> HIDE DEF more
<1>6. /\ g \in Seq(Vote!State)
      /\ Len(g) = IF Len(more) <= w THEN Len(more) ELSE w
      /\ \A n \in 1 .. Len(g) : g[n] = more[(Len(more) - Len(g)) + n]
  <2>1. more \in Seq(Vote!State) /\ w \in Nat
    BY <1>0, <1>4
  <2>2. QED
    BY ONLY <2>1, LastOfIs
<1> HIDE DEF h, g
<1>7. Len(h) = IF Len(pics) + 1 <= w THEN Len(pics) + 1 ELSE w
  BY <1>0, <1>1, <1>2, <1>5
<1>8. Len(g) = IF Len(pics) + 1 <= w THEN Len(pics) + 1 ELSE w
  BY <1>0, <1>3, <1>4, <1>6
<1>9. Len(h) = Len(g) /\ Len(h) \in Nat /\ Len(more) \in Nat /\ Len(h) <= w /\ Len(h) > 0
      /\ Len(h) <= Len(longer) /\ Len(g) <= Len(more) /\ Len(more) <= Len(all)
  BY <1>0, <1>1, <1>2, <1>3, <1>4, <1>7, <1>8
<1>10. ASSUME NEW n \in 1 .. Len(h) PROVE h[n] = all[(Len(all) - Len(h)) + n]
  <2> DEFINE m == (Len(longer) - Len(h)) + n
  <2>0. /\ n \in Int /\ n >= 1 /\ n <= Len(h) /\ Len(h) \in Int /\ Len(h) <= Len(longer)
        /\ Len(old) \in Int /\ Len(longer) = Len(old) + 1
        /\ Len(pics) \in Int /\ Len(all) = Len(pics) + 1 /\ Len(old) <= Len(pics)
    BY <1>0, <1>1, <1>2, <1>3, <1>9
  <2>1. h[n] = longer[m] /\ m \in 1 .. Len(old) + 1
    <3>1. m \in 1 .. Len(old) + 1
      BY ONLY <2>0
    <3>2. QED
      BY <1>5, <3>1
  <2>2. CASE m = Len(old) + 1
    <3>1. (Len(all) - Len(h)) + n = Len(pics) + 1
      BY ONLY <2>0, <2>2
    <3> HIDE DEF m
    <3>2. QED
      BY <1>2, <1>3, <2>1, <2>2, <3>1
  <2>3. CASE m # Len(old) + 1
    <3>1. m \in 1 .. Len(old)
      BY ONLY <2>0, <2>1, <2>3
    <3>2. (Len(pics) - Len(old)) + m = (Len(all) - Len(h)) + n
      BY ONLY <2>0
    <3>3. (Len(pics) - Len(old)) + m \in 1 .. Len(pics)
      BY ONLY <2>0, <3>1
    <3> HIDE DEF m
    <3>4. h[n] = pics[(Len(pics) - Len(old)) + m]
      BY <1>1, <1>2, <2>1, <3>1
    <3>5. all[(Len(pics) - Len(old)) + m] = pics[(Len(pics) - Len(old)) + m]
      BY <1>3, <3>3
    <3>6. QED
      BY <3>2, <3>4, <3>5
  <2>4. QED
    BY <2>2, <2>3
<1>11. ASSUME NEW n \in 1 .. Len(g) PROVE g[n] = all[(Len(all) - Len(g)) + n]
  <2>1. /\ (Len(more) - Len(g)) + n \in 1 .. Len(more)
        /\ (Len(all) - Len(more)) + ((Len(more) - Len(g)) + n) = (Len(all) - Len(g)) + n
    BY <1>0, <1>3, <1>9
  <2>2. g[n] = more[(Len(more) - Len(g)) + n]
    BY <1>6
  <2>3. QED
    BY <1>4, <2>1, <2>2
<1>12. h = g
  <2>1. h \in [1 .. Len(h) -> Vote!State] /\ g \in [1 .. Len(h) -> Vote!State]
    BY <1>5, <1>6, <1>9, LenProperties
  <2>2. h = [n \in 1 .. Len(h) |-> h[n]] /\ g = [n \in 1 .. Len(h) |-> g[n]]
    BY <2>1
  <2>3. \A n \in 1 .. Len(h) : h[n] = g[n]
    BY <1>9, <1>10, <1>11
  <2>4. QED
    BY <2>2, <2>3
<1>13. QED
  BY <1>5, <1>9, <1>12 DEF h, g, more, all, longer, old

(* One picture (run_plant_mode). *)
LEMMA PictureKeepsVotes ==
  ASSUME VoteInv, Vote!VoteAssumption,
         NEW objs \in SUBSET {Vote!NORMAL, Vote!YELLOW, Vote!ROT},
         NEW again, Vote!Picture(objs, again)
  PROVE  VoteInv'
<1> DEFINE x == Vote!Summarize(objs)
           cap == VOTE_WINDOW + STABLE_FRAMES - 1
           more == Vote!LastOf(Append(seen, x), cap)
           h == Vote!LastOf(Append(state_history, x), VOTE_WINDOW)
           v == Vote!VoteState(h)
<1>0. /\ VOTE_WINDOW \in Nat \ {0} /\ STABLE_FRAMES \in Nat \ {0} /\ MaxFaults \in Nat
      /\ cap \in Nat /\ cap >= VOTE_WINDOW /\ cap >= STABLE_FRAMES
  BY DEF Vote!VoteAssumption
<1>1. /\ seen \in Seq(Vote!State) /\ Len(seen) <= cap /\ Len(seen) \in Nat
      /\ state_history = Vote!LastOf(seen, VOTE_WINDOW)
      /\ pending_count \in 0 .. STABLE_FRAMES /\ pending_count <= Len(seen)
      /\ pending_state \in Vote!State \cup {Vote!Nothing}
      /\ seen # << >> => pending_count > 0
      /\ running \in BOOLEAN /\ blade_state \in Vote!State /\ stable_state \in Vote!State
      /\ last_sent_state \in Vote!State \cup {Vote!Nothing} /\ faults \in 0 .. MaxFaults
  BY DEF VoteInv, Vote!TypeOK
<1>2. x \in Vote!State
  BY SummaryIs
<1>3. /\ running /\ state_history' = h /\ Vote!UpdateStable(v) /\ seen' = more
      /\ Vote!SendState(again) /\ running' = running
  BY DEF Vote!Picture
<1> HIDE DEF x, cap
<1>4. /\ Append(seen, x) \in Seq(Vote!State) /\ Len(Append(seen, x)) = Len(seen) + 1
  BY <1>1, <1>2
<1>5. /\ more \in Seq(Vote!State) /\ Len(more) \in Nat /\ Len(more) > 0
      /\ Len(more) = IF Len(seen) + 1 <= cap THEN Len(seen) + 1 ELSE cap
  <2>1. /\ more \in Seq(Vote!State)
        /\ Len(more) = IF Len(Append(seen, x)) <= cap THEN Len(Append(seen, x)) ELSE cap
    BY ONLY <1>0, <1>4, LastOfIs
  <2>2. QED
    BY <1>0, <1>1, <1>4, <2>1
<1>6. h = Vote!LastOf(more, VOTE_WINDOW) /\ h \in Seq(Vote!State)
      /\ Len(h) <= VOTE_WINDOW /\ Len(h) > 0
  BY <1>0, <1>1, <1>2, HistoryIsEnd DEF cap
<1> HIDE DEF more, h
<1>7. v \in Vote!State
  BY <1>6, VoteIs
<1>8. Window(more, 0) = h
  <2>1. SubSeq(more, 1, Len(more) - 0) = more
    BY <1>5, WholeSeq
  <2>2. QED
    BY <1>6, <2>1 DEF Window
<1>9. \A j \in 1 .. STABLE_FRAMES - 1 :
        j <= Len(seen) + 1 => Window(more, j) = Window(seen, j - 1)
  <2>1. SUFFICES ASSUME NEW j \in 1 .. STABLE_FRAMES - 1, j <= Len(seen) + 1
                 PROVE  Window(more, j) = Window(seen, j - 1)
    OBVIOUS
  <2>2. /\ j - 1 \in Nat /\ (j - 1) + 1 < STABLE_FRAMES /\ j - 1 <= Len(seen)
        /\ VOTE_WINDOW \in Nat /\ STABLE_FRAMES \in Nat /\ (j - 1) + 1 = j
    BY <1>0, <1>1, <2>1
  <2>3. Len(seen) <= VOTE_WINDOW + STABLE_FRAMES - 1
    BY <1>1 DEF cap
  <2>4. Window(more, (j - 1) + 1) = Window(seen, j - 1)
    BY ONLY <1>1, <1>2, <2>2, <2>3, WindowMoves DEF more, cap
  <2>5. QED
    BY <2>2, <2>4
<1> HIDE DEF v
<1> DEFINE count == IF v = pending_state
                      THEN IF pending_count < STABLE_FRAMES THEN pending_count + 1
                           ELSE STABLE_FRAMES
                      ELSE 1
<1>10. /\ pending_state' = v /\ pending_count' = count
       /\ stable_state' = IF count >= STABLE_FRAMES THEN v ELSE stable_state
  <2>1. Vote!Min({STABLE_FRAMES, pending_count + 1})
          = IF pending_count < STABLE_FRAMES THEN pending_count + 1 ELSE STABLE_FRAMES
    <3>1. STABLE_FRAMES \in Int /\ pending_count + 1 \in Int /\ pending_count \in Int
      BY <1>0, <1>1
    <3>2. QED
      BY <1>0, <1>1, <3>1, LowerOfTwo
  <2>2. pending_state' = v
        /\ pending_count' = (IF v = pending_state
                               THEN Vote!Min({STABLE_FRAMES, pending_count + 1}) ELSE 1)
        /\ stable_state' = IF pending_count' >= STABLE_FRAMES THEN pending_state'
                           ELSE stable_state
    BY <1>3 DEF Vote!UpdateStable
  <2>3. QED
    BY <2>1, <2>2
<1>11. count \in 1 .. STABLE_FRAMES /\ count <= Len(more)
  BY <1>0, <1>1, <1>5
<1>12. ASSUME NEW j \in 0 .. STABLE_FRAMES - 1
       PROVE  /\ j < count => Vote!VoteState(Window(more, j)) = v
              /\ j = count /\ j < Len(more) => Vote!VoteState(Window(more, j)) # v
  <2>1. CASE j = 0
    BY <1>8, <1>11, <2>1 DEF v
  <2>2. CASE j > 0
    <3>1. /\ j \in 1 .. STABLE_FRAMES - 1 /\ j - 1 \in 0 .. STABLE_FRAMES - 1
      BY <1>0, <2>2
    <3>2. j < Len(more) \/ j < count => j <= Len(seen) + 1
      BY <1>0, <1>1, <1>5, <1>11
    <3>3. /\ j - 1 < pending_count => Vote!VoteState(Window(seen, j - 1)) = pending_state
          /\ j - 1 = pending_count /\ j - 1 < Len(seen)
               => Vote!VoteState(Window(seen, j - 1)) # pending_state
      BY <3>1 DEF VoteInv
    <3>4. ASSUME j < count PROVE Vote!VoteState(Window(more, j)) = v
      <4>1. v = pending_state /\ j - 1 < pending_count
        BY <1>0, <1>1, <2>2, <3>4
      <4>2. QED
        BY <1>9, <3>1, <3>2, <3>3, <3>4, <4>1
    <3>5. ASSUME j = count, j < Len(more) PROVE Vote!VoteState(Window(more, j)) # v
      <4>1. Window(more, j) = Window(seen, j - 1)
        BY <1>9, <3>1, <3>2, <3>5
      <4>2. j - 1 < Len(seen)
        BY <1>0, <1>1, <1>5, <3>5
      <4>3. CASE v = pending_state
        <5>1. j - 1 = pending_count
          BY <1>0, <1>1, <3>5, <4>3
        <5>2. QED
          BY <3>3, <4>1, <4>2, <4>3, <5>1
      <4>4. CASE v # pending_state
        <5>1. j - 1 = 0
          BY <3>5, <4>4
        <5>2. seen # << >> /\ j - 1 < pending_count
          BY <1>1, <4>2, <5>1
        <5>3. QED
          BY <3>3, <4>1, <4>4, <5>2
      <4>5. QED
        BY <4>3, <4>4
    <3>6. QED
      BY <3>4, <3>5
  <2>3. QED
    BY <2>1, <2>2
<1>13. /\ last_sent_state' \in Vote!State \cup {Vote!Nothing}
       /\ blade_state' \in Vote!State /\ faults' \in 0 .. MaxFaults
  <2>1. stable_state' \in Vote!State
    BY <1>1, <1>7, <1>10
  <2>2. \/ UNCHANGED << last_sent_state, blade_state, faults >>
        \/ last_sent_state' = stable_state' /\ blade_state' = stable_state' /\ faults' = faults
        \/ /\ faults < MaxFaults /\ faults' = faults + 1
           /\ last_sent_state' \in {last_sent_state, stable_state'}
           /\ blade_state' = blade_state
    BY <1>3 DEF Vote!SendState
  <2>3. QED
    BY <1>0, <1>1, <2>1, <2>2
<1> HIDE DEF count
<1>14. Vote!TypeOK'
  <2>1. stable_state' \in Vote!State /\ pending_count' \in 0 .. STABLE_FRAMES
    BY <1>0, <1>1, <1>7, <1>10, <1>11
  <2>2. QED
    BY <1>1, <1>3, <1>6, <1>7, <1>10, <1>13, <2>1
       DEF Vote!TypeOK, Vote!State, Vote!Nothing, Vote!NORMAL, Vote!YELLOW, Vote!ROT, Vote!NONE
<1>15. /\ seen' \in Seq(Vote!State) /\ Len(seen') <= VOTE_WINDOW + STABLE_FRAMES - 1
       /\ state_history' = Vote!LastOf(seen', VOTE_WINDOW)
       /\ pending_count' <= Len(seen') /\ pending_count' > 0
       /\ pending_count' >= STABLE_FRAMES => stable_state' = pending_state'
  BY <1>0, <1>1, <1>3, <1>5, <1>6, <1>10, <1>11 DEF cap
<1>16. \A j \in 0 .. STABLE_FRAMES - 1 :
         /\ j < pending_count' => Vote!VoteState(Window(seen', j)) = pending_state'
         /\ j = pending_count' /\ j < Len(seen')
              => Vote!VoteState(Window(seen', j)) # pending_state'
  BY <1>3, <1>10, <1>12
<1>17. QED
  BY <1>14, <1>15, <1>16
     DEF VoteInv, Vote!State, Vote!NORMAL, Vote!YELLOW, Vote!ROT, Vote!NONE


LEMMA VoteInvariant == Vote!Spec => []VoteInv
<1> USE PartsAssumption DEF Vote!VoteAssumption
<1> USE DEF Vote!State, Vote!NORMAL, Vote!YELLOW, Vote!ROT, Vote!NONE, Vote!Nothing
<1>1. Vote!Init => VoteInv
  <2> SUFFICES ASSUME Vote!Init PROVE VoteInv
    OBVIOUS
  <2>1. << >> \in Seq(Vote!State) /\ Len(<< >>) = 0
    OBVIOUS
  <2>2. Vote!LastOf(seen, VOTE_WINDOW) = << >>
    BY <2>1 DEF Vote!Init, Vote!LastOf
  <2>3. QED
    BY <2>1, <2>2 DEF Vote!Init, VoteInv, Vote!TypeOK
<1>2. VoteInv /\ [Vote!Next]_(Vote!vars) => VoteInv'
  <2> SUFFICES ASSUME VoteInv, [Vote!Next]_(Vote!vars) PROVE VoteInv'
    OBVIOUS
  <2>1. ASSUME NEW objs \in SUBSET {Vote!NORMAL, Vote!YELLOW, Vote!ROT},
               NEW again \in BOOLEAN, Vote!Picture(objs, again)
        PROVE  VoteInv'
    BY <2>1, PictureKeepsVotes
  <2>2. CASE Vote!Leave
    <3>1. << >> \in Seq(Vote!State) /\ Len(<< >>) = 0
      OBVIOUS
    <3>2. Vote!LastOf(<< >>, VOTE_WINDOW) = << >>
      BY <3>1 DEF Vote!LastOf
    <3>3. /\ running' = FALSE /\ state_history' = << >> /\ pending_state' = -1
          /\ pending_count' = 0 /\ stable_state' = 3 /\ last_sent_state' = -1
          /\ seen' = << >> /\ blade_state' = blade_state /\ faults' = faults
      BY <2>2 DEF Vote!Leave, Vote!Start
    <3>4. Vote!TypeOK'
      <4>1. /\ VOTE_WINDOW \in Nat \ {0} /\ STABLE_FRAMES \in Nat \ {0}
            /\ blade_state \in {0, 1, 2, 3} /\ faults \in 0 .. MaxFaults
        BY DEF VoteInv, Vote!TypeOK
      <4>2. << >> \in Seq({0, 1, 2, 3}) /\ Len(<< >>) = 0
        OBVIOUS
      <4>3. 0 <= VOTE_WINDOW /\ 0 \in 0 .. STABLE_FRAMES
        BY <4>1
      <4>4. QED
        BY ONLY <3>3, <4>1, <4>2, <4>3
           DEF Vote!TypeOK, Vote!State, Vote!NORMAL, Vote!YELLOW, Vote!ROT, Vote!NONE,
               Vote!Nothing
    <3>5. \A j \in 0 .. STABLE_FRAMES - 1 : ~(j < 0) /\ (j = 0 => ~(j < Len(<< >>)))
      BY <3>1
    <3>6. \A j \in 0 .. STABLE_FRAMES - 1 :
            /\ j < pending_count' => Vote!VoteState(Window(seen', j)) = pending_state'
            /\ j = pending_count' /\ j < Len(seen')
                 => Vote!VoteState(Window(seen', j)) # pending_state'
      BY <3>3, <3>5
    <3>7. QED
      BY <3>1, <3>2, <3>3, <3>4, <3>6 DEF VoteInv
  <2>3. CASE Vote!Enter
    BY <2>3 DEF Vote!Enter, Vote!voteVars, VoteInv, Vote!TypeOK
  <2>4. CASE UNCHANGED Vote!vars
    BY <2>4 DEF Vote!vars, Vote!voteVars, VoteInv, Vote!TypeOK
  <2>5. QED
    BY <2>1, <2>2, <2>3, <2>4 DEF Vote!Next
<1>3. QED
  BY <1>1, <1>2, PTL DEF Vote!Spec

(* Four pictures that agree are the newest two of the three newest votes.  *)
LEMMA FourWin ==
  ASSUME VoteInv, VOTE_WINDOW \in 2 .. 5, STABLE_FRAMES = 3
  PROVE  Vote!FourAgree
<1> SUFFICES ASSUME NEW s \in Vote!State, Len(seen) >= 4,
                    \A n \in 0 .. 3 : seen[Len(seen) - n] = s
             PROVE  stable_state = s
  BY DEF Vote!FourAgree
<1>0. /\ seen \in Seq(Vote!State) /\ Len(seen) \in Nat /\ VOTE_WINDOW \in Nat
      /\ pending_count \in 0 .. 3 /\ pending_count > 0
  <2>1. seen # << >>
    OBVIOUS
  <2>2. QED
    BY <2>1 DEF VoteInv, Vote!TypeOK
<1>1. ASSUME NEW j \in 0 .. 2 PROVE Vote!VoteState(Window(seen, j)) = s
  <2> DEFINE t == Window(seen, j)
             L == Len(t)
             d == Len(seen) - j - L
  <2>1. j \in Nat /\ j <= Len(seen)
    BY <1>0
  <2>2. /\ t \in Seq(Vote!State) /\ d \in Nat
        /\ L = IF Len(seen) - j <= VOTE_WINDOW THEN Len(seen) - j ELSE VOTE_WINDOW
        /\ \A n \in 1 .. L : t[n] = seen[d + n]
    BY <1>0, <2>1, WindowIs
  <2> HIDE DEF t
  <2>3. L \in 2 .. 5
    BY <1>0, <2>2
  <2>4. /\ L \in 1 .. L /\ L - 1 \in 1 .. L
        /\ d + L = Len(seen) - j /\ d + (L - 1) = Len(seen) - (j + 1)
        /\ j \in 0 .. 3 /\ j + 1 \in 0 .. 3
    <3>1. L \in 2 .. 5 /\ Len(seen) \in Int /\ j \in 0 .. 2
      BY <1>0, <2>3
    <3> HIDE DEF L
    <3>2. QED
      BY ONLY <3>1
  <2>5. t[L] = seen[d + L] /\ t[L - 1] = seen[d + (L - 1)]
    BY <2>2, <2>4
  <2>6. t[L] = s /\ t[L - 1] = s
    BY <2>4, <2>5
  <2>7. Vote!VoteState(t) = s
    BY <2>2, <2>3, <2>6, TwoNewestWin
  <2>8. QED
    BY <2>7 DEF t
<1>2. pending_state = s
  BY <1>0, <1>1 DEF VoteInv
<1>3. pending_count = 3
  <2>1. SUFFICES ASSUME pending_count # 3 PROVE FALSE
    OBVIOUS
  <2>2. pending_count \in 0 .. 2 /\ pending_count < Len(seen)
    BY <1>0, <2>1
  <2>3. Vote!VoteState(Window(seen, pending_count)) # pending_state
    BY <2>2 DEF VoteInv
  <2>4. QED
    BY <1>1, <1>2, <2>2, <2>3
<1>4. QED
  BY <1>2, <1>3 DEF VoteInv

(* Two places make a set of two. *)
LEMMA TwoPlaces ==
  ASSUME NEW p \in Seq(Vote!State), NEW s, NEW a \in 1 .. Len(p), NEW b \in 1 .. Len(p),
         a # b, p[a] = s, p[b] = s
  PROVE  Vote!Cardinality(Vote!Places(p, s)) >= 2
<1> DEFINE P == Vote!Places(p, s)
<1>1. Len(p) \in Nat /\ DOMAIN p = 1 .. Len(p)
  OBVIOUS
<1>2. P \subseteq 1 .. Len(p) /\ {a, b} \subseteq P
  BY <1>1 DEF Vote!Places
<1> HIDE DEF P
<1>3. IsFiniteSet(P)
  <2>1. 1 \in Int /\ Len(p) \in Int
    BY <1>1
  <2>2. IsFiniteSet(1 .. Len(p))
    BY ONLY <2>1, FS_Interval
  <2>3. QED
    BY ONLY <1>2, <2>2, FS_Subset
<1>4. Cardinality({a, b}) = 2
  <2>1. IsFiniteSet({a}) /\ Cardinality({a}) = 1
    BY FS_Singleton
  <2>2. Cardinality({a} \cup {b}) = 2
    <3>1. b \notin {a}
      OBVIOUS
    <3>2. Cardinality({a} \cup {b}) = Cardinality({a}) + 1
      BY ONLY <2>1, <3>1, FS_AddElement
    <3>3. Cardinality({a} \cup {b}) = 1 + 1
      BY ONLY <2>1, <3>2, Zenon
    <3>4. 1 + 1 = 2
      OBVIOUS
    <3>5. QED
      BY ONLY <3>3, <3>4, Zenon
  <2>3. {a} \cup {b} = {a, b}
    OBVIOUS
  <2>4. QED
    BY <2>2, <2>3
<1>5. Cardinality({a, b}) <= Cardinality(P)
  BY <1>2, <1>3, FS_Subset
<1>6. Cardinality(P) \in Nat
  BY <1>3, FS_CardinalityType
<1>7. Cardinality(P) >= 2
  BY <1>4, <1>5, <1>6
<1>8. Vote!Cardinality(P) = Cardinality(P)
  BY DEF Vote!Cardinality, Cardinality
<1>9. QED
  BY <1>7, <1>8 DEF P

(* The winner of the newest vote and of the one two pictures ago was seen  *)
(* twice.                                                                  *)
LEMMA WonAgain ==
  ASSUME NEW p \in Seq(Vote!State), NEW s, VOTE_WINDOW \in Nat \ {0}, Len(p) >= 3,
         Vote!VoteState(Window(p, 0)) = s, Vote!VoteState(Window(p, 2)) = s
  PROVE  Vote!Cardinality(Vote!Places(p, s)) >= 2
<1> DEFINE N == Len(p)
<1>0. N \in Nat /\ VOTE_WINDOW \in Nat /\ VOTE_WINDOW > 0
  OBVIOUS
<1>1. ASSUME NEW j \in {0, 2}
      PROVE  \E n \in 1 .. N - j : p[n] = s
  <2> DEFINE t == Window(p, j)
             L == Len(t)
             d == N - j - L
  <2>1. j \in Nat /\ j <= N /\ N - j > 0
    BY <1>0
  <2>2. /\ t \in Seq(Vote!State) /\ d \in Nat
        /\ L = IF N - j <= VOTE_WINDOW THEN N - j ELSE VOTE_WINDOW
        /\ \A n \in 1 .. L : t[n] = p[d + n]
    BY <1>0, <2>1, WindowIs
  <2> HIDE DEF t
  <2>3. L \in Nat /\ L > 0
    BY <1>0, <2>1, <2>2
  <2>4. Vote!VoteState(t) = s
    BY <1>1 DEF t
  <2>5. PICK n \in 1 .. L : t[n] = s
    BY <2>2, <2>3, <2>4, WinnerWasSeen
  <2>6. d + n \in 1 .. N - j
    <3>1. /\ N \in Int /\ j \in Int /\ L \in Int /\ n \in 1 .. L /\ N - j - L \in Nat
      BY <1>0, <2>1, <2>2, <2>3
    <3> HIDE DEF N, L
    <3>2. QED
      BY ONLY <3>1
  <2>7. p[d + n] = s
    BY <2>2, <2>5
  <2>8. QED
    BY <2>6, <2>7
<1>2. PICK a \in 1 .. N - 2 : p[a] = s
  BY <1>1
<1>3. \E b \in 1 .. N : p[b] = s /\ b # a
  <2> SUFFICES ASSUME \A b \in 1 .. N : p[b] = s => b = a PROVE FALSE
    OBVIOUS
  <2> DEFINE t == Window(p, 0)
             L == Len(t)
             d == N - 0 - L
  <2>2. /\ t \in Seq(Vote!State) /\ d \in Nat
        /\ L = IF N - 0 <= VOTE_WINDOW THEN N - 0 ELSE VOTE_WINDOW
        /\ \A n \in 1 .. L : t[n] = p[d + n]
    BY <1>0, WindowIs
  <2> HIDE DEF t
  <2>3. L \in Nat /\ L > 0
    BY <1>0, <2>2
  <2>4. Vote!VoteState(t) = s
    BY DEF t
  <2>5. /\ \E n \in 1 .. L : t[n] = s
        /\ \A n \in 1 .. L : (\A j \in 1 .. L : t[j] = s => j = n) => n >= L - 1
    BY <2>2, <2>3, <2>4, WinnerWasSeen
  <2>6. ASSUME NEW n \in 1 .. L, t[n] = s PROVE n = a - (N - L) /\ n <= L - 2
    <3>1. /\ N \in Int /\ L \in Int /\ n \in 1 .. L /\ N - 0 - L \in Nat
          /\ a \in 1 .. N - 2
      BY <1>0, <2>2, <2>3
    <3>2. p[d + n] = s
      BY <2>2, <2>6
    <3> HIDE DEF N, L
    <3>3. d + n \in 1 .. N
      BY ONLY <3>1
    <3>4. d + n = a
      BY <3>2, <3>3 DEF N
    <3>5. QED
      BY ONLY <3>1, <3>4
  <2>7. PICK n \in 1 .. L : t[n] = s
    BY <2>5
  <2>8. \A j \in 1 .. L : t[j] = s => j = n
    BY <2>6, <2>7
  <2>9. n >= L - 1 /\ n <= L - 2
    BY <2>5, <2>6, <2>7, <2>8
  <2>10. QED
    BY <2>3, <2>9
<1>4. PICK b \in 1 .. N : p[b] = s /\ b # a
  BY <1>3
<1>5. a \in 1 .. N
  BY <1>0
<1>6. QED
  BY <1>2, <1>4, <1>5, TwoPlaces

(* A step that changes the verdict is a picture that ends three votes.     *)
LEMMA VerdictStep ==
  ASSUME VoteInv, VoteInv', [Vote!Next]_(Vote!vars), Vote!VoteAssumption,
         STABLE_FRAMES = 3, stable_state' # stable_state, running'
  PROVE  Vote!Cardinality(Vote!Places(seen', stable_state')) >= 2
<1>1. PICK objs \in SUBSET {Vote!NORMAL, Vote!YELLOW, Vote!ROT}, again \in BOOLEAN :
        Vote!Picture(objs, again)
  <2>1. ~Vote!Leave
    BY DEF Vote!Leave
  <2>2. ~Vote!Enter
    BY DEF Vote!Enter, Vote!voteVars
  <2>3. ~UNCHANGED Vote!vars
    BY DEF Vote!vars, Vote!voteVars
  <2>4. QED
    BY <2>1, <2>2, <2>3 DEF Vote!Next
<1>2. stable_state' = pending_state' /\ pending_count' >= 3
  BY <1>1 DEF Vote!Picture, Vote!UpdateStable
<1>3. /\ seen' \in Seq(Vote!State) /\ Len(seen') \in Nat /\ pending_count' \in 0 .. 3
      /\ pending_count' <= Len(seen')
  BY DEF VoteInv, Vote!TypeOK
<1>4. pending_count' = 3 /\ Len(seen') >= 3 /\ VOTE_WINDOW \in Nat \ {0}
  BY <1>2, <1>3 DEF Vote!VoteAssumption
<1>5. \A j \in 0 .. 2 : Vote!VoteState(Window(seen', j)) = pending_state'
  BY <1>4 DEF VoteInv
<1>6. /\ Vote!VoteState(Window(seen', 0)) = stable_state'
      /\ Vote!VoteState(Window(seen', 2)) = stable_state'
  BY <1>2, <1>5
<1>7. QED
  BY <1>3, <1>4, <1>6, WonAgain

(* With the code's three votes, and a window of two to five pictures (the  *)
(* code's is five): four pictures that agree are the verdict, and one      *)
(* picture alone never is, for every sequence of pictures (vote_state,     *)
(* update_stable_state).                                                   *)
THEOREM VerdictsAreVoted ==
  VOTE_WINDOW \in 2 .. 5 /\ STABLE_FRAMES = 3 => (PartsSpec => VerdictsVoted)
<1> SUFFICES ASSUME VOTE_WINDOW \in 2 .. 5, STABLE_FRAMES = 3
             PROVE  PartsSpec => VerdictsVoted
  OBVIOUS
<1>1. VoteInv => Vote!TypeOK /\ Vote!FourAgree
  BY FourWin DEF VoteInv
<1>2. VoteInv /\ VoteInv' /\ [Vote!Next]_(Vote!vars)
        => [stable_state' # stable_state /\ running'
              => Vote!Cardinality(Vote!Places(seen', stable_state')) >= 2]_(Vote!vars)
  BY PartsAssumption, VerdictStep
<1>3. Vote!Spec => [](Vote!TypeOK /\ Vote!FourAgree)
  BY <1>1, VoteInvariant, PTL
<1>4. Vote!Spec => Vote!NoVerdictOfOnePicture
  BY <1>2, VoteInvariant, PTL DEF Vote!Spec, Vote!NoVerdictOfOnePicture
<1>5. QED
  BY <1>3, <1>4, PartsRun, PTL DEF VerdictsVoted
=============================================================================
