---------------------------- MODULE StreamsProofs ----------------------------
(***************************************************************************)
(* Proofs about the framed byte streams, for every size of their buffers,  *)
(* every payload and any number of frames: the commands of the host        *)
(* (CommandLink), the telemetry of the device (Telemetry) and the reports  *)
(* of the camera (CameraLink). What they rest on comes first: induction    *)
(* over the natural numbers, of a set; loops over a buffer that keep, skip *)
(* or take (the parsers of uart4_port.c, usart1_port.c and                 *)
(* serial_panel.py); and frames in a row, the stream of a link that has    *)
(* lost nothing.                                                           *)
(***************************************************************************)
EXTENDS MCStreams, SequenceTheorems, FiniteSetTheorems, WellFoundedInduction, TLAPS

-----------------------------------------------------------------------------
(* Induction over the natural numbers, of a set                            *)

LessThan == {p \in Nat \X Nat : p[1] < p[2]}

(* Every set of numbers that is not empty has a least one. *)
LEMMA Least ==
  ASSUME NEW T, T \subseteq Nat, T # {}
  PROVE  \E m \in T : \A n \in T : m <= n
<1>1. IsWellFoundedOn(LessThan, Nat)
  BY NatLessThanWellFounded DEF OpToRel, LessThan
<1>2. PICK m \in T : \A n \in T : ~(<< n, m >> \in LessThan)
  BY <1>1, WFMin
<1>3. \A n \in Nat : << n, m >> \in LessThan <=> n < m
  BY DEF LessThan
<1>4. ASSUME NEW n \in T PROVE m <= n
  <2>1. n \in Nat /\ m \in Nat /\ ~(n < m)
    BY <1>2, <1>3
  <2>2. QED
    BY <2>1
<1>5. QED
  BY <1>4

(* A set of numbers that holds 0, and n + 1 with every n, holds them all. *)
LEMMA Induction ==
  ASSUME NEW T, 0 \in T, \A n \in Nat : n \in T => n + 1 \in T
  PROVE  \A n \in Nat : n \in T
<1> SUFFICES ASSUME Nat \ T # {} PROVE FALSE
  OBVIOUS
<1>1. PICK m \in Nat \ T : \A n \in Nat \ T : m <= n
  BY Least
<1>2. m - 1 \in Nat /\ m - 1 \in T
  BY <1>1
<1>3. QED
  BY <1>1, <1>2

-----------------------------------------------------------------------------
(* A parser's loop over a buffer: every turn keeps the rest and ends,      *)
(* skips a byte, or takes a frame and goes on behind it.                   *)

TurnOf(t, f, x) ==
  IF t[x].kind = "keep" THEN t[x].kept
  ELSE IF t[x].kind = "skip" THEN f[t[x].next]
  ELSE [f[t[x].next] EXCEPT !.frames = t[x].add \o @]

Keeps(r) == [kind |-> "keep", kept |-> r, next |-> 0, add |-> << >>]
Skips(n) == [kind |-> "skip", kept |-> 0, next |-> n, add |-> << >>]
Takes(n, a) == [kind |-> "take", kept |-> 0, next |-> n, add |-> a]

(* What a loop returns at a place, by the turn it takes there. *)
LEMMA TurnKeeps ==
  ASSUME NEW t, NEW f, NEW x, NEW r, t[x] = Keeps(r)
  PROVE  TurnOf(t, f, x) = r
BY DEF TurnOf, Keeps

(* A turn that skips returns what the loop returns further on. *)
LEMMA TurnSkips ==
  ASSUME NEW t, NEW f, NEW x, NEW n, t[x] = Skips(n)
  PROVE  TurnOf(t, f, x) = f[n]
BY DEF TurnOf, Skips

(* A turn that takes a frame puts it before what the loop returns further on. *)
LEMMA TurnTakes ==
  ASSUME NEW t, NEW f, NEW x, NEW n, NEW a, t[x] = Takes(n, a)
  PROVE  TurnOf(t, f, x) = [f[n] EXCEPT !.frames = a \o @]
<1>1. t[x].kind = "take" /\ t[x].next = n /\ t[x].add = a
  BY DEF Takes
<1>2. t[x].kind # "keep" /\ t[x].kind # "skip"
  BY <1>1
<1>3. TurnOf(t, f, x) = [f[t[x].next] EXCEPT !.frames = t[x].add \o @]
  BY <1>2, Zenon DEF TurnOf
<1>4. QED
  BY <1>1, <1>3, Zenon

Runs(f, t, N) == \A x \in 1 .. N : f[x] = TurnOf(t, f, x)

Forward(t, N) == \A x \in 1 .. N : t[x].kind # "keep" => t[x].next \in x + 1 .. N

(* A loop whose turns only go forward has a run. *)
LEMMA WalkRuns ==
  ASSUME NEW N \in Nat, NEW t, Forward(t, N)
  PROVE  \E f : f = [x \in 1 .. N |-> TurnOf(t, f, x)]
<1> DEFINE Upto(f, d) == \A x \in 1 .. N : x > N - d => f[x] = TurnOf(t, f, x)
           T == {d \in Nat : \E f : Upto(f, d)}
<1>1. 0 \in T
  <2>1. \A x \in 1 .. N : ~(x > N - 0)
    OBVIOUS
  <2>2. Upto(<< >>, 0)
    BY <2>1
  <2>3. QED
    BY <2>2
<1>2. ASSUME NEW d \in Nat, d \in T PROVE d + 1 \in T
  <2>1. PICK f : Upto(f, d)
    BY <1>2
  <2> DEFINE g == [x \in 1 .. N |-> IF x = N - d THEN TurnOf(t, f, x) ELSE f[x]]
  <2>2. /\ \A x \in 1 .. N : x = N - d => g[x] = TurnOf(t, f, x)
        /\ \A x \in 1 .. N : x # N - d => g[x] = f[x]
    OBVIOUS
  <2> HIDE DEF g
  <2>3. ASSUME NEW x \in 1 .. N, x > N - (d + 1)
        PROVE  g[x] = TurnOf(t, g, x)
    <3>1. \A y \in x + 1 .. N : y \in 1 .. N /\ y # N - d
      BY <2>3
    <3>2. \A y \in x + 1 .. N : g[y] = f[y]
      BY <2>2, <3>1
    <3>3. t[x].kind # "keep" => g[t[x].next] = f[t[x].next]
      BY <3>2 DEF Forward
    <3>4. TurnOf(t, g, x) = TurnOf(t, f, x)
      BY <3>3 DEF TurnOf
    <3>5. CASE x = N - d
      BY <2>2, <3>4, <3>5
    <3>6. CASE x # N - d
      <4>1. x > N - d
        BY <2>3, <3>6
      <4>2. QED
        BY <2>1, <2>2, <3>4, <3>6, <4>1
    <3>7. QED
      BY <3>5, <3>6
  <2>4. Upto(g, d + 1)
    BY <2>3
  <2>5. QED
    BY <2>4
<1>3. N \in T
  <2> HIDE DEF T
  <2>1. QED
    BY <1>1, <1>2, Induction
<1>4. PICK f : Upto(f, N)
  BY <1>3
<1> DEFINE g == [x \in 1 .. N |-> f[x]]
           r(x) == TurnOf(t, g, x)
<1>5. \A x \in 1 .. N : g[x] = f[x]
  OBVIOUS
<1> HIDE DEF g
<1>6. ASSUME NEW x \in 1 .. N PROVE f[x] = r(x)
  <2>1. x > N - N
    OBVIOUS
  <2>2. f[x] = TurnOf(t, f, x)
    BY <1>4, <2>1
  <2>3. t[x].kind # "keep" => t[x].next \in 1 .. N
    BY DEF Forward
  <2>4. t[x].kind # "keep" => g[t[x].next] = f[t[x].next]
    BY <1>5, <2>3
  <2>5. QED
    BY <2>2, <2>4 DEF TurnOf
<1>7. g = [x \in 1 .. N |-> r(x)]
  <2> HIDE DEF r
  <2>1. QED
    BY <1>6 DEF g
<1>8. QED
  BY <1>7

(* What a walk over b returns: a suffix of b, of which less than K bytes   *)
(* are kept, and frames of S.                                              *)
Walks(b, t, N, K, S) ==
  \A x \in 1 .. N :
    \/ \E r \in x .. N :
         /\ Len(b) + 1 - r < K
         /\ t[x] = Keeps([rest |-> SubSeq(b, r, Len(b)), frames |-> << >>])
    \/ \E n \in x + 1 .. N : t[x] = Skips(n)
    \/ \E n \in x + 1 .. N, a \in Seq(S) : t[x] = Takes(n, a)

(* The loops over a buffer go forward. *)
LEMMA WalksForward ==
  ASSUME NEW b, NEW t, NEW N \in Nat, NEW K, NEW S, Walks(b, t, N, K, S)
  PROVE  Forward(t, N)
<1> SUFFICES ASSUME NEW x \in 1 .. N, t[x].kind # "keep"
             PROVE  t[x].next \in x + 1 .. N
  BY DEF Forward
<1>1. ASSUME NEW r, t[x] = Keeps(r) PROVE FALSE
  BY <1>1 DEF Keeps
<1>2. ASSUME NEW n \in x + 1 .. N, t[x] = Skips(n) PROVE t[x].next \in x + 1 .. N
  BY <1>2 DEF Skips
<1>3. ASSUME NEW n \in x + 1 .. N, NEW a, t[x] = Takes(n, a)
      PROVE  t[x].next \in x + 1 .. N
  BY <1>3 DEF Takes
<1>4. QED
  BY <1>1, <1>2, <1>3 DEF Walks

(* What a turn adds comes first among the frames. *)
LEMMA WithFrames ==
  ASSUME NEW rest, NEW out, NEW add, NEW more, more = [rest |-> rest, frames |-> out]
  PROVE  [more EXCEPT !.frames = add \o @] = [rest |-> rest, frames |-> add \o out]
<1>1. [more EXCEPT !.frames = add \o @] = [more EXCEPT !.frames = add \o more.frames]
  BY Zenon
<1>2. more.frames = out
  OBVIOUS
<1> DEFINE y == add \o out
<1> HIDE DEF y
<1>3. [more EXCEPT !.frames = y] = [rest |-> rest, frames |-> y]
  OBVIOUS
<1>4. QED
  BY <1>1, <1>2, <1>3 DEF y

Walked(B, b, t, N, K, S, f) ==
  b \in Seq(B) /\ N \in Nat /\ K \in Int /\ Walks(b, t, N, K, S) /\ Runs(f, t, N)

Returns(b, N, K, S, f) ==
  \A x \in 1 .. N : \E r \in x .. N : \E out \in Seq(S) :
    /\ Len(b) + 1 - r < K
    /\ f[x] = [rest |-> SubSeq(b, r, Len(b)), frames |-> out]

(* A loop over a buffer returns a rest of that buffer and frames of its kind. *)
LEMMA WalkReturns ==
  ASSUME NEW B, NEW b, NEW t, NEW N, NEW K, NEW S, NEW f, Walked(B, b, t, N, K, S, f)
  PROVE  Returns(b, N, K, S, f)
<1> SUFFICES \A x \in 1 .. N : \E r \in x .. N : \E out \in Seq(S) :
               /\ Len(b) + 1 - r < K
               /\ f[x] = [rest |-> SubSeq(b, r, Len(b)), frames |-> out]
  BY DEF Returns
<1> b \in Seq(B) /\ N \in Nat /\ K \in Int /\ Walks(b, t, N, K, S) /\ Runs(f, t, N)
  BY DEF Walked
<1> DEFINE Good(x) == \E r \in x .. N : \E out \in Seq(S) :
                        /\ Len(b) + 1 - r < K
                        /\ f[x] = [rest |-> SubSeq(b, r, Len(b)), frames |-> out]
           T == {d \in Nat : \A x \in 1 .. N : x > N - d => Good(x)}
<1>1. 0 \in T
  <2>1. \A x \in 1 .. N : ~(x > N - 0)
    OBVIOUS
  <2>2. QED
    BY <2>1
<1>2. ASSUME NEW d \in Nat, d \in T PROVE d + 1 \in T
  <2>1. ASSUME NEW x \in 1 .. N, x > N - (d + 1) PROVE Good(x)
    <3>1. f[x] = TurnOf(t, f, x)
      BY DEF Runs
    <3>2. ASSUME NEW r \in x .. N, Len(b) + 1 - r < K,
                 t[x] = Keeps([rest |-> SubSeq(b, r, Len(b)), frames |-> << >>])
          PROVE  Good(x)
      <4>1. TurnOf(t, f, x) = [rest |-> SubSeq(b, r, Len(b)), frames |-> << >>]
        BY ONLY <3>2, TurnKeeps
      <4>2. << >> \in Seq(S)
        BY EmptySeq
      <4>3. QED
        BY <3>1, <3>2, <4>1, <4>2
    <3>3. ASSUME NEW n \in x + 1 .. N
          PROVE  \E r \in x .. N : \E out \in Seq(S) :
                   /\ Len(b) + 1 - r < K
                   /\ f[n] = [rest |-> SubSeq(b, r, Len(b)), frames |-> out]
      <4>1. n \in 1 .. N /\ n > N - d /\ \A r \in n .. N : r \in x .. N
        BY <2>1
      <4>2. QED
        BY <1>2, <4>1
    <3>4. ASSUME NEW n \in x + 1 .. N, t[x] = Skips(n) PROVE Good(x)
      <4>0. t[x] = Skips(n)
        BY <3>4
      <4>1. TurnOf(t, f, x) = f[n]
        BY <4>0 DEF TurnOf, Skips
      <4>2. f[x] = f[n]
        BY <3>1, <4>1, Zenon
      <4>3. QED
        BY <3>3, <4>2
    <3>5. ASSUME NEW n \in x + 1 .. N, NEW a \in Seq(S), t[x] = Takes(n, a) PROVE Good(x)
      <4>1. PICK r \in x .. N, out \in Seq(S) :
              /\ Len(b) + 1 - r < K
              /\ f[n] = [rest |-> SubSeq(b, r, Len(b)), frames |-> out]
        BY <3>3
      <4> DEFINE more == f[n]
                 rest == SubSeq(b, r, Len(b))
      <4>2. more = [rest |-> rest, frames |-> out]
        BY <4>1
      <4>2a. t[x] = Takes(n, a)
        BY <3>5
      <4>3. TurnOf(t, f, x) = [f[n] EXCEPT !.frames = a \o @]
        <5>1. t[x].kind = "take" /\ t[x].next = n /\ t[x].add = a
          BY <4>2a DEF Takes
        <5>2. t[x].kind # "keep" /\ t[x].kind # "skip"
          BY <5>1
        <5>3. TurnOf(t, f, x) = [f[t[x].next] EXCEPT !.frames = t[x].add \o @]
          BY <5>2, Zenon DEF TurnOf
        <5>4. QED
          BY <5>1, <5>3, Zenon
      <4>4. f[x] = [more EXCEPT !.frames = a \o @]
        BY <3>1, <4>3, Zenon
      <4> HIDE DEF more, rest
      <4>5. [more EXCEPT !.frames = a \o @] = [rest |-> rest, frames |-> a \o out]
        BY ONLY <4>2, WithFrames
      <4>6. f[x] = [rest |-> rest, frames |-> a \o out]
        BY <4>4, <4>5, Zenon
      <4>7. a \o out \in Seq(S)
        BY ConcatProperties
      <4>8. QED
        BY <4>1, <4>6, <4>7 DEF rest
    <3>6. QED
      <4> HIDE DEF Good
      <4>1. \/ \E r \in x .. N :
                 /\ Len(b) + 1 - r < K
                 /\ t[x] = Keeps([rest |-> SubSeq(b, r, Len(b)), frames |-> << >>])
            \/ \E n \in x + 1 .. N : t[x] = Skips(n)
            \/ \E n \in x + 1 .. N, a \in Seq(S) : t[x] = Takes(n, a)
        BY DEF Walks
      <4>2. QED
        BY <3>2, <3>4, <3>5, <4>1
  <2>2. QED
    <3> HIDE DEF Good
    <3>1. QED
      BY <2>1
<1>3. N \in T
  <2> HIDE DEF T
  <2>1. QED
    BY <1>1, <1>2, Induction
<1>4. \A x \in 1 .. N : x > N - N
  OBVIOUS
<1>5. QED
  BY <1>3, <1>4

-----------------------------------------------------------------------------
(* Frames in a row: the bytes of s are those of the frames m + 1 .. e,     *)
(* each with its number, one frame behind the other; frame j begins at     *)
(* p[j].                                                                   *)
Places(F, s, m, e, p) ==
  /\ p \in [m + 1 .. e + 1 -> 1 .. Len(s) + 1]
  /\ p[m + 1] = 1 /\ p[e + 1] = Len(s) + 1
  /\ \A j, k \in m + 1 .. e + 1 : j < k => p[j] < p[k]
  /\ \A j \in m + 1 .. e : \E f \in F :
       /\ p[j + 1] = p[j] + Len(f)
       /\ \A k \in 1 .. Len(f) : s[p[j] + k - 1] = << f[k], j >>

InARow(F, s, m, e) == \E p : Places(F, s, m, e, p)

(* The bytes of a frame that ends in the buffer are in the buffer. *)
LEMMA Inside ==
  \A x, l, n, k \in Int :
    x >= 1 /\ x + l <= n + 1 /\ k \in 1 .. l => x + k - 1 \in 1 .. n
OBVIOUS

(* Nothing on its way is a row of no frames. *)
LEMMA RowEmpty ==
  ASSUME NEW F, NEW m \in Nat
  PROVE  InARow(F, << >>, m, m)
<1> DEFINE p == [j \in {m + 1} |-> 1]
<1>1. \A j : j \in m + 1 .. m + 1 <=> j = m + 1
  OBVIOUS
<1>2. m + 1 .. m + 1 = {m + 1} /\ m + 1 .. m = {} /\ Len(<< >>) = 0 /\ 0 + 1 = 1
  BY <1>1
<1>3. p \in [m + 1 .. m + 1 -> 1 .. 1] /\ p[m + 1] = 1
  BY <1>2
<1> HIDE DEF p
<1>4. Places(F, << >>, m, m, p)
  BY <1>1, <1>2, <1>3 DEF Places
<1>5. QED
  BY <1>4 DEF InARow

(* One frame more at the end. *)
LEMMA RowSend ==
  ASSUME NEW F, F \subseteq Seq(Int), NEW m \in Nat, NEW e \in Nat, m <= e,
         NEW B, NEW s \in Seq(B), NEW t \in Seq(B), InARow(F, s, m, e),
         NEW f \in F, Len(f) >= 1,
         Len(t) = Len(s) + Len(f),
         \A k \in 1 .. Len(s) : t[k] = s[k],
         \A k \in 1 .. Len(f) : t[Len(s) + k] = << f[k], e + 1 >>
  PROVE  InARow(F, t, m, e + 1)
<1>1. PICK p : Places(F, s, m, e, p)
  BY DEF InARow
<1> DEFINE D == m + 1 .. e + 1 + 1
           q == [j \in D |-> IF j = e + 1 + 1 THEN Len(t) + 1 ELSE p[j]]
<1>0. Len(s) \in Nat /\ Len(t) \in Nat /\ Len(f) \in Nat /\ m + 1 \in D /\ e + 1 \in D
      /\ e + 1 + 1 \in D
  OBVIOUS
<1>2. \A j \in D : j # e + 1 + 1 => j \in m + 1 .. e + 1
  OBVIOUS
<1>3. /\ \A j \in m + 1 .. e + 1 : p[j] \in 1 .. Len(s) + 1
      /\ p[m + 1] = 1 /\ p[e + 1] = Len(s) + 1
  BY <1>1 DEF Places
<1>4. \A j \in D : q[j] = IF j = e + 1 + 1 THEN Len(t) + 1 ELSE p[j]
  OBVIOUS
<1>4a. \A j \in m + 1 .. e + 1 : j \in D /\ j # e + 1 + 1
  OBVIOUS
<1>5. /\ \A j \in m + 1 .. e + 1 : q[j] = p[j]
      /\ q[e + 1 + 1] = Len(t) + 1
  BY <1>0, <1>4, <1>4a
<1>6. q \in [D -> 1 .. Len(t) + 1]
  <2>1. \A j \in D : (IF j = e + 1 + 1 THEN Len(t) + 1 ELSE p[j]) \in 1 .. Len(t) + 1
    BY <1>0, <1>2, <1>3
  <2>2. QED
    BY <2>1
<1> HIDE DEF q
<1>7. \A j, k \in D : j < k => q[j] < q[k]
  <2> SUFFICES ASSUME NEW j \in D, NEW k \in D, j < k PROVE q[j] < q[k]
    OBVIOUS
  <2>1. j \in m + 1 .. e + 1
    OBVIOUS
  <2>2. q[j] = p[j] /\ p[j] \in 1 .. Len(s) + 1
    BY <1>3, <1>5, <2>1
  <2>3. CASE k = e + 1 + 1
    BY <1>0, <1>5, <2>2, <2>3
  <2>4. CASE k # e + 1 + 1
    <3>1. k \in m + 1 .. e + 1 /\ q[k] = p[k]
      BY <1>2, <1>5, <2>4
    <3>2. p[j] < p[k]
      BY <1>1, <2>1, <3>1 DEF Places
    <3>3. QED
      BY <2>2, <3>1, <3>2
  <2>5. QED
    BY <2>3, <2>4
<1>8. ASSUME NEW j \in m + 1 .. e + 1
      PROVE  \E h \in F : /\ q[j + 1] = q[j] + Len(h)
                          /\ \A k \in 1 .. Len(h) : t[q[j] + k - 1] = << h[k], j >>
  <2>1. CASE j = e + 1
    <3>1. q[j] = Len(s) + 1 /\ q[j + 1] = q[j] + Len(f)
      BY <1>0, <1>3, <1>5, <2>1
    <3>2. \A k \in 1 .. Len(f) : q[j] + k - 1 = Len(s) + k
      BY <1>0, <3>1
    <3>3. \A k \in 1 .. Len(f) : t[q[j] + k - 1] = << f[k], j >>
      BY <2>1, <3>2
    <3>4. QED
      BY <3>1, <3>3
  <2>2. CASE j # e + 1
    <3>1. j \in m + 1 .. e /\ j + 1 \in m + 1 .. e + 1
      BY <2>2
    <3>2. PICK h \in F : /\ p[j + 1] = p[j] + Len(h)
                         /\ \A k \in 1 .. Len(h) : s[p[j] + k - 1] = << h[k], j >>
      BY <1>1, <3>1 DEF Places
    <3>3. q[j] = p[j] /\ q[j + 1] = p[j + 1]
      BY <1>5, <3>1
    <3>4. Len(h) \in Nat /\ p[j] \in 1 .. Len(s) + 1 /\ p[j + 1] \in 1 .. Len(s) + 1
      BY <1>3, <3>1
    <3>5. \A k \in 1 .. Len(h) : p[j] + k - 1 \in 1 .. Len(s)
      <4>1. p[j] >= 1 /\ p[j] + Len(h) <= Len(s) + 1 /\ p[j] \in Int /\ Len(h) \in Int
        BY <1>0, <3>2, <3>4
      <4>2. \A x, l, n, k \in Int :
              x >= 1 /\ x + l <= n + 1 /\ k \in 1 .. l => x + k - 1 \in 1 .. n
        BY Inside
      <4>3. \A k \in 1 .. Len(h) : k \in Int
        BY <4>1
      <4>4. Len(s) \in Int
        BY <1>0
      <4>5. QED
        BY ONLY <4>1, <4>2, <4>3, <4>4
    <3>6. \A k \in 1 .. Len(h) : t[q[j] + k - 1] = << h[k], j >>
      BY <3>2, <3>3, <3>5
    <3>7. QED
      BY <3>2, <3>3, <3>6
  <2>3. QED
    BY <2>1, <2>2
<1>9. q[m + 1] = 1
  <2>1. m + 1 \in m + 1 .. e + 1
    OBVIOUS
  <2>2. QED
    BY <1>3, <1>5, <2>1
<1>10. Places(F, t, m, e + 1, q)
  BY <1>5, <1>6, <1>7, <1>8, <1>9 DEF Places
<1>11. QED
  BY <1>10 DEF InARow

(* The frames before q are taken out. *)
LEMMA RowTake ==
  ASSUME NEW F, F \subseteq Seq(Int), NEW m \in Nat, NEW e \in Nat,
         NEW B, NEW s \in Seq(B), NEW t \in Seq(B), NEW p, Places(F, s, m, e, p),
         NEW q \in m + 1 .. e + 1,
         Len(t) = Len(s) + 1 - p[q],
         \A k \in 1 .. Len(t) : t[k] = s[k + p[q] - 1]
  PROVE  InARow(F, t, q - 1, e)
<1> DEFINE D == q .. e + 1
           r == [j \in D |-> p[j] - p[q] + 1]
<1>0. Len(s) \in Nat /\ Len(t) \in Nat /\ q \in D /\ e + 1 \in D /\ (q - 1) + 1 = q
      /\ \A j \in D : j \in m + 1 .. e + 1
  OBVIOUS
<1>1. /\ \A j \in m + 1 .. e + 1 : p[j] \in 1 .. Len(s) + 1
      /\ p[e + 1] = Len(s) + 1
      /\ \A j, k \in m + 1 .. e + 1 : j < k => p[j] < p[k]
  BY DEF Places
<1>2. p[q] \in 1 .. Len(s) + 1 /\ \A j \in D : p[j] \in 1 .. Len(s) + 1
  BY <1>0, <1>1
<1>3. \A j \in D : p[q] <= p[j]
  <2> SUFFICES ASSUME NEW j \in D PROVE p[q] <= p[j]
    OBVIOUS
  <2>1. j = q \/ q < j
    OBVIOUS
  <2>2. q < j => p[q] < p[j]
    BY <1>0, <1>1
  <2>3. QED
    BY <1>2, <2>1, <2>2
<1>4. \A j \in D : r[j] = p[j] - p[q] + 1 /\ r[j] \in 1 .. Len(t) + 1
  BY <1>0, <1>2, <1>3
<1>5. r \in [D -> 1 .. Len(t) + 1]
  BY <1>4
<1> HIDE DEF r
<1>6. r[q] = 1 /\ r[e + 1] = Len(t) + 1
  <2>1. r[q] = p[q] - p[q] + 1 /\ r[e + 1] = p[e + 1] - p[q] + 1
    BY <1>0, <1>4
  <2>2. p[q] \in Int /\ p[e + 1] = Len(s) + 1 /\ Len(t) = Len(s) + 1 - p[q] /\ Len(s) \in Int
    BY <1>0, <1>1, <1>2
  <2>3. QED
    <3> DEFINE rq == r[q]
               re == r[e + 1]
               pq == p[q]
               pe == p[e + 1]
    <3>1. rq = pq - pq + 1 /\ re = pe - pq + 1
      BY <2>1
    <3>2. pq \in Int /\ pe = Len(s) + 1 /\ Len(t) = Len(s) + 1 - pq /\ Len(s) \in Int
      BY <2>2
    <3> HIDE DEF rq, re, pq, pe
    <3>3. rq = 1 /\ re = Len(t) + 1
      BY ONLY <3>1, <3>2
    <3>4. QED
      BY <3>3 DEF rq, re
<1>7. \A j, k \in D : j < k => r[j] < r[k]
  <2> SUFFICES ASSUME NEW j \in D, NEW k \in D, j < k PROVE r[j] < r[k]
    OBVIOUS
  <2>1. /\ j \in m + 1 .. e + 1 /\ k \in m + 1 .. e + 1
        /\ r[j] = p[j] - p[q] + 1 /\ r[k] = p[k] - p[q] + 1
    BY <1>0, <1>4
  <2>2. p[j] < p[k] /\ p[j] \in Int /\ p[k] \in Int /\ p[q] \in Int
    BY <1>1, <1>2, <2>1
  <2>3. QED
    BY ONLY <2>1, <2>2, j \in Int, k \in Int
<1>8. ASSUME NEW j \in q .. e
      PROVE  \E h \in F : /\ r[j + 1] = r[j] + Len(h)
                          /\ \A k \in 1 .. Len(h) : t[r[j] + k - 1] = << h[k], j >>
  <2>1. j \in m + 1 .. e /\ j \in D /\ j + 1 \in D
    OBVIOUS
  <2>2. PICK h \in F : /\ p[j + 1] = p[j] + Len(h)
                       /\ \A k \in 1 .. Len(h) : s[p[j] + k - 1] = << h[k], j >>
    BY <2>1 DEF Places
  <2>3. /\ Len(h) \in Nat /\ p[j] \in 1 .. Len(s) + 1 /\ p[j + 1] \in 1 .. Len(s) + 1
        /\ r[j] = p[j] - p[q] + 1 /\ r[j + 1] = p[j + 1] - p[q] + 1 /\ p[q] <= p[j]
    BY <1>2, <1>3, <1>4, <2>1
  <2>3a. /\ p[q] \in 1 .. Len(s) + 1 /\ Len(s) \in Nat /\ Len(t) \in Nat
         /\ p[j + 1] = p[j] + Len(h) /\ Len(t) = Len(s) + 1 - p[q]
    BY <1>0, <1>2, <2>2
  <2> DEFINE rj == r[j]
             rk == r[j + 1]
             pj == p[j]
             pk == p[j + 1]
             pq == p[q]
  <2>3b. /\ pj \in 1 .. Len(s) + 1 /\ pk \in 1 .. Len(s) + 1
         /\ rj = pj - pq + 1 /\ rk = pk - pq + 1 /\ pq <= pj
         /\ pq \in 1 .. Len(s) + 1 /\ Len(s) \in Nat /\ Len(t) \in Nat
         /\ pk = pj + Len(h) /\ Len(t) = Len(s) + 1 - pq /\ Len(h) \in Nat
    BY <2>3, <2>3a
  <2> HIDE DEF rj, rk, pj, pk, pq
  <2>4. rj \in Int /\ rj >= 1 /\ rj + Len(h) <= Len(t) + 1 /\ rk = rj + Len(h)
    BY ONLY <2>3b
  <2>5. ASSUME NEW k \in 1 .. Len(h) PROVE t[r[j] + k - 1] = << h[k], j >>
    <3>1. rj + k - 1 \in 1 .. Len(t)
      BY ONLY <2>3b, <2>4, k \in 1 .. Len(h)
    <3>2. (rj + k - 1) + pq - 1 = pj + k - 1
      BY ONLY <2>3b, k \in 1 .. Len(h)
    <3>3. t[rj + k - 1] = s[(rj + k - 1) + pq - 1]
      BY <3>1 DEF pq
    <3>4. QED
      BY <2>2, <3>2, <3>3 DEF rj, pj
  <2>6. QED
    BY <2>2, <2>4, <2>5 DEF rj, rk
<1>9. Places(F, t, q - 1, e, r)
  BY <1>0, <1>5, <1>6, <1>7, <1>8 DEF Places
<1>10. QED
  BY <1>9 DEF InARow

(* Every frame of the row has a byte in it. *)
OneRow(F, B, s, m, e) ==
  F \subseteq Seq(Int) /\ m \in Nat /\ e \in Nat /\ s \in Seq(B) /\ InARow(F, s, m, e)

(* Every frame of a row has a byte on its way. *)
LEMMA RowHolds ==
  ASSUME NEW F, NEW B, NEW s, NEW m, NEW e, OneRow(F, B, s, m, e), NEW j \in m + 1 .. e
  PROVE  \E k \in 1 .. Len(s) : s[k][2] = j
<1> F \subseteq Seq(Int) /\ m \in Nat /\ e \in Nat /\ s \in Seq(B) /\ InARow(F, s, m, e)
  BY DEF OneRow
<1>1. PICK p : Places(F, s, m, e, p)
  BY DEF InARow
<1>2. j \in m + 1 .. e + 1 /\ j + 1 \in m + 1 .. e + 1 /\ j < j + 1
  OBVIOUS
<1>3. PICK f \in F : /\ p[j + 1] = p[j] + Len(f)
                     /\ \A k \in 1 .. Len(f) : s[p[j] + k - 1] = << f[k], j >>
  BY <1>1 DEF Places
<1>4. p[j] \in 1 .. Len(s) + 1 /\ p[j + 1] \in 1 .. Len(s) + 1 /\ p[j] < p[j + 1]
      /\ Len(f) \in Nat
  <2>1. Len(f) \in Nat
    OBVIOUS
  <2>2. p[j] \in 1 .. Len(s) + 1 /\ p[j + 1] \in 1 .. Len(s) + 1
    BY <1>1, <1>2 DEF Places
  <2>3. p[j] < p[j + 1]
    BY <1>1, <1>2 DEF Places
  <2>4. QED
    BY <2>1, <2>2, <2>3
<1>5. 1 \in 1 .. Len(f) /\ p[j] + 1 - 1 = p[j] /\ p[j] \in 1 .. Len(s)
  BY <1>3, <1>4
<1>6. s[p[j]] = << f[1], j >>
  BY <1>3, <1>5
<1>7. QED
  BY <1>5, <1>6

(* The sequence that counts up from a number. *)
LEMMA Counting ==
  ASSUME NEW n \in Nat, NEW x \in Int
  PROVE  /\ [k \in 1 .. n |-> x + k - 1] \in Seq(Int)
         /\ Len([k \in 1 .. n |-> x + k - 1]) = n
         /\ \A k \in 1 .. n : [l \in 1 .. n |-> x + l - 1][k] = x + k - 1
OBVIOUS

(* A parser that takes every whole frame and keeps the rest from the first *)
(* frame on that is not whole returns the frames in order.                 *)
TakesWhole(b, f, p, m, e) ==
  \A j \in m + 1 .. e + 1 : p[j] <= Len(b) + 1 =>
    IF j <= e /\ p[j + 1] <= Len(b) + 1
      THEN f[p[j]] = [f[p[j + 1]] EXCEPT !.frames = << j >> \o @]
      ELSE f[p[j]] = [rest |-> SubSeq(b, p[j], Len(b)), frames |-> << >>]

RowParsed(F, B, s, m, e, p, b, f) ==
  /\ F \subseteq Seq(Int) /\ m \in Nat /\ e \in Nat /\ m <= e
  /\ s \in Seq(B) /\ Places(F, s, m, e, p)
  /\ b \in Seq(B) /\ Len(b) <= Len(s) /\ TakesWhole(b, f, p, m, e)

ReturnsRow(m, e, p, b, out) ==
  \E q \in m + 1 .. e + 1 :
    /\ p[q] <= Len(b) + 1 /\ (q <= e => p[q + 1] > Len(b) + 1)
    /\ out = [rest |-> SubSeq(b, p[q], Len(b)),
              frames |-> [k \in 1 .. q - (m + 1) |-> m + k]]

(* A parser that takes whole frames returns those of a row in their order. *)
LEMMA InOrder ==
  ASSUME NEW F, NEW B, NEW s, NEW m, NEW e, NEW p, NEW b, NEW f,
         RowParsed(F, B, s, m, e, p, b, f)
  PROVE  ReturnsRow(m, e, p, b, f[1])
<1> SUFFICES \E q \in m + 1 .. e + 1 :
               /\ p[q] <= Len(b) + 1 /\ (q <= e => p[q + 1] > Len(b) + 1)
               /\ f[1] = [rest |-> SubSeq(b, p[q], Len(b)),
                          frames |-> [k \in 1 .. q - (m + 1) |-> m + k]]
  BY DEF ReturnsRow
<1> /\ F \subseteq Seq(Int) /\ m \in Nat /\ e \in Nat /\ m <= e
    /\ s \in Seq(B) /\ Places(F, s, m, e, p)
    /\ b \in Seq(B) /\ Len(b) <= Len(s) /\ TakesWhole(b, f, p, m, e)
  BY DEF RowParsed
<1> DEFINE Good(j) ==
             \E q \in j .. e + 1 :
               /\ p[q] <= Len(b) + 1 /\ (q <= e => p[q + 1] > Len(b) + 1)
               /\ f[p[j]] = [rest |-> SubSeq(b, p[q], Len(b)),
                             frames |-> [k \in 1 .. q - j |-> j + k - 1]]
           T == {d \in Nat : \A j \in m + 1 .. e + 1 :
                   j > e + 1 - d /\ p[j] <= Len(b) + 1 => Good(j)}
<1>0. /\ Len(s) \in Nat /\ Len(b) \in Nat
      /\ \A j \in m + 1 .. e + 1 : p[j] \in 1 .. Len(s) + 1
      /\ p[m + 1] = 1 /\ m + 1 \in m + 1 .. e + 1
  BY DEF Places
<1>1. 0 \in T
  <2>1. \A j \in m + 1 .. e + 1 : ~(j > e + 1 - 0)
    OBVIOUS
  <2>2. QED
    BY <2>1
<1>2. ASSUME NEW d \in Nat, d \in T PROVE d + 1 \in T
  <2>1. ASSUME NEW j \in m + 1 .. e + 1, j > e + 1 - (d + 1), p[j] <= Len(b) + 1
        PROVE  Good(j)
    <3>1. CASE j <= e /\ p[j + 1] <= Len(b) + 1
      <4>1. j + 1 \in m + 1 .. e + 1 /\ j + 1 > e + 1 - d
        BY <2>1, <3>1
      <4>2. PICK q \in j + 1 .. e + 1 :
              /\ p[q] <= Len(b) + 1 /\ (q <= e => p[q + 1] > Len(b) + 1)
              /\ f[p[j + 1]] = [rest |-> SubSeq(b, p[q], Len(b)),
                                frames |-> [k \in 1 .. q - (j + 1) |-> (j + 1) + k - 1]]
        BY <1>2, <3>1, <4>1
      <4> DEFINE more == f[p[j + 1]]
                 rest == SubSeq(b, p[q], Len(b))
                 out == [k \in 1 .. q - (j + 1) |-> (j + 1) + k - 1]
                 all == [k \in 1 .. q - j |-> j + k - 1]
      <4>3. f[p[j]] = [more EXCEPT !.frames = << j >> \o @]
        BY <2>1, <3>1 DEF TakesWhole
      <4>4. more = [rest |-> rest, frames |-> out]
        BY <4>2
      <4>5. << j >> \o out = all
        <5> DEFINE one == << j >>
        <5>0. q - (j + 1) \in Nat /\ q - j \in Nat
          BY <4>2
        <5>1. /\ out \in Seq(Int) /\ Len(out) = q - (j + 1)
              /\ \A k \in 1 .. q - (j + 1) : out[k] = (j + 1) + k - 1
          <6> DEFINE n == q - (j + 1)
                     x == j + 1
          <6>1. n \in Nat /\ x \in Int
            BY <5>0
          <6> HIDE DEF n, x
          <6>2. /\ [k \in 1 .. n |-> x + k - 1] \in Seq(Int)
                /\ Len([k \in 1 .. n |-> x + k - 1]) = n
                /\ \A k \in 1 .. n : [l \in 1 .. n |-> x + l - 1][k] = x + k - 1
            BY ONLY <6>1, Counting
          <6>3. QED
            BY <6>2 DEF n, x
        <5>2. /\ all \in Seq(Int) /\ Len(all) = q - j
              /\ \A k \in 1 .. q - j : all[k] = j + k - 1
          BY <5>0, Counting
        <5>2a. one \in Seq(Int) /\ Len(one) = 1 /\ one[1] = j
          OBVIOUS
        <5> HIDE DEF out, all, one
        <5>3. /\ one \o out \in Seq(Int) /\ Len(one \o out) = q - j
              /\ \A k \in 1 .. q - j : (one \o out)[k] = IF k <= 1 THEN one[k] ELSE out[k - 1]
          <6>1. /\ one \o out \in Seq(Int) /\ Len(one \o out) = Len(one) + Len(out)
                /\ \A k \in 1 .. Len(one) + Len(out) :
                     (one \o out)[k] = IF k <= Len(one) THEN one[k] ELSE out[k - Len(one)]
            BY <5>1, <5>2a, ConcatProperties
          <6>2. Len(one) + Len(out) = q - j
            BY <5>0, <5>1, <5>2a
          <6>3. QED
            BY <5>2a, <6>1, <6>2
        <5>4. ASSUME NEW k \in 1 .. q - j PROVE (one \o out)[k] = all[k]
          <6>1. CASE k <= 1
            <7>1. k = 1 /\ j + 1 - 1 = j
              BY <6>1
            <7>2. (one \o out)[k] = j /\ all[k] = j
              BY <5>2, <5>2a, <5>3, <6>1, <7>1
            <7>3. QED
              BY <7>2
          <6>2. CASE ~(k <= 1)
            <7>1. k - 1 \in 1 .. q - (j + 1) /\ (j + 1) + (k - 1) - 1 = j + k - 1
              BY <5>0, <6>2
            <7>2. (one \o out)[k] = out[k - 1] /\ out[k - 1] = j + k - 1 /\ all[k] = j + k - 1
              BY <5>1, <5>2, <5>3, <6>2, <7>1
            <7>3. QED
              BY <7>2
          <6>3. QED
            BY <6>1, <6>2
        <5>5. QED
          BY <5>2, <5>3, <5>4, SeqEqual DEF one
      <4> HIDE DEF more, rest, out, all
      <4>6. [more EXCEPT !.frames = << j >> \o @] = [rest |-> rest, frames |-> << j >> \o out]
        BY ONLY <4>4, WithFrames
      <4>7. f[p[j]] = [rest |-> rest, frames |-> all]
        BY <4>3, <4>5, <4>6, Zenon
      <4>8. f[p[j]] = [rest |-> SubSeq(b, p[q], Len(b)),
                       frames |-> [k \in 1 .. q - j |-> j + k - 1]]
        BY <4>7 DEF rest, all
      <4>9. q \in j .. e + 1
        BY <4>2
      <4>10. QED
        BY <4>2, <4>8, <4>9
    <3>2. CASE ~(j <= e /\ p[j + 1] <= Len(b) + 1)
      <4>1. f[p[j]] = [rest |-> SubSeq(b, p[j], Len(b)), frames |-> << >>]
        BY <2>1, <3>2 DEF TakesWhole
      <4>2. j - j = 0 /\ j \in j .. e + 1 /\ 1 .. 0 = {}
        OBVIOUS
      <4>3. [k \in 1 .. j - j |-> j + k - 1] = << >>
        BY <4>2
      <4>4. j <= e => p[j + 1] > Len(b) + 1
        <5>1. j <= e => j + 1 \in m + 1 .. e + 1
          BY <2>1
        <5>2. QED
          BY <1>0, <3>2, <5>1
      <4>5. f[p[j]] = [rest |-> SubSeq(b, p[j], Len(b)),
                       frames |-> [k \in 1 .. j - j |-> j + k - 1]]
        BY <4>1, <4>3
      <4>6. QED
        BY <2>1, <4>2, <4>4, <4>5
    <3>3. QED
      BY <3>1, <3>2
  <2>2. QED
    <3> HIDE DEF Good
    <3>1. QED
      BY <2>1
<1>3. \A d \in Nat : d \in T
  <2> HIDE DEF T
  <2>1. QED
    BY <1>1, <1>2, Induction
<1>4. Good(m + 1)
  <2>1. e + 1 \in T
    <3>1. e + 1 \in Nat
      OBVIOUS
    <3> HIDE DEF T
    <3>2. QED
      BY <1>3, <3>1
  <2>1a. m + 1 > e + 1 - (e + 1) /\ 1 <= Len(b) + 1
    BY <1>0
  <2> HIDE DEF Good
  <2>2. QED
    BY <1>0, <2>1, <2>1a
<1>5. PICK q \in m + 1 .. e + 1 :
        /\ p[q] <= Len(b) + 1 /\ (q <= e => p[q + 1] > Len(b) + 1)
        /\ f[p[m + 1]] = [rest |-> SubSeq(b, p[q], Len(b)),
                          frames |-> [k \in 1 .. q - (m + 1) |-> m + 1 + k - 1]]
  BY <1>4
<1>6. \A k \in Int : m + 1 + k - 1 = m + k
  OBVIOUS
<1>7. [k \in 1 .. q - (m + 1) |-> m + 1 + k - 1] = [k \in 1 .. q - (m + 1) |-> m + k]
  BY <1>6
<1>8. QED
  BY <1>0, <1>5, <1>7

(* The rest of a buffer from a place on. *)
LEMMA RestIs ==
  ASSUME NEW B, NEW b \in Seq(B), NEW x \in 1 .. Len(b) + 1
  PROVE  /\ SubSeq(b, x, Len(b)) \in Seq(B)
         /\ Len(SubSeq(b, x, Len(b))) = Len(b) + 1 - x
         /\ \A k \in 1 .. Len(b) + 1 - x : SubSeq(b, x, Len(b))[k] = b[x + k - 1]
<1>1. Len(b) \in Nat /\ x \in Int /\ \A k \in x .. Len(b) : b[k] \in B
  OBVIOUS
<1> DEFINE r == SubSeq(b, x, Len(b))
<1>2. /\ r \in Seq(B) /\ Len(r) = IF x <= Len(b) THEN Len(b) - x + 1 ELSE 0
      /\ \A k \in 1 .. Len(b) - x + 1 : r[k] = b[x + k - 1]
  BY <1>1, SubSeqProperties
<1>3. Len(b) - x + 1 = Len(b) + 1 - x /\ (~(x <= Len(b)) => Len(b) + 1 - x = 0)
  BY <1>1
<1> HIDE DEF r
<1>4. Len(r) = Len(b) + 1 - x
  BY <1>2, <1>3
<1>5. QED
  BY <1>2, <1>3, <1>4 DEF r

(* Kept and not yet read, u and v, are the frames m + 1 .. e in a row. *)
Row(F, B, u, v, m, e) ==
  /\ F \subseteq Seq(Int) /\ m \in Nat /\ e \in Nat /\ m <= e
  /\ u \in Seq(B) /\ v \in Seq(B) /\ InARow(F, u \o v, m, e)

(* A read: what the parser kept, and what has not arrived yet, are the row *)
(* without the frames taken.                                               *)
LEMMA RowRead ==
  ASSUME NEW F, F \subseteq Seq(Int), NEW m \in Nat, NEW e \in Nat,
         NEW B, NEW u \in Seq(B), NEW v \in Seq(B), NEW c \in 1 .. Len(v),
         NEW p, Places(F, u \o v, m, e, p),
         NEW q \in m + 1 .. e + 1, p[q] <= Len(u) + c + 1,
         NEW b, b = u \o SubSeq(v, 1, c)
  PROVE  InARow(F, SubSeq(b, p[q], Len(b)) \o SubSeq(v, c + 1, Len(v)), q - 1, e)
<1> DEFINE s == u \o v
           x == p[q]
           v1 == SubSeq(v, 1, c)
           v2 == SubSeq(v, c + 1, Len(v))
           rest == SubSeq(b, x, Len(b))
           t == rest \o v2
<1>0. Len(u) \in Nat /\ Len(v) \in Nat /\ c \in Nat /\ c <= Len(v)
  OBVIOUS
<1>1. /\ s \in Seq(B) /\ Len(s) = Len(u) + Len(v)
      /\ \A k \in 1 .. Len(u) + Len(v) : s[k] = IF k <= Len(u) THEN u[k] ELSE v[k - Len(u)]
  BY ConcatProperties
<1>2. v1 \in Seq(B) /\ Len(v1) = c /\ \A k \in 1 .. c : v1[k] = v[k]
  OBVIOUS
<1>3. v2 \in Seq(B) /\ Len(v2) = Len(v) - c /\ \A k \in 1 .. Len(v) - c : v2[k] = v[c + k]
  <2>1. c + 1 \in 1 .. Len(v) + 1 /\ Len(v) + 1 - (c + 1) = Len(v) - c
        /\ \A k \in Int : c + 1 + k - 1 = c + k
    BY <1>0
  <2>2. /\ v2 \in Seq(B) /\ Len(v2) = Len(v) + 1 - (c + 1)
        /\ \A k \in 1 .. Len(v) + 1 - (c + 1) : v2[k] = v[c + 1 + k - 1]
    BY <2>1, RestIs
  <2> HIDE DEF v2
  <2>3. ASSUME NEW k \in 1 .. Len(v) - c PROVE v2[k] = v[c + k]
    <3>1. k \in 1 .. Len(v) + 1 - (c + 1) /\ c + 1 + k - 1 = c + k
      BY <1>0
    <3>2. v2[k] = v[c + 1 + k - 1]
      BY <2>2, <3>1
    <3>3. QED
      BY <3>1, <3>2
  <2>4. QED
    BY <2>1, <2>2, <2>3
<1>4. /\ b \in Seq(B) /\ Len(b) = Len(u) + c
      /\ \A k \in 1 .. Len(u) + c : b[k] = IF k <= Len(u) THEN u[k] ELSE v1[k - Len(u)]
  <2> HIDE DEF v1
  <2>1. QED
    BY <1>2, ConcatProperties DEF v1
<1>5. ASSUME NEW k \in 1 .. Len(b) PROVE b[k] = s[k]
  <2>1. CASE k <= Len(u)
    <3>1. k \in 1 .. Len(u) + Len(v) /\ k \in 1 .. Len(u) + c
      BY <1>0, <1>4
    <3>2. QED
      BY <1>1, <1>4, <2>1, <3>1
  <2>2. CASE ~(k <= Len(u))
    <3>1. k \in 1 .. Len(u) + Len(v) /\ k \in 1 .. Len(u) + c /\ k - Len(u) \in 1 .. c
      BY <1>0, <1>4, <2>2
    <3>2. QED
      BY <1>1, <1>2, <1>4, <2>2, <3>1
  <2>3. QED
    BY <2>1, <2>2
<1>6. x \in 1 .. Len(b) + 1 /\ x \in Nat
  <2>1. p[q] \in 1 .. Len(s) + 1
    BY DEF Places
  <2> HIDE DEF s
  <2>2. QED
    BY <1>0, <1>1, <1>4, <2>1
<1> HIDE DEF x, s, v1, v2
<1>7. /\ rest \in Seq(B) /\ Len(rest) = Len(b) + 1 - x
      /\ \A k \in 1 .. Len(b) + 1 - x : rest[k] = b[x + k - 1]
  BY ONLY <1>4, <1>6, RestIs
<1> HIDE DEF rest
<1>8. /\ t \in Seq(B) /\ Len(t) = Len(rest) + Len(v2)
      /\ \A k \in 1 .. Len(rest) + Len(v2) :
           t[k] = IF k <= Len(rest) THEN rest[k] ELSE v2[k - Len(rest)]
  BY <1>3, <1>7, ConcatProperties
<1>9. Len(t) = Len(s) + 1 - x
  BY <1>0, <1>1, <1>3, <1>4, <1>6, <1>7, <1>8
<1>10. ASSUME NEW k \in 1 .. Len(t) PROVE t[k] = s[k + x - 1]
  <2> DEFINE lr == Len(rest)
             lu == Len(u)
             lv == Len(v)
  <2>0. /\ lr \in Nat /\ lu \in Nat /\ lv \in Nat /\ lr = lu + c + 1 - x
        /\ k \in 1 .. lr + lv - c /\ x \in 1 .. lu + c + 1 /\ c \in 1 .. lv
        /\ Len(b) = lu + c /\ Len(s) = lu + lv /\ Len(v2) = lv - c
    BY <1>0, <1>1, <1>3, <1>4, <1>6, <1>7, <1>8
  <2> HIDE DEF lr, lu, lv
  <2>1. CASE k <= lr
    <3>1. k \in 1 .. lr /\ x + k - 1 \in 1 .. lu + c /\ x + k - 1 = k + x - 1
          /\ k \in 1 .. lr + (lv - c) /\ lu + c + 1 - x = lr
      BY <2>0, <2>1
    <3>2. t[k] = rest[k]
      BY <1>8, <2>0, <2>1, <3>1 DEF lr
    <3>3. rest[k] = b[x + k - 1]
      BY <1>7, <2>0, <3>1 DEF lr
    <3>4. b[x + k - 1] = s[x + k - 1]
      BY <1>5, <2>0, <3>1
    <3>5. QED
      BY <3>1, <3>2, <3>3, <3>4
  <2>2. CASE ~(k <= lr)
    <3>1. k - lr \in 1 .. lv - c /\ c + (k - lr) = (k + x - 1) - lu
          /\ k + x - 1 \in 1 .. lu + lv /\ ~(k + x - 1 <= lu)
          /\ k \in 1 .. lr + (lv - c)
      BY <2>0, <2>2
    <3>2. t[k] = v2[k - lr]
      BY <1>8, <2>0, <2>2, <3>1 DEF lr
    <3>3. v2[k - lr] = v[c + (k - lr)]
      BY <1>3, <2>0, <3>1 DEF lv
    <3>4. s[k + x - 1] = v[(k + x - 1) - lu]
      BY <1>1, <3>1 DEF lu, lv
    <3>5. QED
      BY <3>1, <3>2, <3>3, <3>4
  <2>3. QED
    BY <2>1, <2>2
<1>11. InARow(F, t, q - 1, e)
  <2>1. Places(F, s, m, e, p) /\ Len(t) = Len(s) + 1 - p[q]
        /\ \A k \in 1 .. Len(t) : t[k] = s[k + p[q] - 1]
    BY <1>9, <1>10 DEF s, x
  <2> HIDE DEF t
  <2>2. QED
    BY ONLY <1>1, <1>8, <2>1, RowTake, F \subseteq Seq(Int), m \in Nat, e \in Nat,
            q \in m + 1 .. e + 1
<1>12. QED
  BY <1>11 DEF t, rest, x, v2

(* Counting on from where the frames taken so far end. *)
LEMMA CountsOn ==
  ASSUME NEW m \in Nat, NEW n \in Nat, m <= n, NEW got, NEW out,
         got = [k \in 1 .. m |-> k], out = [k \in 1 .. n - m |-> m + k]
  PROVE  got \o out = [k \in 1 .. n |-> k]
<1> DEFINE all == [k \in 1 .. n |-> k]
<1>1. got \in Seq(Int) /\ Len(got) = m /\ \A k \in 1 .. m : got[k] = k
  OBVIOUS
<1>2. out \in Seq(Int) /\ Len(out) = n - m /\ \A k \in 1 .. n - m : out[k] = m + k
  <2>1. n - m \in Nat
    OBVIOUS
  <2>2. QED
    BY <2>1
<1>3. all \in Seq(Int) /\ Len(all) = n /\ \A k \in 1 .. n : all[k] = k
  OBVIOUS
<1> HIDE DEF all
<1>4. /\ got \o out \in Seq(Int) /\ Len(got \o out) = Len(got) + Len(out)
      /\ \A k \in 1 .. Len(got) + Len(out) :
           (got \o out)[k] = IF k <= Len(got) THEN got[k] ELSE out[k - Len(got)]
  BY ONLY <1>1, <1>2, ConcatProperties
<1>5. Len(got) + Len(out) = n
  BY <1>1, <1>2
<1>6. ASSUME NEW k \in 1 .. n PROVE (got \o out)[k] = all[k]
  <2>1. CASE k <= m
    <3>1. k \in 1 .. m
      BY <2>1
    <3>2. (got \o out)[k] = got[k]
      BY <1>1, <1>4, <1>5, <2>1
    <3>3. QED
      BY <1>1, <1>3, <3>1, <3>2
  <2>2. CASE ~(k <= m)
    <3>1. k - m \in 1 .. n - m /\ m + (k - m) = k
      BY <2>2
    <3>2. (got \o out)[k] = out[k - m]
      BY <1>1, <1>4, <1>5, <2>2
    <3>3. QED
      BY <1>2, <1>3, <3>1, <3>2
  <2>3. QED
    BY <2>1, <2>2
<1>7. got \o out = all
  BY <1>3, <1>4, <1>5, <1>6, SeqEqual
<1>8. QED
  BY <1>7 DEF all

(* No frame of the row is missed. *)
LEMMA RowMissesNothing ==
  ASSUME NEW F, NEW B, NEW u, NEW v, NEW m, NEW e, Row(F, B, u, v, m, e)
  PROVE  \A j \in 1 .. e :
           j <= m \/ j \in {v[k][2] : k \in DOMAIN v} \cup {u[k][2] : k \in DOMAIN u}
<1>0. /\ F \subseteq Seq(Int) /\ m \in Nat /\ e \in Nat /\ m <= e
      /\ u \in Seq(B) /\ v \in Seq(B) /\ InARow(F, u \o v, m, e)
  BY DEF Row
<1>a. SUFFICES ASSUME NEW j \in 1 .. e, ~(j <= m)
               PROVE  j \in {v[k][2] : k \in DOMAIN v} \cup {u[k][2] : k \in DOMAIN u}
  BY Zenon
<1> DEFINE s == u \o v
<1>1. /\ s \in Seq(B) /\ Len(s) = Len(u) + Len(v)
      /\ \A k \in 1 .. Len(u) + Len(v) : s[k] = IF k <= Len(u) THEN u[k] ELSE v[k - Len(u)]
      /\ DOMAIN u = 1 .. Len(u) /\ DOMAIN v = 1 .. Len(v)
      /\ Len(u) \in Nat /\ Len(v) \in Nat
  BY <1>0, ConcatProperties
<1>2. j \in m + 1 .. e /\ OneRow(F, B, s, m, e)
  BY <1>0, <1>1, <1>a DEF OneRow
<1> HIDE DEF s
<1>3. PICK k \in 1 .. Len(s) : s[k][2] = j
  BY ONLY <1>2, RowHolds
<1>4. CASE k <= Len(u)
  <2>1. k \in DOMAIN u /\ k \in 1 .. Len(u) + Len(v)
    BY <1>1, <1>4
  <2>2. u[k][2] = j
    BY <1>1, <1>3, <1>4, <2>1
  <2>3. QED
    BY <2>1, <2>2
<1>5. CASE ~(k <= Len(u))
  <2>1. k - Len(u) \in DOMAIN v /\ k \in 1 .. Len(u) + Len(v)
    BY <1>1, <1>5
  <2>2. v[k - Len(u)][2] = j
    BY <1>1, <1>3, <1>5, <2>1
  <2>3. QED
    BY <2>1, <2>2
<1>6. QED
  BY <1>4, <1>5

(* c bytes more are given to the parser, which returns out. *)
RowIsRead(F, B, u, v, m, e, c, p, out, got) ==
  /\ Row(F, B, u, v, m, e) /\ c \in 1 .. Len(v) /\ Places(F, u \o v, m, e, p)
  /\ ReturnsRow(m, e, p, u \o SubSeq(v, 1, c), out)
  /\ got = [k \in 1 .. m |-> k]

RowAfter(F, B, v, e, c, out, got) ==
  \E n \in 0 .. e :
    /\ got \o out.frames = [k \in 1 .. n |-> k]
    /\ Row(F, B, out.rest, SubSeq(v, c + 1, Len(v)), n, e)

(* What is left of a row after a read is a row, and the frames taken count on. *)
LEMMA RowGoes ==
  ASSUME NEW F, NEW B, NEW u, NEW v, NEW m, NEW e, NEW c, NEW p, NEW out, NEW got,
         RowIsRead(F, B, u, v, m, e, c, p, out, got)
  PROVE  RowAfter(F, B, v, e, c, out, got)
<1> DEFINE b == u \o SubSeq(v, 1, c)
           w == SubSeq(v, c + 1, Len(v))
<1>1. /\ F \subseteq Seq(Int) /\ m \in Nat /\ e \in Nat /\ m <= e
      /\ u \in Seq(B) /\ v \in Seq(B) /\ c \in 1 .. Len(v) /\ Places(F, u \o v, m, e, p)
      /\ ReturnsRow(m, e, p, b, out) /\ got = [k \in 1 .. m |-> k]
  BY DEF RowIsRead, Row
<1>2. SubSeq(v, 1, c) \in Seq(B) /\ Len(SubSeq(v, 1, c)) = c
  BY <1>1
<1>3. b \in Seq(B) /\ Len(b) = Len(u) + c
  <2> DEFINE v1 == SubSeq(v, 1, c)
  <2>1. v1 \in Seq(B) /\ Len(v1) = c /\ u \in Seq(B)
    BY <1>1, <1>2
  <2> HIDE DEF v1
  <2>2. u \o v1 \in Seq(B) /\ Len(u \o v1) = Len(u) + Len(v1)
    BY ONLY <2>1, ConcatProperties
  <2>3. QED
    BY <2>1, <2>2 DEF v1
<1>4. w \in Seq(B)
  BY <1>1
<1>5. b = u \o SubSeq(v, 1, c)
  OBVIOUS
<1> HIDE DEF b
<1>6. PICK q \in m + 1 .. e + 1 :
        /\ p[q] <= Len(b) + 1
        /\ out = [rest |-> SubSeq(b, p[q], Len(b)),
                  frames |-> [k \in 1 .. q - (m + 1) |-> m + k]]
  BY <1>1 DEF ReturnsRow
<1>7. p[q] <= Len(u) + c + 1
  BY <1>3, <1>6
<1>8. InARow(F, SubSeq(b, p[q], Len(b)) \o w, q - 1, e)
  BY <1>1, <1>5, <1>6, <1>7, RowRead
<1>9. out.rest = SubSeq(b, p[q], Len(b)) /\ out.frames = [k \in 1 .. q - (m + 1) |-> m + k]
  BY <1>6
<1>10. SubSeq(b, p[q], Len(b)) \in Seq(B)
  <2>1. p[q] \in 1 .. Len(u \o v) + 1
    BY <1>1, <1>6 DEF Places
  <2>2. Len(u \o v) \in Nat /\ Len(b) \in Nat
    BY <1>1, <1>3
  <2>3. p[q] \in 1 .. Len(b) + 1
    BY <1>6, <2>1, <2>2
  <2>4. QED
    BY <1>3, <2>3, RestIs
<1> DEFINE n == q - 1
           fr == [k \in 1 .. n - m |-> m + k]
<1>11. n \in 0 .. e /\ n \in Nat /\ m <= n /\ q - (m + 1) = n - m
  BY <1>1, <1>6
<1>12. out.frames = fr
  BY <1>9, <1>11
<1>13. got \o out.frames = [k \in 1 .. n |-> k]
  <2>1. got = [k \in 1 .. m |-> k] /\ fr = [k \in 1 .. n - m |-> m + k] /\ m \in Nat /\ n \in Nat
        /\ m <= n
    BY <1>1, <1>11
  <2> HIDE DEF n, fr
  <2>2. got \o fr = [k \in 1 .. n |-> k]
    BY ONLY <2>1, CountsOn
  <2>3. QED
    BY <1>12, <2>2
<1>14. Row(F, B, out.rest, w, n, e)
  BY <1>1, <1>4, <1>8, <1>9, <1>10, <1>11 DEF Row
<1>15. QED
  BY <1>11, <1>13, <1>14 DEF RowAfter

(* One frame more is sent. *)
OneMore(F, B, u, v, w, m, e, f) ==
  /\ F \subseteq Seq(Int) /\ m \in Nat /\ e \in Nat /\ m <= e
  /\ u \in Seq(B) /\ v \in Seq(B) /\ w \in Seq(B) /\ InARow(F, u \o v, m, e)
  /\ f \in F /\ Len(f) >= 1 /\ Len(w) = Len(v) + Len(f)
  /\ \A k \in 1 .. Len(v) : w[k] = v[k]
  /\ \A k \in 1 .. Len(f) : w[Len(v) + k] = << f[k], e + 1 >>

(* A frame written at the end of the line makes the row one longer. *)
LEMMA RowGrows ==
  ASSUME NEW F, NEW B, NEW u, NEW v, NEW w, NEW m, NEW e, NEW f,
         OneMore(F, B, u, v, w, m, e, f)
  PROVE  InARow(F, u \o w, m, e + 1)
<1> DEFINE s == u \o v
           t == u \o w
<1>0. /\ F \subseteq Seq(Int) /\ m \in Nat /\ e \in Nat /\ m <= e
      /\ u \in Seq(B) /\ v \in Seq(B) /\ w \in Seq(B) /\ InARow(F, s, m, e)
      /\ f \in F /\ Len(f) >= 1 /\ Len(w) = Len(v) + Len(f)
      /\ \A k \in 1 .. Len(v) : w[k] = v[k]
      /\ \A k \in 1 .. Len(f) : w[Len(v) + k] = << f[k], e + 1 >>
  BY DEF OneMore
<1>1. Len(u) \in Nat /\ Len(v) \in Nat /\ Len(w) \in Nat /\ Len(f) \in Nat
  BY <1>0
<1>2. /\ s \in Seq(B) /\ Len(s) = Len(u) + Len(v)
      /\ \A k \in 1 .. Len(u) + Len(v) : s[k] = IF k <= Len(u) THEN u[k] ELSE v[k - Len(u)]
  BY <1>0, ConcatProperties
<1>3. /\ t \in Seq(B) /\ Len(t) = Len(u) + Len(w)
      /\ \A k \in 1 .. Len(u) + Len(w) : t[k] = IF k <= Len(u) THEN u[k] ELSE w[k - Len(u)]
  <2>1. u \in Seq(B) /\ w \in Seq(B)
    BY <1>0
  <2>2. /\ u \o w \in Seq(B) /\ Len(u \o w) = Len(u) + Len(w)
        /\ \A k \in 1 .. Len(u) + Len(w) :
             (u \o w)[k] = IF k <= Len(u) THEN u[k] ELSE w[k - Len(u)]
    BY ONLY <2>1, ConcatProperties
  <2>3. QED
    BY <2>2
<1> HIDE DEF s, t
<1>4. Len(t) = Len(s) + Len(f)
  BY <1>0, <1>1, <1>2, <1>3
<1>5. ASSUME NEW k \in 1 .. Len(s) PROVE t[k] = s[k]
  <2>1. k \in 1 .. Len(u) + Len(v) /\ k \in 1 .. Len(u) + Len(w)
    BY <1>0, <1>1, <1>2
  <2>2. ~(k <= Len(u)) => k - Len(u) \in 1 .. Len(v)
    BY <1>1, <2>1
  <2>3. QED
    BY <1>0, <1>2, <1>3, <2>1, <2>2
<1>6. ASSUME NEW k \in 1 .. Len(f) PROVE t[Len(s) + k] = << f[k], e + 1 >>
  <2>1. /\ Len(s) + k \in 1 .. Len(u) + Len(w) /\ ~(Len(s) + k <= Len(u))
        /\ Len(s) + k - Len(u) = Len(v) + k
    BY <1>0, <1>1, <1>2
  <2>2. t[Len(s) + k] = w[Len(s) + k - Len(u)]
    BY <1>3, <2>1
  <2>3. w[Len(v) + k] = << f[k], e + 1 >>
    BY <1>0
  <2>4. QED
    BY <2>1, <2>2, <2>3
<1>7. QED
  <2>1. InARow(F, t, m, e + 1)
    BY <1>0, <1>2, <1>3, <1>4, <1>5, <1>6, RowSend
  <2>2. QED
    BY <2>1 DEF t

(* A walk whose turn at a frame takes it if it is whole, and keeps it else. *)
WholeTurns(F, b, t) ==
  /\ \A x \in 1 .. Len(b) + 1, j \in Nat, g \in F :
       (\A k \in 1 .. Len(g) : x + k - 1 <= Len(b) => b[x + k - 1] = << g[k], j >>) =>
         IF x + Len(g) <= Len(b) + 1
           THEN t[x] = Takes(x + Len(g), << j >>)
           ELSE t[x] = Keeps([rest |-> SubSeq(b, x, Len(b)), frames |-> << >>])
  /\ t[Len(b) + 1] = Keeps([rest |-> SubSeq(b, Len(b) + 1, Len(b)), frames |-> << >>])

RowIsWalked(F, B, s, m, e, p, b, f, t) ==
  /\ F \subseteq Seq(Int) /\ m \in Nat /\ e \in Nat /\ m <= e
  /\ s \in Seq(B) /\ Places(F, s, m, e, p)
  /\ b \in Seq(B) /\ Len(b) <= Len(s) /\ (\A k \in 1 .. Len(b) : b[k] = s[k])
  /\ Runs(f, t, Len(b) + 1) /\ WholeTurns(F, b, t)

(* A loop that takes what is whole takes the whole frames of a row, one by one. *)
LEMMA RowWalked ==
  ASSUME NEW F, NEW B, NEW s, NEW m, NEW e, NEW p, NEW b, NEW f, NEW t,
         RowIsWalked(F, B, s, m, e, p, b, f, t)
  PROVE  TakesWhole(b, f, p, m, e)
<1> DEFINE N == Len(b) + 1
<1>0. /\ F \subseteq Seq(Int) /\ m \in Nat /\ e \in Nat /\ m <= e
      /\ s \in Seq(B) /\ Places(F, s, m, e, p)
      /\ b \in Seq(B) /\ Len(b) <= Len(s) /\ (\A k \in 1 .. Len(b) : b[k] = s[k])
      /\ Runs(f, t, N) /\ WholeTurns(F, b, t)
      /\ Len(b) \in Nat /\ Len(s) \in Nat /\ N \in Nat
  BY DEF RowIsWalked
<1>1. ASSUME NEW j \in m + 1 .. e + 1, p[j] <= N
      PROVE  IF j <= e /\ p[j + 1] <= N
               THEN f[p[j]] = [f[p[j + 1]] EXCEPT !.frames = << j >> \o @]
               ELSE f[p[j]] = [rest |-> SubSeq(b, p[j], Len(b)), frames |-> << >>]
  <2> DEFINE x == p[j]
  <2>1. x \in 1 .. N /\ x <= Len(s) + 1
    <3>1. p[j] \in 1 .. Len(s) + 1
      BY <1>0 DEF Places
    <3>2. QED
      BY <1>0, <1>1, <3>1
  <2>2. f[x] = TurnOf(t, f, x)
    BY <1>0, <2>1 DEF Runs
  <2>3. CASE j <= e
    <3>1. j \in m + 1 .. e /\ j \in Nat
      BY <1>0, <2>3
    <3>2. PICK g \in F :
            /\ p[j + 1] = p[j] + Len(g)
            /\ \A k \in 1 .. Len(g) : s[p[j] + k - 1] = << g[k], j >>
      BY <1>0, <3>1 DEF Places
    <3>3. Len(g) \in Nat
      BY <1>0
    <3> DEFINE y == p[j + 1]
    <3>4. y = x + Len(g)
      BY <3>2
    <3> HIDE DEF x, y
    <3>5. \A k \in 1 .. Len(g) : x + k - 1 <= Len(b) => b[x + k - 1] = << g[k], j >>
      <4> SUFFICES ASSUME NEW k \in 1 .. Len(g), x + k - 1 <= Len(b)
                   PROVE  b[x + k - 1] = << g[k], j >>
        OBVIOUS
      <4>1. x + k - 1 \in 1 .. Len(b)
        BY <1>0, <2>1, <3>3
      <4>2. QED
        BY <1>0, <3>2, <4>1 DEF x
    <3>6. IF x + Len(g) <= Len(b) + 1
            THEN t[x] = Takes(x + Len(g), << j >>)
            ELSE t[x] = Keeps([rest |-> SubSeq(b, x, Len(b)), frames |-> << >>])
      BY <1>0, <2>1, <3>1, <3>5 DEF WholeTurns
    <3>7. CASE y <= N
      <4> DEFINE a == << j >>
      <4>1. t[x] = Takes(y, a)
        BY <3>4, <3>6, <3>7
      <4> HIDE DEF a
      <4>2. TurnOf(t, f, x) = [f[y] EXCEPT !.frames = a \o @]
        BY ONLY <4>1, TurnTakes
      <4>3. f[x] = [f[y] EXCEPT !.frames = << j >> \o @]
        BY <2>2, <4>2, Zenon DEF a
      <4>4. QED
        BY <2>3, <3>7, <4>3, Zenon DEF x, y
    <3>8. CASE ~(y <= N)
      <4>1. t[x] = Keeps([rest |-> SubSeq(b, x, Len(b)), frames |-> << >>])
        BY <3>4, <3>6, <3>8
      <4>2. f[x] = [rest |-> SubSeq(b, x, Len(b)), frames |-> << >>]
        BY <2>2, <4>1, TurnKeeps
      <4>3. QED
        BY <3>8, <4>2 DEF x, y
    <3>9. QED
      BY <3>7, <3>8
  <2>4. CASE ~(j <= e)
    <3>1. j = e + 1
      BY <1>0, <2>4
    <3>2. x = Len(s) + 1
      BY <1>0, <3>1 DEF Places
    <3>3. x = Len(b) + 1
      BY <1>0, <2>1, <3>2
    <3> HIDE DEF x
    <3>4. t[x] = Keeps([rest |-> SubSeq(b, x, Len(b)), frames |-> << >>])
      BY <1>0, <3>3 DEF WholeTurns
    <3>5. f[x] = [rest |-> SubSeq(b, x, Len(b)), frames |-> << >>]
      BY <2>2, <3>4, TurnKeeps
    <3>6. QED
      BY <2>4, <3>5 DEF x
  <2>5. QED
    BY <2>3, <2>4
<1>2. QED
  BY <1>1 DEF TakesWhole

(* What is kept of frames in a row is less than a frame. *)
RestShort(F, rest) == \A K \in Nat : K > 0 /\ (\A g \in F : Len(g) <= K) => Len(rest) < K

(* What a parser of a row keeps is less than a frame. *)
LEMMA RowRestShort ==
  ASSUME NEW F, NEW B, NEW s, NEW m, NEW e, NEW p, NEW b, NEW f, NEW t,
         RowIsWalked(F, B, s, m, e, p, b, f, t), NEW out, ReturnsRow(m, e, p, b, out)
  PROVE  RestShort(F, out.rest)
<1> SUFFICES ASSUME NEW K \in Nat, K > 0, \A g \in F : Len(g) <= K
             PROVE  Len(out.rest) < K
  BY DEF RestShort
<1>0. /\ F \subseteq Seq(Int) /\ m \in Nat /\ e \in Nat /\ m <= e
      /\ s \in Seq(B) /\ Places(F, s, m, e, p)
      /\ b \in Seq(B) /\ Len(b) <= Len(s) /\ Len(b) \in Nat /\ Len(s) \in Nat
  BY DEF RowIsWalked
<1>1. PICK q \in m + 1 .. e + 1 :
        /\ p[q] <= Len(b) + 1 /\ (q <= e => p[q + 1] > Len(b) + 1)
        /\ out = [rest |-> SubSeq(b, p[q], Len(b)),
                  frames |-> [k \in 1 .. q - (m + 1) |-> m + k]]
  BY DEF ReturnsRow
<1> DEFINE x == p[q]
<1>2. x \in 1 .. Len(s) + 1
  BY <1>0 DEF Places
<1>3. x \in 1 .. Len(b) + 1
  BY <1>0, <1>1, <1>2
<1>4. out.rest = SubSeq(b, x, Len(b))
  BY <1>1
<1> HIDE DEF x
<1>5. Len(out.rest) = Len(b) + 1 - x
  BY <1>0, <1>3, <1>4, RestIs
<1>6. CASE q <= e
  <2>1. q \in m + 1 .. e
    BY <1>0, <1>6
  <2>2. PICK g \in F : p[q + 1] = p[q] + Len(g)
    BY <1>0, <2>1 DEF Places
  <2> DEFINE y == p[q + 1]
  <2>3. y > Len(b) + 1 /\ y = x + Len(g) /\ Len(g) <= K /\ Len(g) \in Nat
    BY <1>0, <1>1, <1>6, <2>2 DEF x
  <2> HIDE DEF y
  <2>4. QED
    BY <1>0, <1>3, <1>5, <2>3
<1>7. CASE ~(q <= e)
  <2>1. q = e + 1
    BY <1>0, <1>7
  <2>2. x = Len(s) + 1
    BY <1>0, <2>1 DEF Places, x
  <2>3. QED
    BY <1>0, <1>3, <1>5, <2>2
<1>8. QED
  BY <1>6, <1>7

RowIsParsed(F, B, u, v, m, e, c, b, f, t, got) ==
  /\ Row(F, B, u, v, m, e) /\ c \in 1 .. Len(v)
  /\ b = u \o SubSeq(v, 1, c) /\ Runs(f, t, Len(b) + 1) /\ WholeTurns(F, b, t)
  /\ got = [k \in 1 .. m |-> k]

(* A read and its parse, of a row: what the links below need of their parsers. *)
LEMMA RowParses ==
  ASSUME NEW F, NEW B, NEW u, NEW v, NEW m, NEW e, NEW c, NEW b, NEW f, NEW t, NEW got,
         RowIsParsed(F, B, u, v, m, e, c, b, f, t, got)
  PROVE  RowAfter(F, B, v, e, c, f[1], got) /\ RestShort(F, f[1].rest)
<1> DEFINE s == u \o v
           v1 == SubSeq(v, 1, c)
<1>0. /\ F \subseteq Seq(Int) /\ m \in Nat /\ e \in Nat /\ m <= e
      /\ u \in Seq(B) /\ v \in Seq(B) /\ InARow(F, s, m, e)
      /\ c \in 1 .. Len(v) /\ Len(v) \in Nat /\ Len(u) \in Nat
      /\ b = u \o v1 /\ Runs(f, t, Len(b) + 1) /\ WholeTurns(F, b, t)
      /\ got = [k \in 1 .. m |-> k] /\ Row(F, B, u, v, m, e)
  BY DEF RowIsParsed, Row
<1>1. PICK p : Places(F, s, m, e, p)
  BY <1>0 DEF InARow
<1>2. /\ s \in Seq(B) /\ Len(s) = Len(u) + Len(v)
      /\ \A k \in 1 .. Len(u) + Len(v) : s[k] = IF k <= Len(u) THEN u[k] ELSE v[k - Len(u)]
  BY <1>0, ConcatProperties
<1>3. v1 \in Seq(B) /\ Len(v1) = c /\ \A k \in 1 .. c : v1[k] = v[k]
  BY <1>0
<1> HIDE DEF s, v1
<1>4. /\ b \in Seq(B) /\ Len(b) = Len(u) + c
      /\ \A k \in 1 .. Len(u) + c : b[k] = IF k <= Len(u) THEN u[k] ELSE v1[k - Len(u)]
  BY <1>0, <1>3, ConcatProperties
<1>5. ASSUME NEW k \in 1 .. Len(b) PROVE b[k] = s[k]
  <2>1. k \in 1 .. Len(u) + c /\ k \in 1 .. Len(u) + Len(v)
    BY <1>0, <1>4
  <2>2. CASE k <= Len(u)
    BY <1>2, <1>4, <2>1, <2>2
  <2>3. CASE ~(k <= Len(u))
    <3>1. k - Len(u) \in 1 .. c
      BY <1>0, <2>1, <2>3
    <3>2. b[k] = v1[k - Len(u)] /\ s[k] = v[k - Len(u)]
      BY <1>2, <1>4, <2>1, <2>3
    <3>3. QED
      BY <1>3, <3>1, <3>2
  <2>4. QED
    BY <2>2, <2>3
<1>6. Len(b) <= Len(s)
  BY <1>0, <1>2, <1>4
<1>7. RowIsWalked(F, B, s, m, e, p, b, f, t)
  BY <1>0, <1>1, <1>2, <1>4, <1>5, <1>6 DEF RowIsWalked
<1>8. TakesWhole(b, f, p, m, e)
  BY ONLY <1>7, RowWalked
<1>9. RowParsed(F, B, s, m, e, p, b, f)
  BY <1>0, <1>1, <1>2, <1>4, <1>6, <1>8 DEF RowParsed
<1>10. ReturnsRow(m, e, p, b, f[1])
  BY ONLY <1>9, InOrder
<1>11. RestShort(F, f[1].rest)
  BY ONLY <1>7, <1>10, RowRestShort
<1>12. RowIsRead(F, B, u, v, m, e, c, p, f[1], got)
  BY <1>0, <1>1, <1>10 DEF RowIsRead, s, v1
<1>13. RowAfter(F, B, v, e, c, f[1], got)
  BY ONLY <1>12, RowGoes
<1>14. QED
  BY <1>11, <1>13

(* A stretch cut out of a sequence. *)
LEMMA CutOut ==
  ASSUME NEW B, NEW s \in Seq(B), NEW from \in 1 .. Len(s), NEW to \in from .. Len(s)
  PROVE  /\ SubSeq(s, 1, from - 1) \o SubSeq(s, to + 1, Len(s)) \in Seq(B)
         /\ Len(SubSeq(s, 1, from - 1) \o SubSeq(s, to + 1, Len(s))) = Len(s) - (to + 1 - from)
<1> DEFINE a == SubSeq(s, 1, from - 1)
           b == SubSeq(s, to + 1, Len(s))
<1>1. a \in Seq(B) /\ Len(a) = from - 1
  <2>1. \A k \in 1 .. from - 1 : s[k] \in B
    OBVIOUS
  <2>2. 1 \in Int /\ from - 1 \in Int
    OBVIOUS
  <2>3. a \in Seq(B) /\ Len(a) = IF 1 <= from - 1 THEN (from - 1) - 1 + 1 ELSE 0
    BY <2>1, <2>2, SubSeqProperties
  <2> HIDE DEF a
  <2>4. QED
    BY <2>3
<1>2. b \in Seq(B) /\ Len(b) = Len(s) - to
  <2>1. to + 1 \in 1 .. Len(s) + 1
    OBVIOUS
  <2>2. b \in Seq(B) /\ Len(b) = Len(s) + 1 - (to + 1)
    BY <2>1, RestIs
  <2> HIDE DEF b
  <2>3. QED
    BY <2>2
<1> HIDE DEF a, b
<1>3. a \o b \in Seq(B) /\ Len(a \o b) = Len(a) + Len(b)
  BY ONLY <1>1, <1>2, ConcatProperties
<1>4. Len(a \o b) = Len(s) - (to + 1 - from)
  BY <1>1, <1>2, <1>3
<1>5. QED
  BY <1>3, <1>4 DEF a, b

-----------------------------------------------------------------------------
(* The commands (uart5_port.c)                                             *)

(* A command of the host is a sequence of bytes that is not empty. *)
LEMMA FrameBytes == \A f \in Frame : f \in Seq(Byte) /\ f # << >>
<1>1. ASSUME NEW c \in Command
      PROVE  CommandFrame(c) \in Seq(Byte) /\ CommandFrame(c) # << >>
  BY DEF CommandFrame, Byte
<1>2. TimeFrame \in Seq(Byte) /\ Len(TimeFrame) = TimeBytes + 3
  <2>1. [k \in 1 .. TimeBytes |-> "time"] \in Seq(Byte)
        /\ Len([k \in 1 .. TimeBytes |-> "time"]) = TimeBytes
    BY LinkAssumption DEF Byte
  <2>2. << "AA", "60" >> \in Seq(Byte) /\ << "55" >> \in Seq(Byte)
        /\ Len(<< "AA", "60" >>) = 2 /\ Len(<< "55" >>) = 1
    BY DEF Byte
  <2> QED
    BY <2>1, <2>2, LinkAssumption DEF TimeFrame
<1>3. TimeFrame # << >>
  BY <1>2, LinkAssumption
<1> QED
  BY <1>1, <1>2, <1>3 DEF Frame

(* The longest deafness is a number (it names the time out of the parser). *)
LEMMA DeafBound ==
  LongestDeaf \in Nat
BY LinkAssumption, FrameBytes DEF LongestDeaf, Frame

(* The link starts with the types it keeps. *)
LEMMA InitTyped == Init => TypeOK
<1> USE LinkAssumption DEF TypeOK
<1> SUFFICES ASSUME Init PROVE TypeOK
  OBVIOUS
<1>1. /\ << >> \in Seq(Byte) /\ << >> \in Seq(Frame)
      /\ Len(<< >>) = 0
  OBVIOUS
<1>2. deaf \in -(Capacity + MaxLen) .. LongestDeaf + 1
  BY DeafBound DEF Init
<1>3. queue = << >> /\ chunk = << >>
  BY DEF Init, Port!Init
<1>4. i \in 1 .. Len(parse_buf) + 1
  BY <1>1 DEF Init
<1>5. /\ Len(queue) <= Capacity /\ Len(chunk) <= MaxLen
      /\ Len(parse_buf) <= MaxLen /\ drops \in 0 .. MaxDrops
  BY <1>1, <1>3 DEF Init
<1>6. lost \in BOOLEAN /\ pc \in {"read", "scan"}
  BY DEF Init
<1>7. /\ wire \in Seq(Byte) /\ queue \in Seq(Byte) /\ chunk \in Seq(Byte)
      /\ parse_buf \in Seq(Byte) /\ due \in Seq(Frame)
  BY <1>1, <1>3 DEF Init
<1> QED
  BY <1>2, <1>4, <1>5, <1>6, <1>7

(* Neither buffer of uart5_rx_entry is overrun and the index of the parser *)
(* stays inside the bytes it has, for every way the line is cut into reads *)
(* and every loss (uart5_port.c:96,111-120).                               *)
THEOREM TypeCorrect == Spec => []TypeOK
<1> USE LinkAssumption DEF TypeOK
<1>1. Init => TypeOK
  BY InitTyped
<1>2. TypeOK /\ [Next]_vars => TypeOK'
  <2> SUFFICES ASSUME TypeOK, [Next]_vars PROVE TypeOK'
    OBVIOUS
  <2>1. ASSUME NEW f \in Frame, HostSend(f) PROVE TypeOK'
    BY <2>1, FrameBytes DEF HostSend
  <2>2. CASE LineByte
    <3>1. Head(wire) \in Byte /\ wire' \in Seq(Byte)
      BY <2>2 DEF LineByte
    <3>2. queue' \in Seq(Byte) /\ Len(queue') <= Capacity
      <4>1. CASE Len(queue) < Capacity
        <5>1. queue' = Append(queue, Head(wire))
          BY <2>2, <4>1 DEF LineByte, Port!Receive
        <5> QED
          BY <5>1, <4>1, <3>1
      <4>2. CASE ~(Len(queue) < Capacity)
        <5>1. queue' = Append(Tail(queue), Head(wire)) /\ queue # << >>
          BY <2>2, <4>2 DEF LineByte, Port!Receive
        <5>2. Tail(queue) \in Seq(Byte) /\ Len(Tail(queue)) = Len(queue) - 1
          BY <5>1
        <5> QED
          BY <5>1, <5>2, <3>1
      <4> QED
        BY <4>1, <4>2
    <3>3. CASE Len(queue) < Capacity
      BY <2>2, <3>1, <3>2, <3>3 DEF LineByte, Port!Receive
    <3>4. CASE ~(Len(queue) < Capacity)
      <4>1. deaf' \in -(Capacity + MaxLen) .. LongestDeaf + 1
        BY <2>2, <3>4, DeafBound DEF LineByte, Drop
      <4> QED
        BY <2>2, <3>1, <3>2, <3>4, <4>1 DEF LineByte, Port!Receive, Drop
    <3> QED
      BY <3>3, <3>4
  <2>3. CASE ReadByte
    <3>1. /\ queue # << >> /\ Len(chunk) < MaxLen
          /\ chunk' = Append(chunk, Head(queue)) /\ queue' = Tail(queue)
      BY <2>3 DEF ReadByte, Port!Read
    <3>2. Head(queue) \in Byte /\ queue' \in Seq(Byte) /\ Len(queue') <= Capacity
      BY <3>1
    <3>3. chunk' \in Seq(Byte) /\ Len(chunk') <= MaxLen
      BY <3>1, <3>2
    <3> QED
      BY <2>3, <3>2, <3>3 DEF ReadByte
  <2>4. CASE BeginParse
    <3>1. parse_buf' \in Seq(Byte) /\ Len(parse_buf') <= MaxLen
      <4>1. CASE Len(parse_buf) + Len(chunk) > MaxLen
        BY <2>4, <4>1 DEF BeginParse
      <4>2. CASE ~(Len(parse_buf) + Len(chunk) > MaxLen)
        <5>1. parse_buf' = parse_buf \o chunk
          BY <2>4, <4>2 DEF BeginParse
        <5>2. /\ parse_buf \o chunk \in Seq(Byte)
              /\ Len(parse_buf \o chunk) = Len(parse_buf) + Len(chunk)
          OBVIOUS
        <5> QED
          BY <4>2, <5>1, <5>2
      <4> QED
        BY <4>1, <4>2
    <3>2. deaf' \in -(Capacity + MaxLen) .. LongestDeaf + 1
      BY <2>4, DeafBound DEF BeginParse, Heard
    <3>3. due' \in Seq(Frame) /\ lost' \in BOOLEAN
      <4>1. CASE Len(parse_buf) + Len(chunk) > MaxLen
        BY <2>4, <4>1 DEF BeginParse
      <4>2. CASE ~(Len(parse_buf) + Len(chunk) > MaxLen)
        BY <2>4, <4>2 DEF BeginParse
      <4> QED
        BY <4>1, <4>2
    <3> QED
      BY <2>4, <3>1, <3>2, <3>3 DEF BeginParse, Port!HandOver
  <2>5. ASSUME NEW n \in Nat \ {0}, pc = "scan", Dispatch(n), i + n <= Len(parse_buf) + 1
        PROVE  TypeOK'
    <3>1. parse_buf' \in Seq(Byte) /\ Len(parse_buf') <= MaxLen
      BY <2>5 DEF Dispatch, From
    <3>2. due' \in Seq(Frame)
      BY <2>5 DEF Dispatch
    <3>3. deaf' \in -(Capacity + MaxLen) .. LongestDeaf + 1
      BY <2>5, DeafBound DEF Dispatch
    <3> QED
      BY <2>5, <3>1, <3>2, <3>3 DEF Dispatch
  <2>6. CASE Skip
    BY <2>6 DEF Skip
  <2>7. CASE TakeTime
    BY <2>5, <2>7 DEF TakeTime, HasTime
  <2>8. CASE TakeCommand
    BY <2>5, <2>8 DEF TakeCommand, HasCommand
  <2>9. CASE AwaitMore
    <3>1. parse_buf' \in Seq(Byte) /\ Len(parse_buf') <= MaxLen
      BY <2>9 DEF AwaitMore, AtHead, From
    <3> QED
      BY <2>9, <3>1 DEF AwaitMore
  <2>10. CASE KeepLast
    <3>1. parse_buf' \in Seq(Byte) /\ Len(parse_buf') <= MaxLen
      BY <2>10 DEF KeepLast, From
    <3> QED
      BY <2>10, <3>1 DEF KeepLast
  <2>11. CASE UNCHANGED vars
    BY <2>11 DEF vars
  <2> QED
    BY <2>1, <2>2, <2>3, <2>4, <2>6, <2>7, <2>8, <2>9, <2>10, <2>11
       DEF Next, Parse
<1> QED
  BY <1>1, <1>2, PTL DEF Spec

-----------------------------------------------------------------------------
(* The bytes of a sequence of frames (FlattenSeq)                          *)

(* The first n frames in a row, as FlattenSeq counts them. *)
Joins(s, g) == \A n \in 1 .. Len(s) : g[n] = IF n = 1 THEN s[1] ELSE g[n - 1] \o s[n]

(* The running concatenation of a sequence of sequences exists. *)
LEMMA JoinRuns ==
  ASSUME NEW S, NEW s \in Seq(Seq(S))
  PROVE  \E g : g = [n \in 1 .. Len(s) |-> IF n = 1 THEN s[1] ELSE g[n - 1] \o s[n]]
<1> DEFINE Upto(g, d) == \A n \in 1 .. d :
                           g[n] = IF n = 1 THEN s[1] ELSE g[n - 1] \o s[n]
           T == {d \in Nat : \E g : Upto(g, d)}
<1>0. Len(s) \in Nat
  OBVIOUS
<1>1. 0 \in T
  <2>1. Upto(<< >>, 0)
    OBVIOUS
  <2>2. QED
    BY <2>1
<1>2. ASSUME NEW d \in Nat, d \in T PROVE d + 1 \in T
  <2>1. PICK g : Upto(g, d)
    BY <1>2
  <2> DEFINE h == [n \in 1 .. d + 1 |->
                     IF n = d + 1 THEN IF n = 1 THEN s[1] ELSE g[d] \o s[n] ELSE g[n]]
  <2>2. /\ \A n \in 1 .. d : h[n] = g[n]
        /\ h[d + 1] = IF d + 1 = 1 THEN s[1] ELSE g[d] \o s[d + 1]
    <3>1. d + 1 \in 1 .. d + 1
      OBVIOUS
    <3>2. h[d + 1] = IF d + 1 = 1 THEN s[1] ELSE g[d] \o s[d + 1]
      BY <3>1
    <3>3. \A n \in 1 .. d : n \in 1 .. d + 1 /\ n # d + 1
      OBVIOUS
    <3>4. \A n \in 1 .. d : h[n] = g[n]
      BY <3>3
    <3>5. QED
      BY <3>2, <3>4
  <2> HIDE DEF h
  <2>3. ASSUME NEW n \in 1 .. d + 1
        PROVE  h[n] = IF n = 1 THEN s[1] ELSE h[n - 1] \o s[n]
    <3>1. CASE n = d + 1
      <4>1. n # 1 => n - 1 = d /\ d \in 1 .. d
        BY <3>1
      <4>2. QED
        BY <2>2, <3>1, <4>1
    <3>2. CASE n # d + 1
      <4>1. n \in 1 .. d /\ (n # 1 => n - 1 \in 1 .. d)
        BY <3>2
      <4>2. QED
        BY <2>1, <2>2, <4>1
    <3>3. QED
      BY <3>1, <3>2
  <2>4. QED
    BY <2>3
<1>3. Len(s) \in T
  <2> HIDE DEF T
  <2>1. QED
    BY <1>0, <1>1, <1>2, Induction
<1>4. PICK f : Upto(f, Len(s))
  BY <1>3
<1> DEFINE g == [n \in 1 .. Len(s) |-> f[n]]
           p(v, n) == IF n = 1 THEN s[1] ELSE v[n - 1] \o s[n]
<1>5. ASSUME NEW n \in 1 .. Len(s) PROVE f[n] = p(g, n)
  <2>1. CASE n = 1
    BY <1>4, <2>1
  <2>2. CASE n # 1
    <3>1. n - 1 \in 1 .. Len(s)
      BY <1>0, <2>2
    <3>2. g[n - 1] = f[n - 1]
      BY <3>1
    <3>3. f[n] = f[n - 1] \o s[n]
      BY <1>4, <2>2
    <3> HIDE DEF g
    <3>4. QED
      BY <2>2, <3>2, <3>3
  <2>3. QED
    BY <2>1, <2>2
<1>6. g = [n \in 1 .. Len(s) |-> p(g, n)]
  <2> DEFINE x(n) == p(g, n)
  <2> HIDE DEF p, x
  <2>1. \A n \in 1 .. Len(s) : f[n] = x(n)
    BY <1>5 DEF x
  <2>2. g = [n \in 1 .. Len(s) |-> x(n)]
    BY <2>1
  <2>3. QED
    BY <2>2 DEF x
<1> HIDE DEF g
<1>7. QED
  BY <1>6

(* FlattenSeq is the last of the running concatenations. *)
LEMMA FlattenIs ==
  ASSUME NEW S, NEW s \in Seq(Seq(S)), s # << >>
  PROVE  \E g : Joins(s, g) /\ FlattenSeq(s) = g[Len(s)]
<1> DEFINE g == CHOOSE g : g = [n \in 1 .. Len(s) |->
                                  IF n = 1 THEN s[1] ELSE g[n - 1] \o s[n]]
<1>0. Len(s) \in Nat /\ Len(s) # 0
  OBVIOUS
<1>1. FlattenSeq(s) = g[Len(s)]
  BY <1>0, ZenonT(30) DEF FlattenSeq
<1>2. g = [n \in 1 .. Len(s) |-> IF n = 1 THEN s[1] ELSE g[n - 1] \o s[n]]
  BY JoinRuns, ZenonT(30)
<1> HIDE DEF g
<1>3. Joins(s, g)
  <2> SUFFICES ASSUME NEW n \in 1 .. Len(s)
               PROVE  g[n] = IF n = 1 THEN s[1] ELSE g[n - 1] \o s[n]
    BY DEF Joins
  <2>1. QED
    BY <1>2
<1>4. QED
  BY <1>1, <1>3

(* There is only one running concatenation. *)
LEMMA JoinSame ==
  ASSUME NEW S, NEW s \in Seq(Seq(S)), NEW g, NEW h, Joins(s, g), Joins(s, h)
  PROVE  \A n \in 1 .. Len(s) : g[n] = h[n] /\ g[n] \in Seq(S)
<1> DEFINE T == {d \in Nat : d + 1 <= Len(s) => g[d + 1] = h[d + 1] /\ g[d + 1] \in Seq(S)}
<1>0. Len(s) \in Nat /\ \A n \in 1 .. Len(s) : s[n] \in Seq(S)
  OBVIOUS
<1>1. 0 \in T
  <2>1. 0 + 1 = 1
    OBVIOUS
  <2>2. QED
    BY <1>0, <2>1 DEF Joins
<1>2. ASSUME NEW d \in Nat, d \in T PROVE d + 1 \in T
  <2> SUFFICES ASSUME d + 1 + 1 <= Len(s)
               PROVE  g[d + 1 + 1] = h[d + 1 + 1] /\ g[d + 1 + 1] \in Seq(S)
    OBVIOUS
  <2> DEFINE n == d + 1 + 1
  <2>1. n \in 1 .. Len(s) /\ n # 1 /\ n - 1 = d + 1 /\ d + 1 <= Len(s)
    BY <1>0
  <2>2. g[n - 1] = h[n - 1] /\ g[n - 1] \in Seq(S) /\ s[n] \in Seq(S)
    BY <1>0, <1>2, <2>1
  <2> HIDE DEF n
  <2>3. g[n] = g[n - 1] \o s[n] /\ h[n] = h[n - 1] \o s[n]
    BY <2>1 DEF Joins
  <2>4. g[n - 1] \o s[n] \in Seq(S)
    BY <2>2, ConcatProperties
  <2>5. g[n] = h[n] /\ g[n] \in Seq(S)
    BY <2>2, <2>3, <2>4
  <2>6. QED
    BY <2>5 DEF n
<1>3. \A d \in Nat : d \in T
  <2> HIDE DEF T
  <2>1. QED
    BY <1>1, <1>2, Induction
<1>4. ASSUME NEW n \in 1 .. Len(s) PROVE g[n] = h[n] /\ g[n] \in Seq(S)
  <2>1. n - 1 \in Nat /\ (n - 1) + 1 = n /\ n <= Len(s)
    BY <1>0
  <2>2. n - 1 \in T
    BY <1>3, <2>1
  <2>3. QED
    BY <2>1, <2>2
<1>5. QED
  BY <1>4

(* Flattening one frame more: behind, and in front. *)
LEMMA FlattenType ==
  ASSUME NEW S, NEW s \in Seq(Seq(S))
  PROVE  FlattenSeq(s) \in Seq(S) /\ (s = << >> => FlattenSeq(s) = << >>)
<1>1. CASE s = << >>
  <2>1. Len(s) = 0
    BY <1>1
  <2>2. FlattenSeq(s) = << >>
    BY <1>1, <2>1 DEF FlattenSeq
  <2>3. QED
    BY <2>2
<1>2. CASE s # << >>
  <2>1. PICK g : Joins(s, g) /\ FlattenSeq(s) = g[Len(s)]
    BY <1>2, FlattenIs
  <2>2. Len(s) \in 1 .. Len(s)
    BY <1>2
  <2>3. g[Len(s)] \in Seq(S)
    BY <2>1, <2>2, JoinSame
  <2>4. QED
    BY <1>2, <2>1, <2>3
<1>3. QED
  BY <1>1, <1>2

(* A frame queued last adds its bytes at the end. *)
LEMMA FlattenAppend ==
  ASSUME NEW S, NEW s \in Seq(Seq(S)), NEW f \in Seq(S)
  PROVE  FlattenSeq(Append(s, f)) = FlattenSeq(s) \o f
<1> DEFINE t == Append(s, f)
           L == Len(s)
<1>0. /\ L \in Nat /\ t \in Seq(Seq(S)) /\ Len(t) = L + 1 /\ t # << >>
      /\ t[L + 1] = f /\ \A n \in 1 .. L : t[n] = s[n]
  BY AppendProperties
<1> HIDE DEF t
<1>1. PICK g : Joins(t, g) /\ FlattenSeq(t) = g[L + 1]
  BY <1>0, FlattenIs
<1>2. CASE s = << >>
  <2>1. L = 0 /\ FlattenSeq(s) = << >>
    BY <1>2, FlattenType
  <2>2. g[1] = t[1] /\ t[1] = f
    BY <1>0, <1>1, <2>1 DEF Joins
  <2>3. FlattenSeq(t) = f
    BY <1>1, <2>1, <2>2
  <2>4. << >> \o f = f
    BY ConcatEmptySeq
  <2>5. QED
    BY <2>1, <2>3, <2>4 DEF t
<1>3. CASE s # << >>
  <2>1. L \in 1 .. L /\ L + 1 \in 1 .. L + 1 /\ L + 1 # 1 /\ (L + 1) - 1 = L
    BY <1>0, <1>3
  <2>2. g[L + 1] = g[L] \o f
    BY <1>0, <1>1, <2>1 DEF Joins
  <2>3. Joins(s, g)
    <3> SUFFICES ASSUME NEW n \in 1 .. L
                 PROVE  g[n] = IF n = 1 THEN s[1] ELSE g[n - 1] \o s[n]
      BY DEF Joins
    <3>1. n \in 1 .. Len(t) /\ 1 \in 1 .. L
      BY <1>0
    <3>2. g[n] = IF n = 1 THEN t[1] ELSE g[n - 1] \o t[n]
      BY <1>1, <3>1 DEF Joins
    <3>3. QED
      BY <1>0, <3>1, <3>2
  <2>4. PICK h : Joins(s, h) /\ FlattenSeq(s) = h[L]
    BY <1>3, FlattenIs
  <2>5. g[L] = h[L]
    BY <2>1, <2>3, <2>4, JoinSame
  <2>6. QED
    BY <1>1, <2>2, <2>4, <2>5 DEF t
<1>4. QED
  BY <1>2, <1>3

(* The bytes due begin with those of the first frame. *)
LEMMA FlattenHead ==
  ASSUME NEW S, NEW s \in Seq(Seq(S)), s # << >>
  PROVE  FlattenSeq(s) = Head(s) \o FlattenSeq(Tail(s))
<1> DEFINE t == Tail(s)
           f == s[1]
           L == Len(s)
<1>0. /\ L \in Nat /\ L >= 1 /\ t \in Seq(Seq(S)) /\ Len(t) = L - 1 /\ f \in Seq(S)
      /\ Head(s) = f /\ \A n \in 1 .. L - 1 : t[n] = s[n + 1]
  <2>1. L \in Nat /\ L >= 1 /\ Head(s) = f /\ f \in Seq(S)
    OBVIOUS
  <2>2. t \in Seq(Seq(S)) /\ Len(t) = L - 1 /\ \A n \in 1 .. Len(t) : t[n] = s[n + 1]
    BY HeadTailProperties
  <2>3. QED
    BY <2>1, <2>2
<1> HIDE DEF t, f
<1>1. PICK g : Joins(s, g) /\ FlattenSeq(s) = g[L]
  BY FlattenIs
<1>2. g[1] = f
  <2>1. 1 \in 1 .. L
    BY <1>0
  <2>2. QED
    BY <1>1, <2>1 DEF Joins, f
<1>3. CASE L = 1
  <2>1. t = << >>
    BY <1>0, <1>3
  <2>2. FlattenSeq(t) = << >>
    BY <1>0, <2>1, FlattenType
  <2>3. f \o << >> = f
    BY <1>0, ConcatEmptySeq
  <2>4. QED
    BY <1>0, <1>1, <1>2, <1>3, <2>2, <2>3 DEF t
<1>4. CASE L # 1
  <2>0. t # << >>
    BY <1>0, <1>4
  <2>1. PICK h : Joins(t, h) /\ FlattenSeq(t) = h[L - 1]
    BY <1>0, <2>0, FlattenIs
  <2>2. \A n \in 1 .. L - 1 : h[n] \in Seq(S)
    BY <1>0, <2>1, JoinSame
  <2> DEFINE T == {d \in Nat : d + 1 <= L - 1 => g[d + 2] = f \o h[d + 1]}
  <2>3. 0 \in T
    <3>1. /\ 2 \in 1 .. L /\ 2 # 1 /\ 2 - 1 = 1 /\ 1 \in 1 .. L - 1 /\ 1 + 1 = 2
          /\ 0 + 1 = 1 /\ 0 + 2 = 2
      BY <1>0, <1>4
    <3>2. g[2] = g[2 - 1] \o s[2]
      BY <1>1, <3>1 DEF Joins
    <3>3. h[1] = t[1] /\ t[1] = s[2]
      <4>1. 1 \in 1 .. Len(t)
        BY <1>0, <3>1
      <4>2. t[1] = s[1 + 1]
        BY <1>0, <3>1
      <4>3. QED
        BY <2>1, <3>1, <4>1, <4>2 DEF Joins
    <3>4. QED
      BY <1>2, <3>1, <3>2, <3>3
  <2>4. ASSUME NEW d \in Nat, d \in T PROVE d + 1 \in T
    <3> SUFFICES ASSUME d + 1 + 1 <= L - 1 PROVE g[d + 1 + 2] = f \o h[d + 1 + 1]
      OBVIOUS
    <3>1. /\ d + 3 \in 1 .. L /\ d + 3 # 1 /\ (d + 3) - 1 = d + 2
          /\ d + 2 \in 1 .. L - 1 /\ d + 2 # 1 /\ (d + 2) - 1 = d + 1
          /\ d + 1 <= L - 1 /\ d + 1 \in 1 .. L - 1 /\ (d + 2) + 1 = d + 3
          /\ d + 1 + 2 = d + 3 /\ d + 1 + 1 = d + 2
      BY <1>0
    <3>2. g[d + 3] = g[d + 2] \o s[d + 3]
      BY <1>1, <3>1 DEF Joins
    <3>3. h[d + 2] = h[d + 1] \o t[d + 2]
      BY <1>0, <2>1, <3>1 DEF Joins
    <3>4. t[d + 2] = s[d + 3]
      BY <1>0, <3>1
    <3>5. g[d + 2] = f \o h[d + 1]
      BY <2>4, <3>1
    <3>6. t[d + 2] \in Seq(S)
      BY <1>0, <3>1, ElementOfSeq
    <3>7. (f \o h[d + 1]) \o t[d + 2] = f \o (h[d + 1] \o t[d + 2])
      <4>1. f \in Seq(S) /\ h[d + 1] \in Seq(S) /\ t[d + 2] \in Seq(S)
        BY <1>0, <2>2, <3>1, <3>6
      <4>2. \A a, b, c \in Seq(S) : (a \o b) \o c = a \o (b \o c)
        BY ONLY ConcatAssociative
      <4>3. QED
        BY ONLY <4>1, <4>2, ZenonT(30)
    <3>8. QED
      BY <3>1, <3>2, <3>3, <3>4, <3>5, <3>7
  <2>5. \A d \in Nat : d \in T
    <3> HIDE DEF T
    <3>1. QED
      BY <2>3, <2>4, Induction
  <2>6. L - 2 \in Nat /\ (L - 2) + 1 = L - 1 /\ (L - 2) + 2 = L /\ L - 1 <= L - 1
    BY <1>0, <1>4
  <2>7. L - 2 \in T
    BY <2>5, <2>6
  <2>8. g[L] = f \o h[L - 1]
    BY <2>6, <2>7
  <2>9. QED
    BY <1>0, <1>1, <2>1, <2>8 DEF t
<1>5. QED
  BY <1>3, <1>4

-----------------------------------------------------------------------------
(* The parser (uart5_rx_entry, uart5_try_parse)                            *)

(* What has been sent and not yet dispatched, byte by byte. *)
InFlight == parse_buf \o (chunk \o (queue \o wire))

(* Without a loss these are the frames that are due; the parser is at the  *)
(* beginning of its buffer, and while it waits the first frame due is not  *)
(* complete there.                                                         *)
LinkInv ==
  /\ TypeOK
  /\ ~lost => /\ FlattenSeq(due) = InFlight
              /\ i = 1
              /\ pc = "read" /\ due # << >> => Len(parse_buf) < Len(Head(due))

(* Concatenation is associative, in the forms the link needs. *)
LEMMA Regroup ==
  /\ \A q, r, w \in Seq(Byte) : (q \o r) \o w = q \o (r \o w)
  /\ \A p, q, r, w \in Seq(Byte) : p \o q \o r \o w = p \o (q \o (r \o w))
<1>1. \A q, r, w \in Seq(Byte) : (q \o r) \o w = q \o (r \o w)
  BY ConcatAssociative
<1>2. ASSUME NEW p \in Seq(Byte), NEW q \in Seq(Byte), NEW r \in Seq(Byte),
             NEW w \in Seq(Byte)
      PROVE  p \o q \o r \o w = p \o (q \o (r \o w))
  <2> DEFINE pq == p \o q
             rw == r \o w
  <2>1. pq \in Seq(Byte) /\ rw \in Seq(Byte)
    BY ConcatProperties
  <2>2. (p \o q) \o rw = p \o (q \o rw)
    <3> HIDE DEF rw
    <3>1. QED
      BY <2>1, ConcatAssociative
  <2>3. (pq \o r) \o w = pq \o (r \o w)
    <3> HIDE DEF pq
    <3>1. QED
      BY <2>1, ConcatAssociative
  <2>4. QED
    BY <2>2, <2>3
<1>3. QED
  BY ONLY <1>1, <1>2

(* The bytes in flight begin with those the parser holds. *)
LEMMA InFlightIs ==
  ASSUME TypeOK
  PROVE  /\ InFlight \in Seq(Byte)
         /\ InFlight = parse_buf \o chunk \o queue \o wire
         /\ chunk \o (queue \o wire) \in Seq(Byte)
         /\ Len(parse_buf) <= Len(InFlight)
         /\ \A n \in 1 .. Len(parse_buf) : InFlight[n] = parse_buf[n]
<1>1. /\ parse_buf \in Seq(Byte) /\ chunk \in Seq(Byte) /\ queue \in Seq(Byte)
      /\ wire \in Seq(Byte)
  BY DEF TypeOK
<1>2. queue \o wire \in Seq(Byte) /\ parse_buf \o chunk \in Seq(Byte)
  BY <1>1, ConcatProperties
<1>3. chunk \o (queue \o wire) \in Seq(Byte)
  BY ONLY <1>1, <1>2, ConcatProperties
<1>4. parse_buf \o chunk \o queue \o wire = InFlight
  <2>1. \A p, q, r, w \in Seq(Byte) : p \o q \o r \o w = p \o (q \o (r \o w))
    BY ONLY Regroup
  <2>2. \A q, r, w \in Seq(Byte) :
          parse_buf \o q \o r \o w = parse_buf \o (q \o (r \o w))
    BY ONLY <1>1, <2>1
  <2>3. \A r, w \in Seq(Byte) :
          parse_buf \o chunk \o r \o w = parse_buf \o (chunk \o (r \o w))
    BY ONLY <1>1, <2>2
  <2>4. parse_buf \o chunk \o queue \o wire = parse_buf \o (chunk \o (queue \o wire))
    BY ONLY <1>1, <2>3
  <2>5. QED
    BY <2>4 DEF InFlight
<1> DEFINE r == chunk \o (queue \o wire)
<1>6. /\ parse_buf \o r \in Seq(Byte) /\ Len(parse_buf \o r) = Len(parse_buf) + Len(r)
      /\ \A n \in 1 .. Len(parse_buf) + Len(r) :
           (parse_buf \o r)[n] = IF n <= Len(parse_buf) THEN parse_buf[n]
                                 ELSE r[n - Len(parse_buf)]
  <2>1. r \in Seq(Byte)
    BY <1>3
  <2> HIDE DEF r
  <2>2. QED
    BY ONLY <1>1, <2>1, ConcatProperties
<1>7. Len(r) \in Nat /\ Len(parse_buf) \in Nat
  BY <1>1, <1>3
<1> HIDE DEF r
<1>8. InFlight = parse_buf \o r
  BY DEF InFlight, r
<1>9. \A n \in 1 .. Len(parse_buf) : InFlight[n] = parse_buf[n]
  BY <1>6, <1>7, <1>8
<1>10. Len(parse_buf) <= Len(InFlight)
  BY <1>6, <1>7, <1>8
<1>11. QED
  BY <1>3, <1>4, <1>6, <1>8, <1>9, <1>10 DEF InFlight

(* The frames, byte by byte. *)
LEMMA FrameShape ==
  ASSUME NEW f \in Frame
  PROVE  /\ f \in Seq(Byte) /\ Len(f) \in Nat /\ Len(f) >= 4 /\ f[1] = "AA"
         /\ \/ /\ f[2] = "60" /\ Len(f) = TimeBytes + 3 /\ f[4] # "55"
               /\ f[TimeBytes + 3] = "55"
            \/ f[2] # "60" /\ Len(f) = 4 /\ f[4] = "55"
<1> USE LinkAssumption
<1>1. ASSUME NEW c \in Command, f = CommandFrame(c)
      PROVE  /\ f \in Seq(Byte) /\ Len(f) = 4 /\ f[1] = "AA" /\ f[2] # "60" /\ f[4] = "55"
  <2>1. f = << "AA", c, c, "55" >> /\ c # "60"
    BY <1>1 DEF CommandFrame
  <2>2. QED
    BY <2>1 DEF Byte
<1>2. ASSUME f = TimeFrame
      PROVE  /\ f \in Seq(Byte) /\ f[1] = "AA" /\ f[2] = "60" /\ Len(f) = TimeBytes + 3
             /\ f[4] = "time" /\ f[TimeBytes + 3] = "55"
  <2> DEFINE a == << "AA", "60" >>
             t == [k \in 1 .. TimeBytes |-> "time"]
             z == << "55" >>
  <2>0. TimeBytes \in Nat /\ TimeBytes >= 2
    OBVIOUS
  <2>1. /\ a \in Seq(Byte) /\ t \in Seq(Byte) /\ z \in Seq(Byte)
        /\ Len(a) = 2 /\ Len(t) = TimeBytes /\ Len(z) = 1
    BY DEF Byte
  <2>2. a[1] = "AA" /\ a[2] = "60" /\ z[1] = "55" /\ \A k \in 1 .. TimeBytes : t[k] = "time"
    OBVIOUS
  <2>3. f = (a \o t) \o z
    BY <1>2 DEF TimeFrame
  <2> HIDE DEF a, t, z
  <2>4. /\ a \o t \in Seq(Byte) /\ Len(a \o t) = TimeBytes + 2
        /\ \A n \in 1 .. TimeBytes + 2 : (a \o t)[n] = IF n <= 2 THEN a[n] ELSE t[n - 2]
    <3>1. /\ a \o t \in Seq(Byte) /\ Len(a \o t) = Len(a) + Len(t)
          /\ \A n \in 1 .. Len(a) + Len(t) :
               (a \o t)[n] = IF n <= Len(a) THEN a[n] ELSE t[n - Len(a)]
      BY ONLY <2>1, ConcatProperties
    <3>2. Len(a) + Len(t) = TimeBytes + 2
      BY <2>0, <2>1
    <3>3. QED
      BY <2>1, <3>1, <3>2
  <2> DEFINE x == a \o t
  <2>5. x \in Seq(Byte) /\ Len(x) = TimeBytes + 2 /\ f = x \o z
    BY <2>3, <2>4
  <2>6. /\ x[1] = "AA" /\ x[2] = "60" /\ x[4] = "time"
    <3>1. 1 \in 1 .. TimeBytes + 2 /\ 2 \in 1 .. TimeBytes + 2 /\ 4 \in 1 .. TimeBytes + 2
      BY <2>0
    <3>2. x[1] = a[1] /\ x[2] = a[2]
      BY <2>4, <3>1
    <3>3. x[4] = t[4 - 2] /\ 4 - 2 = 2 /\ 2 \in 1 .. TimeBytes
      BY <2>0, <2>4, <3>1
    <3>4. QED
      BY <2>2, <3>2, <3>3
  <2> HIDE DEF x
  <2>7. /\ f \in Seq(Byte) /\ Len(f) = TimeBytes + 3
        /\ \A n \in 1 .. TimeBytes + 3 :
             f[n] = IF n <= TimeBytes + 2 THEN x[n] ELSE z[n - (TimeBytes + 2)]
    <3>0. x \in Seq(Byte) /\ z \in Seq(Byte)
      BY <2>1, <2>5
    <3>1. /\ x \o z \in Seq(Byte) /\ Len(x \o z) = Len(x) + Len(z)
          /\ \A n \in 1 .. Len(x) + Len(z) :
               (x \o z)[n] = IF n <= Len(x) THEN x[n] ELSE z[n - Len(x)]
      BY ONLY <3>0, ConcatProperties
    <3>2. Len(x) + Len(z) = TimeBytes + 3
      BY <2>0, <2>1, <2>5
    <3>3. QED
      BY <2>5, <3>1, <3>2
  <2>8. /\ 1 \in 1 .. TimeBytes + 3 /\ 2 \in 1 .. TimeBytes + 3 /\ 4 \in 1 .. TimeBytes + 3
        /\ TimeBytes + 3 \in 1 .. TimeBytes + 3 /\ 1 <= TimeBytes + 2 /\ 2 <= TimeBytes + 2
        /\ 4 <= TimeBytes + 2 /\ ~(TimeBytes + 3 <= TimeBytes + 2)
        /\ (TimeBytes + 3) - (TimeBytes + 2) = 1
    BY <2>0
  <2>9. f[1] = x[1] /\ f[2] = x[2] /\ f[4] = x[4] /\ f[TimeBytes + 3] = z[1]
    BY <2>7, <2>8
  <2>10. QED
    BY <2>2, <2>6, <2>7, <2>9
<1>3. f = TimeFrame \/ \E c \in Command : f = CommandFrame(c)
  BY DEF Frame
<1>4. QED
  BY <1>1, <1>2, <1>3

(* Without a loss, the first frame due and what the buffer has of it. *)
LEMMA FirstDue ==
  ASSUME TypeOK, FlattenSeq(due) = InFlight
  PROVE  /\ due = << >> => InFlight = << >> /\ parse_buf = << >>
         /\ due # << >> =>
              /\ Head(due) \in Frame /\ Tail(due) \in Seq(Frame)
              /\ FlattenSeq(Tail(due)) \in Seq(Byte)
              /\ InFlight = Head(due) \o FlattenSeq(Tail(due))
              /\ \A n \in 1 .. Len(parse_buf) :
                   n <= Len(Head(due)) => parse_buf[n] = Head(due)[n]
<1>0. /\ due \in Seq(Frame) /\ Frame \subseteq Seq(Byte) /\ due \in Seq(Seq(Byte))
      /\ parse_buf \in Seq(Byte)
  BY FrameBytes DEF TypeOK
<1>1. CASE due = << >>
  <2>1. InFlight = << >>
    BY <1>0, <1>1, FlattenType
  <2>2. Len(parse_buf) <= 0
    BY <2>1, InFlightIs
  <2>3. parse_buf = << >>
    BY <1>0, <2>2
  <2>4. QED
    BY <1>1, <2>1, <2>3
<1>2. CASE due # << >>
  <2> DEFINE f == Head(due)
             t == FlattenSeq(Tail(due))
  <2>1. f \in Frame /\ Tail(due) \in Seq(Frame)
    BY <1>0, <1>2, HeadTailProperties
  <2>2. Tail(due) \in Seq(Seq(Byte)) /\ f \in Seq(Byte)
    BY <1>0, <2>1
  <2>3. t \in Seq(Byte)
    BY <2>2, FlattenType
  <2>4. InFlight = f \o t
    BY <1>0, <1>2, FlattenHead
  <2> HIDE DEF f, t
  <2>5. /\ Len(f \o t) = Len(f) + Len(t)
        /\ \A n \in 1 .. Len(f) + Len(t) : (f \o t)[n] = IF n <= Len(f) THEN f[n] ELSE t[n - Len(f)]
    BY ONLY <2>2, <2>3, ConcatProperties
  <2>6. Len(f) \in Nat /\ Len(t) \in Nat /\ Len(parse_buf) \in Nat
    BY <1>0, <2>2, <2>3
  <2>7. \A n \in 1 .. Len(parse_buf) : n <= Len(f) => parse_buf[n] = f[n]
    <3> SUFFICES ASSUME NEW n \in 1 .. Len(parse_buf), n <= Len(f)
                 PROVE  parse_buf[n] = f[n]
      OBVIOUS
    <3>1. InFlight[n] = parse_buf[n]
      BY InFlightIs
    <3>2. n \in 1 .. Len(f) + Len(t)
      BY <2>6
    <3>3. QED
      BY <2>4, <2>5, <3>1, <3>2
  <2>8. QED
    BY <1>2, <2>1, <2>3, <2>4, <2>7 DEF f, t
<1>3. QED
  BY <1>1, <1>2

(* The frame of n bytes that the parser takes is the first one due.        *)
LEMMA DispatchKeeps ==
  ASSUME LinkInv, TypeOK', pc = "scan", NEW n \in Nat, Dispatch(n),
         ~lost => due # << >> /\ Len(Head(due)) = n /\ n <= Len(parse_buf)
  PROVE  LinkInv'
<1> SUFFICES ASSUME ~lost
             PROVE  FlattenSeq(due') = InFlight' /\ i' = 1 /\ pc' = "scan"
  BY DEF LinkInv, Dispatch
<1> DEFINE f == Head(due)
           r == chunk \o (queue \o wire)
           t == FlattenSeq(Tail(due))
           a == SubSeq(parse_buf, 1, n)
           b == SubSeq(parse_buf, 1 + n, Len(parse_buf))
<1>1. /\ TypeOK /\ FlattenSeq(due) = InFlight /\ i = 1
      /\ due # << >> /\ Len(f) = n /\ n <= Len(parse_buf)
  BY DEF LinkInv
<1>2. /\ parse_buf' = b /\ due' = Tail(due) /\ InFlight' = b \o r
      /\ i' = 1 /\ pc' = "scan"
  BY <1>1 DEF Dispatch, From, InFlight
<1>3. /\ f \in Frame /\ t \in Seq(Byte) /\ InFlight = f \o t
      /\ \A k \in 1 .. Len(parse_buf) : k <= Len(f) => parse_buf[k] = f[k]
  BY <1>1, FirstDue
<1>4. /\ r \in Seq(Byte) /\ parse_buf \in Seq(Byte) /\ f \in Seq(Byte)
      /\ Len(parse_buf) \in Nat
  BY <1>1, <1>3, InFlightIs, FrameBytes DEF TypeOK
<1>5. /\ a \in Seq(Byte) /\ Len(a) = n /\ \A k \in 1 .. n : a[k] = parse_buf[k]
      /\ b \in Seq(Byte) /\ Len(b) = Len(parse_buf) - n
      /\ \A k \in 1 .. Len(parse_buf) - n : b[k] = parse_buf[n + k]
  <2>1. \A k \in 1 .. Len(parse_buf) : parse_buf[k] \in Byte
    BY <1>4
  <2>2. /\ a \in Seq(Byte) /\ Len(a) = (IF 1 <= n THEN n - 1 + 1 ELSE 0)
        /\ \A k \in 1 .. n - 1 + 1 : a[k] = parse_buf[1 + k - 1]
    <3>1. 1 \in Int /\ n \in Int /\ \A k \in 1 .. n : parse_buf[k] \in Byte
      BY <1>1, <1>4, <2>1
    <3>2. QED
      BY ONLY <3>1, SubSeqProperties
  <2>3. /\ b \in Seq(Byte)
        /\ Len(b) = (IF 1 + n <= Len(parse_buf) THEN Len(parse_buf) - (1 + n) + 1 ELSE 0)
        /\ \A k \in 1 .. Len(parse_buf) - (1 + n) + 1 : b[k] = parse_buf[1 + n + k - 1]
    <3>1. /\ 1 + n \in Int /\ Len(parse_buf) \in Int
          /\ \A k \in 1 + n .. Len(parse_buf) : parse_buf[k] \in Byte
      BY <1>1, <1>4, <2>1
    <3>2. QED
      BY ONLY <3>1, SubSeqProperties
  <2> HIDE DEF a, b
  <2>4. /\ n - 1 + 1 = n /\ Len(parse_buf) - (1 + n) + 1 = Len(parse_buf) - n
        /\ \A k \in Int : 1 + k - 1 = k /\ 1 + n + k - 1 = n + k
    BY <1>4
  <2>5. Len(a) = n /\ Len(b) = Len(parse_buf) - n
    BY <1>1, <1>4, <2>2, <2>3
  <2>6. \A k \in 1 .. n : a[k] = parse_buf[k]
    BY <2>2, <2>4
  <2>7. \A k \in 1 .. Len(parse_buf) - n : b[k] = parse_buf[n + k]
    <3> TAKE k \in 1 .. Len(parse_buf) - n
    <3>1. k \in Int /\ k \in 1 .. Len(parse_buf) - (1 + n) + 1
      BY <2>4
    <3>2. b[k] = parse_buf[1 + n + k - 1]
      BY ONLY <2>3, <3>1
    <3>3. QED
      BY ONLY <2>4, <3>1, <3>2
  <2>8. QED
    BY <2>2, <2>3, <2>5, <2>6, <2>7
<1> HIDE DEF a, b, f, r, t
<1>6. a = f
  <2>1. Len(a) = Len(f) /\ \A k \in 1 .. Len(a) : a[k] = f[k]
    BY <1>1, <1>3, <1>4, <1>5
  <2>2. QED
    BY <1>4, <1>5, <2>1, SeqEqual
<1>7. a \o b = parse_buf
  <2>1. /\ a \o b \in Seq(Byte) /\ Len(a \o b) = Len(a) + Len(b)
        /\ \A k \in 1 .. Len(a) + Len(b) :
             (a \o b)[k] = IF k <= Len(a) THEN a[k] ELSE b[k - Len(a)]
    <3>1. a \in Seq(Byte) /\ b \in Seq(Byte)
      BY <1>5
    <3>2. QED
      BY ONLY <3>1, ConcatProperties
  <2>2. Len(a \o b) = Len(parse_buf)
    BY <1>1, <1>4, <1>5, <2>1
  <2>3. ASSUME NEW k \in 1 .. Len(parse_buf) PROVE (a \o b)[k] = parse_buf[k]
    <3>1. (a \o b)[k] = IF k <= n THEN a[k] ELSE b[k - n]
      BY <1>1, <1>4, <1>5, <2>1
    <3>2. k <= n => k \in 1 .. n
      OBVIOUS
    <3>3. ~(k <= n) => k - n \in 1 .. Len(parse_buf) - n /\ n + (k - n) = k
      BY <1>1, <1>4
    <3>4. QED
      BY <1>5, <3>1, <3>2, <3>3
  <2>4. \A k \in 1 .. Len(a \o b) : (a \o b)[k] = parse_buf[k]
    BY <2>2, <2>3
  <2>5. QED
    BY <1>4, <2>1, <2>2, <2>4, SeqEqual
<1>8. InFlight = (a \o b) \o r
  BY <1>7 DEF InFlight, r
<1>9. (a \o b) \o r = a \o (b \o r)
  <2>1. \A x, y, z \in Seq(Byte) : (x \o y) \o z = x \o (y \o z)
    BY ONLY ConcatAssociative
  <2>2. QED
    BY ONLY <1>4, <1>5, <2>1, ZenonT(30)
<1>10. f \o (b \o r) = f \o t
  BY <1>3, <1>6, <1>8, <1>9, ZenonT(30)
<1>11. b \o r \in Seq(Byte)
  BY <1>4, <1>5, ConcatProperties
<1>12. b \o r = t
  <2>1. \A x, y, z \in Seq(Byte) : x \o y = x \o z => y = z
    BY ONLY ConcatSimplifications
  <2>2. QED
    BY ONLY <1>3, <1>4, <1>10, <1>11, <2>1, ZenonT(30)
<1>13. QED
  BY <1>2, <1>12 DEF t

(* A byte moved from the head of one buffer to the end of the other stays in its place. *)
LEMMA MoveHead ==
  ASSUME NEW s \in Seq(Byte), NEW t \in Seq(Byte), t # << >>
  PROVE  Append(s, Head(t)) \o Tail(t) = s \o t
<1>1. Head(t) \in Byte /\ Tail(t) \in Seq(Byte) /\ << Head(t) >> \in Seq(Byte)
  BY HeadTailProperties
<1>2. Append(s, Head(t)) = s \o << Head(t) >>
  BY <1>1, AppendIsConcat
<1>3. t = << Head(t) >> \o Tail(t)
  <2> DEFINE h == << Head(t) >>
  <2>1. h \in Seq(Byte) /\ Len(h) = 1 /\ h[1] = Head(t)
    BY <1>1
  <2>2. /\ Tail(t) \in Seq(Byte) /\ Len(Tail(t)) = Len(t) - 1 /\ Len(t) \in Nat
        /\ \A n \in 1 .. Len(Tail(t)) : Tail(t)[n] = t[n + 1]
    BY HeadTailProperties
  <2>3. Head(t) = t[1]
    OBVIOUS
  <2> HIDE DEF h
  <2>4. /\ h \o Tail(t) \in Seq(Byte) /\ Len(h \o Tail(t)) = Len(h) + Len(Tail(t))
        /\ \A n \in 1 .. Len(h) + Len(Tail(t)) :
             (h \o Tail(t))[n] = IF n <= Len(h) THEN h[n] ELSE Tail(t)[n - Len(h)]
    <3> DEFINE u == Tail(t)
    <3>1. h \in Seq(Byte) /\ u \in Seq(Byte)
      BY <2>1, <2>2
    <3> HIDE DEF u
    <3>2. /\ h \o u \in Seq(Byte) /\ Len(h \o u) = Len(h) + Len(u)
          /\ \A n \in 1 .. Len(h) + Len(u) :
               (h \o u)[n] = IF n <= Len(h) THEN h[n] ELSE u[n - Len(h)]
      BY ONLY <3>1, ConcatProperties
    <3>3. QED
      BY ONLY <3>2 DEF u
  <2>5. ASSUME NEW n \in 1 .. Len(t) PROVE t[n] = (h \o Tail(t))[n]
    <3>1. (h \o Tail(t))[n] = IF n <= 1 THEN h[n] ELSE Tail(t)[n - 1]
      BY <2>1, <2>2, <2>4
    <3>2. n <= 1 => n = 1
      BY <2>2
    <3>3. ~(n <= 1) => n - 1 \in 1 .. Len(Tail(t)) /\ (n - 1) + 1 = n
      BY <2>2
    <3>4. QED
      BY <2>1, <2>2, <2>3, <3>1, <3>2, <3>3
  <2>6. Len(h \o Tail(t)) = Len(t)
    BY <2>1, <2>2, <2>4
  <2>7. t = h \o Tail(t)
    BY <2>4, <2>5, <2>6, SeqEqual
  <2>8. QED
    BY <2>7 DEF h
<1>4. \A x, y, z \in Seq(Byte) : (x \o y) \o z = x \o (y \o z)
  BY ONLY ConcatAssociative
<1>5. (s \o << Head(t) >>) \o Tail(t) = s \o (<< Head(t) >> \o Tail(t))
  BY ONLY <1>1, <1>4, ZenonT(30)
<1>6. QED
  BY ONLY <1>2, <1>3, <1>5, ZenonT(30)

(* Without a loss a head is the head of the first frame due; the parser    *)
(* takes that frame, or waits because it is not complete.                  *)
LEMMA ParseKeeps ==
  ASSUME LinkInv, TypeOK', Parse
  PROVE  LinkInv'
<1> USE LinkAssumption
<1>0. TypeOK /\ TimeBytes \in Nat /\ TimeBytes >= 2
  BY DEF LinkInv
<1>1. ASSUME ~lost
      PROVE  /\ i = 1 /\ FlattenSeq(due) = InFlight
             /\ parse_buf \in Seq(Byte) /\ Len(parse_buf) \in Nat
             /\ parse_buf # << >> => parse_buf[1] = "AA" /\ due # << >>
  <2>1. i = 1 /\ FlattenSeq(due) = InFlight
    BY <1>1 DEF LinkInv
  <2>2. parse_buf \in Seq(Byte) /\ Len(parse_buf) \in Nat
    BY <1>0 DEF TypeOK
  <2>3. ASSUME parse_buf # << >> PROVE parse_buf[1] = "AA" /\ due # << >>
    <3>1. due # << >>
      BY <1>0, <2>1, <2>3, FirstDue
    <3>2. /\ Head(due) \in Frame
          /\ \A n \in 1 .. Len(parse_buf) : n <= Len(Head(due)) => parse_buf[n] = Head(due)[n]
      BY <1>0, <2>1, <3>1, FirstDue
    <3>3. Len(Head(due)) \in Nat /\ Len(Head(due)) >= 4 /\ Head(due)[1] = "AA"
      BY <3>2, FrameShape
    <3>4. 1 \in 1 .. Len(parse_buf) /\ 1 <= Len(Head(due))
      BY <2>2, <2>3, <3>3
    <3>5. QED
      BY <3>1, <3>2, <3>3, <3>4
  <2>4. QED
    BY <2>1, <2>2, <2>3
<1>2. ASSUME ~lost, parse_buf # << >>
      PROVE  /\ HasTime => Len(Head(due)) = TimeBytes + 3
             /\ ~HasTime /\ HasCommand => Len(Head(due)) = 4
             /\ ~HasTime /\ ~HasCommand => Len(parse_buf) < Len(Head(due))
  <2> DEFINE f == Head(due)
             L == Len(parse_buf)
  <2>1. /\ i = 1 /\ L \in Nat /\ due # << >> /\ FlattenSeq(due) = InFlight
    BY <1>1, <1>2
  <2>2. /\ f \in Frame /\ \A n \in 1 .. L : n <= Len(f) => parse_buf[n] = f[n]
    BY <1>0, <2>1, FirstDue
  <2>3. /\ Len(f) \in Nat /\ Len(f) >= 4
        /\ \/ /\ f[2] = "60" /\ Len(f) = TimeBytes + 3 /\ f[4] # "55"
              /\ f[TimeBytes + 3] = "55"
           \/ f[2] # "60" /\ Len(f) = 4 /\ f[4] = "55"
    BY <2>2, FrameShape
  <2>4. /\ HasTime <=> /\ 1 + TimeBytes + 2 <= L /\ parse_buf[1 + 1] = "60"
                       /\ parse_buf[1 + TimeBytes + 2] = "55"
        /\ HasCommand <=> 1 + 3 <= L /\ parse_buf[1 + 3] = "55"
    BY <2>1 DEF HasTime, HasCommand
  <2>5. 1 + 1 = 2 /\ 1 + 3 = 4 /\ 1 + TimeBytes + 2 = TimeBytes + 3
    BY <1>0
  <2>6. /\ HasTime <=> /\ TimeBytes + 3 <= L /\ parse_buf[2] = "60"
                       /\ parse_buf[TimeBytes + 3] = "55"
        /\ HasCommand <=> 4 <= L /\ parse_buf[4] = "55"
    BY <2>4, <2>5
  <2> HIDE DEF f, L
  <2>7. HasTime => Len(f) = TimeBytes + 3
    <3>1. HasTime => 2 \in 1 .. L /\ 2 <= Len(f)
      BY <1>0, <2>1, <2>3, <2>6
    <3>2. QED
      BY <2>2, <2>3, <2>6, <3>1
  <2>8. HasCommand => Len(f) = 4
    <3>1. HasCommand => 4 \in 1 .. L /\ 4 <= Len(f)
      BY <1>0, <2>1, <2>3, <2>6
    <3>2. QED
      BY <2>2, <2>3, <2>6, <3>1
  <2>9. Len(f) <= L => HasTime \/ HasCommand
    <3> SUFFICES ASSUME Len(f) <= L PROVE HasTime \/ HasCommand
      OBVIOUS
    <3>1. CASE f[2] = "60" /\ Len(f) = TimeBytes + 3 /\ f[TimeBytes + 3] = "55"
      <4>1. /\ 2 \in 1 .. L /\ 2 <= Len(f) /\ TimeBytes + 3 \in 1 .. L
            /\ TimeBytes + 3 <= Len(f) /\ TimeBytes + 3 <= L
        BY <1>0, <2>1, <3>1
      <4>2. parse_buf[2] = f[2] /\ parse_buf[TimeBytes + 3] = f[TimeBytes + 3]
        BY <2>2, <4>1
      <4>3. QED
        BY <2>6, <3>1, <4>1, <4>2
    <3>2. CASE Len(f) = 4 /\ f[4] = "55"
      <4>1. 4 \in 1 .. L /\ 4 <= Len(f) /\ 4 <= L
        BY <2>1, <3>2
      <4>2. QED
        BY <2>2, <2>6, <3>2, <4>1
    <3>3. QED
      BY <2>3, <3>1, <3>2
  <2>10. ~(Len(f) <= L) => L < Len(f)
    BY <2>1, <2>3
  <2>11. QED
    BY <2>7, <2>8, <2>9, <2>10 DEF f, L
<1>3. CASE Skip
  <2>1. lost
    <3> SUFFICES ASSUME ~lost PROVE FALSE
      OBVIOUS
    <3>1. i = 1 /\ i <= Len(parse_buf) /\ parse_buf[i] # "AA"
      BY <1>1, <1>3 DEF Skip
    <3>2. parse_buf # << >>
      BY <1>1, <3>1
    <3>3. QED
      BY <1>1, <3>1, <3>2
  <2>2. lost'
    BY <1>3, <2>1 DEF Skip
  <2>3. QED
    BY <2>2 DEF LinkInv
<1>4. CASE TakeTime
  <2>1. pc = "scan" /\ AtHead /\ HasTime /\ Dispatch(TimeBytes + 3)
    BY <1>4 DEF TakeTime
  <2>2. ASSUME ~lost
        PROVE  /\ due # << >> /\ Len(Head(due)) = TimeBytes + 3
               /\ TimeBytes + 3 <= Len(parse_buf)
    <3>1. i = 1 /\ Len(parse_buf) \in Nat
      BY <1>1, <2>2
    <3>2. 1 + TimeBytes + 2 <= Len(parse_buf)
      BY <2>1, <3>1 DEF HasTime
    <3>3. TimeBytes + 3 <= Len(parse_buf) /\ parse_buf # << >>
      BY <1>0, <3>1, <3>2
    <3>4. QED
      BY <1>1, <1>2, <2>1, <2>2, <3>3
  <2>3. TimeBytes + 3 \in Nat
    BY <1>0
  <2>4. QED
    BY <2>1, <2>2, <2>3, DispatchKeeps
<1>5. CASE TakeCommand
  <2>1. pc = "scan" /\ AtHead /\ ~HasTime /\ HasCommand /\ Dispatch(4)
    BY <1>5 DEF TakeCommand
  <2>2. ASSUME ~lost
        PROVE  due # << >> /\ Len(Head(due)) = 4 /\ 4 <= Len(parse_buf)
    <3>1. i = 1 /\ Len(parse_buf) \in Nat
      BY <1>1, <2>2
    <3>2. 1 + 3 <= Len(parse_buf)
      BY <2>1, <3>1 DEF HasCommand
    <3>3. 4 <= Len(parse_buf) /\ parse_buf # << >>
      BY <3>1, <3>2
    <3>4. QED
      BY <1>1, <1>2, <2>1, <2>2, <3>3
  <2>3. QED
    BY <2>1, <2>2, DispatchKeeps
<1>6. CASE AwaitMore
  <2>1. /\ AtHead /\ ~HasTime /\ ~HasCommand /\ parse_buf' = From(i) /\ i' = 1
        /\ UNCHANGED << wire, queue, chunk, due, lost >>
    BY <1>6 DEF AwaitMore
  <2> SUFFICES ASSUME ~lost
               PROVE  parse_buf' = parse_buf /\ Len(parse_buf) < Len(Head(due))
    BY <1>1, <2>1 DEF LinkInv, InFlight
  <2>2. i = 1 /\ parse_buf \in Seq(Byte) /\ Len(parse_buf) \in Nat
    BY <1>1
  <2>3. parse_buf' = parse_buf
    BY <2>1, <2>2 DEF From
  <2>4. parse_buf # << >>
    BY <2>1, <2>2 DEF AtHead
  <2>5. QED
    BY <1>2, <2>1, <2>3, <2>4
<1>7. CASE KeepLast
  <2>1. /\ i > Len(parse_buf) /\ i' = 1 /\ UNCHANGED << wire, queue, chunk, due, lost >>
        /\ parse_buf = << >> => parse_buf' = << >>
    BY <1>7 DEF KeepLast
  <2> SUFFICES ASSUME ~lost
               PROVE  /\ parse_buf' = parse_buf
                      /\ due # << >> => Len(parse_buf) < Len(Head(due))
    BY <1>1, <2>1 DEF LinkInv, InFlight
  <2>2. parse_buf = << >>
    BY <1>1, <2>1
  <2>3. ASSUME due # << >> PROVE Len(parse_buf) < Len(Head(due))
    <3>1. Head(due) \in Frame
      BY <1>0, <1>1, <2>3, FirstDue
    <3>2. Len(Head(due)) \in Nat /\ Len(Head(due)) >= 4
      BY <3>1, FrameShape
    <3>3. QED
      BY <2>2, <3>2
  <2>4. QED
    BY <2>1, <2>2, <2>3
<1>8. QED
  BY <1>3, <1>4, <1>5, <1>6, <1>7 DEF Parse

(* The inductive invariant of the command link. *)
LEMMA LinkInvariant == Spec => []LinkInv
<1> USE LinkAssumption
<1>1. Init => LinkInv
  <2> SUFFICES ASSUME Init, TypeOK PROVE LinkInv
    BY InitTyped
  <2>1. /\ wire = << >> /\ queue = << >> /\ chunk = << >> /\ parse_buf = << >>
        /\ due = << >> /\ i = 1
    BY DEF Init, Port!Init
  <2>2. << >> \in Seq(Byte) /\ << >> \in Seq(Seq(Byte))
    OBVIOUS
  <2>3. FlattenSeq(<< >>) = << >>
    BY <2>2, FlattenType
  <2>4. << >> \o << >> = << >>
    BY <2>2, ConcatEmptySeq
  <2>5. QED
    BY <2>1, <2>3, <2>4 DEF LinkInv, InFlight
<1>2. LinkInv /\ TypeOK' /\ [Next]_vars => LinkInv'
  <2> SUFFICES ASSUME LinkInv, TypeOK', [Next]_vars PROVE LinkInv'
    OBVIOUS
  <2>0. TypeOK /\ (~lost => FlattenSeq(due) = InFlight /\ i = 1)
    BY DEF LinkInv
  <2>1. ASSUME NEW f \in Frame, HostSend(f) PROVE LinkInv'
    <3> SUFFICES ASSUME ~lost
                 PROVE  /\ FlattenSeq(due') = InFlight'
                        /\ pc = "read" => Len(parse_buf) < Len(Head(due'))
      BY <2>0, <2>1 DEF LinkInv, HostSend
    <3>1. /\ due' = Append(due, f) /\ wire = << >> /\ wire' = f
          /\ InFlight' = parse_buf \o (chunk \o (queue \o f))
      BY <2>1 DEF HostSend, InFlight
    <3>2. /\ parse_buf \in Seq(Byte) /\ chunk \in Seq(Byte) /\ queue \in Seq(Byte)
          /\ f \in Seq(Byte) /\ due \in Seq(Frame) /\ due \in Seq(Seq(Byte))
      <4>1. Frame \subseteq Seq(Byte)
        BY FrameBytes
      <4>2. due \in Seq(Frame)
        BY <2>0 DEF TypeOK
      <4>3. due \in Seq(Seq(Byte))
        BY ONLY <4>1, <4>2
      <4>4. f \in Seq(Byte)
        BY <4>1
      <4>5. QED
        BY <2>0, <4>2, <4>3, <4>4 DEF TypeOK
    <3>3. FlattenSeq(due') = FlattenSeq(due) \o f
      BY <3>1, <3>2, FlattenAppend
    <3>4. /\ chunk \o queue \in Seq(Byte) /\ queue \o << >> = queue
          /\ InFlight = parse_buf \o (chunk \o queue)
      <4>1. queue \o << >> = queue
        BY <3>2, ConcatEmptySeq
      <4>2. QED
        BY <3>1, <3>2, <4>1, ConcatProperties DEF InFlight
    <3>5. (parse_buf \o (chunk \o queue)) \o f = parse_buf \o (chunk \o (queue \o f))
      <4>1. \A x, y, z \in Seq(Byte) : (x \o y) \o z = x \o (y \o z)
        BY ONLY ConcatAssociative
      <4>2. (parse_buf \o (chunk \o queue)) \o f = parse_buf \o ((chunk \o queue) \o f)
        BY ONLY <3>2, <3>4, <4>1, ZenonT(30)
      <4>3. (chunk \o queue) \o f = chunk \o (queue \o f)
        BY ONLY <3>2, <4>1, ZenonT(30)
      <4>4. QED
        BY ONLY <4>2, <4>3, ZenonT(30)
    <3>6. FlattenSeq(due') = InFlight'
      BY <2>0, <3>1, <3>3, <3>4, <3>5, ZenonT(30)
    <3>7. ASSUME pc = "read" PROVE Len(parse_buf) < Len(Head(due'))
      <4>1. CASE due = << >>
        <5>1. parse_buf = << >>
          BY <2>0, <4>1, FirstDue
        <5>2. Head(due') = f
          BY <3>1, <3>2, <4>1
        <5>3. Len(f) \in Nat /\ Len(f) >= 4
          BY FrameShape
        <5>4. QED
          BY <5>1, <5>2, <5>3
      <4>2. CASE due # << >>
        <5>1. Head(due') = Head(due)
          BY <3>1, <3>2, <4>2
        <5>2. QED
          BY <3>7, <4>2, <5>1 DEF LinkInv
      <4>3. QED
        BY <4>1, <4>2
    <3>8. QED
      BY <3>6, <3>7
  <2>2. CASE LineByte
    <3>1. CASE Len(queue) < Capacity
      <4> SUFFICES ASSUME ~lost PROVE InFlight' = InFlight
        BY <2>0, <2>2, <3>1 DEF LinkInv, LineByte, Port!Receive
      <4>1. /\ queue' = Append(queue, Head(wire)) /\ wire' = Tail(wire) /\ wire # << >>
            /\ chunk' = chunk /\ parse_buf' = parse_buf
        BY <2>2, <3>1 DEF LineByte, Port!Receive
      <4>2. queue' \o wire' = queue \o wire
        BY <2>0, <4>1, MoveHead DEF TypeOK
      <4>3. QED
        BY <4>1, <4>2 DEF InFlight
    <3>2. CASE ~(Len(queue) < Capacity)
      <4>1. lost' = TRUE
        BY <2>2, <3>2 DEF LineByte, Drop
      <4>2. QED
        BY <4>1 DEF LinkInv
    <3>3. QED
      BY <3>1, <3>2
  <2>3. CASE ReadByte
    <3> SUFFICES ASSUME ~lost PROVE InFlight' = InFlight
      BY <2>0, <2>3 DEF LinkInv, ReadByte, Port!Read
    <3>1. /\ chunk' = Append(chunk, Head(queue)) /\ queue' = Tail(queue) /\ queue # << >>
          /\ wire' = wire /\ parse_buf' = parse_buf
      BY <2>3 DEF ReadByte, Port!Read
    <3>2. /\ chunk \in Seq(Byte) /\ queue \in Seq(Byte) /\ wire \in Seq(Byte)
          /\ chunk' \in Seq(Byte) /\ queue' \in Seq(Byte)
      BY <2>0 DEF TypeOK
    <3>3. chunk' \o queue' = chunk \o queue
      BY <3>1, <3>2, MoveHead
    <3>4. /\ (chunk' \o queue') \o wire = chunk' \o (queue' \o wire)
          /\ (chunk \o queue) \o wire = chunk \o (queue \o wire)
      <4>1. (chunk' \o queue') \o wire = chunk' \o (queue' \o wire)
        BY ONLY <3>2, ConcatAssociative
      <4>2. (chunk \o queue) \o wire = chunk \o (queue \o wire)
        <5>1. \A q, r, w \in Seq(Byte) : (q \o r) \o w = q \o (r \o w)
          BY ONLY Regroup
        <5>2. \A r, w \in Seq(Byte) : (chunk \o r) \o w = chunk \o (r \o w)
          BY ONLY <3>2, <5>1
        <5>3. \A w \in Seq(Byte) : (chunk \o queue) \o w = chunk \o (queue \o w)
          BY ONLY <3>2, <5>2
        <5>4. QED
          BY ONLY <3>2, <5>3
      <4>3. QED
        BY <4>1, <4>2
    <3>5. chunk' \o (queue' \o wire) = chunk \o (queue \o wire)
      BY ONLY <3>3, <3>4
    <3>6. QED
      BY <3>1, <3>5 DEF InFlight
  <2>4. CASE BeginParse
    <3>1. CASE Len(parse_buf) + Len(chunk) > MaxLen
      <4>1. lost' = TRUE
        BY <2>4, <3>1 DEF BeginParse
      <4>2. QED
        BY <4>1 DEF LinkInv
    <3>2. CASE ~(Len(parse_buf) + Len(chunk) > MaxLen)
      <4> SUFFICES ASSUME ~lost PROVE InFlight' = InFlight
        BY <2>0, <2>4, <3>2 DEF LinkInv, BeginParse
      <4>1. /\ parse_buf' = parse_buf \o chunk /\ chunk' = << >>
            /\ queue' = queue /\ wire' = wire
        BY <2>4, <3>2 DEF BeginParse, Port!HandOver
      <4>2. /\ parse_buf \in Seq(Byte) /\ chunk \in Seq(Byte) /\ queue \o wire \in Seq(Byte)
        BY <2>0, ConcatProperties DEF TypeOK
      <4>3. << >> \o (queue \o wire) = queue \o wire
        BY <4>2, ConcatEmptySeq
      <4>4. \A x, y, z \in Seq(Byte) : (x \o y) \o z = x \o (y \o z)
        BY ONLY ConcatAssociative
      <4>5. (parse_buf \o chunk) \o (queue \o wire) = parse_buf \o (chunk \o (queue \o wire))
        BY ONLY <4>2, <4>4, ZenonT(30)
      <4>6. QED
        BY <4>1, <4>3, <4>5 DEF InFlight
    <3>3. QED
      BY <3>1, <3>2
  <2>5. CASE Parse
    BY <2>5, ParseKeeps
  <2>6. CASE UNCHANGED vars
    BY <2>6 DEF vars, LinkInv, InFlight
  <2>7. QED
    BY <2>1, <2>2, <2>3, <2>4, <2>5, <2>6 DEF Next
<1>3. QED
  BY <1>1, <1>2, TypeCorrect, PTL DEF Spec

(* The command link of MCStreams is CommandLink: when another link is      *)
(* looked at, it rests.                                                    *)
LEMMA StreamsRun == StreamsSpec => Spec
<1>1. StreamsInit => Init
  BY DEF StreamsInit
<1>2. [StreamsNext]_<< link, commandVars, forgeVars, otherVars >> => [Next]_vars
  <2> USE DEF commandVars, vars
  <2>1. CommandStep => Next
    BY DEF CommandStep
  <2>2. ForgeStep => UNCHANGED vars
    BY DEF ForgeStep
  <2>3. CameraStep \/ StallStep \/ PacketStep \/ RangingStep \/ CutsStep
          => UNCHANGED vars
    BY DEF CameraStep, StallStep, PacketStep, RangingStep, CutsStep, Rest
  <2>4. UNCHANGED << link, commandVars, forgeVars, otherVars >> => UNCHANGED vars
    OBVIOUS
  <2>5. QED
    BY <2>1, <2>2, <2>3, <2>4 DEF StreamsNext
<1>3. QED
  BY <1>1, <1>2, PTL DEF StreamsSpec, Spec

(* However the bytes are cut into reads, and for every size of the port    *)
(* and of the buffers, the parser dispatches every frame once, in order    *)
(* and as soon as it is whole, until the port or the parse buffer drops    *)
(* something (uart5_try_parse).                                            *)
THEOREM CommandsArriveInOrder == StreamsSpec => []CommandsInOrder
<1>1. LinkInv => CommandsInOrder
  BY InFlightIs DEF LinkInv, CommandsInOrder, NothingLostInParsing, NothingHeldBack
<1>2. QED
  BY <1>1, LinkInvariant, StreamsRun, PTL

-----------------------------------------------------------------------------
(* Telemetry (usart5.c, serial_panel.py)                                   *)

(* What makes a frame for the parser. *)
PacketBytes ==
  {f \in Seq(0 .. 255) :
     /\ f[1] = 170 /\ f[Len(f)] = 85
     /\ \/ Len(f) = 6 /\ f[2] = 16 /\ f[3] \in 16 .. 19
        \/ Len(f) = 7 /\ f[2] = 32
        \/ Len(f) = 4 /\ f[2] \in {48, 112}}

(* The packets of the device have the shape the parser looks for. *)
LEMMA PacketIsFrame ==
  ASSUME NEW n \in 1 .. 7, NEW x \in 0 .. 255, NEW y \in 0 .. 255
  PROVE  Packets!Packet(n, x, y) \in PacketBytes
<1> DEFINE f == Packets!Packet(n, x, y)
<1> USE DEF PacketBytes, Packets!Packet, Packets!AA, Packets!Tail55
<1>1. CASE n \in 1 .. 4
  <2>1. f = << 170, 16, 15 + n, x, y, 85 >> /\ 15 + n \in 16 .. 19
    BY <1>1
  <2>2. QED
    BY <2>1
<1>2. CASE n = 5
  <2>1. f = << 170, 32, 0, 0, x, y, 85 >>
    BY <1>2
  <2>2. QED
    BY <2>1
<1>3. CASE n = 6
  <2>1. f = << 170, 48, y, 85 >>
    BY <1>3
  <2>2. QED
    BY <2>1
<1>4. CASE n = 7
  <2>1. f = << 170, 112, y, 85 >>
    BY <1>4
  <2>2. QED
    BY <2>1
<1>5. QED
  BY <1>1, <1>2, <1>3, <1>4

(* The first place of a set of places, or 0. *)
LEMMA PacketsFirst ==
  ASSUME NEW S, S \subseteq Nat \ {0}
  PROVE  /\ Packets!First(S) = 0 <=> S = {}
         /\ S # {} => Packets!First(S) \in S
         /\ \A n \in S : Packets!First(S) <= n
<1>1. CASE S = {}
  BY <1>1 DEF Packets!First
<1>2. CASE S # {}
  <2>1. \E m \in S : \A n \in S : m <= n
    BY <1>2, Least
  <2>2. Packets!Min(S) \in S /\ \A n \in S : Packets!Min(S) <= n
    BY <2>1 DEF Packets!Min
  <2>3. QED
    BY <1>2, <2>2 DEF Packets!First
<1>3. QED
  BY <1>1, <1>2

(* Where the search for 0xAA stops (serial_panel.py:454). *)
LEMMA PacketHeader ==
  ASSUME NEW B, NEW b \in Seq(B), NEW x \in 1 .. Len(b) + 1
  PROVE  /\ Packets!HeaderFrom(b, x) = 0
              \/ (Packets!HeaderFrom(b, x) \in x .. Len(b) /\ b[Packets!HeaderFrom(b, x)][1] = 170)
         /\ x <= Len(b) /\ b[x][1] = 170 => Packets!HeaderFrom(b, x) = x
<1> DEFINE S == {n \in x .. Len(b) : b[n][1] = 170}
           h == Packets!HeaderFrom(b, x)
<1>1. h = Packets!First(S)
  BY DEF Packets!HeaderFrom, Packets!AA
<1>2. S \subseteq Nat \ {0} /\ \A n : n \in S <=> n \in x .. Len(b) /\ b[n][1] = 170
  OBVIOUS
<1> HIDE DEF S, h
<1>3. /\ h = 0 <=> S = {}
      /\ S # {} => h \in S
      /\ \A n \in S : h <= n
  BY <1>1, <1>2, PacketsFirst
<1>4. h = 0 \/ (h \in x .. Len(b) /\ b[h][1] = 170)
  BY <1>2, <1>3
<1>5. ASSUME x <= Len(b), b[x][1] = 170 PROVE h = x
  <2>1. x \in S
    BY <1>2, <1>5
  <2>2. h \in S /\ h <= x
    BY <1>3, <2>1
  <2>3. h \in x .. Len(b)
    BY <1>2, <2>2
  <2>4. QED
    BY <2>2, <2>3
<1>6. QED
  BY <1>4, <1>5 DEF h

(* The length the parser expects, read off the bytes of the header. *)
LEMMA ExpectedIs ==
  ASSUME NEW b, NEW n
  PROVE  Packets!ExpectedLength(b, n) =
           IF b[n + 1][1] = 16 /\ b[n + 2][1] \in 16 .. 19 THEN 6
           ELSE IF b[n + 1][1] = 32 THEN 7
           ELSE IF b[n + 1][1] \in {48, 112} THEN 4
           ELSE 0
BY DEF Packets!ExpectedLength

(* A turn of _parse_receive_buffer. *)
PacketTurn(b, x) ==
  LET n == Packets!HeaderFrom(b, x)
      l == Packets!ExpectedLength(b, n)
  IN IF Len(b) - x + 1 < 4 THEN Keeps(Packets!Keep(b, x))
     ELSE IF n = 0 THEN Keeps(Packets!Keep(b, Len(b) + 1))
     ELSE IF Len(b) - n + 1 < 4 THEN Keeps(Packets!Keep(b, n))
     ELSE IF l = 0 THEN Skips(Packets!Resume(b, n))
     ELSE IF Len(b) - n + 1 < l THEN Keeps(Packets!Keep(b, n))
     ELSE IF b[n + l - 1][1] # 85 THEN Skips(Packets!Resume(b, n))
     ELSE Takes(n + l, << Packets!FrameOf(b, n, l) >>)

(* A turn of the parser is a turn of the loops above. *)
LEMMA PacketTurns ==
  ASSUME NEW b, NEW f, NEW x, NEW t, t[x] = PacketTurn(b, x)
  PROVE  Packets!ParseFrom(b, f, x) = TurnOf(t, f, x)
<1> DEFINE n == Packets!HeaderFrom(b, x)
           l == Packets!ExpectedLength(b, n)
           w == PacketTurn(b, x)
           r == Packets!ParseFrom(b, f, x)
           c1 == Len(b) - x + 1 < 4
           c2 == n = 0
           c3 == Len(b) - n + 1 < 4
           c4 == l = 0
           c5 == Len(b) - n + 1 < l
           c6 == b[n + l - 1][1] # 85
           k1 == Packets!Keep(b, x)
           k2 == Packets!Keep(b, Len(b) + 1)
           k3 == Packets!Keep(b, n)
           s == Packets!Resume(b, n)
           a == << Packets!FrameOf(b, n, l) >>
           o == n + l
<1>1. w = IF c1 THEN Keeps(k1) ELSE IF c2 THEN Keeps(k2) ELSE IF c3 THEN Keeps(k3)
          ELSE IF c4 THEN Skips(s) ELSE IF c5 THEN Keeps(k3) ELSE IF c6 THEN Skips(s)
          ELSE Takes(o, a)
  BY Zenon DEF PacketTurn
<1>2. r = IF c1 THEN k1 ELSE IF c2 THEN k2 ELSE IF c3 THEN k3
          ELSE IF c4 THEN f[s] ELSE IF c5 THEN k3 ELSE IF c6 THEN f[s]
          ELSE [f[o] EXCEPT !.frames = a \o @]
  BY Zenon DEF Packets!ParseFrom, Packets!Tail55
<1>3. t[x] = w
  OBVIOUS
<1> HIDE DEF n, l, w, r, c1, c2, c3, c4, c5, c6, k1, k2, k3, s, a, o
<1>4. r = TurnOf(t, f, x)
  <2>1. CASE c1
    <3>1. t[x] = Keeps(k1)
      BY <1>1, <1>3, <2>1, Zenon
    <3>2. r = k1
      BY <1>2, <2>1, Zenon
    <3>3. QED
      BY ONLY <3>1, <3>2, TurnKeeps, Zenon
  <2>2. CASE ~c1 /\ c2
    <3>1. t[x] = Keeps(k2)
      BY <1>1, <1>3, <2>2, Zenon
    <3>2. r = k2
      BY <1>2, <2>2, Zenon
    <3>3. QED
      BY ONLY <3>1, <3>2, TurnKeeps, Zenon
  <2>3. CASE ~c1 /\ ~c2 /\ c3
    <3>1. t[x] = Keeps(k3)
      BY <1>1, <1>3, <2>3, Zenon
    <3>2. r = k3
      BY <1>2, <2>3, Zenon
    <3>3. QED
      BY ONLY <3>1, <3>2, TurnKeeps, Zenon
  <2>4. CASE ~c1 /\ ~c2 /\ ~c3 /\ c4
    <3>1. t[x] = Skips(s)
      BY <1>1, <1>3, <2>4, Zenon
    <3>2. r = f[s]
      BY <1>2, <2>4, Zenon
    <3>3. QED
      BY ONLY <3>1, <3>2, TurnSkips
  <2>5. CASE ~c1 /\ ~c2 /\ ~c3 /\ ~c4 /\ c5
    <3>1. t[x] = Keeps(k3)
      BY <1>1, <1>3, <2>5, Zenon
    <3>2. r = k3
      BY <1>2, <2>5, Zenon
    <3>3. QED
      BY ONLY <3>1, <3>2, TurnKeeps, Zenon
  <2>6. CASE ~c1 /\ ~c2 /\ ~c3 /\ ~c4 /\ ~c5 /\ c6
    <3>1. t[x] = Skips(s)
      BY <1>1, <1>3, <2>6, Zenon
    <3>2. r = f[s]
      BY <1>2, <2>6, Zenon
    <3>3. QED
      BY ONLY <3>1, <3>2, TurnSkips
  <2>7. CASE ~c1 /\ ~c2 /\ ~c3 /\ ~c4 /\ ~c5 /\ ~c6
    <3>1. t[x] = Takes(o, a)
      BY <1>1, <1>3, <2>7, Zenon
    <3>2. r = [f[o] EXCEPT !.frames = a \o @]
      BY <1>2, <2>7, Zenon
    <3>3. TurnOf(t, f, x) = [f[o] EXCEPT !.frames = a \o @]
      BY ONLY <3>1, TurnTakes
    <3>4. QED
      BY <3>2, <3>3, Zenon
  <2>8. QED
    BY <2>1, <2>2, <2>3, <2>4, <2>5, <2>6, <2>7
<1>5. QED
  BY <1>4 DEF r

(* The parser of the panel goes forward and keeps less than a packet. *)
LEMMA PacketWalk ==
  ASSUME NEW e \in Nat, NEW b \in Seq((0 .. 255) \X (1 .. e))
  PROVE  Walks(b, [x \in 1 .. Len(b) + 1 |-> PacketTurn(b, x)], Len(b) + 1, 7, 0 .. e)
<1> DEFINE N == Len(b) + 1
           t == [x \in 1 .. N |-> PacketTurn(b, x)]
<1>0. Len(b) \in Nat /\ N \in Nat
  OBVIOUS
<1>1. ASSUME NEW x \in 1 .. N
      PROVE  \/ \E r \in x .. N :
                  /\ Len(b) + 1 - r < 7
                  /\ t[x] = Keeps([rest |-> SubSeq(b, r, Len(b)), frames |-> << >>])
             \/ \E n \in x + 1 .. N : t[x] = Skips(n)
             \/ \E n \in x + 1 .. N, a \in Seq(0 .. e) : t[x] = Takes(n, a)
  <2> DEFINE n == Packets!HeaderFrom(b, x)
             l == Packets!ExpectedLength(b, n)
             kept(r) == Keeps([rest |-> SubSeq(b, r, Len(b)), frames |-> << >>])
             w == t[x]
  <2>1. n = 0 \/ n \in x .. Len(b)
    BY PacketHeader
  <2>2. l \in {0, 4, 6, 7}
    BY ExpectedIs
  <2> DEFINE a == << Packets!FrameOf(b, n, l) >>
             out == b[n + l - 1][1] # 85
  <2>3. n # 0 => a \in Seq(0 .. e)
    <3> SUFFICES ASSUME n # 0 PROVE Packets!FrameOf(b, n, l) \in 0 .. e
      OBVIOUS
    <3>1. n \in 1 .. Len(b)
      BY <2>1
    <3> HIDE DEF n, l
    <3>2. b[n] \in (0 .. 255) \X (1 .. e)
      BY <3>1
    <3>3. b[n][2] \in 0 .. e
      BY <3>2
    <3>4. QED
      BY <3>3 DEF Packets!FrameOf
  <2>4. w = IF Len(b) - x + 1 < 4 THEN kept(x)
            ELSE IF n = 0 THEN kept(Len(b) + 1)
            ELSE IF Len(b) - n + 1 < 4 THEN kept(n)
            ELSE IF l = 0 THEN Skips(n + 1)
            ELSE IF Len(b) - n + 1 < l THEN kept(n)
            ELSE IF out THEN Skips(n + 1)
            ELSE Takes(n + l, a)
    BY DEF PacketTurn, Packets!Keep, Packets!Resume
  <2> HIDE DEF n, l, a, out, w
  <2>2a. l \in Nat /\ l <= 7 /\ (l # 0 => 1 <= l)
    BY ONLY <2>2
  <2>5. CASE Len(b) - x + 1 < 4
    <3>1. w = kept(x) /\ x \in x .. N /\ Len(b) + 1 - x < 7
      BY <1>0, <2>4, <2>5
    <3>2. QED
      BY <3>1 DEF w
  <2>6. CASE ~(Len(b) - x + 1 < 4) /\ n = 0
    <3>1. w = kept(Len(b) + 1) /\ Len(b) + 1 \in x .. N /\ Len(b) + 1 - (Len(b) + 1) < 7
      BY <1>0, <2>4, <2>6
    <3>2. QED
      BY <3>1 DEF w
  <2>7. CASE ~(Len(b) - x + 1 < 4) /\ n # 0 /\ (Len(b) - n + 1 < 4 \/ (l # 0 /\ Len(b) - n + 1 < l))
    <3>1. w = kept(n)
      BY <2>4, <2>7
    <3>0. n \in x .. Len(b) /\ l \in Nat /\ l <= 7 /\ Len(b) \in Nat /\ x \in Nat
      BY <1>0, <2>1, <2>2a, <2>7
    <3>0a. Len(b) - n + 1 < 7
      <4>1. CASE Len(b) - n + 1 < 4
        BY ONLY <3>0, <4>1
      <4>2. CASE Len(b) - n + 1 < l
        BY ONLY <3>0, <4>2
      <4>3. QED
        BY <2>7, <4>1, <4>2, Zenon
    <3>1a. n \in x .. N /\ Len(b) + 1 - n < 7
      BY ONLY <3>0, <3>0a
    <3>2. QED
      BY <3>1, <3>1a DEF w
  <2>8. CASE /\ ~(Len(b) - x + 1 < 4) /\ n # 0 /\ ~(Len(b) - n + 1 < 4)
             /\ l = 0 \/ (~(Len(b) - n + 1 < l) /\ out)
    <3>1. w = Skips(n + 1)
      BY <2>4, <2>8
    <3>0. n \in x .. Len(b) /\ Len(b) \in Nat /\ x \in Nat
      BY <1>0, <2>1, <2>8
    <3>2. n + 1 \in x + 1 .. N
      BY ONLY <2>8, <3>0
    <3>3. QED
      BY <3>1, <3>2 DEF w
  <2>9. CASE /\ ~(Len(b) - x + 1 < 4) /\ n # 0 /\ ~(Len(b) - n + 1 < 4)
             /\ l # 0 /\ ~(Len(b) - n + 1 < l) /\ ~out
    <3>1. w = Takes(n + l, a)
      BY <2>4, <2>9
    <3>0. n \in x .. Len(b) /\ l \in Nat /\ 1 <= l /\ Len(b) \in Nat /\ x \in Nat
      BY <1>0, <2>1, <2>2a, <2>9
    <3>2. n + l \in x + 1 .. N
      BY ONLY <2>9, <3>0
    <3>3. QED
      BY <2>3, <2>9, <3>1, <3>2 DEF w
  <2>10. QED
    BY <2>5, <2>6, <2>7, <2>8, <2>9
<1>2. QED
  BY <1>1 DEF Walks

(* The loop ends, and its turns are those of a walk. *)
LEMMA PacketParser ==
  ASSUME NEW e \in Nat, NEW b \in Seq((0 .. 255) \X (1 .. e))
  PROVE  \E f : /\ Runs(f, [x \in 1 .. Len(b) + 1 |-> PacketTurn(b, x)], Len(b) + 1)
                /\ Packets!ParseReceiveBuffer(b) = f[1]
<1> DEFINE N == Len(b) + 1
           t == [x \in 1 .. N |-> PacketTurn(b, x)]
           f == CHOOSE f : f = [x \in 1 .. N |-> Packets!ParseFrom(b, f, x)]
<1>0. N \in Nat
  OBVIOUS
<1>1. Packets!ParseReceiveBuffer(b) = f[1]
  BY DEF Packets!ParseReceiveBuffer
<1>2. Forward(t, N)
  <2>1. Walks(b, t, N, 7, 0 .. e)
    BY PacketWalk
  <2> HIDE DEF t, N
  <2>2. QED
    BY <1>0, <2>1, WalksForward
<1>3. \A x \in 1 .. N : t[x] = PacketTurn(b, x)
  OBVIOUS
<1> HIDE DEF t
<1>4. \A g : \A x \in 1 .. N : Packets!ParseFrom(b, g, x) = TurnOf(t, g, x)
  BY <1>3, PacketTurns
<1>5. PICK g : g = [x \in 1 .. N |-> TurnOf(t, g, x)]
  <2> HIDE DEF N
  <2>1. QED
    BY <1>0, <1>2, WalkRuns
<1>6. [x \in 1 .. N |-> TurnOf(t, g, x)] = [x \in 1 .. N |-> Packets!ParseFrom(b, g, x)]
  BY <1>4
<1>7. \E h : h = [x \in 1 .. N |-> Packets!ParseFrom(b, h, x)]
  BY <1>5, <1>6, Zenon
<1>8. f = [x \in 1 .. N |-> Packets!ParseFrom(b, f, x)]
  BY <1>7
<1> HIDE DEF f
<1>9. Runs(f, t, N)
  BY <1>4, <1>8 DEF Runs
<1>10. QED
  BY <1>1, <1>9 DEF t

(* Of any bytes at all, less than seven are kept. *)
LEMMA PacketsParsed ==
  ASSUME NEW e \in Nat, NEW b \in Seq((0 .. 255) \X (1 .. e))
  PROVE  \E r \in 1 .. Len(b) + 1 : \E out \in Seq(0 .. e) :
           /\ Len(b) + 1 - r < 7
           /\ Packets!ParseReceiveBuffer(b) = [rest |-> SubSeq(b, r, Len(b)), frames |-> out]
<1> DEFINE N == Len(b) + 1
           t == [z \in 1 .. N |-> PacketTurn(b, z)]
<1>1. PICK f : /\ Runs(f, t, N)
               /\ Packets!ParseReceiveBuffer(b) = f[1]
  BY PacketParser
<1>2. Walks(b, t, N, 7, 0 .. e)
  BY PacketWalk
<1>3. N \in Nat /\ 1 \in 1 .. N /\ 7 \in Int
  OBVIOUS
<1> DEFINE B == (0 .. 255) \X (1 .. e)
           S == 0 .. e
           K == 7
<1>4. Walked(B, b, t, N, K, S, f)
  <2>1. b \in Seq(B) /\ N \in Nat /\ K \in Int /\ Walks(b, t, N, K, S) /\ Runs(f, t, N)
    BY <1>1, <1>2, <1>3
  <2> HIDE DEF N, t, B, S, K
  <2>2. QED
    BY ONLY <2>1 DEF Walked
<1> HIDE DEF N, t, B, S, K
<1>5. Returns(b, N, K, S, f)
  BY ONLY <1>4, WalkReturns
<1>6. \E r \in 1 .. N : \E out \in Seq(S) :
        /\ Len(b) + 1 - r < 7
        /\ f[1] = [rest |-> SubSeq(b, r, Len(b)), frames |-> out]
  BY <1>3, <1>5 DEF K, Returns
<1>7. QED
  BY <1>1, <1>6 DEF N, S

(* Of frames in a row every whole one is taken. *)
LEMMA PacketTaken ==
  ASSUME NEW b, NEW x \in Nat \ {0}, Len(b) \in Nat, NEW B, b \in Seq(B), NEW j, NEW f \in PacketBytes,
         \A k \in 1 .. Len(f) : x + k - 1 <= Len(b) => b[x + k - 1] = << f[k], j >>
  PROVE  /\ x + Len(f) <= Len(b) + 1 => PacketTurn(b, x) = Takes(x + Len(f), << j >>)
         /\ x + Len(f) > Len(b) + 1 /\ x <= Len(b) + 1 =>
              PacketTurn(b, x) = Keeps([rest |-> SubSeq(b, x, Len(b)), frames |-> << >>])
<1> DEFINE n == Packets!HeaderFrom(b, x)
           l == Packets!ExpectedLength(b, n)
           kept(r) == Keeps([rest |-> SubSeq(b, r, Len(b)), frames |-> << >>])
           w == PacketTurn(b, x)
           a == << Packets!FrameOf(b, n, l) >>
           out == b[n + l - 1][1] # 85
           L == Len(f)
<1>0. /\ f \in Seq(0 .. 255) /\ f[1] = 170 /\ f[L] = 85
      /\ \/ L = 6 /\ f[2] = 16 /\ f[3] \in 16 .. 19
         \/ L = 7 /\ f[2] = 32
         \/ L = 4 /\ f[2] \in {48, 112}
      /\ L \in Nat /\ L >= 4 /\ L <= 7 /\ x \in Nat
  <2>1. /\ f \in Seq(0 .. 255) /\ f[1] = 170 /\ f[L] = 85
        /\ \/ L = 6 /\ f[2] = 16 /\ f[3] \in 16 .. 19
           \/ L = 7 /\ f[2] = 32
           \/ L = 4 /\ f[2] \in {48, 112}
    BY DEF PacketBytes
  <2> HIDE DEF L
  <2>2. L \in Nat /\ L >= 4 /\ L <= 7
    BY <2>1
  <2>3. QED
    BY <2>1, <2>2
<1>1. w = IF Len(b) - x + 1 < 4 THEN kept(x)
          ELSE IF n = 0 THEN kept(Len(b) + 1)
          ELSE IF Len(b) - n + 1 < 4 THEN kept(n)
          ELSE IF l = 0 THEN Skips(n + 1)
          ELSE IF Len(b) - n + 1 < l THEN kept(n)
          ELSE IF out THEN Skips(n + 1)
          ELSE Takes(n + l, a)
  BY DEF PacketTurn, Packets!Keep, Packets!Resume
<1>2. ASSUME Len(b) - x + 1 >= 4
      PROVE  n = x /\ l = L
  <2>1. /\ 1 \in 1 .. L /\ 2 \in 1 .. L /\ 3 \in 1 .. L
        /\ x + 1 - 1 = x /\ x + 2 - 1 = x + 1 /\ x + 3 - 1 = x + 2
        /\ x <= Len(b) /\ x + 1 <= Len(b) /\ x + 2 <= Len(b) /\ x \in 1 .. Len(b) + 1
    BY <1>0, <1>2
  <2>2. b[x] = << f[1], j >> /\ b[x + 1] = << f[2], j >> /\ b[x + 2] = << f[3], j >>
    <3>1. b[x + 1 - 1] = << f[1], j >>
      BY <2>1
    <3>2. b[x + 2 - 1] = << f[2], j >>
      BY <2>1
    <3>3. b[x + 3 - 1] = << f[3], j >>
      BY <2>1
    <3>4. QED
      BY <2>1, <3>1, <3>2, <3>3
  <2>3. b[x][1] = 170 /\ b[x + 1][1] = f[2] /\ b[x + 2][1] = f[3]
    BY <1>0, <2>2
  <2>4. n = x
    BY <2>1, <2>3, PacketHeader
  <2>5. l = IF b[x + 1][1] = 16 /\ b[x + 2][1] \in 16 .. 19 THEN 6
            ELSE IF b[x + 1][1] = 32 THEN 7
            ELSE IF b[x + 1][1] \in {48, 112} THEN 4
            ELSE 0
    BY <2>4, ExpectedIs
  <2> HIDE DEF l, n, L
  <2>6. l = L
    BY <1>0, <2>3, <2>5
  <2>7. QED
    BY <2>4, <2>6
<1>3. ASSUME x + L <= Len(b) + 1
      PROVE  w = Takes(x + L, << j >>)
  <2>1. Len(b) - x + 1 >= 4 /\ L \in 1 .. L /\ 1 \in 1 .. L /\ x + L - 1 <= Len(b) /\ x + 1 - 1 = x
        /\ x <= Len(b)
    BY <1>0, <1>3
  <2>2. n = x /\ l = L
    BY <1>2, <2>1
  <2>3. b[x + L - 1] = << f[L], j >>
    BY <2>1
  <2>4. b[x + L - 1][1] = 85
    BY <1>0, <2>3
  <2>5. ~out
    BY <2>2, <2>4
  <2>6. Packets!FrameOf(b, x, L) = j
    <3> DEFINE ids == {b[k][2] : k \in x .. x + L - 1}
    <3>1. ASSUME NEW k \in x .. x + L - 1 PROVE b[k][2] = j
      <4>1. k - x + 1 \in 1 .. L /\ x + (k - x + 1) - 1 = k /\ k <= Len(b)
        BY <1>0, <1>3
      <4>2. b[k] = << f[k - x + 1], j >>
        BY <4>1
      <4>3. QED
        BY <4>2
    <3>2. x \in x .. x + L - 1
      BY <1>0
    <3>3. ids = {j}
      BY <3>1, <3>2
    <3>4. Packets!Cardinality(ids) = 1
      <4> HIDE DEF ids
      <4>1. Cardinality(ids) = 1
        BY <3>3, FS_Singleton
      <4>2. Packets!Cardinality(ids) = Cardinality(ids)
        BY DEF Packets!Cardinality, Cardinality
      <4>3. QED
        BY <4>1, <4>2
    <3>5. Packets!FrameOf(b, x, L) = IF Packets!Cardinality(ids) = 1 THEN b[x][2] ELSE 0
      BY DEF Packets!FrameOf
    <3>6. QED
      BY <3>1, <3>2, <3>4, <3>5
  <2>7. a = << j >>
    BY <2>2, <2>6
  <2> HIDE DEF n, l, w, a, out, L
  <2>8. w = Takes(n + l, a)
    <3>0. /\ x \in Int /\ x > 0 /\ Len(b) \in Int /\ L \in Int /\ 1 <= L
          /\ Len(b) - x + 1 >= 4 /\ x + L - 1 <= Len(b)
      BY <1>0, <2>1
    <3>1. ~(Len(b) - x + 1 < 4) /\ n # 0 /\ ~(Len(b) - n + 1 < 4) /\ l # 0
          /\ ~(Len(b) - n + 1 < l)
      BY ONLY <2>2, <3>0
    <3>2. QED
      BY <1>1, <2>5, <3>1, Zenon
  <2>9. QED
    BY <2>2, <2>7, <2>8
<1>4. ASSUME x + L > Len(b) + 1, x <= Len(b) + 1
      PROVE  w = kept(x)
  <2>1. CASE Len(b) - x + 1 < 4
    <3> HIDE DEF w
    <3>1. QED
      BY <1>1, <2>1, Zenon
  <2>2. CASE ~(Len(b) - x + 1 < 4)
    <3>1. n = x /\ l = L
      BY <1>2, <2>2
    <3>2. ~(Len(b) - x + 1 < 4) /\ x # 0 /\ ~(Len(b) - x + 1 < 4) /\ L # 0 /\ Len(b) - x + 1 < L
      BY <1>0, <1>4, <2>2
    <3> HIDE DEF n, l, w, a, out, L
    <3>3. w = kept(n)
      BY <1>1, <3>1, <3>2, Zenon
    <3>4. QED
      BY <3>1, <3>3, Zenon
  <2>3. QED
    BY <2>1, <2>2
<1>5. QED
  BY <1>3, <1>4

(* The parser of the panel takes what is whole and waits for what is not. *)
LEMMA PacketWholeTurns ==
  ASSUME NEW B, NEW b \in Seq(B)
  PROVE  WholeTurns(PacketBytes, b, [x \in 1 .. Len(b) + 1 |-> PacketTurn(b, x)])
<1> DEFINE N == Len(b) + 1
           t == [x \in 1 .. N |-> PacketTurn(b, x)]
           kept(x) == Keeps([rest |-> SubSeq(b, x, Len(b)), frames |-> << >>])
<1>0. Len(b) \in Nat /\ N \in Nat /\ N \in 1 .. N /\ N = Len(b) + 1
  OBVIOUS
<1>1. \A x \in 1 .. N : t[x] = PacketTurn(b, x)
  OBVIOUS
<1> HIDE DEF t
<1>2. t[N] = kept(N)
  <2>1. Len(b) - N + 1 < 4
    BY <1>0
  <2>2. PacketTurn(b, N) = kept(N)
    BY <2>1 DEF PacketTurn, Packets!Keep
  <2>3. QED
    BY <1>0, <1>1, <2>2
<1>3. ASSUME NEW x \in 1 .. N, NEW j \in Nat, NEW g \in PacketBytes,
             \A k \in 1 .. Len(g) : x + k - 1 <= Len(b) => b[x + k - 1] = << g[k], j >>
      PROVE  IF x + Len(g) <= Len(b) + 1 THEN t[x] = Takes(x + Len(g), << j >>)
             ELSE t[x] = kept(x)
  <2>1. x \in Nat \ {0} /\ x <= Len(b) + 1 /\ Len(g) \in Nat
    BY <1>0 DEF PacketBytes
  <2>2. /\ x + Len(g) <= Len(b) + 1 => PacketTurn(b, x) = Takes(x + Len(g), << j >>)
        /\ x + Len(g) > Len(b) + 1 /\ x <= Len(b) + 1 => PacketTurn(b, x) = kept(x)
    BY ONLY <1>0, <1>3, <2>1, PacketTaken, b \in Seq(B)
  <2>3. x + Len(g) <= Len(b) + 1 \/ x + Len(g) > Len(b) + 1
    BY <1>0, <2>1
  <2> HIDE DEF kept, N
  <2>4. QED
    BY <1>0, <1>1, <2>1, <2>2, <2>3
<1>4. WholeTurns(PacketBytes, b, t)
  BY <1>2, <1>3 DEF WholeTurns
<1>5. QED
  BY <1>4 DEF t

(* The telemetry as it is sent, kept and taken out. *)
PacketByte(e) == (0 .. 255) \X (1 .. e)

PacketsWhole ==
  losses = 0 =>
    /\ damaged = {} /\ Len(taken) <= sent
    /\ taken = [k \in 1 .. Len(taken) |-> k]
    /\ InARow(PacketBytes, buffer \o line, Len(taken), sent)

PacketsTyped ==
  /\ cnt \in 1 .. 7
  /\ line \in Seq(PacketByte(sent)) /\ buffer \in Seq(PacketByte(sent))
  /\ sent \in 0 .. MaxPackets /\ taken \in Seq(0 .. sent)
  /\ damaged \subseteq 1 .. sent /\ losses \in 0 .. MaxBursts
  /\ Len(buffer) < 7

(* The inductive invariant of the telemetry. *)
PacketsInv == PacketsTyped /\ PacketsWhole

(* Packets are sequences of bytes that are not empty. *)
LEMMA PacketBytesAre ==
  /\ PacketBytes \subseteq Seq(Int)
  /\ \A f \in PacketBytes : f \in Seq(0 .. 255) /\ Len(f) >= 1
<1>1. \A g \in PacketBytes : g \in Seq(0 .. 255) /\ Len(g) >= 1
  <2> SUFFICES ASSUME NEW g \in PacketBytes PROVE g \in Seq(0 .. 255) /\ Len(g) >= 1
    OBVIOUS
  <2>1. g \in Seq(0 .. 255) /\ (Len(g) = 6 \/ Len(g) = 7 \/ Len(g) = 4)
    BY DEF PacketBytes
  <2> DEFINE l == Len(g)
  <2>2. l = 6 \/ l = 7 \/ l = 4
    BY <2>1
  <2> HIDE DEF l
  <2>3. l >= 1
    BY ONLY <2>2
  <2>4. QED
    BY <2>1, <2>3 DEF l
<1>2. \A g \in Seq(0 .. 255) : g \in Seq(Int)
  <2> DEFINE S == 0 .. 255
  <2>1. S \subseteq Int
    OBVIOUS
  <2> HIDE DEF S
  <2>2. \A g \in Seq(S) : g \in Seq(Int)
    BY <2>1, SeqMonotonic
  <2>3. QED
    BY <2>2 DEF S
<1>3. QED
  BY <1>1, <1>2

(* Bytes of the packets so far are bytes of one packet more. *)
LEMMA PacketsGrow ==
  ASSUME NEW e \in Nat
  PROVE  /\ \A s \in Seq(PacketByte(e)) : s \in Seq(PacketByte(e + 1))
         /\ \A s \in Seq(0 .. e) : s \in Seq(0 .. e + 1)
<1>1. PacketByte(e) \subseteq PacketByte(e + 1)
  BY DEF PacketByte
<1> DEFINE A == 0 .. e
           B == 0 .. e + 1
<1>2. A \subseteq B
  OBVIOUS
<1> HIDE DEF A, B
<1>3. \A s \in Seq(A) : s \in Seq(B)
  BY <1>2, SeqMonotonic
<1>4. \A s \in Seq(PacketByte(e)) : s \in Seq(PacketByte(e + 1))
  BY <1>1, SeqMonotonic
<1>5. QED
  BY <1>3, <1>4 DEF A, B

(* The invariant says what the run checks. *)
LEMMA PacketsInvHolds ==
  ASSUME PacketsInv
  PROVE  Packets!TypeOK /\ Packets!LessThanAFrame /\ Packets!AllInOrder
<1> DEFINE B == PacketByte(sent)
<1>0. /\ line \in Seq(B) /\ buffer \in Seq(B) /\ sent \in Nat /\ taken \in Seq(0 .. sent)
      /\ DOMAIN line = 1 .. Len(line) /\ DOMAIN buffer = 1 .. Len(buffer)
      /\ DOMAIN taken = 1 .. Len(taken) /\ Len(taken) \in Nat
  BY DEF PacketsInv, PacketsTyped
<1>1. Packets!TypeOK
  <2>1. /\ \A k \in DOMAIN line : line[k] \in B
        /\ \A k \in DOMAIN buffer : buffer[k] \in B
    <3> HIDE DEF B
    <3>1. QED
      BY <1>0
  <2>2. QED
    BY <2>1 DEF PacketsInv, PacketsTyped, Packets!TypeOK, PacketByte
<1>2. Packets!LessThanAFrame
  BY DEF PacketsInv, PacketsTyped, Packets!LessThanAFrame
<1>3. ASSUME losses = 0 PROVE Packets!Missed = {} /\ taken = [k \in DOMAIN taken |-> k]
  <2>1. /\ damaged = {} /\ Len(taken) <= sent
        /\ taken = [k \in 1 .. Len(taken) |-> k]
        /\ InARow(PacketBytes, buffer \o line, Len(taken), sent)
    BY <1>3 DEF PacketsInv, PacketsWhole
  <2>2. ASSUME NEW j \in 1 .. sent
        PROVE  j \in Packets!Waiting \/ j \in Packets!ToSet(taken)
    <3>1. j <= Len(taken) \/ j \in {line[k][2] : k \in DOMAIN line}
                                   \cup {buffer[k][2] : k \in DOMAIN buffer}
      <4> DEFINE m == Len(taken)
                 e == sent
      <4>1. Row(PacketBytes, B, buffer, line, m, e)
        BY <1>0, <2>1, PacketBytesAre DEF Row
      <4>0. j \in 1 .. e
        OBVIOUS
      <4> HIDE DEF m, e, B
      <4>2. j <= m \/ j \in {line[k][2] : k \in DOMAIN line}
                             \cup {buffer[k][2] : k \in DOMAIN buffer}
        BY ONLY <4>0, <4>1, RowMissesNothing
      <4>3. QED
        BY <4>2 DEF m
    <3>2. j <= Len(taken) => j \in Packets!ToSet(taken)
      <4> SUFFICES ASSUME j <= Len(taken) PROVE j \in Packets!ToSet(taken)
        OBVIOUS
      <4>1. j \in 1 .. Len(taken) /\ j \in DOMAIN taken
        BY <1>0
      <4>2. taken[j] = j
        <5> DEFINE n == Len(taken)
        <5>1. taken = [k \in 1 .. n |-> k] /\ j \in 1 .. n
          BY <2>1, <4>1
        <5> HIDE DEF n
        <5>2. QED
          BY <5>1
      <4>3. QED
        BY <4>1, <4>2 DEF Packets!ToSet
    <3>3. QED
      BY <3>1, <3>2 DEF Packets!Waiting
  <2>3. Packets!Missed = {}
    BY <2>2 DEF Packets!Missed, Packets!Undamaged
  <2>4. QED
    BY <1>0, <2>1, <2>3
<1>4. QED
  BY <1>1, <1>2, <1>3 DEF Packets!AllInOrder

(* The invariant holds at the start. *)
LEMMA PacketsInit ==
  ASSUME Packets!Init, StreamsAssumption
  PROVE  PacketsInv
<1>1. MaxPackets \in Nat /\ MaxBursts \in Nat
  BY DEF StreamsAssumption, Packets!TelemetryAssumption
<1>2. line = << >> /\ buffer = << >> /\ sent = 0 /\ taken = << >> /\ damaged = {} /\ losses = 0
      /\ cnt \in 1 .. 7
  BY DEF Packets!Init
<1>3. PacketsTyped
  BY <1>1, <1>2 DEF PacketsTyped
<1>4. PacketsWhole
  <2>1. InARow(PacketBytes, << >>, 0, 0)
    BY RowEmpty
  <2>2. buffer \o line = << >> /\ Len(taken) = 0 /\ taken = [k \in 1 .. Len(taken) |-> k]
    BY <1>2
  <2>3. QED
    BY <1>2, <2>1, <2>2 DEF PacketsWhole
<1>5. QED
  BY <1>3, <1>4 DEF PacketsInv

(* A packet sent keeps the invariant. *)
LEMMA PacketsSend ==
  ASSUME StreamsAssumption, PacketsInv,
         NEW x \in Packets!HighBytes(cnt), NEW y \in Packets!LowBytes(cnt),
         Packets!SendPacket(x, y)
  PROVE  PacketsInv'
<1> DEFINE f == Packets!Packet(cnt, x, y)
           more == [k \in DOMAIN f |-> << f[k], sent' >>]
           e == sent
<1>0. /\ cnt \in 1 .. 7 /\ x \in 0 .. 255 /\ y \in 0 .. 255
  <2>1. cnt \in 1 .. 7
    BY DEF PacketsInv, PacketsTyped
  <2>2. Payload \subseteq 0 .. 255
    BY DEF StreamsAssumption, Packets!TelemetryAssumption
  <2>3. QED
    BY <2>1, <2>2 DEF Packets!HighBytes, Packets!LowBytes
<1>1. /\ sent < MaxPackets /\ sent' = sent + 1 /\ cnt' = 1 + (cnt % 7)
      /\ line' = line \o more
      /\ buffer' = buffer /\ taken' = taken /\ damaged' = damaged /\ losses' = losses
  BY SMTT(30) DEF Packets!SendPacket
<1>2. f \in PacketBytes
  BY <1>0, PacketIsFrame, Zenon
<1>3. f \in Seq(0 .. 255) /\ Len(f) >= 1 /\ DOMAIN f = 1 .. Len(f) /\ Len(f) \in Nat
  BY <1>2, PacketBytesAre
<1>4. /\ e \in Nat /\ MaxPackets \in Nat /\ e <= MaxPackets /\ taken \in Seq(0 .. e)
      /\ line \in Seq(PacketByte(e)) /\ buffer \in Seq(PacketByte(e))
      /\ damaged \subseteq 1 .. e /\ losses \in 0 .. MaxBursts /\ Len(buffer) < 7
  BY DEF PacketsInv, PacketsTyped, StreamsAssumption, Packets!TelemetryAssumption
<1>5. sent' = e + 1
  BY <1>1
<1> DEFINE B == PacketByte(e + 1)
<1>6. more \in Seq(B) /\ Len(more) = Len(f) /\ \A k \in 1 .. Len(f) : more[k] = << f[k], e + 1 >>
  <2>1. \A k \in 1 .. Len(f) : << f[k], e + 1 >> \in B
    BY <1>3, <1>4 DEF PacketByte
  <2>2. more = [k \in 1 .. Len(f) |-> << f[k], e + 1 >>]
    BY <1>3, <1>5
  <2> HIDE DEF f, more, B
  <2>3. QED
    BY <1>3, <2>1, <2>2
<1>7. line \in Seq(B) /\ buffer \in Seq(B) /\ taken \in Seq(0 .. e + 1)
  BY <1>4, PacketsGrow
<1> HIDE DEF f, more, B, e
<1>8. /\ line' \in Seq(B) /\ Len(line') = Len(line) + Len(f)
      /\ \A k \in 1 .. Len(line) + Len(f) :
           line'[k] = IF k <= Len(line) THEN line[k] ELSE more[k - Len(line)]
  <2>1. /\ line \o more \in Seq(B) /\ Len(line \o more) = Len(line) + Len(more)
        /\ \A k \in 1 .. Len(line) + Len(more) :
             (line \o more)[k] = IF k <= Len(line) THEN line[k] ELSE more[k - Len(line)]
    BY ONLY <1>6, <1>7, ConcatProperties
  <2>2. QED
    BY <1>1, <1>6, <2>1
<1>9. PacketsTyped'
  <2>1. cnt' \in 1 .. 7
    BY <1>0, <1>1
  <2>2. sent' \in 0 .. MaxPackets /\ damaged' \subseteq 1 .. sent' /\ losses' \in 0 .. MaxBursts
        /\ Len(buffer') < 7
    BY <1>1, <1>4 DEF e
  <2>3. line' \in Seq(PacketByte(sent')) /\ buffer' \in Seq(PacketByte(sent'))
        /\ taken' \in Seq(0 .. sent')
    BY <1>1, <1>5, <1>7, <1>8 DEF B
  <2>4. QED
    BY <2>1, <2>2, <2>3 DEF PacketsTyped
<1>10. ASSUME losses = 0
       PROVE  /\ damaged = {} /\ Len(taken) <= e + 1
              /\ taken = [k \in 1 .. Len(taken) |-> k]
              /\ InARow(PacketBytes, buffer \o line', Len(taken), e + 1)
  <2> DEFINE m == Len(taken)
  <2>1. /\ damaged = {} /\ m <= e /\ taken = [k \in 1 .. m |-> k]
        /\ InARow(PacketBytes, buffer \o line, m, e)
    BY <1>10 DEF PacketsInv, PacketsWhole, e
  <2>2. m \in Nat
    BY <1>4
  <2>3. OneMore(PacketBytes, B, buffer, line, line', m, e, f)
    <3>1. \A k \in 1 .. Len(line) : line'[k] = line[k]
      <4>1. \A k \in 1 .. Len(line) : k \in 1 .. Len(line) + Len(f) /\ k <= Len(line)
        BY <1>3, <1>4
      <4>2. QED
        BY <1>8, <4>1
    <3>2. \A k \in 1 .. Len(f) : line'[Len(line) + k] = << f[k], e + 1 >>
      <4>1. \A k \in 1 .. Len(f) : /\ Len(line) + k \in 1 .. Len(line) + Len(f)
                                   /\ ~(Len(line) + k <= Len(line))
                                   /\ Len(line) + k - Len(line) = k
        BY <1>3, <1>4
      <4>2. QED
        BY <1>6, <1>8, <4>1
    <3> HIDE DEF m
    <3>3. QED
      BY <1>2, <1>3, <1>4, <1>7, <1>8, <2>1, <2>2, <3>1, <3>2, PacketBytesAre DEF OneMore
  <2> HIDE DEF m
  <2>4. InARow(PacketBytes, buffer \o line', m, e + 1)
    BY ONLY <2>3, RowGrows
  <2>5. m <= e + 1
    BY <1>4, <2>1, <2>2
  <2>6. QED
    BY <2>1, <2>4, <2>5 DEF m
<1>11. PacketsWhole'
  BY <1>1, <1>5, <1>10 DEF PacketsWhole
<1>12. QED
  BY <1>9, <1>11 DEF PacketsInv

(* Bytes lost keep it: with a loss it says nothing of the order. *)
LEMMA PacketsLose ==
  ASSUME StreamsAssumption, PacketsInv,
         NEW from \in DOMAIN line, NEW to \in from .. Packets!Min({Len(line), from + MaxBurst - 1}),
         Packets!Lose(from, to)
  PROVE  PacketsInv'
<1> DEFINE B == PacketByte(sent)
<1>0. line \in Seq(B) /\ Len(line) \in Nat /\ from \in 1 .. Len(line) /\ MaxBurst \in Nat
      /\ DOMAIN line = 1 .. Len(line)
  BY DEF PacketsInv, PacketsTyped, StreamsAssumption, Packets!TelemetryAssumption
<1>1. to \in from .. Len(line)
  <2> DEFINE S == {Len(line), from + MaxBurst - 1}
             w == Packets!Min(S)
  <2>1. \E m \in S : \A n \in S : m <= n
    BY <1>0
  <2>2. w \in S /\ \A n \in S : w <= n
    BY <2>1 DEF Packets!Min
  <2>3. w <= Len(line) /\ w \in Int
    BY <1>0, <2>2
  <2>4. to \in from .. w
    OBVIOUS
  <2> HIDE DEF w
  <2>5. QED
    BY <1>0, <2>3, <2>4
<1>2. /\ losses < MaxBursts /\ losses' = losses + 1
      /\ line' = SubSeq(line, 1, from - 1) \o SubSeq(line, to + 1, Len(line))
      /\ damaged' = damaged \cup {line[k][2] : k \in from .. to}
      /\ cnt' = cnt /\ buffer' = buffer /\ sent' = sent /\ taken' = taken
  BY DEF Packets!Lose
<1>3. line' \in Seq(B)
  <2> HIDE DEF B
  <2>1. QED
    BY <1>0, <1>1, <1>2, CutOut
<1>4. damaged' \subseteq 1 .. sent
  <2>1. \A k \in from .. to : line[k] \in B
    <3>1. \A k \in from .. to : k \in 1 .. Len(line)
      BY <1>0, <1>1
    <3> HIDE DEF B
    <3>2. QED
      BY <1>0, <3>1
  <2>2. \A k \in from .. to : line[k][2] \in 1 .. sent
    BY <2>1 DEF PacketByte
  <2>3. damaged \subseteq 1 .. sent
    BY DEF PacketsInv, PacketsTyped
  <2>4. QED
    BY <1>2, <2>2, <2>3
<1>5. losses' \in 0 .. MaxBursts /\ losses' # 0
  BY <1>2 DEF PacketsInv, PacketsTyped, StreamsAssumption, Packets!TelemetryAssumption
<1>6. PacketsTyped'
  BY <1>2, <1>3, <1>4, <1>5 DEF PacketsInv, PacketsTyped
<1>7. PacketsWhole'
  BY <1>5 DEF PacketsWhole
<1>8. QED
  BY <1>6, <1>7 DEF PacketsInv

(* A read and its parse keep it. *)
LEMMA PacketsRead ==
  ASSUME StreamsAssumption, PacketsInv, NEW arrived \in DOMAIN line, Packets!Read(arrived)
  PROVE  PacketsInv'
<1> DEFINE B == PacketByte(sent)
           v1 == SubSeq(line, 1, arrived)
           v2 == SubSeq(line, arrived + 1, Len(line))
           b == buffer \o v1
           parsed == Packets!ParseReceiveBuffer(b)
<1>0. /\ line \in Seq(B) /\ buffer \in Seq(B) /\ sent \in Nat /\ Len(line) \in Nat
      /\ taken \in Seq(0 .. sent) /\ arrived \in 1 .. Len(line) /\ Len(buffer) \in Nat
  BY DEF PacketsInv, PacketsTyped
<1>1. /\ line' = v2 /\ buffer' = parsed.rest /\ taken' = taken \o parsed.frames
      /\ cnt' = cnt /\ sent' = sent /\ damaged' = damaged /\ losses' = losses
  BY DEF Packets!Read
<1>2. v2 \in Seq(B) /\ v1 \in Seq(B) /\ Len(v1) = arrived
      /\ \A k \in 1 .. arrived : v1[k] = line[k]
  <2> HIDE DEF B
  <2>1. QED
    BY <1>0
<1>3. /\ b \in Seq(B) /\ Len(b) = Len(buffer) + arrived
      /\ \A k \in 1 .. Len(buffer) + arrived :
           b[k] = IF k <= Len(buffer) THEN buffer[k] ELSE v1[k - Len(buffer)]
  <2> HIDE DEF v1, B
  <2>1. /\ buffer \o v1 \in Seq(B) /\ Len(buffer \o v1) = Len(buffer) + Len(v1)
        /\ \A k \in 1 .. Len(buffer) + Len(v1) :
             (buffer \o v1)[k] = IF k <= Len(buffer) THEN buffer[k] ELSE v1[k - Len(buffer)]
    BY ONLY <1>0, <1>2, ConcatProperties
  <2>2. QED
    BY <1>2, <2>1
<1> HIDE DEF v1, v2, b, parsed
<1>4. PICK r \in 1 .. Len(b) + 1, out \in Seq(0 .. sent) :
        /\ Len(b) + 1 - r < 7
        /\ parsed = [rest |-> SubSeq(b, r, Len(b)), frames |-> out]
  BY <1>0, <1>3, PacketsParsed DEF PacketByte, parsed
<1>5. PacketsTyped'
  <2>1. parsed.rest = SubSeq(b, r, Len(b)) /\ parsed.frames = out
    BY <1>4
  <2> HIDE DEF B
  <2>2. parsed.rest \in Seq(B) /\ Len(parsed.rest) < 7
    BY <1>3, <1>4, <2>1, RestIs
  <2>3. taken' \in Seq(0 .. sent)
    <3> DEFINE S == 0 .. sent
    <3>1. taken \in Seq(S) /\ out \in Seq(S)
      BY <1>0, <1>4
    <3> HIDE DEF S
    <3>2. taken \o out \in Seq(S)
      BY ONLY <3>1, ConcatProperties
    <3>3. QED
      BY <1>1, <2>1, <3>2 DEF S
  <2>4. QED
    BY <1>1, <1>2, <2>2, <2>3 DEF PacketsInv, PacketsTyped, B
<1>6. ASSUME losses = 0
      PROVE  /\ damaged = {} /\ Len(taken') <= sent
             /\ taken' = [k \in 1 .. Len(taken') |-> k]
             /\ InARow(PacketBytes, parsed.rest \o v2, Len(taken'), sent)
  <2> DEFINE m == Len(taken)
             t == [x \in 1 .. Len(b) + 1 |-> PacketTurn(b, x)]
  <2>1. /\ damaged = {} /\ m <= sent /\ m \in Nat /\ taken = [k \in 1 .. m |-> k]
        /\ InARow(PacketBytes, buffer \o line, m, sent)
    <3>1. m \in Nat
      BY <1>0
    <3>2. QED
      BY <1>6, <3>1 DEF PacketsInv, PacketsWhole
  <2>2. PICK f : Runs(f, t, Len(b) + 1) /\ parsed = f[1]
    BY <1>0, <1>3, PacketParser DEF PacketByte, parsed
  <2>3. WholeTurns(PacketBytes, b, t)
    <3> HIDE DEF B
    <3>1. QED
      BY <1>3, PacketWholeTurns
  <2>4. RowIsParsed(PacketBytes, B, buffer, line, m, sent, arrived, b, f, t, taken)
    <3>1. b = buffer \o SubSeq(line, 1, arrived)
      BY DEF b, v1
    <3> HIDE DEF m, B, t
    <3>2. QED
      BY <1>0, <2>1, <2>2, <2>3, <3>1, PacketBytesAre DEF RowIsParsed, Row
  <2>5. RowAfter(PacketBytes, B, line, sent, arrived, parsed, taken)
    <3>1. RowAfter(PacketBytes, B, line, sent, arrived, f[1], taken)
      <4> HIDE DEF m, B, t
      <4>1. QED
        BY ONLY <2>4, RowParses
    <3>2. QED
      BY <2>2, <3>1
  <2>6. PICK n \in 0 .. sent :
          /\ taken \o parsed.frames = [k \in 1 .. n |-> k]
          /\ Row(PacketBytes, B, parsed.rest, v2, n, sent)
    BY <2>5 DEF RowAfter, v2
  <2>7. taken' = [k \in 1 .. n |-> k] /\ n \in Nat
    BY <1>1, <2>6
  <2>8. Len(taken') = n
    BY <2>7
  <2>9. QED
    BY <2>1, <2>6, <2>7, <2>8 DEF Row
<1>7. PacketsWhole'
  BY <1>1, <1>6 DEF PacketsWhole
<1>8. QED
  BY <1>5, <1>7 DEF PacketsInv

(* What a step of the other links leaves alone. *)
PacketsState == << cnt, line, buffer, sent, taken, damaged, losses >>

(* The other links leave it alone. *)
LEMMA PacketsRest ==
  ASSUME PacketsInv, UNCHANGED PacketsState
  PROVE  PacketsInv'
BY DEF PacketsInv, PacketsTyped, PacketsWhole, PacketsState

(* Telemetry (serial_panel.py, _parse_receive_buffer): less than one       *)
(* packet is ever kept back, whatever was lost; without losses every       *)
(* packet is taken out once and in order. For all payloads, bounds and     *)
(* ways in which the reads cut the bytes.                                  *)
THEOREM PacketsArriveInOrder == StreamsSpec => []PacketsInOrder
<1> DEFINE Inv == link = "telemetry" => PacketsInv
<1>1. StreamsInit => Inv
  <2> SUFFICES ASSUME StreamsInit, link = "telemetry" PROVE PacketsInv
    OBVIOUS
  <2>1. Packets!Init
    BY DEF StreamsInit
  <2>2. QED
    BY <2>1, PacketsInit, StreamsAssumption
<1>2. Inv /\ [StreamsNext]_<< link, commandVars, forgeVars, otherVars >> => Inv'
  <2> SUFFICES ASSUME Inv, [StreamsNext]_<< link, commandVars, forgeVars, otherVars >>,
                      link' = "telemetry"
               PROVE  PacketsInv'
    OBVIOUS
  <2>1. CASE PacketStep
    <3>1. PacketsInv /\ Packets!Next
      BY <2>1 DEF PacketStep
    <3>2. ASSUME NEW x \in Packets!HighBytes(cnt), NEW y \in Packets!LowBytes(cnt),
                 Packets!SendPacket(x, y)
          PROVE  PacketsInv'
      BY <3>1, <3>2, PacketsSend, StreamsAssumption
    <3>3. ASSUME NEW from \in DOMAIN line,
                 NEW to \in from .. Packets!Min({Len(line), from + MaxBurst - 1}),
                 Packets!Lose(from, to)
          PROVE  PacketsInv'
      BY <3>1, <3>3, PacketsLose, StreamsAssumption
    <3>4. ASSUME NEW arrived \in DOMAIN line, Packets!Read(arrived)
          PROVE  PacketsInv'
      BY <3>1, <3>4, PacketsRead, StreamsAssumption
    <3>5. QED
      BY <3>1, <3>2, <3>3, <3>4 DEF Packets!Next
  <2>2. CASE ~PacketStep
    <3>1. UNCHANGED << link, commandVars, forgeVars, otherVars >>
      <4>1. link' = link
        BY DEF StreamsNext, CommandStep, ForgeStep, CameraStep, StallStep, PacketStep,
               RangingStep, CutsStep, Rest
      <4>2. QED
        BY <2>2, <4>1 DEF StreamsNext, CommandStep, ForgeStep, CameraStep, StallStep,
                          RangingStep, CutsStep
    <3>2. link = "telemetry" /\ UNCHANGED PacketsState
      BY <3>1 DEF otherVars, frameVars, PacketsState
    <3>3. QED
      BY <3>2, PacketsRest
  <2>3. QED
    BY <2>1, <2>2
<1>3. Inv => PacketsInOrder
  BY PacketsInvHolds DEF PacketsInOrder
<1>4. QED
  BY <1>1, <1>2, <1>3, PTL DEF StreamsSpec

-----------------------------------------------------------------------------
(* The camera (uart4_port.c)                                               *)

(* The frames by their shape. *)
ReportBytes ==
  {f \in Seq(0 .. 255) :
     /\ f[1] = 163 /\ f[Len(f)] = 195
     /\ \/ Len(f) = 7 /\ f[2] = 177 /\ f[3] = 1 /\ f[5] = 0
        \/ Len(f) = 4 /\ f[2] \in {178, 179} /\ f[3] \in {2, 5}
        \/ Len(f) = 3 /\ f[2] = 180}

(* The reports of the camera have the shape the parser looks for. *)
LEMMA ReportIsFrame ==
  ASSUME StreamsAssumption, NEW f \in Camera!Frame
  PROVE  f \in ReportBytes
<1>1. Low \subseteq 0 .. 255
  BY DEF StreamsAssumption, Camera!CameraAssumption
<1> USE DEF ReportBytes, Camera!Frame, Camera!HEAD1, Camera!LOC, Camera!STA, Camera!TYP,
            Camera!LED, Camera!TAIL1
<1>2. ASSUME NEW x \in Low, NEW y \in Low, f = << 163, 177, 1, x, 0, y, 195 >>
      PROVE  f \in ReportBytes
  <2>1. x \in 0 .. 255 /\ y \in 0 .. 255
    BY <1>1
  <2>2. QED
    BY <1>2, <2>1
<1>3. CASE f = << 163, 178, 2, 195 >>
  BY <1>3
<1>4. CASE f = << 163, 179, 5, 195 >>
  BY <1>4
<1>5. CASE f = << 163, 180, 195 >>
  BY <1>5
<1>6. QED
  BY <1>2, <1>3, <1>4, <1>5

(* Reports are sequences of 3 to 7 bytes. *)
LEMMA ReportBytesAre ==
  /\ ReportBytes \subseteq Seq(Int)
  /\ \A f \in ReportBytes : f \in Seq(0 .. 255) /\ Len(f) >= 3 /\ Len(f) <= 7
<1>1. \A g \in ReportBytes : g \in Seq(0 .. 255) /\ Len(g) >= 3 /\ Len(g) <= 7
  <2> SUFFICES ASSUME NEW g \in ReportBytes
               PROVE  g \in Seq(0 .. 255) /\ Len(g) >= 3 /\ Len(g) <= 7
    OBVIOUS
  <2>1. g \in Seq(0 .. 255) /\ (Len(g) = 7 \/ Len(g) = 4 \/ Len(g) = 3)
    BY DEF ReportBytes
  <2> DEFINE l == Len(g)
  <2>2. l = 7 \/ l = 4 \/ l = 3
    BY <2>1
  <2> HIDE DEF l
  <2>3. l >= 3 /\ l <= 7
    BY ONLY <2>2
  <2>4. QED
    BY <2>1, <2>3 DEF l
<1>2. \A g \in Seq(0 .. 255) : g \in Seq(Int)
  <2> DEFINE S == 0 .. 255
  <2>1. S \subseteq Int
    OBVIOUS
  <2> HIDE DEF S
  <2>2. \A g \in Seq(S) : g \in Seq(Int)
    BY <2>1, SeqMonotonic
  <2>3. QED
    BY <2>2 DEF S
<1>3. QED
  BY <1>1, <1>2

(* The first place of a set of places, or 0. *)
LEMMA ReportsFirst ==
  ASSUME NEW S, S \subseteq Nat \ {0}
  PROVE  /\ Camera!First(S) = 0 <=> S = {}
         /\ S # {} => Camera!First(S) \in S
         /\ \A n \in S : Camera!First(S) <= n
<1>1. CASE S = {}
  BY <1>1 DEF Camera!First
<1>2. CASE S # {}
  <2>1. \E m \in S : \A n \in S : m <= n
    BY <1>2, Least
  <2>2. Camera!Min(S) \in S /\ \A n \in S : Camera!Min(S) <= n
    BY <2>1 DEF Camera!Min
  <2>3. QED
    BY <1>2, <2>2 DEF Camera!First
<1>3. QED
  BY <1>1, <1>2

(* Where the search for 0xA3 stops (uart4_port.c:42-49). *)
LEMMA ReportHead ==
  ASSUME NEW B, NEW b \in Seq(B), NEW x \in 1 .. Len(b) + 1
  PROVE  /\ Camera!HeadFrom(b, x) = 0
              \/ (Camera!HeadFrom(b, x) \in x .. Len(b) /\ b[Camera!HeadFrom(b, x)][1] = 163)
         /\ x <= Len(b) /\ b[x][1] = 163 => Camera!HeadFrom(b, x) = x
<1> DEFINE S == {n \in x .. Len(b) : b[n][1] = 163}
           h == Camera!HeadFrom(b, x)
<1>1. h = Camera!First(S)
  BY DEF Camera!HeadFrom, Camera!HEAD1
<1>2. S \subseteq Nat \ {0} /\ \A n : n \in S <=> n \in x .. Len(b) /\ b[n][1] = 163
  OBVIOUS
<1> HIDE DEF S, h
<1>3. /\ h = 0 <=> S = {}
      /\ S # {} => h \in S
      /\ \A n \in S : h <= n
  BY <1>1, <1>2, ReportsFirst
<1>4. h = 0 \/ (h \in x .. Len(b) /\ b[h][1] = 163)
  BY <1>2, <1>3
<1>5. ASSUME x <= Len(b), b[x][1] = 163 PROVE h = x
  <2>1. x \in S
    BY <1>2, <1>5
  <2>2. h \in S /\ h <= x
    BY <1>3, <2>1
  <2>3. h \in x .. Len(b)
    BY <1>2, <2>2
  <2>4. QED
    BY <2>2, <2>3
<1>6. QED
  BY <1>4, <1>5 DEF h

(* The length of the report at a place, by its second byte and its tail. *)
LEMMA ReportLengthIs ==
  ASSUME NEW b, NEW n
  PROVE  Camera!FrameLength(b, n) =
           IF Camera!At(b, n + 1, 177) /\ Camera!At(b, n + 6, 195) THEN 7
           ELSE IF (Camera!At(b, n + 1, 178) \/ Camera!At(b, n + 1, 179))
                     /\ Camera!At(b, n + 3, 195) THEN 4
           ELSE IF Camera!At(b, n + 1, 180) /\ Camera!At(b, n + 2, 195) THEN 3
           ELSE 0
BY DEF Camera!FrameLength, Camera!At, Camera!LOC, Camera!STA, Camera!TYP, Camera!LED,
       Camera!TAIL1

(* A turn of uart4_try_parse. *)
ReportTurn(b, x) ==
  LET n == Camera!HeadFrom(b, x)
      l == Camera!FrameLength(b, n)
  IN IF n = 0 THEN Keeps(Camera!Keep(b, IF x <= Len(b) THEN Len(b) ELSE x))
     ELSE IF l = 0 THEN Keeps(Camera!Keep(b, n))
     ELSE Takes(n + l, Camera!DataProc(b, n, l))

(* A turn of the parser is a turn of the loops above. *)
LEMMA ReportTurns ==
  ASSUME NEW b, NEW f, NEW x, NEW t, t[x] = ReportTurn(b, x)
  PROVE  Camera!ParseFrom(b, f, x) = TurnOf(t, f, x)
<1> DEFINE n == Camera!HeadFrom(b, x)
           l == Camera!FrameLength(b, n)
           w == ReportTurn(b, x)
           r == Camera!ParseFrom(b, f, x)
           c1 == n = 0
           c2 == l = 0
           k1 == Camera!Keep(b, IF x <= Len(b) THEN Len(b) ELSE x)
           k2 == Camera!Keep(b, n)
           a == Camera!DataProc(b, n, l)
           o == n + l
<1>1. w = IF c1 THEN Keeps(k1) ELSE IF c2 THEN Keeps(k2) ELSE Takes(o, a)
  BY Zenon DEF ReportTurn
<1>2. r = IF c1 THEN k1 ELSE IF c2 THEN k2 ELSE [f[o] EXCEPT !.frames = a \o @]
  BY Zenon DEF Camera!ParseFrom
<1>3. t[x] = w
  OBVIOUS
<1> HIDE DEF n, l, w, r, c1, c2, k1, k2, a, o
<1>4. r = TurnOf(t, f, x)
  <2>1. CASE c1
    <3>1. t[x] = Keeps(k1)
      BY <1>1, <1>3, <2>1, Zenon
    <3>2. r = k1
      BY <1>2, <2>1, Zenon
    <3>3. QED
      BY ONLY <3>1, <3>2, TurnKeeps, Zenon
  <2>2. CASE ~c1 /\ c2
    <3>1. t[x] = Keeps(k2)
      BY <1>1, <1>3, <2>2, Zenon
    <3>2. r = k2
      BY <1>2, <2>2, Zenon
    <3>3. QED
      BY ONLY <3>1, <3>2, TurnKeeps, Zenon
  <2>3. CASE ~c1 /\ ~c2
    <3>1. t[x] = Takes(o, a)
      BY <1>1, <1>3, <2>3, Zenon
    <3>2. r = [f[o] EXCEPT !.frames = a \o @]
      BY <1>2, <2>3, Zenon
    <3>3. TurnOf(t, f, x) = [f[o] EXCEPT !.frames = a \o @]
      BY ONLY <3>1, TurnTakes
    <3>4. QED
      BY <3>2, <3>3, Zenon
  <2>4. QED
    BY <2>1, <2>2, <2>3
<1>5. QED
  BY <1>4 DEF r

(* The parser of the port goes forward. *)
LEMMA ReportWalk ==
  ASSUME NEW e \in Nat, NEW b \in Seq((0 .. 255) \X (1 .. e))
  PROVE  Walks(b, [x \in 1 .. Len(b) + 1 |-> ReportTurn(b, x)], Len(b) + 1, Len(b) + 1, 0 .. e)
<1> DEFINE N == Len(b) + 1
           t == [x \in 1 .. N |-> ReportTurn(b, x)]
<1>0. Len(b) \in Nat /\ N \in Nat
  OBVIOUS
<1>1. ASSUME NEW x \in 1 .. N
      PROVE  \/ \E r \in x .. N :
                  /\ Len(b) + 1 - r < N
                  /\ t[x] = Keeps([rest |-> SubSeq(b, r, Len(b)), frames |-> << >>])
             \/ \E n \in x + 1 .. N : t[x] = Skips(n)
             \/ \E n \in x + 1 .. N, a \in Seq(0 .. e) : t[x] = Takes(n, a)
  <2> DEFINE n == Camera!HeadFrom(b, x)
             l == Camera!FrameLength(b, n)
             z == IF x <= Len(b) THEN Len(b) ELSE x
             kept(r) == Keeps([rest |-> SubSeq(b, r, Len(b)), frames |-> << >>])
             w == t[x]
             a == Camera!DataProc(b, n, l)
  <2>1. n = 0 \/ n \in x .. Len(b)
    BY ReportHead
  <2>2. w = IF n = 0 THEN kept(z) ELSE IF l = 0 THEN kept(n) ELSE Takes(n + l, a)
    BY DEF ReportTurn, Camera!Keep
  <2>3. n # 0 => (l = 0 \/ (l \in Nat /\ 1 <= l /\ n + l <= N))
    <3> HIDE DEF n, l
    <3>1. l = IF Camera!At(b, n + 1, 177) /\ Camera!At(b, n + 6, 195) THEN 7
              ELSE IF (Camera!At(b, n + 1, 178) \/ Camera!At(b, n + 1, 179))
                        /\ Camera!At(b, n + 3, 195) THEN 4
              ELSE IF Camera!At(b, n + 1, 180) /\ Camera!At(b, n + 2, 195) THEN 3
              ELSE 0
      BY ReportLengthIs DEF l
    <3>2. QED
      BY <1>0, <2>1, <3>1, SMTT(30) DEF Camera!At
  <2>4. n # 0 => a \in Seq(0 .. e)
    <3> SUFFICES ASSUME n # 0 PROVE a \in Seq(0 .. e)
      OBVIOUS
    <3>1. n \in 1 .. Len(b)
      BY <2>1
    <3> HIDE DEF n, l
    <3>2. b[n] \in (0 .. 255) \X (1 .. e)
      BY <3>1
    <3>3. b[n][2] \in 0 .. e /\ 0 \in 0 .. e
      BY <3>2
    <3> DEFINE v == b[n][2]
    <3>4. a = << v >> \/ a = << 0 >>
      BY DEF Camera!DataProc
    <3>5. v \in 0 .. e
      BY <3>3
    <3> HIDE DEF v, a
    <3>6. << v >> \in Seq(0 .. e) /\ << 0 >> \in Seq(0 .. e)
      BY ONLY <3>3, <3>5
    <3>7. QED
      BY <3>4, <3>6
  <2>5. z \in x .. N
    BY <1>0
  <2> HIDE DEF n, l, a, z, w
  <2>6. \A r \in x .. N : Len(b) + 1 - r < N
    BY <1>0
  <2>7. CASE n = 0
    <3>1. w = kept(z)
      BY <2>2, <2>7
    <3>2. QED
      BY <2>5, <2>6, <3>1 DEF w
  <2>8. CASE n # 0 /\ l = 0
    <3>1. w = kept(n) /\ n \in x .. N
      BY <1>0, <2>1, <2>2, <2>8
    <3>2. QED
      BY <2>6, <3>1 DEF w
  <2>9. CASE n # 0 /\ l # 0
    <3>1. w = Takes(n + l, a)
      BY <2>2, <2>9
    <3>2. n \in x .. Len(b) /\ l \in Nat /\ 1 <= l /\ n + l <= N
      BY <2>1, <2>3, <2>9
    <3>3. n + l \in x + 1 .. N
      BY <1>0, <3>2
    <3>4. QED
      BY <2>4, <2>9, <3>1, <3>3 DEF w
  <2>10. QED
    BY <2>7, <2>8, <2>9
<1>2. QED
  BY <1>1 DEF Walks

(* The parser of the port is such a loop, started at the first byte. *)
LEMMA ReportParser ==
  ASSUME NEW e \in Nat, NEW b \in Seq((0 .. 255) \X (1 .. e))
  PROVE  \E f : /\ Runs(f, [x \in 1 .. Len(b) + 1 |-> ReportTurn(b, x)], Len(b) + 1)
                /\ Camera!TryParse(b) = f[1]
<1> DEFINE N == Len(b) + 1
           t == [x \in 1 .. N |-> ReportTurn(b, x)]
           f == CHOOSE f : f = [x \in 1 .. N |-> Camera!ParseFrom(b, f, x)]
<1>0. N \in Nat
  OBVIOUS
<1>1. Camera!TryParse(b) = f[1]
  BY DEF Camera!TryParse
<1>2. Forward(t, N)
  <2>1. Walks(b, t, N, N, 0 .. e)
    BY ReportWalk
  <2> HIDE DEF t, N
  <2>2. QED
    BY <1>0, <2>1, WalksForward
<1>3. \A x \in 1 .. N : t[x] = ReportTurn(b, x)
  OBVIOUS
<1> HIDE DEF t
<1>4. \A g : \A x \in 1 .. N : Camera!ParseFrom(b, g, x) = TurnOf(t, g, x)
  BY <1>3, ReportTurns
<1>5. PICK g : g = [x \in 1 .. N |-> TurnOf(t, g, x)]
  <2> HIDE DEF N
  <2>1. QED
    BY <1>0, <1>2, WalkRuns
<1>6. [x \in 1 .. N |-> TurnOf(t, g, x)] = [x \in 1 .. N |-> Camera!ParseFrom(b, g, x)]
  BY <1>4
<1>7. \E h : h = [x \in 1 .. N |-> Camera!ParseFrom(b, h, x)]
  BY <1>5, <1>6, Zenon
<1>8. f = [x \in 1 .. N |-> Camera!ParseFrom(b, f, x)]
  BY <1>7
<1> HIDE DEF f
<1>9. Runs(f, t, N)
  BY <1>4, <1>8 DEF Runs
<1>10. QED
  BY <1>1, <1>9 DEF t

(* Of any bytes at all, no more are kept than there were. *)
LEMMA ReportsParsed ==
  ASSUME NEW e \in Nat, NEW b \in Seq((0 .. 255) \X (1 .. e))
  PROVE  \E r \in 1 .. Len(b) + 1 : \E out \in Seq(0 .. e) :
           Camera!TryParse(b) = [rest |-> SubSeq(b, r, Len(b)), frames |-> out]
<1> DEFINE N == Len(b) + 1
           t == [z \in 1 .. N |-> ReportTurn(b, z)]
           B == (0 .. 255) \X (1 .. e)
           S == 0 .. e
<1>1. PICK f : /\ Runs(f, t, N)
               /\ Camera!TryParse(b) = f[1]
  BY ReportParser
<1>2. Walks(b, t, N, N, 0 .. e)
  BY ReportWalk
<1>3. N \in Nat /\ 1 \in 1 .. N /\ N \in Int
  OBVIOUS
<1>4. Walked(B, b, t, N, N, S, f)
  <2>1. b \in Seq(B) /\ N \in Nat /\ N \in Int /\ Walks(b, t, N, N, S) /\ Runs(f, t, N)
    BY <1>1, <1>2, <1>3
  <2> HIDE DEF N, t, B, S
  <2>2. QED
    BY ONLY <2>1 DEF Walked
<1> HIDE DEF N, t, B, S
<1>5. Returns(b, N, N, S, f)
  BY ONLY <1>4, WalkReturns
<1>6. \E r \in 1 .. N : \E out \in Seq(S) :
        f[1] = [rest |-> SubSeq(b, r, Len(b)), frames |-> out]
  BY <1>3, <1>5 DEF Returns
<1>7. QED
  BY <1>1, <1>6 DEF N, S

(* Of frames in a row every whole one is dispatched, and a head inside it  *)
(* is not taken for one.                                                   *)
LEMMA ReportTaken ==
  ASSUME NEW B, NEW b, b \in Seq(B), NEW x \in 1 .. Len(b) + 1, NEW j, NEW f \in ReportBytes,
         \A k \in 1 .. Len(f) : x + k - 1 <= Len(b) => b[x + k - 1] = << f[k], j >>
  PROVE  IF x + Len(f) <= Len(b) + 1
           THEN ReportTurn(b, x) = Takes(x + Len(f), << j >>)
           ELSE ReportTurn(b, x) = Keeps([rest |-> SubSeq(b, x, Len(b)), frames |-> << >>])
<1> DEFINE n == Camera!HeadFrom(b, x)
           l == Camera!FrameLength(b, n)
           kept(r) == Keeps([rest |-> SubSeq(b, r, Len(b)), frames |-> << >>])
           w == ReportTurn(b, x)
           a == Camera!DataProc(b, n, l)
           z == IF x <= Len(b) THEN Len(b) ELSE x
           L == Len(f)
           N == Len(b)
<1>0. /\ f \in Seq(0 .. 255) /\ f[1] = 163 /\ f[L] = 195
      /\ \/ L = 7 /\ f[2] = 177 /\ f[3] = 1 /\ f[5] = 0
         \/ L = 4 /\ f[2] \in {178, 179} /\ f[3] \in {2, 5}
         \/ L = 3 /\ f[2] = 180
      /\ L \in Nat /\ L >= 3 /\ L <= 7 /\ x \in Nat /\ N \in Nat /\ x >= 1 /\ x <= N + 1
  <2>1. /\ f \in Seq(0 .. 255) /\ f[1] = 163 /\ f[L] = 195
        /\ \/ L = 7 /\ f[2] = 177 /\ f[3] = 1 /\ f[5] = 0
           \/ L = 4 /\ f[2] \in {178, 179} /\ f[3] \in {2, 5}
           \/ L = 3 /\ f[2] = 180
    BY DEF ReportBytes
  <2>2. L >= 3 /\ L <= 7 /\ L \in Nat
    BY ReportBytesAre
  <2>3. QED
    BY <2>1, <2>2
<1>1. w = IF n = 0 THEN kept(z) ELSE IF l = 0 THEN kept(n) ELSE Takes(n + l, a)
  BY DEF ReportTurn, Camera!Keep
<1>2. ASSUME NEW k \in 1 .. L, x + k - 1 <= N
      PROVE  b[x + k - 1] = << f[k], j >> /\ b[x + k - 1][1] = f[k] /\ b[x + k - 1][2] = j
  <2>1. b[x + k - 1] = << f[k], j >>
    BY <1>2
  <2>2. QED
    BY <2>1
<1>3. ASSUME x <= N PROVE n = x
  <2>1. 1 \in 1 .. L /\ x + 1 - 1 = x
    BY <1>0
  <2>2. b[x][1] = 163
    BY <1>0, <1>2, <1>3, <2>1
  <2>3. QED
    BY <1>3, <2>2, ReportHead
<1>4. ASSUME NEW o \in 0 .. 6, NEW v, o < L, f[o + 1] # v PROVE ~Camera!At(b, x + o, v)
  <2>1. o + 1 \in 1 .. L /\ x + (o + 1) - 1 = x + o
    BY <1>0, <1>4
  <2>2. x + o <= N => b[x + o][1] = f[o + 1]
    BY <1>2, <2>1
  <2>3. QED
    BY <1>4, <2>2 DEF Camera!At
<1>5. ASSUME NEW o \in 0 .. 6, o < L, x + o <= N PROVE Camera!At(b, x + o, f[o + 1])
  <2>1. o + 1 \in 1 .. L /\ x + (o + 1) - 1 = x + o
    BY <1>0, <1>5
  <2>2. b[x + o][1] = f[o + 1]
    BY <1>2, <1>5, <2>1
  <2>3. QED
    BY <1>5, <2>2 DEF Camera!At
<1>6. ASSUME NEW o \in 0 .. 6, NEW v, x + o > N PROVE ~Camera!At(b, x + o, v)
  BY <1>0, <1>6 DEF Camera!At
<1>7. x <= N => l = IF Camera!At(b, x + 1, 177) /\ Camera!At(b, x + 6, 195) THEN 7
                    ELSE IF (Camera!At(b, x + 1, 178) \/ Camera!At(b, x + 1, 179))
                              /\ Camera!At(b, x + 3, 195) THEN 4
                    ELSE IF Camera!At(b, x + 1, 180) /\ Camera!At(b, x + 2, 195) THEN 3
                    ELSE 0
  BY <1>3, ReportLengthIs, SMTT(30)
<1>8. x <= N => l = IF x + L <= N + 1 THEN L ELSE 0
  <2> SUFFICES ASSUME x <= N PROVE l = IF x + L <= N + 1 THEN L ELSE 0
    OBVIOUS
  <2> HIDE DEF l, n, L, N
  <2>0. 1 \in 0 .. 6 /\ 2 \in 0 .. 6 /\ 3 \in 0 .. 6 /\ 6 \in 0 .. 6 /\ 1 < L /\ 1 + 1 = 2
        /\ 2 + 1 = 3 /\ 3 + 1 = 4 /\ 6 + 1 = 7
    BY <1>0
  <2>1. /\ \A v : f[2] # v => ~Camera!At(b, x + 1, v)
        /\ x + 1 <= N => Camera!At(b, x + 1, f[2])
        /\ \A v : x + 6 > N => ~Camera!At(b, x + 6, v)
        /\ \A v : x + 3 > N => ~Camera!At(b, x + 3, v)
        /\ \A v : x + 2 > N => ~Camera!At(b, x + 2, v)
        /\ \A v : x + 1 > N => ~Camera!At(b, x + 1, v)
        /\ L = 7 /\ x + 6 <= N => Camera!At(b, x + 6, f[7])
        /\ L = 4 /\ x + 3 <= N => Camera!At(b, x + 3, f[4])
        /\ L = 3 /\ x + 2 <= N => Camera!At(b, x + 2, f[3])
    <3>1. /\ \A v : f[2] # v => ~Camera!At(b, x + 1, v)
          /\ x + 1 <= N => Camera!At(b, x + 1, f[2])
      BY <1>4, <1>5, <2>0
    <3>2. /\ \A v : x + 6 > N => ~Camera!At(b, x + 6, v)
          /\ \A v : x + 3 > N => ~Camera!At(b, x + 3, v)
          /\ \A v : x + 2 > N => ~Camera!At(b, x + 2, v)
          /\ \A v : x + 1 > N => ~Camera!At(b, x + 1, v)
      BY <1>6, <2>0
    <3>3. ASSUME L = 7, x + 6 <= N PROVE Camera!At(b, x + 6, f[7])
      <4>1. 6 < L
        BY <3>3
      <4>2. Camera!At(b, x + 6, f[6 + 1])
        BY <1>5, <2>0, <3>3, <4>1
      <4>3. QED
        BY <2>0, <4>2
    <3>4. ASSUME L = 4, x + 3 <= N PROVE Camera!At(b, x + 3, f[4])
      <4>1. 3 < L
        BY <3>4
      <4>2. Camera!At(b, x + 3, f[3 + 1])
        BY <1>5, <2>0, <3>4, <4>1
      <4>3. QED
        BY <2>0, <4>2
    <3>5. ASSUME L = 3, x + 2 <= N PROVE Camera!At(b, x + 2, f[3])
      <4>1. 2 < L
        BY <3>5
      <4>2. Camera!At(b, x + 2, f[2 + 1])
        BY <1>5, <2>0, <3>5, <4>1
      <4>3. QED
        BY <2>0, <4>2
    <3>6. QED
      BY <3>1, <3>2, <3>3, <3>4, <3>5
  <2>2. CASE L = 7 /\ f[2] = 177
    <3>1. f[7] = 195 /\ f[2] # 178 /\ f[2] # 179 /\ f[2] # 180
      BY <1>0, <2>2
    <3>2. /\ ~Camera!At(b, x + 1, 178) /\ ~Camera!At(b, x + 1, 179) /\ ~Camera!At(b, x + 1, 180)
      BY <2>1, <3>1
    <3>3. CASE x + 6 <= N
      <4>1. x + 1 <= N /\ x + L <= N + 1
        BY <1>0, <2>2, <3>3
      <4>2. Camera!At(b, x + 1, 177) /\ Camera!At(b, x + 6, 195)
        BY <2>1, <2>2, <3>1, <3>3, <4>1
      <4>3. QED
        BY <1>7, <2>2, <4>1, <4>2
    <3>4. CASE ~(x + 6 <= N)
      <4>1. ~(x + L <= N + 1) /\ x + 6 > N
        BY <1>0, <2>2, <3>4
      <4>2. ~Camera!At(b, x + 6, 195)
        BY <2>1, <4>1
      <4>3. QED
        BY <1>7, <3>2, <4>1, <4>2
    <3>5. QED
      BY <3>3, <3>4
  <2>3. CASE L = 4 /\ f[2] \in {178, 179}
    <3>1. f[4] = 195 /\ f[2] # 177 /\ f[2] # 180
      BY <1>0, <2>3
    <3>2. ~Camera!At(b, x + 1, 177) /\ ~Camera!At(b, x + 1, 180)
      BY <2>1, <3>1
    <3>3. CASE x + 3 <= N
      <4>1. x + 1 <= N /\ x + L <= N + 1
        BY <1>0, <2>3, <3>3
      <4>2. (Camera!At(b, x + 1, 178) \/ Camera!At(b, x + 1, 179)) /\ Camera!At(b, x + 3, 195)
        BY <2>1, <2>3, <3>1, <3>3, <4>1
      <4>3. QED
        BY <1>7, <2>3, <3>2, <4>1, <4>2
    <3>4. CASE ~(x + 3 <= N)
      <4>1. ~(x + L <= N + 1) /\ x + 3 > N
        BY <1>0, <2>3, <3>4
      <4>2. ~Camera!At(b, x + 3, 195)
        BY <2>1, <4>1
      <4>3. QED
        BY <1>7, <3>2, <4>1, <4>2
    <3>5. QED
      BY <3>3, <3>4
  <2>4. CASE L = 3 /\ f[2] = 180
    <3>1. f[3] = 195 /\ f[2] # 177 /\ f[2] # 178 /\ f[2] # 179
      BY <1>0, <2>4
    <3>2. /\ ~Camera!At(b, x + 1, 177) /\ ~Camera!At(b, x + 1, 178) /\ ~Camera!At(b, x + 1, 179)
      BY <2>1, <3>1
    <3>3. CASE x + 2 <= N
      <4>1. x + 1 <= N /\ x + L <= N + 1
        BY <1>0, <2>4, <3>3
      <4>2. Camera!At(b, x + 1, 180) /\ Camera!At(b, x + 2, 195)
        BY <2>1, <2>4, <3>1, <3>3, <4>1
      <4>3. QED
        BY <1>7, <2>4, <3>2, <4>1, <4>2
    <3>4. CASE ~(x + 2 <= N)
      <4>1. ~(x + L <= N + 1) /\ x + 2 > N
        BY <1>0, <2>4, <3>4
      <4>2. ~Camera!At(b, x + 2, 195)
        BY <2>1, <4>1
      <4>3. QED
        BY <1>7, <3>2, <4>1, <4>2
    <3>5. QED
      BY <3>3, <3>4
  <2>5. QED
    BY <1>0, <2>2, <2>3, <2>4
<1>9. ASSUME x + L <= N + 1 PROVE w = Takes(x + L, << j >>)
  <2>1. x <= N /\ L # 0
    BY <1>0, <1>9
  <2>2. n = x /\ l = L /\ n # 0
    BY <1>0, <1>3, <1>8, <1>9, <2>1
  <2>3. Camera!DataProc(b, x, L) = << j >>
    <3> DEFINE ids == {b[k][2] : k \in x .. x + L - 1}
    <3>1. ASSUME NEW k \in x .. x + L - 1 PROVE b[k][2] = j /\ b[k][1] = f[k - x + 1]
      <4>1. k - x + 1 \in 1 .. L /\ x + (k - x + 1) - 1 = k /\ k <= N
        BY <1>0, <1>9
      <4>2. QED
        BY <1>2, <4>1
    <3>2. x \in x .. x + L - 1
      BY <1>0
    <3>3. ids = {j}
      BY <3>1, <3>2
    <3>4. Camera!Cardinality(ids) = 1
      <4> HIDE DEF ids
      <4>1. Cardinality(ids) = 1
        BY <3>3, FS_Singleton
      <4>2. Camera!Cardinality(ids) = Cardinality(ids)
        BY DEF Camera!Cardinality, Cardinality
      <4>3. QED
        BY <4>1, <4>2
    <3>5. ASSUME NEW k \in x + 1 .. x + L - 2
          PROVE  ~(b[k][1] = 163 /\ b[k + 1][1] \in {177, 178, 179, 180})
      <4> DEFINE o == k - x + 1
      <4>1. /\ k \in x .. x + L - 1 /\ k + 1 \in x .. x + L - 1
            /\ o \in 2 .. L - 1 /\ k + 1 - x + 1 = o + 1
        BY <1>0
      <4>2. b[k][1] = f[o] /\ b[k + 1][1] = f[o + 1]
        BY <3>1, <4>1
      <4> HIDE DEF o
      <4>3. ~(f[o] = 163 /\ f[o + 1] \in {177, 178, 179, 180})
        <5>1. CASE L = 7
          <6>1. f[2] = 177 /\ f[3] = 1 /\ f[5] = 0 /\ f[7] = 195
            BY <1>0, <5>1
          <6>2. o = 2 \/ o = 3 \/ o = 4 \/ o = 5 \/ o = 6
            BY <4>1, <5>1
          <6>3. CASE o = 2 \/ o = 3 \/ o = 5
            BY <6>1, <6>3
          <6>4. CASE o = 4
            <7>1. f[o + 1] = 0
              BY <6>1, <6>4
            <7>2. QED
              BY <7>1
          <6>5. CASE o = 6
            <7>1. f[o + 1] = 195
              BY <6>1, <6>5
            <7>2. QED
              BY <7>1
          <6>6. QED
            BY <6>2, <6>3, <6>4, <6>5
        <5>2. CASE L = 4
          <6>1. (f[2] = 178 \/ f[2] = 179) /\ (f[3] = 2 \/ f[3] = 5)
            BY <1>0, <5>2
          <6>2. o = 2 \/ o = 3
            BY <4>1, <5>2
          <6>3. QED
            BY <6>1, <6>2
        <5>3. CASE L = 3
          <6>1. f[2] = 180 /\ o = 2
            BY <1>0, <4>1, <5>3
          <6>2. QED
            BY <6>1
        <5>4. QED
          BY <1>0, <5>1, <5>2, <5>3
      <4>4. QED
        BY <4>2, <4>3
    <3>6. Camera!Inner(b, x, L) = {}
      BY <3>5 DEF Camera!Inner, Camera!HEAD1, Camera!LOC, Camera!STA, Camera!TYP, Camera!LED
    <3>7. Camera!DataProc(b, x, L) =
            IF Camera!Cardinality(ids) = 1 /\ Camera!Inner(b, x, L) = {}
              THEN << b[x][2] >> ELSE << 0 >>
      BY DEF Camera!DataProc
    <3>8. QED
      BY <3>1, <3>2, <3>4, <3>6, <3>7
  <2>4. a = << j >>
    BY <2>2, <2>3
  <2> HIDE DEF n, l, w, a, L
  <2>5. w = Takes(n + l, a)
    BY <1>1, <2>1, <2>2
  <2>6. QED
    BY <2>2, <2>4, <2>5
<1>10. ASSUME ~(x + L <= N + 1) PROVE w = kept(x)
  <2>1. CASE x <= N
    <3>1. n = x /\ l = 0 /\ n # 0
      BY <1>0, <1>3, <1>8, <1>10, <2>1
    <3> HIDE DEF n, l, w, a, z
    <3>2. w = kept(n)
      BY <1>1, <3>1, Zenon
    <3>3. QED
      BY <3>1, <3>2
  <2>2. CASE ~(x <= N)
    <3>1. n = 0 /\ z = x
      <4>1. n = 0 \/ n \in x .. Len(b)
        BY ReportHead
      <4>2. x .. Len(b) = {}
        BY <1>0, <2>2
      <4>3. QED
        BY <2>2, <4>1, <4>2
    <3> HIDE DEF n, l, w, a, z
    <3>2. w = kept(z)
      BY <1>1, <3>1, Zenon
    <3>3. QED
      BY <3>1, <3>2
  <2>3. QED
    BY <2>1, <2>2
<1>11. QED
  BY <1>9, <1>10

(* The parser of the port takes what is whole and waits for what is not. *)
LEMMA ReportWholeTurns ==
  ASSUME NEW B, NEW b \in Seq(B)
  PROVE  WholeTurns(ReportBytes, b, [x \in 1 .. Len(b) + 1 |-> ReportTurn(b, x)])
<1> DEFINE N == Len(b) + 1
           t == [x \in 1 .. N |-> ReportTurn(b, x)]
           kept(x) == Keeps([rest |-> SubSeq(b, x, Len(b)), frames |-> << >>])
<1>0. Len(b) \in Nat /\ N \in Nat /\ N \in 1 .. N /\ N = Len(b) + 1
  OBVIOUS
<1>1. \A x \in 1 .. N : t[x] = ReportTurn(b, x)
  OBVIOUS
<1> HIDE DEF t
<1>2. t[N] = kept(N)
  <2>1. Camera!HeadFrom(b, N) = 0
    <3>1. Camera!HeadFrom(b, N) = 0 \/ Camera!HeadFrom(b, N) \in N .. Len(b)
      BY <1>0, ReportHead
    <3>2. N .. Len(b) = {}
      BY <1>0
    <3>3. QED
      BY <3>1, <3>2
  <2>2. ~(N <= Len(b))
    BY <1>0
  <2>3. ReportTurn(b, N) = kept(N)
    BY <2>1, <2>2 DEF ReportTurn, Camera!Keep
  <2>4. QED
    BY <1>0, <1>1, <2>3
<1>3. ASSUME NEW x \in 1 .. N, NEW j \in Nat, NEW g \in ReportBytes,
             \A k \in 1 .. Len(g) : x + k - 1 <= Len(b) => b[x + k - 1] = << g[k], j >>
      PROVE  IF x + Len(g) <= Len(b) + 1 THEN t[x] = Takes(x + Len(g), << j >>)
             ELSE t[x] = kept(x)
  <2>1. IF x + Len(g) <= Len(b) + 1
          THEN ReportTurn(b, x) = Takes(x + Len(g), << j >>)
          ELSE ReportTurn(b, x) = kept(x)
    BY ONLY <1>3, ReportTaken, b \in Seq(B), x \in 1 .. Len(b) + 1
  <2>2. t[x] = ReportTurn(b, x)
    BY <1>1
  <2> HIDE DEF kept
  <2>3. QED
    BY <2>1, <2>2
<1>4. WholeTurns(ReportBytes, b, t)
  BY <1>2, <1>3 DEF WholeTurns
<1>5. QED
  BY <1>4 DEF t

ReportsWhole ==
  losses = 0 =>
    /\ damaged = {} /\ Len(taken) <= sent /\ Len(buffer) < 7
    /\ taken = [k \in 1 .. Len(taken) |-> k]
    /\ InARow(ReportBytes, buffer \o line, Len(taken), sent)

ReportsTyped ==
  /\ line \in Seq(PacketByte(sent)) /\ buffer \in Seq(PacketByte(sent))
  /\ Len(line) <= CameraCapacity /\ Len(buffer) <= CameraMaxLen
  /\ sent \in 0 .. MaxReports /\ taken \in Seq(0 .. sent)
  /\ damaged \subseteq 1 .. sent /\ losses \in 0 .. MaxReportLosses

(* The inductive invariant of the camera's reports. *)
ReportsInv == ReportsTyped /\ ReportsWhole

(* What is assumed of the constants of the camera. *)
LEMMA CameraConstants ==
  ASSUME StreamsAssumption
  PROVE  /\ CameraCapacity \in Nat \ {0} /\ CameraMaxLen \in Nat
         /\ CameraMaxLen >= CameraCapacity + 6
         /\ MaxReports \in Nat /\ MaxReportLosses \in Nat
BY DEF StreamsAssumption, Camera!CameraAssumption

(* The invariant is enough for the property and for the types. *)
LEMMA ReportsInvHolds ==
  ASSUME ReportsInv
  PROVE  Camera!TypeOK /\ Camera!AllInOrder
<1> DEFINE B == PacketByte(sent)
<1>0. /\ line \in Seq(B) /\ buffer \in Seq(B) /\ sent \in Nat /\ taken \in Seq(0 .. sent)
      /\ DOMAIN line = 1 .. Len(line) /\ DOMAIN buffer = 1 .. Len(buffer)
      /\ DOMAIN taken = 1 .. Len(taken) /\ Len(taken) \in Nat
  BY DEF ReportsInv, ReportsTyped
<1>1. Camera!TypeOK
  <2>1. /\ \A k \in DOMAIN line : line[k] \in B
        /\ \A k \in DOMAIN buffer : buffer[k] \in B
    <3> HIDE DEF B
    <3>1. QED
      BY <1>0
  <2>2. QED
    BY <2>1 DEF ReportsInv, ReportsTyped, Camera!TypeOK, PacketByte
<1>3. ASSUME losses = 0
      PROVE  Camera!Missed = {} /\ taken = [k \in DOMAIN taken |-> k] /\ Len(buffer) < 7
  <2> DEFINE m == Len(taken)
             e == sent
  <2>1. /\ damaged = {} /\ m <= e /\ taken = [k \in 1 .. m |-> k] /\ Len(buffer) < 7
        /\ InARow(ReportBytes, buffer \o line, m, e)
    BY <1>3 DEF ReportsInv, ReportsWhole
  <2>2. ASSUME NEW j \in 1 .. sent
        PROVE  j \in Camera!Waiting \/ j \in Camera!ToSet(taken)
    <3>1. j <= m \/ j \in {line[k][2] : k \in DOMAIN line}
                            \cup {buffer[k][2] : k \in DOMAIN buffer}
      <4>1. Row(ReportBytes, B, buffer, line, m, e)
        BY <1>0, <2>1, ReportBytesAre DEF Row
      <4>2. j \in 1 .. e
        OBVIOUS
      <4> HIDE DEF m, e, B
      <4>3. QED
        BY ONLY <4>1, <4>2, RowMissesNothing
    <3>2. j <= m => j \in Camera!ToSet(taken)
      <4> SUFFICES ASSUME j <= m PROVE j \in Camera!ToSet(taken)
        OBVIOUS
      <4>1. j \in 1 .. m /\ j \in DOMAIN taken
        BY <1>0
      <4> HIDE DEF m
      <4>2. taken[j] = j
        BY <2>1, <4>1
      <4>3. QED
        BY <4>1, <4>2 DEF Camera!ToSet
    <3>3. QED
      BY <3>1, <3>2 DEF Camera!Waiting
  <2>3. Camera!Missed = {}
    BY <2>2 DEF Camera!Missed, Camera!Undamaged
  <2>4. QED
    BY <1>0, <2>1, <2>3
<1>4. QED
  BY <1>1, <1>3 DEF Camera!AllInOrder

(* The invariant holds at the start. *)
LEMMA ReportsInit ==
  ASSUME Camera!Init, StreamsAssumption
  PROVE  ReportsInv
<1>1. /\ CameraCapacity \in Nat /\ CameraMaxLen \in Nat
      /\ MaxReports \in Nat /\ MaxReportLosses \in Nat
  BY CameraConstants
<1>2. line = << >> /\ buffer = << >> /\ sent = 0 /\ taken = << >> /\ damaged = {} /\ losses = 0
  BY DEF Camera!Init
<1>3. ReportsTyped
  BY <1>1, <1>2 DEF ReportsTyped
<1>4. ReportsWhole
  <2>1. InARow(ReportBytes, << >>, 0, 0)
    BY RowEmpty
  <2>2. buffer \o line = << >> /\ Len(taken) = 0 /\ taken = [k \in 1 .. Len(taken) |-> k]
        /\ Len(buffer) < 7
    BY <1>2
  <2>3. QED
    BY <1>2, <2>1, <2>2 DEF ReportsWhole
<1>5. QED
  BY <1>3, <1>4 DEF ReportsInv

(* A report sent keeps the invariant. *)
LEMMA ReportsSend ==
  ASSUME StreamsAssumption, ReportsInv, NEW f \in Camera!Frame, Camera!SendPacket(f)
  PROVE  ReportsInv'
<1> DEFINE more == [k \in DOMAIN f |-> << f[k], sent' >>]
           e == sent
           B == PacketByte(e + 1)
<1>1. /\ sent < MaxReports /\ sent' = sent + 1 /\ Len(line) + Len(f) <= CameraCapacity
      /\ line' = line \o more
      /\ buffer' = buffer /\ taken' = taken /\ damaged' = damaged /\ losses' = losses
  BY DEF Camera!SendPacket
<1>2. f \in ReportBytes
  BY ReportIsFrame
<1>3. f \in Seq(0 .. 255) /\ Len(f) >= 1 /\ DOMAIN f = 1 .. Len(f) /\ Len(f) \in Nat
  BY <1>2, ReportBytesAre
<1>4. /\ e \in Nat /\ MaxReports \in Nat /\ e <= MaxReports /\ taken \in Seq(0 .. e)
      /\ line \in Seq(PacketByte(e)) /\ buffer \in Seq(PacketByte(e))
      /\ damaged \subseteq 1 .. e /\ losses \in 0 .. MaxReportLosses
      /\ Len(buffer) <= CameraMaxLen
  BY CameraConstants DEF ReportsInv, ReportsTyped
<1>5. sent' = e + 1
  BY <1>1
<1>6. more \in Seq(B) /\ Len(more) = Len(f) /\ \A k \in 1 .. Len(f) : more[k] = << f[k], e + 1 >>
  <2>1. \A k \in 1 .. Len(f) : << f[k], e + 1 >> \in B
    BY <1>3, <1>4 DEF PacketByte
  <2>2. more = [k \in 1 .. Len(f) |-> << f[k], e + 1 >>]
    BY <1>3, <1>5
  <2> HIDE DEF more, B
  <2>3. QED
    BY <1>3, <2>1, <2>2
<1>7. line \in Seq(B) /\ buffer \in Seq(B) /\ taken \in Seq(0 .. e + 1)
  BY <1>4, PacketsGrow
<1> HIDE DEF more, B, e
<1>8. /\ line' \in Seq(B) /\ Len(line') = Len(line) + Len(f)
      /\ \A k \in 1 .. Len(line) + Len(f) :
           line'[k] = IF k <= Len(line) THEN line[k] ELSE more[k - Len(line)]
  <2>1. /\ line \o more \in Seq(B) /\ Len(line \o more) = Len(line) + Len(more)
        /\ \A k \in 1 .. Len(line) + Len(more) :
             (line \o more)[k] = IF k <= Len(line) THEN line[k] ELSE more[k - Len(line)]
    BY ONLY <1>6, <1>7, ConcatProperties
  <2>2. QED
    BY <1>1, <1>6, <2>1
<1>9. ReportsTyped'
  <2>2. /\ sent' \in 0 .. MaxReports /\ damaged' \subseteq 1 .. sent'
        /\ losses' \in 0 .. MaxReportLosses
        /\ Len(line') <= CameraCapacity /\ Len(buffer') <= CameraMaxLen
    BY <1>1, <1>4, <1>8 DEF e
  <2>3. line' \in Seq(PacketByte(sent')) /\ buffer' \in Seq(PacketByte(sent'))
        /\ taken' \in Seq(0 .. sent')
    BY <1>1, <1>5, <1>7, <1>8 DEF B
  <2>4. QED
    BY <2>2, <2>3 DEF ReportsTyped
<1>10. ASSUME losses = 0
       PROVE  /\ damaged = {} /\ Len(taken) <= e + 1 /\ Len(buffer) < 7
              /\ taken = [k \in 1 .. Len(taken) |-> k]
              /\ InARow(ReportBytes, buffer \o line', Len(taken), e + 1)
  <2> DEFINE m == Len(taken)
  <2>1. /\ damaged = {} /\ m <= e /\ taken = [k \in 1 .. m |-> k] /\ Len(buffer) < 7
        /\ InARow(ReportBytes, buffer \o line, m, e)
    BY <1>10 DEF ReportsInv, ReportsWhole, e
  <2>2. m \in Nat
    BY <1>4
  <2>3. OneMore(ReportBytes, B, buffer, line, line', m, e, f)
    <3>1. \A k \in 1 .. Len(line) : line'[k] = line[k]
      <4>1. \A k \in 1 .. Len(line) : k \in 1 .. Len(line) + Len(f) /\ k <= Len(line)
        BY <1>3, <1>4
      <4>2. QED
        BY <1>8, <4>1
    <3>2. \A k \in 1 .. Len(f) : line'[Len(line) + k] = << f[k], e + 1 >>
      <4>1. \A k \in 1 .. Len(f) : /\ Len(line) + k \in 1 .. Len(line) + Len(f)
                                   /\ ~(Len(line) + k <= Len(line))
                                   /\ Len(line) + k - Len(line) = k
        BY <1>3, <1>4
      <4>2. QED
        BY <1>6, <1>8, <4>1, SMTT(30)
    <3> HIDE DEF m
    <3>3. QED
      BY <1>2, <1>3, <1>4, <1>7, <1>8, <2>1, <2>2, <3>1, <3>2, ReportBytesAre DEF OneMore
  <2> HIDE DEF m
  <2>4. InARow(ReportBytes, buffer \o line', m, e + 1)
    BY ONLY <2>3, RowGrows
  <2>5. m <= e + 1
    BY <1>4, <2>1, <2>2
  <2>6. QED
    BY <2>1, <2>4, <2>5 DEF m
<1>11. ReportsWhole'
  BY <1>1, <1>5, <1>10 DEF ReportsWhole
<1>12. QED
  BY <1>9, <1>11 DEF ReportsInv

(* A byte lost keeps it: with a loss it says nothing of the order. *)
LEMMA ReportsLose ==
  ASSUME StreamsAssumption, ReportsInv, NEW k \in DOMAIN line, Camera!Lose(k)
  PROVE  ReportsInv'
<1> DEFINE B == PacketByte(sent)
<1>0. /\ line \in Seq(B) /\ Len(line) \in Nat /\ k \in 1 .. Len(line) /\ k \in k .. Len(line)
      /\ Len(line) <= CameraCapacity /\ CameraCapacity \in Nat
  BY CameraConstants DEF ReportsInv, ReportsTyped
<1>1. /\ losses < MaxReportLosses /\ losses' = losses + 1
      /\ line' = SubSeq(line, 1, k - 1) \o SubSeq(line, k + 1, Len(line))
      /\ damaged' = damaged \cup {line[k][2]}
      /\ buffer' = buffer /\ sent' = sent /\ taken' = taken
  BY DEF Camera!Lose, Camera!RemoveAt
<1>2. line' \in Seq(B) /\ Len(line') <= CameraCapacity
  <2> HIDE DEF B
  <2>1. line' \in Seq(B) /\ Len(line') = Len(line) - (k + 1 - k)
    BY <1>0, <1>1, CutOut
  <2>2. QED
    BY <1>0, <2>1
<1>3. damaged' \subseteq 1 .. sent
  <2>1. line[k] \in B
    <3> HIDE DEF B
    <3>1. QED
      BY <1>0
  <2>2. line[k][2] \in 1 .. sent
    BY <2>1 DEF PacketByte
  <2>3. damaged \subseteq 1 .. sent
    BY DEF ReportsInv, ReportsTyped
  <2>4. QED
    BY <1>1, <2>2, <2>3
<1>4. losses' \in 0 .. MaxReportLosses /\ losses' # 0
  BY <1>1, CameraConstants DEF ReportsInv, ReportsTyped
<1>5. ReportsTyped'
  BY <1>1, <1>2, <1>3, <1>4 DEF ReportsInv, ReportsTyped
<1>6. ReportsWhole'
  BY <1>4 DEF ReportsWhole
<1>7. QED
  BY <1>5, <1>6 DEF ReportsInv

(* A read and its parse keep it. *)
LEMMA ReportsRead ==
  ASSUME StreamsAssumption, ReportsInv, NEW arrived \in DOMAIN line, Camera!Read(arrived)
  PROVE  ReportsInv'
<1> DEFINE B == PacketByte(sent)
           v1 == SubSeq(line, 1, arrived)
           v2 == SubSeq(line, arrived + 1, Len(line))
           b == Camera!Extend(v1)
           parsed == Camera!TryParse(b)
<1>0. /\ line \in Seq(B) /\ buffer \in Seq(B) /\ sent \in Nat /\ Len(line) \in Nat
      /\ taken \in Seq(0 .. sent) /\ arrived \in 1 .. Len(line) /\ Len(buffer) \in Nat
      /\ Len(line) <= CameraCapacity /\ Len(buffer) <= CameraMaxLen
      /\ CameraCapacity \in Nat /\ CameraMaxLen \in Nat /\ CameraMaxLen >= CameraCapacity + 6
  BY CameraConstants DEF ReportsInv, ReportsTyped
<1>1. /\ line' = v2 /\ buffer' = parsed.rest /\ taken' = taken \o parsed.frames
      /\ sent' = sent /\ damaged' = damaged /\ losses' = losses
  BY DEF Camera!Read
<1>2. v1 \in Seq(B) /\ Len(v1) = arrived
  <2> HIDE DEF B
  <2>1. QED
    BY <1>0
<1>3. v2 \in Seq(B) /\ Len(v2) <= CameraCapacity
  <2>1. arrived + 1 \in 1 .. Len(line) + 1
    BY <1>0
  <2> HIDE DEF B
  <2>2. v2 \in Seq(B) /\ Len(v2) = Len(line) + 1 - (arrived + 1)
    BY <1>0, <2>1, RestIs
  <2> HIDE DEF v2
  <2>3. QED
    BY <1>0, <2>2
<1>4. b = IF Len(buffer) + Len(v1) > CameraMaxLen THEN v1 ELSE buffer \o v1
  BY DEF Camera!Extend
<1>5. buffer \o v1 \in Seq(B) /\ Len(buffer \o v1) = Len(buffer) + Len(v1)
  <2> HIDE DEF v1, B
  <2>1. QED
    BY ONLY <1>0, <1>2, ConcatProperties
<1> HIDE DEF v1, v2, b, parsed
<1>6. b \in Seq(B) /\ Len(b) <= CameraMaxLen /\ Len(b) \in Nat
  <2> HIDE DEF B
  <2>1. QED
    BY <1>0, <1>2, <1>4, <1>5
<1>7. PICK r \in 1 .. Len(b) + 1, out \in Seq(0 .. sent) :
        parsed = [rest |-> SubSeq(b, r, Len(b)), frames |-> out]
  BY <1>0, <1>6, ReportsParsed DEF PacketByte, parsed
<1>8. ReportsTyped'
  <2>1. parsed.rest = SubSeq(b, r, Len(b)) /\ parsed.frames = out
    BY <1>7
  <2> HIDE DEF B
  <2>2. parsed.rest \in Seq(B) /\ Len(parsed.rest) <= CameraMaxLen
    <3>1. parsed.rest \in Seq(B) /\ Len(parsed.rest) = Len(b) + 1 - r
      BY <1>6, <2>1, RestIs
    <3>2. QED
      BY <1>0, <1>6, <3>1
  <2>3. taken' \in Seq(0 .. sent)
    <3> DEFINE S == 0 .. sent
    <3>1. taken \in Seq(S) /\ out \in Seq(S)
      BY <1>0, <1>7
    <3> HIDE DEF S
    <3>2. taken \o out \in Seq(S)
      BY ONLY <3>1, ConcatProperties
    <3>3. QED
      BY <1>1, <2>1, <3>2 DEF S
  <2>4. QED
    BY <1>1, <1>3, <2>2, <2>3 DEF ReportsInv, ReportsTyped, B
<1>9. ASSUME losses = 0
      PROVE  /\ damaged = {} /\ Len(taken') <= sent /\ Len(parsed.rest) < 7
             /\ taken' = [k \in 1 .. Len(taken') |-> k]
             /\ InARow(ReportBytes, parsed.rest \o v2, Len(taken'), sent)
  <2> DEFINE m == Len(taken)
             t == [x \in 1 .. Len(b) + 1 |-> ReportTurn(b, x)]
  <2>1. /\ damaged = {} /\ m <= sent /\ m \in Nat /\ taken = [k \in 1 .. m |-> k]
        /\ Len(buffer) < 7 /\ InARow(ReportBytes, buffer \o line, m, sent)
    <3>1. m \in Nat
      BY <1>0
    <3>2. QED
      BY <1>9, <3>1 DEF ReportsInv, ReportsWhole
  <2>2. b = buffer \o SubSeq(line, 1, arrived)
    <3>1. ~(Len(buffer) + Len(v1) > CameraMaxLen)
      BY <1>0, <1>2, <2>1
    <3>2. QED
      BY <1>4, <3>1 DEF v1
  <2>3. PICK f : Runs(f, t, Len(b) + 1) /\ parsed = f[1]
    BY <1>0, <1>6, ReportParser DEF PacketByte, parsed
  <2>4. WholeTurns(ReportBytes, b, t)
    <3> HIDE DEF B
    <3>1. QED
      BY <1>6, ReportWholeTurns
  <2>5. RowIsParsed(ReportBytes, B, buffer, line, m, sent, arrived, b, f, t, taken)
    <3> HIDE DEF m, B, t
    <3>1. QED
      BY <1>0, <2>1, <2>2, <2>3, <2>4, ReportBytesAre DEF RowIsParsed, Row
  <2>6. RowAfter(ReportBytes, B, line, sent, arrived, parsed, taken)
        /\ RestShort(ReportBytes, parsed.rest)
    <3>1. RowAfter(ReportBytes, B, line, sent, arrived, f[1], taken)
          /\ RestShort(ReportBytes, f[1].rest)
      <4> HIDE DEF m, B, t
      <4>1. QED
        BY ONLY <2>5, RowParses
    <3>2. QED
      BY <2>3, <3>1
  <2>7. PICK n \in 0 .. sent :
          /\ taken \o parsed.frames = [k \in 1 .. n |-> k]
          /\ Row(ReportBytes, B, parsed.rest, v2, n, sent)
    BY <2>6 DEF RowAfter, v2
  <2>8. taken' = [k \in 1 .. n |-> k] /\ n \in Nat
    BY <1>1, <2>7
  <2>9. Len(taken') = n
    BY <2>8
  <2>10. Len(parsed.rest) < 7
    BY <2>6, ReportBytesAre DEF RestShort
  <2>11. QED
    BY <2>1, <2>7, <2>8, <2>9, <2>10 DEF Row
<1>10. ReportsWhole'
  BY <1>1, <1>9 DEF ReportsWhole
<1>11. QED
  BY <1>8, <1>10 DEF ReportsInv

(* The other links leave it alone. *)
LEMMA ReportsRest ==
  ASSUME ReportsInv, UNCHANGED frameVars
  PROVE  ReportsInv'
BY DEF ReportsInv, ReportsTyped, ReportsWhole, frameVars

(* Camera (uart4_try_parse): without losses every report is dispatched     *)
(* once and in order, less than a frame waits, and the parse buffer is     *)
(* never overrun, whatever the coordinates, the capacities and the reads.  *)
THEOREM ReportsArriveInOrder == StreamsSpec => []ReportsInOrder
<1> DEFINE Inv == link = "camera" => ReportsInv
<1>1. StreamsInit => Inv
  <2> SUFFICES ASSUME StreamsInit, link = "camera" PROVE ReportsInv
    OBVIOUS
  <2>1. Camera!Init
    BY DEF StreamsInit
  <2>2. QED
    BY <2>1, ReportsInit, StreamsAssumption
<1>2. Inv /\ [StreamsNext]_<< link, commandVars, forgeVars, otherVars >> => Inv'
  <2> SUFFICES ASSUME Inv, [StreamsNext]_<< link, commandVars, forgeVars, otherVars >>,
                      link' = "camera"
               PROVE  ReportsInv'
    OBVIOUS
  <2>1. CASE CameraStep
    <3>1. ReportsInv /\ Camera!Next
      BY <2>1 DEF CameraStep
    <3>2. ASSUME NEW f \in Camera!Frame, Camera!SendPacket(f) PROVE ReportsInv'
      BY <3>1, <3>2, ReportsSend, StreamsAssumption
    <3>3. ASSUME NEW k \in DOMAIN line, Camera!Lose(k) PROVE ReportsInv'
      BY <3>1, <3>3, ReportsLose, StreamsAssumption
    <3>4. ASSUME NEW arrived \in DOMAIN line, Camera!Read(arrived) PROVE ReportsInv'
      BY <3>1, <3>4, ReportsRead, StreamsAssumption
    <3>5. QED
      BY <3>1, <3>2, <3>3, <3>4 DEF Camera!Next
  <2>2. CASE ~CameraStep
    <3>1. UNCHANGED << link, commandVars, forgeVars, otherVars >>
      <4>1. link' = link
        BY DEF StreamsNext, CommandStep, ForgeStep, CameraStep, StallStep, PacketStep,
               RangingStep, CutsStep, Rest
      <4>2. QED
        BY <2>2, <4>1 DEF StreamsNext, CommandStep, ForgeStep, StallStep, PacketStep,
                          RangingStep, CutsStep
    <3>2. link = "camera" /\ UNCHANGED frameVars
      BY <3>1 DEF otherVars
    <3>3. QED
      BY <3>2, ReportsRest
  <2>3. QED
    BY <2>1, <2>2
<1>3. Inv => ReportsInOrder
  BY ReportsInvHolds DEF ReportsInOrder
<1>4. QED
  BY <1>1, <1>2, <1>3, PTL DEF StreamsSpec
=============================================================================
