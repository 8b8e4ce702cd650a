----------------------------- MODULE RangingProofs -----------------------------
(***************************************************************************)
(* Proofs about the readings of the range finder (RangingLink), for every  *)
(* size of its buffer and every run of readings: what the parser of        *)
(* usart1_port.c uses after bytes were lost and noise came in. A lost byte *)
(* leaves no two frames in a row, so the invariant here is about the       *)
(* numbered bytes on their way and the places they came from.              *)
(***************************************************************************)
EXTENDS StreamsProofs


-----------------------------------------------------------------------------
(* The bytes on their way: those kept by the parser and those in the port. *)
LEMMA Joined ==
  ASSUME NEW B, NEW u \in Seq(B), NEW v \in Seq(B)
  PROVE  /\ u \o v \in Seq(B) /\ Len(u \o v) = Len(u) + Len(v)
         /\ \A x \in 1 .. Len(u) : (u \o v)[x] = u[x]
         /\ \A x \in 1 .. Len(v) : (u \o v)[Len(u) + x] = v[x]
<1> DEFINE s == u \o v
<1>1. /\ s \in Seq(B) /\ Len(s) = Len(u) + Len(v) /\ Len(u) \in Nat /\ Len(v) \in Nat
      /\ \A x \in 1 .. Len(u) + Len(v) : s[x] = IF x <= Len(u) THEN u[x] ELSE v[x - Len(u)]
  BY ConcatProperties
<1> HIDE DEF s
<1>2. ASSUME NEW x \in 1 .. Len(u) PROVE s[x] = u[x]
  BY <1>1
<1>3. ASSUME NEW x \in 1 .. Len(v) PROVE s[Len(u) + x] = v[x]
  <2> DEFINE z == Len(u) + x
  <2>1. z \in 1 .. Len(u) + Len(v) /\ ~(z <= Len(u)) /\ z - Len(u) = x
    BY <1>1
  <2> HIDE DEF z
  <2>2. s[z] = IF z <= Len(u) THEN u[z] ELSE v[z - Len(u)]
    BY ONLY <1>1, <2>1
  <2>3. s[z] = v[z - Len(u)]
    BY ONLY <2>1, <2>2
  <2>4. QED
    BY <2>1, <2>3 DEF z
<1>4. QED
  BY <1>1, <1>2, <1>3 DEF s

Longer(s, t, z) ==
  /\ Len(t) = Len(s) + Len(z)
  /\ \A x \in 1 .. Len(s) : t[x] = s[x]
  /\ \A x \in 1 .. Len(z) : t[Len(s) + x] = z[x]

(* Bytes written at the end of the line come last on the way. *)
LEMMA JoinedMore ==
  ASSUME NEW B, NEW u \in Seq(B), NEW v \in Seq(B), NEW z \in Seq(B)
  PROVE  u \o (v \o z) \in Seq(B) /\ Longer(u \o v, u \o (v \o z), z)
<1> DEFINE s == u \o v
           w == v \o z
           t == u \o w
<1>0. Len(u) \in Nat /\ Len(v) \in Nat /\ Len(z) \in Nat
  OBVIOUS
<1>1. /\ s \in Seq(B) /\ Len(s) = Len(u) + Len(v)
      /\ \A x \in 1 .. Len(u) : s[x] = u[x]
      /\ \A x \in 1 .. Len(v) : s[Len(u) + x] = v[x]
  BY Joined
<1>2. /\ w \in Seq(B) /\ Len(w) = Len(v) + Len(z)
      /\ \A x \in 1 .. Len(v) : w[x] = v[x]
      /\ \A x \in 1 .. Len(z) : w[Len(v) + x] = z[x]
  BY Joined
<1> HIDE DEF s, w
<1>2a. u \in Seq(B) /\ w \in Seq(B)
  BY <1>2
<1>3. /\ t \in Seq(B) /\ Len(t) = Len(u) + Len(w)
      /\ \A x \in 1 .. Len(u) : t[x] = u[x]
      /\ \A x \in 1 .. Len(w) : t[Len(u) + x] = w[x]
  BY ONLY <1>2a, Joined
<1> HIDE DEF t
<1>4. Len(t) = Len(s) + Len(z)
  BY <1>0, <1>1, <1>2, <1>3
<1>5. ASSUME NEW x \in 1 .. Len(s) PROVE t[x] = s[x]
  <2>1. CASE x <= Len(u)
    BY <1>0, <1>1, <1>3, <2>1
  <2>2. CASE ~(x <= Len(u))
    <3> DEFINE j == x - Len(u)
    <3>1. j \in 1 .. Len(v) /\ j \in 1 .. Len(w) /\ Len(u) + j = x
      BY <1>0, <1>1, <1>2, <2>2
    <3> HIDE DEF j
    <3>2. s[Len(u) + j] = v[j] /\ w[j] = v[j] /\ t[Len(u) + j] = w[j]
      BY ONLY <1>1, <1>2, <1>3, <3>1
    <3>3. QED
      BY ONLY <3>1, <3>2
  <2>3. QED
    BY <2>1, <2>2
<1>6. ASSUME NEW x \in 1 .. Len(z) PROVE t[Len(s) + x] = z[x]
  <2> DEFINE j == Len(v) + x
  <2>1. j \in 1 .. Len(w) /\ Len(u) + j = Len(s) + x
    BY <1>0, <1>1, <1>2
  <2>2. w[j] = z[x]
    BY <1>2
  <2> HIDE DEF j
  <2>3. t[Len(u) + j] = w[j]
    BY ONLY <1>3, <2>1
  <2>4. QED
    BY ONLY <2>1, <2>2, <2>3
<1>7. t \in Seq(B) /\ Longer(s, t, z)
  BY <1>3, <1>4, <1>5, <1>6 DEF Longer
<1>8. QED
  BY <1>7 DEF s, t, w

Over(p, x) == IF x < p THEN x ELSE x + 1

Shorter(s, t, p) ==
  /\ Len(t) = Len(s) - 1
  /\ \A x \in 1 .. Len(t) : t[x] = s[Over(p, x)]

(* A line without one of its bytes. *)
LEMMA Without ==
  ASSUME NEW B, NEW v \in Seq(B), NEW k \in 1 .. Len(v)
  PROVE  /\ SubSeq(v, 1, k - 1) \o SubSeq(v, k + 1, Len(v)) \in Seq(B)
         /\ Shorter(v, SubSeq(v, 1, k - 1) \o SubSeq(v, k + 1, Len(v)), k)
<1> DEFINE a == SubSeq(v, 1, k - 1)
           b == SubSeq(v, k + 1, Len(v))
           w == a \o b
<1>0. Len(v) \in Nat /\ k + 1 \in 1 .. Len(v) + 1
  OBVIOUS
<1>1. a \in Seq(B) /\ Len(a) = k - 1 /\ \A x \in 1 .. k - 1 : a[x] = v[x]
  <2>1. \A x \in 1 .. k - 1 : v[x] \in B
    OBVIOUS
  <2>2. 1 \in Int /\ k - 1 \in Int
    OBVIOUS
  <2>3. /\ a \in Seq(B) /\ Len(a) = IF 1 <= k - 1 THEN (k - 1) - 1 + 1 ELSE 0
        /\ \A x \in 1 .. (k - 1) - 1 + 1 : a[x] = v[1 + x - 1]
    BY <2>1, <2>2, SubSeqProperties
  <2> HIDE DEF a
  <2>4. (k - 1) - 1 + 1 = k - 1 /\ \A x \in 1 .. k - 1 : 1 + x - 1 = x
    OBVIOUS
  <2>5. QED
    BY <2>3, <2>4
<1>2. /\ b \in Seq(B) /\ Len(b) = Len(v) - k
      /\ \A x \in 1 .. Len(v) - k : b[x] = v[k + x]
  <2>1. /\ b \in Seq(B) /\ Len(b) = Len(v) + 1 - (k + 1)
        /\ \A x \in 1 .. Len(v) + 1 - (k + 1) : b[x] = v[(k + 1) + x - 1]
    BY <1>0, RestIs
  <2> HIDE DEF b
  <2>2. Len(v) + 1 - (k + 1) = Len(v) - k
    BY <1>0
  <2>3. ASSUME NEW x \in 1 .. Len(v) - k PROVE b[x] = v[k + x]
    <3>1. x \in 1 .. Len(v) + 1 - (k + 1) /\ (k + 1) + x - 1 = k + x
      BY <1>0
    <3>2. b[x] = v[(k + 1) + x - 1]
      BY <2>1, <3>1
    <3>3. QED
      BY <3>1, <3>2
  <2>4. QED
    BY <2>1, <2>2, <2>3
<1> HIDE DEF a, b
<1>2a. a \in Seq(B) /\ b \in Seq(B)
  BY <1>1, <1>2
<1>3. /\ w \in Seq(B) /\ Len(w) = Len(a) + Len(b)
      /\ \A x \in 1 .. Len(a) : w[x] = a[x]
      /\ \A x \in 1 .. Len(b) : w[Len(a) + x] = b[x]
  BY ONLY <1>2a, Joined
<1> HIDE DEF w
<1>4. Len(w) = Len(v) - 1
  BY <1>0, <1>1, <1>2, <1>3
<1>5. ASSUME NEW x \in 1 .. Len(w) PROVE w[x] = v[Over(k, x)]
  <2>1. CASE x < k
    <3>1. x \in 1 .. k - 1 /\ Over(k, x) = x
      BY <2>1 DEF Over
    <3>2. QED
      BY <1>1, <1>3, <3>1
  <2>2. CASE ~(x < k)
    <3> DEFINE j == x - (k - 1)
    <3>1. j \in 1 .. Len(v) - k /\ Len(a) + j = x /\ k + j = Over(k, x)
      BY <1>0, <1>1, <1>4, <2>2 DEF Over
    <3> HIDE DEF j
    <3>2. w[Len(a) + j] = b[j] /\ b[j] = v[k + j]
      BY ONLY <1>2, <1>3, <3>1
    <3>3. QED
      BY ONLY <3>1, <3>2
  <2>3. QED
    BY <2>1, <2>2
<1>6. QED
  BY <1>3, <1>4, <1>5 DEF Shorter, w, a, b

(* A byte lost on the line is one byte less on the way. *)
LEMMA JoinedLess ==
  ASSUME NEW B, NEW u \in Seq(B), NEW v \in Seq(B), NEW k \in 1 .. Len(v),
         NEW w \in Seq(B), Shorter(v, w, k)
  PROVE  u \o w \in Seq(B) /\ Shorter(u \o v, u \o w, Len(u) + k)
<1> DEFINE s == u \o v
           t == u \o w
<1>0. /\ Len(u) \in Nat /\ Len(v) \in Nat /\ Len(w) \in Nat /\ k \in Int /\ 1 <= k /\ k <= Len(v)
      /\ Len(w) = Len(v) - 1 /\ \A x \in 1 .. Len(w) : w[x] = v[Over(k, x)]
  BY DEF Shorter
<1>1. /\ s \in Seq(B) /\ Len(s) = Len(u) + Len(v)
      /\ \A x \in 1 .. Len(u) : s[x] = u[x]
      /\ \A x \in 1 .. Len(v) : s[Len(u) + x] = v[x]
  BY Joined
<1>2. /\ t \in Seq(B) /\ Len(t) = Len(u) + Len(w)
      /\ \A x \in 1 .. Len(u) : t[x] = u[x]
      /\ \A x \in 1 .. Len(w) : t[Len(u) + x] = w[x]
  BY Joined
<1> HIDE DEF s, t
<1>3. Len(t) = Len(s) - 1
  BY <1>0, <1>1, <1>2
<1>4. ASSUME NEW x \in 1 .. Len(t) PROVE t[x] = s[Over(Len(u) + k, x)]
  <2>1. CASE x <= Len(u)
    <3>1. x \in 1 .. Len(u) /\ Over(Len(u) + k, x) = x
      BY <1>0, <2>1 DEF Over
    <3>2. QED
      BY <1>1, <1>2, <3>1
  <2>2. CASE ~(x <= Len(u))
    <3> DEFINE j == x - Len(u)
               h == Over(k, j)
    <3>1. /\ j \in 1 .. Len(w) /\ Len(u) + j = x /\ h \in 1 .. Len(v)
          /\ Over(Len(u) + k, x) = Len(u) + h
      BY <1>0, <1>2, <2>2 DEF Over
    <3>2. t[Len(u) + j] = w[j] /\ w[j] = v[h] /\ s[Len(u) + h] = v[h]
      <4> HIDE DEF j
      <4>1. w[j] = v[h]
        BY <1>0, <3>1
      <4> HIDE DEF h
      <4>2. QED
        BY ONLY <1>1, <1>2, <3>1, <4>1
    <3> HIDE DEF j, h
    <3>3. QED
      BY ONLY <3>1, <3>2
  <2>3. QED
    BY <2>1, <2>2
<1>5. QED
  BY <1>2, <1>3, <1>4 DEF Shorter, s, t

Prefix(s, b) == Len(b) <= Len(s) /\ \A x \in 1 .. Len(b) : b[x] = s[x]

Later(s, t, r) ==
  /\ Len(t) = Len(s) + 1 - r
  /\ \A x \in 1 .. Len(t) : t[x] = s[x + r - 1]

(* b is what was kept, u, and the part of v that is read; the parser may   *)
(* keep it from any place.                                                 *)
IsRead(B, u, v, c, b) ==
  u \in Seq(B) /\ v \in Seq(B) /\ c \in 1 .. Len(v) /\ b = u \o SubSeq(v, 1, c)

KeptFrom(B, s, b, w) ==
  \A r \in 1 .. Len(b) + 1 :
    SubSeq(b, r, Len(b)) \o w \in Seq(B) /\ Later(s, SubSeq(b, r, Len(b)) \o w, r)

(* What a read brings, and what it leaves of the way whatever the parser keeps. *)
LEMMA JoinedRead ==
  ASSUME NEW B, NEW u, NEW v, NEW c, NEW b, IsRead(B, u, v, c, b)
  PROVE  /\ b \in Seq(B) /\ Len(b) = Len(u) + c /\ Prefix(u \o v, b)
         /\ KeptFrom(B, u \o v, b, SubSeq(v, c + 1, Len(v)))
<1> DEFINE s == u \o v
           v1 == SubSeq(v, 1, c)
           v2 == SubSeq(v, c + 1, Len(v))
<1>0. /\ u \in Seq(B) /\ v \in Seq(B) /\ c \in 1 .. Len(v) /\ b = u \o v1
      /\ Len(u) \in Nat /\ Len(v) \in Nat /\ c \in Nat /\ c <= Len(v)
  BY DEF IsRead
<1>1. /\ s \in Seq(B) /\ Len(s) = Len(u) + Len(v)
      /\ \A x \in 1 .. Len(u) : s[x] = u[x]
      /\ \A x \in 1 .. Len(v) : s[Len(u) + x] = v[x]
  <2>1. u \in Seq(B) /\ v \in Seq(B)
    BY <1>0
  <2>2. QED
    BY ONLY <2>1, Joined
<1>2. v1 \in Seq(B) /\ Len(v1) = c /\ \A x \in 1 .. c : v1[x] = v[x]
  <2>1. v \in Seq(B) /\ c \in 1 .. Len(v)
    BY <1>0
  <2>2. QED
    BY ONLY <2>1
<1>3. v2 \in Seq(B) /\ Len(v2) = Len(v) - c /\ \A x \in 1 .. Len(v) - c : v2[x] = v[c + x]
  <2>1. c + 1 \in 1 .. Len(v) + 1 /\ Len(v) + 1 - (c + 1) = Len(v) - c
        /\ \A x \in Int : c + 1 + x - 1 = c + x
    BY <1>0
  <2>1a. v \in Seq(B) /\ c + 1 \in 1 .. Len(v) + 1
    BY <1>0, <2>1
  <2>2. /\ v2 \in Seq(B) /\ Len(v2) = Len(v) + 1 - (c + 1)
        /\ \A x \in 1 .. Len(v) + 1 - (c + 1) : v2[x] = v[c + 1 + x - 1]
    BY ONLY <2>1a, RestIs
  <2> HIDE DEF v2
  <2>3. ASSUME NEW x \in 1 .. Len(v) - c PROVE v2[x] = v[c + x]
    <3>1. x \in 1 .. Len(v) + 1 - (c + 1) /\ c + 1 + x - 1 = c + x
      BY <1>0
    <3>2. v2[x] = v[c + 1 + x - 1]
      BY <2>2, <3>1
    <3>3. QED
      BY <3>1, <3>2
  <2>4. QED
    BY <2>1, <2>2, <2>3
<1>3a. b = u \o v1 /\ u \in Seq(B)
  BY <1>0
<1> HIDE DEF s, v1, v2
<1>4. /\ b \in Seq(B) /\ Len(b) = Len(u) + c
      /\ \A x \in 1 .. Len(u) : b[x] = u[x]
      /\ \A x \in 1 .. c : b[Len(u) + x] = v1[x]
  <2>1. u \in Seq(B) /\ v1 \in Seq(B)
    BY <1>2, <1>3a
  <2>2. /\ u \o v1 \in Seq(B) /\ Len(u \o v1) = Len(u) + Len(v1)
        /\ \A x \in 1 .. Len(u) : (u \o v1)[x] = u[x]
        /\ \A x \in 1 .. Len(v1) : (u \o v1)[Len(u) + x] = v1[x]
    BY ONLY <2>1, Joined
  <2>3. QED
    BY <1>2, <1>3a, <2>2
<1>5. ASSUME NEW x \in 1 .. Len(b) PROVE b[x] = s[x]
  <2>1. CASE x <= Len(u)
    BY <1>0, <1>1, <1>4, <2>1
  <2>2. CASE ~(x <= Len(u))
    <3> DEFINE j == x - Len(u)
    <3>1. j \in 1 .. c /\ j \in 1 .. Len(v) /\ Len(u) + j = x
      BY <1>0, <1>4, <2>2
    <3> HIDE DEF j
    <3>2. b[Len(u) + j] = v1[j] /\ v1[j] = v[j] /\ s[Len(u) + j] = v[j]
      BY ONLY <1>1, <1>2, <1>4, <3>1
    <3>3. QED
      BY ONLY <3>1, <3>2
  <2>3. QED
    BY <2>1, <2>2
<1>6. Prefix(s, b)
  BY <1>0, <1>1, <1>4, <1>5 DEF Prefix
<1>7. ASSUME NEW r \in 1 .. Len(b) + 1
      PROVE  SubSeq(b, r, Len(b)) \o v2 \in Seq(B) /\ Later(s, SubSeq(b, r, Len(b)) \o v2, r)
  <2> DEFINE a == SubSeq(b, r, Len(b))
             t == a \o v2
  <2>0. b \in Seq(B) /\ r \in 1 .. Len(b) + 1
    BY <1>4
  <2>1. /\ a \in Seq(B) /\ Len(a) = Len(b) + 1 - r
        /\ \A x \in 1 .. Len(b) + 1 - r : a[x] = b[r + x - 1]
    BY ONLY <2>0, RestIs
  <2> HIDE DEF a
  <2>1a. a \in Seq(B) /\ v2 \in Seq(B)
    BY <1>3, <2>1
  <2>2. /\ t \in Seq(B) /\ Len(t) = Len(a) + Len(v2)
        /\ \A x \in 1 .. Len(a) : t[x] = a[x]
        /\ \A x \in 1 .. Len(v2) : t[Len(a) + x] = v2[x]
    BY ONLY <2>1a, Joined
  <2> HIDE DEF t
  <2>3. Len(t) = Len(s) + 1 - r
    BY <1>0, <1>1, <1>3, <1>4, <2>1, <2>2
  <2>4. ASSUME NEW x \in 1 .. Len(t) PROVE t[x] = s[x + r - 1]
    <3>1. CASE x <= Len(a)
      <4> DEFINE h == r + x - 1
      <4>1. x \in 1 .. Len(b) + 1 - r /\ x \in 1 .. Len(a) /\ h \in 1 .. Len(b) /\ h = x + r - 1
        BY <1>0, <1>4, <2>1, <3>1
      <4>2. a[x] = b[h]
        BY <2>1, <4>1
      <4> HIDE DEF h
      <4>3. t[x] = a[x] /\ b[h] = s[h]
        BY ONLY <1>5, <2>2, <4>1
      <4>4. QED
        BY ONLY <4>1, <4>2, <4>3
    <3>2. CASE ~(x <= Len(a))
      <4> DEFINE j == x - Len(a)
                 h == c + j
      <4>0. /\ x \in 1 .. Len(t) /\ Len(t) = Len(a) + Len(v2) /\ Len(v2) = Len(v) - c
            /\ Len(a) \in Nat /\ Len(v) \in Nat /\ Len(v2) \in Nat /\ c \in Nat
        BY <1>0, <1>3, <2>1, <2>2
      <4>1. j \in 1 .. Len(v2) /\ j \in 1 .. Len(v) - c /\ Len(a) + j = x
        BY ONLY <3>2, <4>0
      <4>2. h \in 1 .. Len(v) /\ Len(u) + h = x + r - 1
        BY <1>0, <1>4, <2>1, <4>1
      <4>3. v2[j] = v[h]
        BY <1>3, <4>1
      <4> HIDE DEF j, h
      <4>4. t[Len(a) + j] = v2[j] /\ s[Len(u) + h] = v[h]
        BY ONLY <1>1, <2>2, <4>1, <4>2
      <4>5. QED
        BY ONLY <4>1, <4>2, <4>3, <4>4
    <3>3. QED
      BY <3>1, <3>2
  <2>5. QED
    BY <2>2, <2>3, <2>4 DEF Later, t, a
<1>8. KeptFrom(B, s, b, v2)
  BY <1>7 DEF KeptFrom
<1>9. QED
  BY <1>4, <1>6, <1>8 DEF s, v2

-----------------------------------------------------------------------------
(* Ranging (usart1_port.c, VL53_DMA.c)                                     *)

Distances == 0 .. 9999
Units == {1, 10, 100, 1000}

Place(v, u) == (v \div u) % 10

(* A character of a reading is a space or a digit, and is read as its place. *)
LEMMA CharIs ==
  ASSUME NEW v \in Distances, NEW u \in Units
  PROVE  /\ Ranging!Char(v, u) = 32 \/ Ranging!Char(v, u) \in 48 .. 57
         /\ Ranging!Digit(Ranging!Char(v, u)) = Place(v, u)
<1>0. v \in 0 .. 9999 /\ (u = 1 \/ u = 10 \/ u = 100 \/ u = 1000)
  BY DEF Units, Distances
<1> DEFINE q == v \div u
           d == q % 10
           c == Ranging!Char(v, u)
<1>1. q \in Nat /\ (v < u => q = 0)
  <2>1. CASE u = 1
    BY <1>0, <2>1
  <2>2. CASE u = 10
    BY <1>0, <2>2
  <2>3. CASE u = 100
    BY <1>0, <2>3
  <2>4. CASE u = 1000
    BY <1>0, <2>4
  <2>5. QED
    BY <1>0, <2>1, <2>2, <2>3, <2>4
<1>2. c = IF v < u /\ u > 1 THEN 32 ELSE 48 + d
  BY DEF Ranging!Char
<1>3. Ranging!Digit(c) = IF c = 32 THEN 0 ELSE (c - 48) % 256
  BY DEF Ranging!Digit
<1> HIDE DEF q, c
<1>4. d \in 0 .. 9 /\ (q = 0 => d = 0)
  BY <1>1
<1> HIDE DEF d
<1>6. c = 32 \/ c \in 48 .. 57
  BY <1>2, <1>4
<1>7. Ranging!Digit(c) = d
  <2>1. CASE v < u /\ u > 1
    BY <1>1, <1>2, <1>3, <1>4, <2>1
  <2>2. CASE ~(v < u /\ u > 1)
    <3>1. c = 48 + d /\ c # 32
      BY <1>2, <1>4, <2>2
    <3> DEFINE m == (c - 48) % 256
    <3>2. c - 48 = d /\ d % 256 = d
      BY <1>4, <3>1
    <3>3. m = d
      BY <3>2
    <3>4. Ranging!Digit(c) = IF c = 32 THEN 0 ELSE m
      BY <1>3
    <3> HIDE DEF m
    <3>5. QED
      BY <3>1, <3>3, <3>4
  <2>3. QED
    BY <2>1, <2>2
<1>8. QED
  BY <1>6, <1>7 DEF c, d, q, Place

Decimals(a, b, c, d) == (a * 1000 + b * 100 + c * 10 + d) % 65536

(* The four digits of a distance make the distance. *)
LEMMA Decimal ==
  ASSUME NEW v \in Distances
  PROVE  Decimals(Place(v, 1000), Place(v, 100), Place(v, 10), Place(v, 1)) = v
<1>0. v \in 0 .. 9999
  BY DEF Distances
<1> DEFINE q1 == v \div 10
           q2 == v \div 100
           q3 == v \div 1000
           d0 == v % 10
           d1 == q1 % 10
           d2 == q2 % 10
           d3 == q3 % 10
<1>1. v = 10 * q1 + d0 /\ d0 \in 0 .. 9 /\ q1 \in Nat
  BY <1>0
<1>2. q1 = 10 * q2 + d1 /\ q2 \in Nat /\ d1 \in 0 .. 9
  <2> DEFINE r == v % 100
             h == q1 \div 10
  <2>1. v = 100 * q2 + r /\ r \in 0 .. 99 /\ q2 \in Nat
    BY <1>0
  <2> HIDE DEF q1
  <2>2. q1 = 10 * h + d1 /\ d1 \in 0 .. 9 /\ h \in Nat
    BY <1>1
  <2> HIDE DEF q2, r, h, d0, d1
  <2>3. h = q2
    BY ONLY <1>1, <2>1, <2>2
  <2>4. QED
    BY <2>1, <2>2, <2>3
<1>3. q2 = 10 * q3 + d2 /\ q3 \in 0 .. 9
  <2> DEFINE r == v % 100
             w == v % 1000
             h == q2 \div 10
  <2>1. v = 100 * q2 + r /\ r \in 0 .. 99 /\ q2 \in Nat
    BY <1>0
  <2>1a. v = 1000 * q3 + w /\ w \in 0 .. 999 /\ q3 \in Nat
    BY <1>0
  <2> HIDE DEF q2
  <2>2. q2 = 10 * h + d2 /\ d2 \in 0 .. 9 /\ h \in Nat
    BY <2>1
  <2> DEFINE z == 100 * d2 + r
  <2> HIDE DEF q3, r, h, w, d2
  <2>3. z \in 0 .. 999 /\ v = 1000 * h + z
    BY ONLY <2>1, <2>2
  <2> HIDE DEF z
  <2>4. w \in Int /\ z \in Int /\ q3 \in Int /\ h \in Int
    BY <2>1a, <2>2, <2>3
  <2>5. 1000 * h + z = 1000 * q3 + w /\ 0 <= z /\ z <= 999 /\ 0 <= w /\ w <= 999
    BY <2>1a, <2>3
  <2>5a. h = q3
    BY ONLY <2>4, <2>5
  <2>5b. q3 <= 9
    BY ONLY <1>0, <2>1a
  <2>6. QED
    BY <2>1a, <2>2, <2>5a, <2>5b
<1>4. d3 = q3
  <2> HIDE DEF q3
  <2>1. QED
    BY <1>3
<1>5. v \div 1 = v
  BY <1>0
<1> HIDE DEF q1, q2, q3, d0, d1, d2, d3
<1>6. d3 * 1000 + d2 * 100 + d1 * 10 + d0 = v
  <2>1. d1 = q1 - 10 * q2 /\ d2 = q2 - 10 * q3
    BY <1>1, <1>2, <1>3, d1 \in Int, d2 \in Int DEF d1, d2
  <2>2. QED
    BY <1>1, <1>2, <1>3, <1>4, <2>1
<1>7. v % 65536 = v
  BY <1>0
<1>7a. Decimals(d3, d2, d1, d0) = v
  <2> DEFINE z == d3 * 1000 + d2 * 100 + d1 * 10 + d0
  <2>1. z = v
    BY <1>6
  <2>2. Decimals(d3, d2, d1, d0) = z % 65536
    BY DEF Decimals
  <2> HIDE DEF z
  <2>3. QED
    BY ONLY <1>7, <2>1, <2>2
<1>8. QED
  <2>1. Place(v, 1000) = d3 /\ Place(v, 100) = d2 /\ Place(v, 10) = d1 /\ Place(v, 1) = d0
    BY <1>5 DEF Place, d0, d1, d2, d3, q1, q2, q3
  <2>2. QED
    BY ONLY <1>7a, <2>1

(* A reading begins with "e", ends with "m", and has neither in between. *)
LEMMA ReadingIs ==
  ASSUME NEW v \in Distances
  PROVE  /\ \A j \in 1 .. 7 : Ranging!Reading(v)[j] \in 0 .. 255
         /\ Ranging!Reading(v)[1] = 101 /\ Ranging!Reading(v)[2] = 58
         /\ Ranging!Reading(v)[7] = 109
         /\ \A j \in 1 .. 7 : Ranging!Reading(v)[j] = 101 => j = 1
         /\ \A j \in 1 .. 7 : Ranging!Reading(v)[j] = 109 => j = 7
<1> DEFINE r == Ranging!Reading(v)
           a == Ranging!Char(v, 1000)
           b == Ranging!Char(v, 100)
           c == Ranging!Char(v, 10)
           d == Ranging!Char(v, 1)
<1>1. /\ a = 32 \/ a \in 48 .. 57
      /\ b = 32 \/ b \in 48 .. 57
      /\ c = 32 \/ c \in 48 .. 57
      /\ d = 32 \/ d \in 48 .. 57
  <2>2. QED
    <3>1. 1000 \in Units /\ 100 \in Units /\ 10 \in Units /\ 1 \in Units
      BY DEF Units
    <3>2. QED
      BY <3>1, CharIs
<1>2. r = << 101, 58, a, b, c, d, 109 >>
  BY DEF Ranging!Reading, Ranging!HEAD1, Ranging!HEAD2, Ranging!TAIL
<1> HIDE DEF r, a, b, c, d
<1>3. r[1] = 101 /\ r[2] = 58 /\ r[3] = a /\ r[4] = b /\ r[5] = c /\ r[6] = d /\ r[7] = 109
  BY <1>2
<1>4. \A j \in 1 .. 7 : j = 1 \/ j = 2 \/ j = 3 \/ j = 4 \/ j = 5 \/ j = 6 \/ j = 7
  OBVIOUS
<1>5. \A j \in 1 .. 7 : r[j] \in 0 .. 255
  BY <1>1, <1>3, <1>4
<1>6. \A j \in 1 .. 7 : r[j] = 101 => j = 1
  BY <1>1, <1>3, <1>4
<1>7. \A j \in 1 .. 7 : r[j] = 109 => j = 7
  BY <1>1, <1>3, <1>4
<1>8. QED
  BY <1>3, <1>5, <1>6, <1>7 DEF r

(* Decoding undoes writing. *)
LEMMA Decoded ==
  ASSUME NEW v \in Distances, NEW b, NEW x \in Int,
         \A k \in 0 .. 6 : b[x + k][1] = Ranging!Reading(v)[k + 1]
  PROVE  Ranging!DataProc(b, x) = v
<1> DEFINE a1 == Ranging!Char(v, 1000)
           a2 == Ranging!Char(v, 100)
           a3 == Ranging!Char(v, 10)
           a4 == Ranging!Char(v, 1)
           r == Ranging!Reading(v)
<1>1. r = << 101, 58, a1, a2, a3, a4, 109 >>
  BY DEF Ranging!Reading, Ranging!HEAD1, Ranging!HEAD2, Ranging!TAIL
<1> HIDE DEF a1, a2, a3, a4
<1>2. r[2 + 1] = a1 /\ r[3 + 1] = a2 /\ r[4 + 1] = a3 /\ r[5 + 1] = a4
  <2> HIDE DEF r
  <2>1. r[3] = a1 /\ r[4] = a2 /\ r[5] = a3 /\ r[6] = a4
    BY <1>1
  <2>2. 2 + 1 = 3 /\ 3 + 1 = 4 /\ 4 + 1 = 5 /\ 5 + 1 = 6
    OBVIOUS
  <2>3. QED
    BY <2>1, <2>2
<1>3. b[x + 2][1] = a1 /\ b[x + 3][1] = a2 /\ b[x + 4][1] = a3 /\ b[x + 5][1] = a4
  <2>1. 2 \in 0 .. 6 /\ 3 \in 0 .. 6 /\ 4 \in 0 .. 6 /\ 5 \in 0 .. 6
    OBVIOUS
  <2>2. QED
    BY <1>2, <2>1
<1> DEFINE d1 == Ranging!Digit(a1)
           d2 == Ranging!Digit(a2)
           d3 == Ranging!Digit(a3)
           d4 == Ranging!Digit(a4)
<1>4. Ranging!DataProc(b, x) = Decimals(d1, d2, d3, d4)
  BY <1>3 DEF Ranging!DataProc, Ranging!UInt16, Decimals
<1>5. d1 = Place(v, 1000) /\ d2 = Place(v, 100) /\ d3 = Place(v, 10) /\ d4 = Place(v, 1)
  <2>1. 1000 \in Units /\ 100 \in Units /\ 10 \in Units /\ 1 \in Units
    BY DEF Units
  <2>2. QED
    BY <2>1, CharIs DEF a1, a2, a3, a4
<1> HIDE DEF d1, d2, d3, d4
<1>6. Decimals(Place(v, 1000), Place(v, 100), Place(v, 10), Place(v, 1)) = v
  BY Decimal
<1>7. QED
  BY ONLY <1>4, <1>5, <1>6

-----------------------------------------------------------------------------
(* A turn of usart1_try_parse. *)
ReadingTurn(b, x) ==
  IF x + 6 > Len(b) THEN Keeps([rest |-> SubSeq(b, x, Len(b)), frames |-> << >>])
  ELSE IF Ranging!IsFrame(b, x) THEN Takes(x + 7, << x >>)
  ELSE Skips(x + 1)

(* A turn of the parser is a turn of the loops of StreamsProofs. *)
LEMMA ReadingTurns ==
  ASSUME NEW b, Len(b) \in Nat, NEW f, NEW x \in Int, NEW t, t[x] = ReadingTurn(b, x)
  PROVE  Ranging!ParseFrom(b, f, x) = TurnOf(t, f, x)
<1> DEFINE r == Ranging!ParseFrom(b, f, x)
           c1 == x + 6 > Len(b)
           c2 == Ranging!IsFrame(b, x)
           k1 == [rest |-> SubSeq(b, x, Len(b)), frames |-> << >>]
           a == << x >>
           o == x + 7
           s == x + 1
<1>1. t[x] = IF c1 THEN Keeps(k1) ELSE IF c2 THEN Takes(o, a) ELSE Skips(s)
  BY DEF ReadingTurn
<1>2. x + 7 - 1 = x + 6
  OBVIOUS
<1>3. r = IF x + 7 - 1 > Len(b) THEN k1
          ELSE IF c2 THEN [f[o] EXCEPT !.frames = a \o @] ELSE f[s]
  BY Zenon DEF Ranging!ParseFrom, Ranging!PackNum, Ranging!Keep, Ranging!Advance
<1>4. r = IF c1 THEN k1 ELSE IF c2 THEN [f[o] EXCEPT !.frames = a \o @] ELSE f[s]
  BY <1>2, <1>3, Zenon
<1> HIDE DEF r, c1, c2, k1, a, o, s
<1>5. r = TurnOf(t, f, x)
  <2>1. CASE c1
    <3>1. t[x] = Keeps(k1)
      BY <1>1, <2>1, Zenon
    <3>2. r = k1
      BY <1>4, <2>1, Zenon
    <3>3. QED
      BY ONLY <3>1, <3>2, TurnKeeps, Zenon
  <2>2. CASE ~c1 /\ c2
    <3>1. t[x] = Takes(o, a)
      BY <1>1, <2>2, Zenon
    <3>2. r = [f[o] EXCEPT !.frames = a \o @]
      BY <1>4, <2>2, Zenon
    <3>3. TurnOf(t, f, x) = [f[o] EXCEPT !.frames = a \o @]
      BY ONLY <3>1, TurnTakes
    <3>4. QED
      BY <3>2, <3>3, Zenon
  <2>3. CASE ~c1 /\ ~c2
    <3>1. t[x] = Skips(s)
      BY <1>1, <2>3, Zenon
    <3>2. r = f[s]
      BY <1>4, <2>3, Zenon
    <3>3. QED
      BY ONLY <3>1, <3>2, TurnSkips
  <2>4. QED
    BY <2>1, <2>2, <2>3
<1>6. QED
  BY <1>5 DEF r

(* What the parser finds from x on: places of frames one behind the other, *)
(* and at every other place before the kept ones no frame begins, or it    *)
(* is inside a frame found.                                                *)
Scanned(b, x, r, out) ==
  /\ r \in x .. Len(b) + 1 /\ r + 6 > Len(b)
  /\ out \in Seq(Int)
  /\ \A k \in 1 .. Len(out) : x <= out[k] /\ out[k] + 7 <= r /\ Ranging!IsFrame(b, out[k])
  /\ \A k, l \in 1 .. Len(out) : k < l => out[k] + 7 <= out[l]
  /\ \A k \in x .. r - 1 :
       \/ \E l \in 1 .. Len(out) : out[l] <= k /\ k < out[l] + 7
       \/ k + 6 <= Len(b) /\ ~Ranging!IsFrame(b, k)

(* Less than seven bytes are kept. *)
LEMMA ScanKeep ==
  ASSUME NEW b, Len(b) \in Nat, NEW x \in 1 .. Len(b) + 1, x + 6 > Len(b)
  PROVE  Scanned(b, x, x, << >>)
<1>1. << >> \in Seq(Int) /\ Len(<< >>) = 0 /\ 1 .. 0 = {} /\ x .. x - 1 = {}
  BY EmptySeq
<1>2. x \in x .. Len(b) + 1
  OBVIOUS
<1>3. QED
  BY <1>1, <1>2 DEF Scanned

(* Without a frame the search goes on one byte further. *)
LEMMA ScanSkip ==
  ASSUME NEW b, Len(b) \in Nat, NEW x \in 1 .. Len(b) + 1, x + 6 <= Len(b),
         ~Ranging!IsFrame(b, x), NEW r, NEW out, Scanned(b, x + 1, r, out)
  PROVE  Scanned(b, x, r, out)
<1>1. /\ r \in x + 1 .. Len(b) + 1 /\ r + 6 > Len(b) /\ out \in Seq(Int)
      /\ \A k \in 1 .. Len(out) : x + 1 <= out[k] /\ out[k] + 7 <= r /\ Ranging!IsFrame(b, out[k])
      /\ \A k, l \in 1 .. Len(out) : k < l => out[k] + 7 <= out[l]
      /\ \A k \in x + 1 .. r - 1 :
           \/ \E l \in 1 .. Len(out) : out[l] <= k /\ k < out[l] + 7
           \/ k + 6 <= Len(b) /\ ~Ranging!IsFrame(b, k)
  BY DEF Scanned
<1>2. r \in x .. Len(b) + 1
  BY <1>1
<1>3. \A k \in 1 .. Len(out) : x <= out[k]
  <2>1. \A k \in 1 .. Len(out) : out[k] \in Int
    BY <1>1
  <2>2. QED
    BY <1>1, <2>1
<1>4. \A k \in x .. r - 1 : k = x \/ k \in x + 1 .. r - 1
  BY <1>1
<1>5. \A k \in x .. r - 1 :
        \/ \E l \in 1 .. Len(out) : out[l] <= k /\ k < out[l] + 7
        \/ k + 6 <= Len(b) /\ ~Ranging!IsFrame(b, k)
  BY <1>1, <1>4
<1>6. QED
  BY <1>1, <1>2, <1>3, <1>5 DEF Scanned

(* With a frame it goes on seven bytes further. *)
LEMMA ScanTake ==
  ASSUME NEW b, Len(b) \in Nat, NEW x \in 1 .. Len(b) + 1, x + 6 <= Len(b),
         Ranging!IsFrame(b, x), NEW r, NEW out, Scanned(b, x + 7, r, out)
  PROVE  Scanned(b, x, r, << x >> \o out)
<1> DEFINE one == << x >>
           all == one \o out
<1>1. /\ r \in x + 7 .. Len(b) + 1 /\ r + 6 > Len(b) /\ out \in Seq(Int) /\ Len(out) \in Nat
      /\ \A k \in 1 .. Len(out) : x + 7 <= out[k] /\ out[k] + 7 <= r /\ Ranging!IsFrame(b, out[k])
      /\ \A k, l \in 1 .. Len(out) : k < l => out[k] + 7 <= out[l]
      /\ \A k \in x + 7 .. r - 1 :
           \/ \E l \in 1 .. Len(out) : out[l] <= k /\ k < out[l] + 7
           \/ k + 6 <= Len(b) /\ ~Ranging!IsFrame(b, k)
  BY DEF Scanned
<1>2. one \in Seq(Int) /\ Len(one) = 1 /\ one[1] = x
  OBVIOUS
<1> HIDE DEF one
<1>2a. one \in Seq(Int) /\ out \in Seq(Int)
  BY <1>1, <1>2
<1>2b. /\ one \o out \in Seq(Int) /\ Len(one \o out) = Len(one) + Len(out)
       /\ \A k \in 1 .. Len(one) + Len(out) :
            (one \o out)[k] = IF k <= Len(one) THEN one[k] ELSE out[k - Len(one)]
  BY ONLY <1>2a, ConcatProperties
<1>3. /\ all \in Seq(Int) /\ Len(all) = Len(one) + Len(out)
      /\ \A k \in 1 .. Len(one) + Len(out) :
           all[k] = IF k <= Len(one) THEN one[k] ELSE out[k - Len(one)]
  BY <1>2b
<1> HIDE DEF all
<1>4. Len(all) = Len(out) + 1
  BY <1>1, <1>2, <1>3
<1>5. all[1] = x
  <2>1. 1 \in 1 .. Len(one) + Len(out) /\ 1 <= Len(one)
    BY <1>1, <1>2
  <2>2. QED
    BY <1>2, <1>3, <2>1
<1>6. \A k \in 1 .. Len(out) : k + 1 \in 1 .. Len(all) /\ all[k + 1] = out[k]
  <2> SUFFICES ASSUME NEW k \in 1 .. Len(out)
               PROVE  k + 1 \in 1 .. Len(all) /\ all[k + 1] = out[k]
    OBVIOUS
  <2>1. k + 1 \in 1 .. Len(one) + Len(out) /\ ~(k + 1 <= Len(one)) /\ k + 1 - Len(one) = k
    BY <1>1, <1>2
  <2>2. all[k + 1] = out[k + 1 - Len(one)]
    <3> DEFINE z == k + 1
    <3>1. z \in 1 .. Len(one) + Len(out) /\ ~(z <= Len(one))
      BY <2>1
    <3> HIDE DEF z
    <3>2. all[z] = IF z <= Len(one) THEN one[z] ELSE out[z - Len(one)]
      BY ONLY <1>3, <3>1
    <3>3. all[z] = out[z - Len(one)]
      BY ONLY <3>1, <3>2
    <3>4. QED
      BY <3>3 DEF z
  <2>3. out[k + 1 - Len(one)] = out[k]
    BY <2>1
  <2>4. k + 1 \in 1 .. Len(all)
    BY <1>1, <1>4
  <2>5. QED
    BY <2>2, <2>3, <2>4
<1>7. \A k \in 1 .. Len(all) : k = 1 \/ (k - 1 \in 1 .. Len(out) /\ all[k] = out[k - 1])
  <2> SUFFICES ASSUME NEW k \in 1 .. Len(all), k # 1
               PROVE  k - 1 \in 1 .. Len(out) /\ all[k] = out[k - 1]
    OBVIOUS
  <2>1. k - 1 \in 1 .. Len(out) /\ (k - 1) + 1 = k
    BY <1>1, <1>4
  <2>2. QED
    BY <1>6, <2>1
<1>8. r \in x .. Len(b) + 1
  BY <1>1
<1>9. \A k \in 1 .. Len(all) : x <= all[k] /\ all[k] + 7 <= r /\ Ranging!IsFrame(b, all[k])
  <2> SUFFICES ASSUME NEW k \in 1 .. Len(all)
               PROVE  x <= all[k] /\ all[k] + 7 <= r /\ Ranging!IsFrame(b, all[k])
    OBVIOUS
  <2>1. CASE k = 1
    BY <1>1, <1>5, <2>1
  <2>2. CASE k # 1
    <3> DEFINE z == out[k - 1]
    <3>1. k - 1 \in 1 .. Len(out) /\ all[k] = z
      BY <1>7, <2>2
    <3>2. x + 7 <= z /\ z + 7 <= r /\ Ranging!IsFrame(b, z) /\ z \in Int
      BY <1>1, <3>1
    <3> HIDE DEF z
    <3>3. QED
      BY <3>1, <3>2
  <2>3. QED
    BY <2>1, <2>2
<1>10. \A k, l \in 1 .. Len(all) : k < l => all[k] + 7 <= all[l]
  <2> SUFFICES ASSUME NEW k \in 1 .. Len(all), NEW l \in 1 .. Len(all), k < l
               PROVE  all[k] + 7 <= all[l]
    OBVIOUS
  <2>1. l # 1 /\ l - 1 \in 1 .. Len(out) /\ all[l] = out[l - 1]
    BY <1>4, <1>7
  <2>2. CASE k = 1
    BY <1>1, <1>5, <2>1, <2>2
  <2>3. CASE k # 1
    <3>1. k - 1 \in 1 .. Len(out) /\ all[k] = out[k - 1] /\ k - 1 < l - 1
      BY <1>7, <2>3
    <3>2. QED
      BY <1>1, <2>1, <3>1
  <2>4. QED
    BY <2>2, <2>3
<1>11. \A k \in x .. r - 1 :
         \/ \E l \in 1 .. Len(all) : all[l] <= k /\ k < all[l] + 7
         \/ k + 6 <= Len(b) /\ ~Ranging!IsFrame(b, k)
  <2> SUFFICES ASSUME NEW k \in x .. r - 1
               PROVE  \/ \E l \in 1 .. Len(all) : all[l] <= k /\ k < all[l] + 7
                      \/ k + 6 <= Len(b) /\ ~Ranging!IsFrame(b, k)
    OBVIOUS
  <2>1. CASE k < x + 7
    <3>1. 1 \in 1 .. Len(all) /\ all[1] <= k /\ k < all[1] + 7
      BY <1>1, <1>4, <1>5, <2>1
    <3>2. QED
      BY <3>1
  <2>2. CASE ~(k < x + 7)
    <3>1. k \in x + 7 .. r - 1
      BY <1>1, <2>2
    <3>2. ASSUME NEW l \in 1 .. Len(out), out[l] <= k /\ k < out[l] + 7
          PROVE  \E h \in 1 .. Len(all) : all[h] <= k /\ k < all[h] + 7
      <4>1. l + 1 \in 1 .. Len(all) /\ all[l + 1] = out[l]
        BY <1>6
      <4>2. QED
        BY <3>2, <4>1
    <3>3. QED
      BY <1>1, <3>1, <3>2
  <2>3. QED
    BY <2>1, <2>2
<1>12. Scanned(b, x, r, all)
  BY <1>1, <1>3, <1>8, <1>9, <1>10, <1>11 DEF Scanned
<1>13. QED
  BY <1>12 DEF all, one

(* The loop ends, and it finds the frames. *)
LEMMA ReadingParser ==
  ASSUME NEW B, NEW b \in Seq(B)
  PROVE  \E r, out : /\ Scanned(b, 1, r, out)
                     /\ Ranging!TryParse(b) = [rest |-> SubSeq(b, r, Len(b)), frames |-> out]
<1> DEFINE N == Len(b) + 7
           M == Len(b) + 1
           t == [x \in 1 .. N |-> ReadingTurn(b, x)]
           f == CHOOSE f : f = [x \in 1 .. N |-> Ranging!ParseFrom(b, f, x)]
<1>0. N \in Nat /\ Len(b) \in Nat /\ M \in Nat
  OBVIOUS
<1>1. Ranging!TryParse(b) = f[1]
  BY DEF Ranging!TryParse, Ranging!PackNum
<1>2. \A x \in 1 .. N : t[x] = ReadingTurn(b, x)
  OBVIOUS
<1>3. Forward(t, N)
  <2> HIDE DEF t
  <2> SUFFICES ASSUME NEW x \in 1 .. N, t[x].kind # "keep"
               PROVE  t[x].next \in x + 1 .. N
    BY DEF Forward
  <2>0. t[x] = ReadingTurn(b, x)
    BY <1>2
  <2>1. CASE x + 6 > Len(b)
    <3>1. t[x] = Keeps([rest |-> SubSeq(b, x, Len(b)), frames |-> << >>])
      BY <2>0, <2>1 DEF ReadingTurn
    <3>2. t[x].kind = "keep"
      BY <3>1 DEF Keeps
    <3>3. QED
      BY <3>2
  <2>2. CASE ~(x + 6 > Len(b)) /\ Ranging!IsFrame(b, x)
    <3>1. t[x] = Takes(x + 7, << x >>)
      BY <2>0, <2>2 DEF ReadingTurn
    <3>2. t[x].next = x + 7
      BY <3>1 DEF Takes
    <3>3. x + 7 \in x + 1 .. N
      BY <1>0, <2>2
    <3>4. QED
      BY <3>2, <3>3
  <2>3. CASE ~(x + 6 > Len(b)) /\ ~Ranging!IsFrame(b, x)
    <3>1. t[x] = Skips(x + 1)
      BY <2>0, <2>3 DEF ReadingTurn
    <3>2. t[x].next = x + 1
      BY <3>1 DEF Skips
    <3>3. x + 1 \in x + 1 .. N
      BY <1>0, <2>3
    <3>4. QED
      BY <3>2, <3>3
  <2>4. QED
    BY <2>1, <2>2, <2>3
<1> HIDE DEF t
<1>4. \A g : \A x \in 1 .. N : Ranging!ParseFrom(b, g, x) = TurnOf(t, g, x)
  <2> SUFFICES ASSUME NEW g, NEW x \in 1 .. N
               PROVE  Ranging!ParseFrom(b, g, x) = TurnOf(t, g, x)
    OBVIOUS
  <2>1. t[x] = ReadingTurn(b, x) /\ x \in Int
    BY <1>2
  <2>2. QED
    BY ONLY <1>0, <2>1, ReadingTurns
<1>5. PICK g : g = [x \in 1 .. N |-> TurnOf(t, g, x)]
  <2> HIDE DEF N
  <2>1. QED
    BY <1>0, <1>3, WalkRuns
<1>6. [x \in 1 .. N |-> TurnOf(t, g, x)] = [x \in 1 .. N |-> Ranging!ParseFrom(b, g, x)]
  BY <1>4
<1>7. \E h : h = [x \in 1 .. N |-> Ranging!ParseFrom(b, h, x)]
  BY <1>5, <1>6, Zenon
<1>8. f = [x \in 1 .. N |-> Ranging!ParseFrom(b, f, x)]
  BY <1>7
<1> HIDE DEF f
<1>9. \A x \in 1 .. N : f[x] = TurnOf(t, f, x)
  BY <1>4, <1>8
<1> DEFINE Good(x) == \E r, out : /\ Scanned(b, x, r, out)
                                  /\ f[x] = [rest |-> SubSeq(b, r, Len(b)), frames |-> out]
           T == {d \in Nat : \A x \in 1 .. M : x > M - d => Good(x)}
<1>10. 0 \in T
  <2>1. \A x \in 1 .. M : ~(x > M - 0)
    OBVIOUS
  <2>2. QED
    BY <2>1
<1>11. ASSUME NEW d \in Nat, d \in T PROVE d + 1 \in T
  <2>1. ASSUME NEW x \in 1 .. M, x > M - (d + 1) PROVE Good(x)
    <3>1. f[x] = TurnOf(t, f, x) /\ t[x] = ReadingTurn(b, x)
      BY <1>0, <1>2, <1>9
    <3>2. CASE x + 6 > Len(b)
      <4> DEFINE k == [rest |-> SubSeq(b, x, Len(b)), frames |-> << >>]
      <4>1. t[x] = Keeps(k)
        BY <3>1, <3>2 DEF ReadingTurn
      <4>2. f[x] = k
        BY <3>1, <4>1, TurnKeeps
      <4>3. Scanned(b, x, x, << >>)
        BY <1>0, <3>2, ScanKeep
      <4>4. QED
        BY <4>2, <4>3
    <3>3. CASE ~(x + 6 > Len(b)) /\ Ranging!IsFrame(b, x)
      <4> DEFINE y == x + 7
                 one == << x >>
                 more == f[y]
      <4>1. t[x] = Takes(y, one)
        BY <3>1, <3>3 DEF ReadingTurn
      <4>2. y \in 1 .. M /\ y > M - d /\ x + 6 <= Len(b)
        BY <1>0, <2>1, <3>3
      <4>3. Good(y)
        <5> HIDE DEF Good, y
        <5>1. QED
          BY <1>11, <4>2
      <4>4. PICK r, out : /\ Scanned(b, y, r, out)
                          /\ more = [rest |-> SubSeq(b, r, Len(b)), frames |-> out]
        BY <4>3
      <4> DEFINE rest == SubSeq(b, r, Len(b))
      <4> HIDE DEF more, rest, one
      <4>5. f[x] = [more EXCEPT !.frames = one \o @]
        <5> HIDE DEF y
        <5>1. TurnOf(t, f, x) = [f[y] EXCEPT !.frames = one \o @]
          BY ONLY <4>1, TurnTakes
        <5>2. QED
          BY <3>1, <5>1, Zenon DEF more
      <4>6. more = [rest |-> rest, frames |-> out]
        BY <4>4 DEF rest
      <4>7. [more EXCEPT !.frames = one \o @] = [rest |-> rest, frames |-> one \o out]
        BY ONLY <4>6, WithFrames
      <4>8. f[x] = [rest |-> rest, frames |-> one \o out]
        BY <4>5, <4>7, Zenon
      <4>9. Scanned(b, x, r, << x >> \o out)
        BY <1>0, <3>3, <4>2, <4>4, ScanTake
      <4>10. QED
        BY <4>8, <4>9 DEF rest, one
    <3>4. CASE ~(x + 6 > Len(b)) /\ ~Ranging!IsFrame(b, x)
      <4> DEFINE y == x + 1
      <4>1. t[x] = Skips(y)
        BY <3>1, <3>4 DEF ReadingTurn
      <4>2. y \in 1 .. M /\ y > M - d /\ x + 6 <= Len(b)
        BY <1>0, <2>1, <3>4
      <4>3. Good(y)
        <5> HIDE DEF Good, y
        <5>1. QED
          BY <1>11, <4>2
      <4>4. f[x] = f[y]
        <5> HIDE DEF y
        <5>1. TurnOf(t, f, x) = f[y]
          BY <4>1 DEF TurnOf, Skips
        <5>2. QED
          BY <3>1, <5>1, Zenon
      <4>5. PICK r, out : /\ Scanned(b, y, r, out)
                          /\ f[y] = [rest |-> SubSeq(b, r, Len(b)), frames |-> out]
        BY <4>3
      <4>6. Scanned(b, x, r, out)
        BY <1>0, <3>4, <4>2, <4>5, ScanSkip
      <4>7. f[x] = [rest |-> SubSeq(b, r, Len(b)), frames |-> out]
        BY <4>4, <4>5, Zenon
      <4>8. QED
        BY <4>6, <4>7
    <3>5. QED
      BY <3>2, <3>3, <3>4
  <2>2. QED
    <3> HIDE DEF Good
    <3>1. QED
      BY <2>1
<1>12. M \in T
  <2> HIDE DEF T
  <2>1. QED
    BY <1>0, <1>10, <1>11, Induction
<1>13. 1 \in 1 .. M /\ 1 > M - M
  BY <1>0
<1>14. Good(1)
  <2> HIDE DEF Good
  <2>1. QED
    BY <1>12, <1>13
<1>15. QED
  BY <1>1, <1>14, Zenon

-----------------------------------------------------------------------------
(* What of the readings is on its way. The bytes between the readings have *)
(* number 0; D are the readings that lost a byte, G those used.            *)
Bytes(N) == (0 .. 255) \X (0 .. N)

Id(s, x) == s[x][2]

Letter(E, n, k) == Ranging!Reading(E[n])[k + 1]

(* Reading n stands whole at place h. *)
Whole(s, h, E, n) ==
  /\ h \in 1 .. Len(s) /\ h + 6 <= Len(s)
  /\ \A k \in 0 .. 6 : s[h + k] = << Letter(E, n, k), n >>

(* The readings come in the order in which they were sent. *)
Sorted(s) ==
  \A x, y \in 1 .. Len(s) :
    x <= y /\ Id(s, x) # 0 /\ Id(s, y) # 0 => Id(s, x) <= Id(s, y)

(* A reading reaches over seven bytes, over fewer if it lost one. *)
Narrow(s, D) ==
  \A x, y \in 1 .. Len(s) :
    x <= y /\ Id(s, x) # 0 /\ Id(s, x) = Id(s, y) =>
      y - x <= 6 /\ (Id(s, x) \in D => y - x <= 5)

(* Every reading is damaged, used, or whole on the way. *)
Known(s, E, D, G) ==
  \A n \in 1 .. Len(E) :
    n \in D \/ (\E k \in 1 .. Len(G) : G[k] = n) \/ (\E h : Whole(s, h, E, n))

(* A reading used is not damaged and none of its bytes is on the way any more. *)
Ahead(s, D, G) ==
  \A k \in 1 .. Len(G) :
    G[k] # 0 => G[k] \notin D /\ \A x \in 1 .. Len(s) : Id(s, x) # 0 => G[k] < Id(s, x)

(* The readings used come in their order. *)
Rising(G) ==
  \A k, l \in 1 .. Len(G) : k < l /\ G[k] # 0 /\ G[l] # 0 => G[k] < G[l]

HeldTyped(s, E, D, G) ==
  /\ s \in Seq(Bytes(Len(E))) /\ E \in Seq(Distances)
  /\ D \subseteq 0 .. Len(E) /\ G \in Seq(0 .. Len(E))

Held(s, E, D, G) ==
  /\ HeldTyped(s, E, D, G)
  /\ Sorted(s) /\ Narrow(s, D) /\ Known(s, E, D, G) /\ Ahead(s, D, G) /\ Rising(G)

(* The number of a byte on the way is that of a reading, or 0 for noise. *)
LEMMA IdIn ==
  ASSUME NEW N \in Nat, NEW s \in Seq(Bytes(N)), NEW x \in 1 .. Len(s)
  PROVE  Id(s, x) \in 0 .. N /\ Id(s, x) \in Int
<1>1. s[x] \in Bytes(N)
  OBVIOUS
<1>2. s[x] \in (0 .. 255) \X (0 .. N)
  BY <1>1 DEF Bytes
<1>3. s[x][2] \in 0 .. N
  BY <1>2
<1>4. QED
  BY <1>3 DEF Id

(* The bytes of a whole reading. *)
LEMMA WholeHas ==
  ASSUME NEW s, Len(s) \in Nat, NEW h, NEW E, NEW n, Whole(s, h, E, n), NEW k \in 0 .. 6
  PROVE  h + k \in 1 .. Len(s) /\ s[h + k][1] = Letter(E, n, k) /\ Id(s, h + k) = n
<1>1. h \in 1 .. Len(s) /\ h + 6 <= Len(s) /\ s[h + k] = << Letter(E, n, k), n >>
  BY DEF Whole
<1>2. h + k \in 1 .. Len(s)
  BY <1>1
<1> DEFINE c == s[h + k]
           a == Letter(E, n, k)
<1>3. c = << a, n >>
  BY <1>1
<1> HIDE DEF c, a
<1>4. c[1] = a /\ c[2] = n
  BY <1>3
<1>5. QED
  BY <1>2, <1>4 DEF c, a, Id

(* The letters of a reading, by their place in it. *)
LEMMA Letters ==
  ASSUME NEW E \in Seq(Distances), NEW n \in 1 .. Len(E)
  PROVE  /\ Letter(E, n, 0) = 101 /\ Letter(E, n, 1) = 58 /\ Letter(E, n, 6) = 109
         /\ \A k \in 0 .. 6 : Letter(E, n, k) \in 0 .. 255
         /\ \A k \in 0 .. 6 : Letter(E, n, k) = 101 => k = 0
         /\ \A k \in 0 .. 6 : Letter(E, n, k) = 109 => k = 6
<1> DEFINE v == E[n]
           r == Ranging!Reading(v)
<1>1. v \in Distances
  OBVIOUS
<1> HIDE DEF v
<1>2. /\ \A j \in 1 .. 7 : r[j] \in 0 .. 255
      /\ r[1] = 101 /\ r[2] = 58 /\ r[7] = 109
      /\ \A j \in 1 .. 7 : r[j] = 101 => j = 1
      /\ \A j \in 1 .. 7 : r[j] = 109 => j = 7
  BY <1>1, ReadingIs
<1>3. \A k : Letter(E, n, k) = r[k + 1]
  BY DEF Letter, v
<1> HIDE DEF r
<1>4. 0 + 1 = 1 /\ 1 + 1 = 2 /\ 6 + 1 = 7
  OBVIOUS
<1>5. Letter(E, n, 0) = 101 /\ Letter(E, n, 1) = 58 /\ Letter(E, n, 6) = 109
  <2>1. Letter(E, n, 0) = r[0 + 1] /\ Letter(E, n, 1) = r[1 + 1] /\ Letter(E, n, 6) = r[6 + 1]
    BY <1>3
  <2>2. QED
    BY <1>2, <1>4, <2>1
<1>6. ASSUME NEW k \in 0 .. 6
      PROVE  /\ Letter(E, n, k) \in 0 .. 255
             /\ Letter(E, n, k) = 101 => k = 0
             /\ Letter(E, n, k) = 109 => k = 6
  <2> DEFINE z == k + 1
  <2>1. z \in 1 .. 7 /\ Letter(E, n, k) = r[z] /\ (z = 1 => k = 0) /\ (z = 7 => k = 6)
    BY <1>3
  <2> HIDE DEF z
  <2>2. r[z] \in 0 .. 255 /\ (r[z] = 101 => z = 1) /\ (r[z] = 109 => z = 7)
    <3>1. r[z] \in 0 .. 255
      BY <1>2, <2>1
    <3>2. r[z] = 101 => z = 1
      BY <1>2, <2>1
    <3>3. r[z] = 109 => z = 7
      BY <1>2, <2>1
    <3>4. QED
      BY <3>1, <3>2, <3>3
  <2>3. QED
    BY <2>1, <2>2
<1>7. QED
  BY <1>5, <1>6

(* A whole reading passes the test of the parser (usart1_port.c:43-45). *)
LEMMA WholeIsFrame ==
  ASSUME NEW E \in Seq(Distances), NEW n \in 1 .. Len(E), NEW s, Len(s) \in Nat,
         NEW h, Whole(s, h, E, n)
  PROVE  Ranging!IsFrame(s, h)
<1>0. h \in 1 .. Len(s) /\ h + 6 <= Len(s)
  BY DEF Whole
<1>1. s[h + 0][1] = Letter(E, n, 0)
  <2>1. 0 \in 0 .. 6
    OBVIOUS
  <2>2. QED
    BY ONLY Len(s) \in Nat, Whole(s, h, E, n), <2>1, WholeHas
<1>2. s[h + 1][1] = Letter(E, n, 1)
  <2>1. 1 \in 0 .. 6
    OBVIOUS
  <2>2. QED
    BY ONLY Len(s) \in Nat, Whole(s, h, E, n), <2>1, WholeHas
<1>3. s[h + 6][1] = Letter(E, n, 6)
  <2>1. 6 \in 0 .. 6
    OBVIOUS
  <2>2. QED
    BY ONLY Len(s) \in Nat, Whole(s, h, E, n), <2>1, WholeHas
<1>4. h + 0 = h /\ h + 7 - 1 = h + 6
  BY <1>0
<1>5. Letter(E, n, 0) = 101 /\ Letter(E, n, 1) = 58 /\ Letter(E, n, 6) = 109
  BY Letters
<1>6. s[h][1] = 101 /\ s[h + 1][1] = 58 /\ s[h + 7 - 1][1] = 109 /\ h + 7 - 1 <= Len(s)
  BY <1>0, <1>1, <1>2, <1>3, <1>4, <1>5
<1>7. QED
  BY <1>6 DEF Ranging!IsFrame, Ranging!PackNum, Ranging!HEAD1, Ranging!HEAD2, Ranging!TAIL

(* A frame does not end inside a whole reading. *)
LEMMA NotInside ==
  ASSUME NEW E \in Seq(Distances), NEW n \in 1 .. Len(E), NEW s, Len(s) \in Nat,
         NEW h, Whole(s, h, E, n), NEW b, Len(b) \in Nat, Prefix(s, b),
         NEW q \in Int, 1 <= q, q < h, h < q + 7, Ranging!IsFrame(b, q)
  PROVE  FALSE
<1>1. q + 7 - 1 <= Len(b) /\ b[q + 7 - 1][1] = 109
  BY DEF Ranging!IsFrame, Ranging!PackNum, Ranging!TAIL
<1>2. h \in 1 .. Len(s)
  BY DEF Whole
<1> DEFINE k == q + 6 - h
<1>3. k \in 0 .. 6 /\ k # 6 /\ q + 7 - 1 = h + k /\ q + 7 - 1 \in 1 .. Len(b)
  BY <1>1, <1>2
<1> HIDE DEF k
<1>3a. Len(s) \in Nat /\ Whole(s, h, E, n) /\ k \in 0 .. 6
  BY <1>3
<1>4. s[h + k][1] = Letter(E, n, k)
  BY ONLY <1>3a, WholeHas
<1>5. b[q + 7 - 1] = s[q + 7 - 1]
  BY <1>3 DEF Prefix
<1>6. Letter(E, n, k) = 109
  BY <1>1, <1>3, <1>4, <1>5
<1>7. QED
  BY <1>3, <1>6, Letters

(* A whole reading that moved with all of its bytes is whole. *)
LEMMA WholeStays ==
  ASSUME NEW s, NEW t, Len(s) \in Nat, Len(t) \in Nat, NEW h, NEW E, NEW F, NEW n,
         Whole(s, h, E, n), F[n] = E[n], NEW g \in 1 .. Len(t), g + 6 <= Len(t),
         \A k \in 0 .. 6 : t[g + k] = s[h + k]
  PROVE  Whole(t, g, F, n)
<1>1. \A k \in 0 .. 6 : s[h + k] = << Letter(E, n, k), n >>
  BY DEF Whole
<1>2. \A k \in 0 .. 6 : Letter(F, n, k) = Letter(E, n, k)
  BY DEF Letter
<1>3. ASSUME NEW k \in 0 .. 6 PROVE t[g + k] = << Letter(F, n, k), n >>
  BY <1>1, <1>2
<1>4. QED
  BY <1>3 DEF Whole

(* A reading sent keeps what is held of the bytes on the way. *)
LEMMA HeldSend ==
  ASSUME NEW s, NEW E, NEW D, NEW G, Held(s, E, D, G), NEW v \in Distances,
         NEW z, z = [k \in 1 .. 7 |-> << Ranging!Reading(v)[k], Len(E) + 1 >>],
         NEW t \in Seq(Bytes(Len(E) + 1)), Longer(s, t, z)
  PROVE  Held(t, Append(E, v), D, G)
<1> DEFINE M == Len(E) + 1
           F == Append(E, v)
<1>1. /\ s \in Seq(Bytes(Len(E))) /\ E \in Seq(Distances)
      /\ D \subseteq 0 .. Len(E) /\ G \in Seq(0 .. Len(E)) /\ Len(G) \in Nat
      /\ Len(s) \in Nat /\ Len(E) \in Nat /\ Len(t) \in Nat /\ M \in Nat
      /\ Sorted(s) /\ Narrow(s, D) /\ Known(s, E, D, G) /\ Ahead(s, D, G) /\ Rising(G)
  BY DEF Held, HeldTyped
<1>2. F \in Seq(Distances) /\ Len(F) = M /\ F[M] = v /\ \A n \in 1 .. Len(E) : F[n] = E[n]
  BY <1>1
<1>3. Len(z) = 7 /\ \A k \in 1 .. 7 : z[k] = << Ranging!Reading(v)[k], M >>
  OBVIOUS
<1>4. /\ Len(t) = Len(s) + 7 /\ \A x \in 1 .. Len(s) : t[x] = s[x]
      /\ \A k \in 1 .. 7 : t[Len(s) + k] = z[k]
  BY <1>3 DEF Longer
<1>4a. Len(t) = Len(s) + 7 /\ Len(s) \in Nat /\ Len(t) \in Nat /\ Len(E) \in Nat
  BY <1>1, <1>4
<1> HIDE DEF F, M
<1>5. \A x \in 1 .. Len(s) : /\ Id(t, x) = Id(s, x) /\ x \in 1 .. Len(t)
                             /\ Id(s, x) \in 0 .. Len(E)
  <2> SUFFICES ASSUME NEW x \in 1 .. Len(s)
               PROVE  Id(t, x) = Id(s, x) /\ x \in 1 .. Len(t) /\ Id(s, x) \in 0 .. Len(E)
    OBVIOUS
  <2>1. Id(s, x) \in 0 .. Len(E)
    BY <1>1, IdIn
  <2>2. t[x] = s[x] /\ x \in 1 .. Len(t)
    BY <1>1, <1>4
  <2>3. QED
    BY <2>1, <2>2 DEF Id
<1>6. \A k \in 1 .. 7 : Id(t, Len(s) + k) = M
  <2> SUFFICES ASSUME NEW k \in 1 .. 7 PROVE Id(t, Len(s) + k) = M
    OBVIOUS
  <2> DEFINE a == Ranging!Reading(v)[k]
             c == t[Len(s) + k]
  <2>1. c = << a, M >>
    BY <1>3, <1>4
  <2> HIDE DEF a, c
  <2>2. c[2] = M
    BY <2>1
  <2>3. QED
    BY <2>2 DEF Id, c
<1>7. \A x \in 1 .. Len(t) : x \in 1 .. Len(s) \/ (x > Len(s) /\ Id(t, x) = M)
  <2> SUFFICES ASSUME NEW x \in 1 .. Len(t), x > Len(s) PROVE Id(t, x) = M
    BY <1>1
  <2> DEFINE k == x - Len(s)
  <2>0. x \in 1 .. Len(t) /\ x > Len(s)
    OBVIOUS
  <2>1. k \in 1 .. 7 /\ Len(s) + k = x
    BY ONLY <1>4a, <2>0
  <2> HIDE DEF k
  <2>2. Id(t, Len(s) + k) = M
    BY <1>6, <2>1
  <2>3. QED
    BY <2>1, <2>2
<1>8. Sorted(t)
  <2> SUFFICES ASSUME NEW x \in 1 .. Len(t), NEW y \in 1 .. Len(t),
                      x <= y, Id(t, x) # 0, Id(t, y) # 0
               PROVE  Id(t, x) <= Id(t, y)
    BY DEF Sorted
  <2>1. CASE y \in 1 .. Len(s)
    <3>1. x \in 1 .. Len(s)
      BY <1>1, <2>1
    <3>2. Id(t, x) = Id(s, x) /\ Id(t, y) = Id(s, y)
      BY <1>5, <2>1, <3>1
    <3>3. QED
      BY <1>1, <2>1, <3>1, <3>2 DEF Sorted
  <2>2. CASE y > Len(s)
    <3>1. Id(t, y) = M
      BY <1>7, <2>2
    <3>2. Id(t, x) = M \/ Id(t, x) \in 0 .. Len(E)
      BY <1>5, <1>7
    <3>3. QED
      BY <1>1, <3>1, <3>2 DEF M
  <2>3. QED
    BY <1>1, <2>1, <2>2
<1>9. Narrow(t, D)
  <2> SUFFICES ASSUME NEW x \in 1 .. Len(t), NEW y \in 1 .. Len(t),
                      x <= y, Id(t, x) # 0, Id(t, x) = Id(t, y)
               PROVE  y - x <= 6 /\ (Id(t, x) \in D => y - x <= 5)
    BY DEF Narrow
  <2>1. CASE y \in 1 .. Len(s)
    <3>1. x \in 1 .. Len(s)
      BY <1>1, <2>1
    <3>2. Id(t, x) = Id(s, x) /\ Id(t, y) = Id(s, y)
      BY <1>5, <2>1, <3>1
    <3>3. QED
      BY <1>1, <2>1, <3>1, <3>2 DEF Narrow
  <2>2. CASE y > Len(s)
    <3>1. Id(t, x) = M
      BY <1>7, <2>2
    <3>2. M \notin D /\ M \notin 0 .. Len(E)
      BY <1>1 DEF M
    <3>3. x > Len(s)
      <4>1. ASSUME x \in 1 .. Len(s) PROVE FALSE
        <5>1. Id(t, x) \in 0 .. Len(E)
          BY <1>5, <4>1
        <5>2. QED
          BY <3>1, <3>2, <5>1
      <4>2. QED
        BY <1>4a, <4>1
    <3>4. y - x <= 6
      BY <1>1, <1>4, <3>3
    <3>5. QED
      BY <3>1, <3>2, <3>4
  <2>3. QED
    BY <1>1, <2>1, <2>2
<1>10. Known(t, F, D, G)
  <2> SUFFICES ASSUME NEW n \in 1 .. Len(F)
               PROVE  n \in D \/ (\E k \in 1 .. Len(G) : G[k] = n) \/ (\E h : Whole(t, h, F, n))
    BY DEF Known
  <2>1. CASE n = M
    <3> DEFINE h == Len(s) + 1
    <3>1. h \in 1 .. Len(t) /\ h + 6 <= Len(t)
      BY <1>1, <1>4
    <3>2. ASSUME NEW k \in 0 .. 6 PROVE t[h + k] = << Letter(F, M, k), M >>
      <4> DEFINE j == k + 1
      <4>1. j \in 1 .. 7 /\ h + k = Len(s) + j
        BY <1>1
      <4>2. Letter(F, M, k) = Ranging!Reading(v)[j]
        BY <1>2 DEF Letter
      <4> HIDE DEF j, h
      <4>3. t[Len(s) + j] = << Ranging!Reading(v)[j], M >>
        BY <1>3, <1>4, <4>1
      <4>4. QED
        BY <4>1, <4>2, <4>3
    <3>3. Whole(t, h, F, M)
      BY <3>1, <3>2 DEF Whole
    <3>4. QED
      BY <2>1, <3>3
  <2>2. CASE n # M
    <3>1. n \in 1 .. Len(E) /\ F[n] = E[n]
      BY <1>1, <1>2, <2>2 DEF M
    <3>2. ASSUME NEW h, Whole(s, h, E, n) PROVE Whole(t, h, F, n)
      <4>1. h \in 1 .. Len(s) /\ h + 6 <= Len(s)
        BY <3>2 DEF Whole
      <4>2. h \in 1 .. Len(t) /\ h + 6 <= Len(t)
        BY <1>4a, <4>1
      <4>3. ASSUME NEW k \in 0 .. 6 PROVE t[h + k] = s[h + k]
        <5>1. h + k \in 1 .. Len(s)
          BY <1>1, <4>1
        <5>2. QED
          BY <1>4, <5>1
      <4>4. QED
        BY <1>1, <3>1, <3>2, <4>2, <4>3, WholeStays
    <3>3. n \in D \/ (\E k \in 1 .. Len(G) : G[k] = n) \/ (\E h : Whole(s, h, E, n))
      BY <1>1, <3>1 DEF Known
    <3>4. QED
      BY <3>2, <3>3
  <2>3. QED
    BY <2>1, <2>2
<1>11. Ahead(t, D, G)
  <2> SUFFICES ASSUME NEW k \in 1 .. Len(G), G[k] # 0
               PROVE  /\ G[k] \notin D
                      /\ \A x \in 1 .. Len(t) : Id(t, x) # 0 => G[k] < Id(t, x)
    BY DEF Ahead
  <2>1. G[k] \in 0 .. Len(E)
    BY <1>1, SMTT(30)
  <2>2. G[k] \notin D /\ \A x \in 1 .. Len(s) : Id(s, x) # 0 => G[k] < Id(s, x)
    BY <1>1 DEF Ahead
  <2> DEFINE q == G[k]
  <2>2a. q \in 0 .. Len(E) /\ \A x \in 1 .. Len(s) : Id(s, x) # 0 => q < Id(s, x)
    BY <2>1, <2>2
  <2> HIDE DEF q
  <2>3. ASSUME NEW x \in 1 .. Len(t), Id(t, x) # 0 PROVE q < Id(t, x)
    <3>1. CASE x \in 1 .. Len(s)
      BY <1>5, <2>2a, <2>3, <3>1
    <3>2. CASE x > Len(s) /\ Id(t, x) = M
      BY <1>1, <2>2a, <3>2 DEF M
    <3>3. QED
      BY <1>7, <3>1, <3>2
  <2>4. QED
    BY <2>2, <2>3 DEF q
<1>12. HeldTyped(t, F, D, G)
  <2>1. D \subseteq 0 .. M
    BY <1>1 DEF M
  <2>2. G \in Seq(0 .. M)
    <3> DEFINE S == 0 .. Len(E)
               T == 0 .. M
    <3>1. S \subseteq T /\ G \in Seq(S)
      BY <1>1 DEF M
    <3> HIDE DEF S, T
    <3>2. G \in Seq(T)
      BY <3>1
    <3>3. QED
      BY <3>2 DEF T
  <2>3. t \in Seq(Bytes(M))
    BY DEF M
  <2>4. QED
    BY <1>2, <2>1, <2>2, <2>3 DEF HeldTyped
<1>13. QED
  BY <1>1, <1>8, <1>9, <1>10, <1>11, <1>12 DEF Held, F

(* Noise keeps it. *)
LEMMA HeldNoise ==
  ASSUME NEW s, NEW E, NEW D, NEW G, Held(s, E, D, G), NEW a, NEW z, z = << << a, 0 >> >>,
         NEW t \in Seq(Bytes(Len(E))), Longer(s, t, z)
  PROVE  Held(t, E, D, G)
<1>1. /\ s \in Seq(Bytes(Len(E))) /\ E \in Seq(Distances)
      /\ D \subseteq 0 .. Len(E) /\ G \in Seq(0 .. Len(E)) /\ Len(G) \in Nat
      /\ Len(s) \in Nat /\ Len(E) \in Nat /\ Len(t) \in Nat
      /\ Sorted(s) /\ Narrow(s, D) /\ Known(s, E, D, G) /\ Ahead(s, D, G) /\ Rising(G)
  BY DEF Held, HeldTyped
<1>2. Len(z) = 1 /\ z[1] = << a, 0 >>
  OBVIOUS
<1>3. /\ Len(t) = Len(s) + 1 /\ \A x \in 1 .. Len(s) : t[x] = s[x]
      /\ t[Len(s) + 1] = << a, 0 >>
  BY <1>2 DEF Longer
<1>4. \A x \in 1 .. Len(s) : Id(t, x) = Id(s, x) /\ x \in 1 .. Len(t)
  <2> SUFFICES ASSUME NEW x \in 1 .. Len(s) PROVE Id(t, x) = Id(s, x) /\ x \in 1 .. Len(t)
    OBVIOUS
  <2>1. t[x] = s[x] /\ x \in 1 .. Len(t)
    BY <1>1, <1>3
  <2>2. QED
    BY <2>1 DEF Id
<1>5. Id(t, Len(s) + 1) = 0
  <2> DEFINE c == t[Len(s) + 1]
  <2>1. c = << a, 0 >>
    BY <1>3
  <2> HIDE DEF c
  <2>2. c[2] = 0
    BY <2>1
  <2>3. QED
    BY <2>2 DEF Id, c
<1>6. \A x \in 1 .. Len(t) : Id(t, x) # 0 => x \in 1 .. Len(s) /\ Id(t, x) = Id(s, x)
  <2> SUFFICES ASSUME NEW x \in 1 .. Len(t), Id(t, x) # 0
               PROVE  x \in 1 .. Len(s) /\ Id(t, x) = Id(s, x)
    OBVIOUS
  <2>1. x # Len(s) + 1
    BY <1>5
  <2>2. x \in 1 .. Len(s)
    BY <1>1, <1>3, <2>1
  <2>3. QED
    BY <1>4, <2>2
<1>7. Sorted(t)
  BY <1>1, <1>6 DEF Sorted
<1>8. Narrow(t, D)
  BY <1>1, <1>6 DEF Narrow
<1>9. Known(t, E, D, G)
  <2> SUFFICES ASSUME NEW n \in 1 .. Len(E)
               PROVE  n \in D \/ (\E k \in 1 .. Len(G) : G[k] = n) \/ (\E h : Whole(t, h, E, n))
    BY DEF Known
  <2>1. ASSUME NEW h, Whole(s, h, E, n) PROVE Whole(t, h, E, n)
    <3>1. h \in 1 .. Len(s) /\ h + 6 <= Len(s)
      BY <2>1 DEF Whole
    <3>2. h \in 1 .. Len(t) /\ h + 6 <= Len(t)
      BY <1>1, <1>3, <3>1
    <3>3. ASSUME NEW k \in 0 .. 6 PROVE t[h + k] = s[h + k]
      <4>1. h + k \in 1 .. Len(s)
        BY <1>1, <3>1
      <4>2. QED
        BY <1>3, <4>1
    <3>4. QED
      BY <1>1, <2>1, <3>2, <3>3, WholeStays
  <2>2. n \in D \/ (\E k \in 1 .. Len(G) : G[k] = n) \/ (\E h : Whole(s, h, E, n))
    BY <1>1 DEF Known
  <2>3. QED
    BY <2>1, <2>2
<1>10. Ahead(t, D, G)
  BY <1>1, <1>6 DEF Ahead
<1>11. QED
  BY <1>1, <1>7, <1>8, <1>9, <1>10 DEF Held, HeldTyped

(* A byte lost keeps it, when its reading counts as damaged. *)
LEMMA HeldLose ==
  ASSUME NEW s, NEW E, NEW D, NEW G, Held(s, E, D, G), NEW p \in 1 .. Len(s),
         NEW t \in Seq(Bytes(Len(E))), Shorter(s, t, p)
  PROVE  Held(t, E, D \cup {Id(s, p)}, G)
<1> DEFINE d == Id(s, p)
           D2 == D \cup {d}
<1>1. /\ s \in Seq(Bytes(Len(E))) /\ E \in Seq(Distances)
      /\ D \subseteq 0 .. Len(E) /\ G \in Seq(0 .. Len(E)) /\ Len(G) \in Nat
      /\ Len(s) \in Nat /\ Len(E) \in Nat /\ Len(t) \in Nat
      /\ Sorted(s) /\ Narrow(s, D) /\ Known(s, E, D, G) /\ Ahead(s, D, G) /\ Rising(G)
  BY DEF Held, HeldTyped
<1>2. Len(t) = Len(s) - 1 /\ Len(s) \in Nat /\ Len(t) \in Nat /\ p \in Int /\ 1 <= p /\ p <= Len(s)
  BY <1>1 DEF Shorter
<1>3. \A x \in 1 .. Len(t) : Over(p, x) \in 1 .. Len(s) /\ Over(p, x) # p
  BY <1>2 DEF Over
<1>4. \A x \in 1 .. Len(t) : Id(t, x) = Id(s, Over(p, x))
  BY DEF Shorter, Id
<1>5. \A x, y \in 1 .. Len(t) : x <= y =>
        /\ Over(p, x) <= Over(p, y) /\ y - x <= Over(p, y) - Over(p, x)
        /\ Over(p, x) < p /\ p < Over(p, y) => y - x <= Over(p, y) - Over(p, x) - 1
  BY <1>2 DEF Over
<1>6. \A x \in 1 .. Len(s) : Id(s, x) \in 0 .. Len(E)
  BY <1>1, IdIn
<1>7. Sorted(t)
  <2> SUFFICES ASSUME NEW x \in 1 .. Len(t), NEW y \in 1 .. Len(t),
                      x <= y, Id(t, x) # 0, Id(t, y) # 0
               PROVE  Id(t, x) <= Id(t, y)
    BY DEF Sorted
  <2> DEFINE a == Over(p, x)
             b == Over(p, y)
  <2>1. /\ a \in 1 .. Len(s) /\ b \in 1 .. Len(s) /\ a <= b
        /\ Id(t, x) = Id(s, a) /\ Id(t, y) = Id(s, b)
    BY <1>3, <1>4, <1>5
  <2> HIDE DEF a, b
  <2>2. QED
    BY <1>1, <2>1 DEF Sorted
<1>8. Narrow(t, D2)
  <2> SUFFICES ASSUME NEW x \in 1 .. Len(t), NEW y \in 1 .. Len(t),
                      x <= y, Id(t, x) # 0, Id(t, x) = Id(t, y)
               PROVE  y - x <= 6 /\ (Id(t, x) \in D2 => y - x <= 5)
    BY DEF Narrow
  <2> DEFINE a == Over(p, x)
             b == Over(p, y)
             n == Id(s, a)
  <2>1. /\ a \in 1 .. Len(s) /\ b \in 1 .. Len(s) /\ a <= b /\ a # p /\ b # p
        /\ Id(t, x) = n /\ Id(s, b) = n /\ y - x <= b - a
        /\ a < p /\ p < b => y - x <= b - a - 1
    BY <1>3, <1>4, <1>5
  <2>2. n # 0 /\ n \in Int
    BY <1>6, <2>1
  <2> HIDE DEF a, b
  <2>3. b - a <= 6 /\ (n \in D => b - a <= 5)
    BY <1>1, <2>1, <2>2 DEF Narrow
  <2>4. CASE n # d
    BY <2>1, <2>3, <2>4
  <2>5. CASE n = d
    <3>1. CASE a < p /\ p < b
      BY <2>1, <2>3, <3>1
    <3>2. CASE b < p
      <4>1. p - a <= 6
        BY <1>1, <1>2, <2>1, <2>2, <2>5, <3>2 DEF Narrow
      <4>2. QED
        BY <1>2, <2>1, <2>3, <3>2, <4>1
    <3>3. CASE p < a
      <4>1. b - p <= 6
        BY <1>1, <1>2, <2>1, <2>2, <2>5, <3>3 DEF Narrow
      <4>2. QED
        BY <1>2, <2>1, <2>3, <3>3, <4>1
    <3>4. QED
      BY <1>2, <2>1, <3>1, <3>2, <3>3
  <2>6. QED
    BY <2>4, <2>5
<1>9. Known(t, E, D2, G)
  <2> SUFFICES ASSUME NEW n \in 1 .. Len(E), n \notin D2
               PROVE  (\E k \in 1 .. Len(G) : G[k] = n) \/ (\E h : Whole(t, h, E, n))
    BY DEF Known
  <2>1. n \notin D /\ n # d
    OBVIOUS
  <2>2. ASSUME NEW h, Whole(s, h, E, n) PROVE \E g : Whole(t, g, E, n)
    <3>1. h \in 1 .. Len(s) /\ h + 6 <= Len(s)
      BY <2>2 DEF Whole
    <3>2. ASSUME NEW k \in 0 .. 6 PROVE h + k # p
      <4>1. Len(s) \in Nat /\ Whole(s, h, E, n) /\ k \in 0 .. 6
        BY <1>1, <2>2
      <4>2. Id(s, h + k) = n
        BY ONLY <4>1, WholeHas
      <4>3. QED
        BY <2>1, <4>2
    <3>3. h + 6 < p \/ p < h
      <4>1. \A k \in 0 .. 6 : h + k # p
        BY <3>2
      <4>2. ASSUME h <= p, p <= h + 6 PROVE FALSE
        <5> DEFINE k == p - h
        <5>1. k \in 0 .. 6 /\ h + k = p
          BY <1>2, <3>1, <4>2
        <5> HIDE DEF k
        <5>2. QED
          BY <4>1, <5>1
      <4>3. QED
        BY <1>2, <3>1, <4>2
    <3> DEFINE g == IF p < h THEN h - 1 ELSE h
    <3>4. g \in 1 .. Len(t) /\ g + 6 <= Len(t) /\ \A k \in 0 .. 6 : Over(p, g + k) = h + k
      BY <1>2, <3>1, <3>3 DEF Over
    <3> HIDE DEF g
    <3>5. ASSUME NEW k \in 0 .. 6 PROVE t[g + k] = s[h + k]
      <4>0. k \in 0 .. 6 /\ g \in 1 .. Len(t) /\ g + 6 <= Len(t) /\ Len(t) \in Nat
        BY <1>2, <3>4
      <4>1. g + k \in 1 .. Len(t)
        BY ONLY <4>0
      <4>2. QED
        BY <3>4, <4>1 DEF Shorter
    <3>5a. /\ Len(s) \in Nat /\ Len(t) \in Nat /\ Whole(s, h, E, n)
           /\ g \in 1 .. Len(t) /\ g + 6 <= Len(t)
      BY <1>1, <2>2, <3>4
    <3>6. Whole(t, g, E, n)
      BY ONLY <3>5, <3>5a, WholeStays
    <3>7. QED
      BY <3>6
  <2>3. n \in D \/ (\E k \in 1 .. Len(G) : G[k] = n) \/ (\E h : Whole(s, h, E, n))
    BY <1>1 DEF Known
  <2>4. QED
    BY <2>1, <2>2, <2>3
<1>10. Ahead(t, D2, G)
  <2> SUFFICES ASSUME NEW k \in 1 .. Len(G), G[k] # 0
               PROVE  /\ G[k] \notin D2
                      /\ \A x \in 1 .. Len(t) : Id(t, x) # 0 => G[k] < Id(t, x)
    BY DEF Ahead
  <2> DEFINE q == G[k]
  <2>1. q \in 0 .. Len(E) /\ q # 0
    BY <1>1
  <2>2. q \notin D /\ \A x \in 1 .. Len(s) : Id(s, x) # 0 => q < Id(s, x)
    BY <1>1 DEF Ahead
  <2> HIDE DEF q
  <2>3. q # d
    <3>1. d \in 0 .. Len(E) /\ (d # 0 => q < d)
      BY <1>6, <2>2
    <3>2. QED
      BY <2>1, <3>1
  <2>4. ASSUME NEW x \in 1 .. Len(t), Id(t, x) # 0 PROVE q < Id(t, x)
    BY <1>3, <1>4, <2>2, <2>4
  <2>5. QED
    BY <2>2, <2>3, <2>4 DEF q
<1>11. HeldTyped(t, E, D2, G)
  BY <1>1, <1>6 DEF HeldTyped
<1>12. QED
  BY <1>1, <1>7, <1>8, <1>9, <1>10, <1>11 DEF Held

(* O are the numbers of the readings at the places out of b, 0 for one     *)
(* that nobody sent.                                                       *)
Origins(b, out, E, O) ==
  /\ O \in Seq(0 .. Len(E)) /\ Len(O) = Len(out)
  /\ \A k \in 1 .. Len(out) : O[k] = 0 \/ Whole(b, out[k], E, O[k])
  /\ \A k \in 1 .. Len(out), n \in 1 .. Len(E) : Whole(b, out[k], E, n) => O[k] = n

(* s was on its way, and the parser took the frames out of b, the part of  *)
(* it that had arrived.                                                    *)
IsScanned(s, t, b, r, out, E, O) ==
  /\ Len(b) \in Nat /\ Prefix(s, b) /\ Scanned(b, 1, r, out)
  /\ t \in Seq(Bytes(Len(E))) /\ Later(s, t, r) /\ Origins(b, out, E, O)

(* A reading that is whole in the buffer is whole on the way, and the other way round. *)
LEMMA WholeMoves ==
  ASSUME NEW s, NEW b, Len(s) \in Nat, Len(b) \in Nat, Prefix(s, b), NEW E, NEW n, NEW h
  PROVE  /\ Whole(b, h, E, n) => Whole(s, h, E, n)
         /\ Whole(s, h, E, n) /\ h + 6 <= Len(b) => Whole(b, h, E, n)
<1>0. Len(b) <= Len(s) /\ \A x \in 1 .. Len(b) : b[x] = s[x]
  BY DEF Prefix
<1>1. ASSUME Whole(b, h, E, n) PROVE Whole(s, h, E, n)
  <2>1. h \in 1 .. Len(b) /\ h + 6 <= Len(b)
    BY <1>1 DEF Whole
  <2>2. h \in 1 .. Len(s) /\ h + 6 <= Len(s)
    BY <1>0, <2>1
  <2>3. ASSUME NEW k \in 0 .. 6 PROVE s[h + k] = b[h + k]
    <3>1. h + k \in 1 .. Len(b)
      BY <2>1
    <3>2. QED
      BY <1>0, <3>1
  <2>4. QED
    BY <1>1, <2>2, <2>3, WholeStays
<1>2. ASSUME Whole(s, h, E, n), h + 6 <= Len(b) PROVE Whole(b, h, E, n)
  <2>1. h \in 1 .. Len(s)
    BY <1>2 DEF Whole
  <2>2. h \in 1 .. Len(b) /\ h + 6 <= Len(b)
    BY <1>2, <2>1
  <2>3. ASSUME NEW k \in 0 .. 6 PROVE b[h + k] = s[h + k]
    <3>1. h + k \in 1 .. Len(b)
      BY <2>2
    <3>2. QED
      BY <1>0, <3>1
  <2>4. QED
    BY <1>2, <2>2, <2>3, WholeStays
<1>3. QED
  BY <1>1, <1>2

(* A whole reading before r is found. *)
LEMMA WholeFound ==
  ASSUME NEW s, NEW t, NEW b, NEW r, NEW out, NEW E \in Seq(Distances), NEW O,
         Len(s) \in Nat, IsScanned(s, t, b, r, out, E, O),
         NEW n \in 1 .. Len(E), NEW h, Whole(s, h, E, n), h < r
  PROVE  \E l \in 1 .. Len(O) : O[l] = n
<1>1. /\ Len(b) \in Nat /\ Prefix(s, b) /\ Len(O) = Len(out)
      /\ \A k \in 1 .. Len(out), m \in 1 .. Len(E) : Whole(b, out[k], E, m) => O[k] = m
      /\ r \in 1 .. Len(b) + 1 /\ out \in Seq(Int)
      /\ \A k \in 1 .. Len(out) : 1 <= out[k] /\ Ranging!IsFrame(b, out[k])
      /\ \A k \in 1 .. r - 1 :
           \/ \E l \in 1 .. Len(out) : out[l] <= k /\ k < out[l] + 7
           \/ k + 6 <= Len(b) /\ ~Ranging!IsFrame(b, k)
  BY DEF IsScanned, Scanned, Origins
<1>2. h \in 1 .. Len(s) /\ h \in 1 .. r - 1
  BY <1>1 DEF Whole
<1>3. ASSUME h + 6 <= Len(b) PROVE Whole(b, h, E, n) /\ Ranging!IsFrame(b, h)
  <2>1. Whole(b, h, E, n)
    BY <1>1, <1>3, WholeMoves
  <2>2. QED
    BY <1>1, <2>1, WholeIsFrame
<1>4. PICK l \in 1 .. Len(out) : out[l] <= h /\ h < out[l] + 7
  BY <1>1, <1>2, <1>3
<1> DEFINE q == out[l]
<1>5. q \in Int /\ 1 <= q /\ q <= h /\ h < q + 7 /\ Ranging!IsFrame(b, q)
  BY <1>1, <1>4
<1> HIDE DEF q
<1>6. q = h
  <2>1. ASSUME q < h PROVE FALSE
    BY <1>1, <1>5, <2>1, NotInside
  <2>2. QED
    BY <1>2, <1>5, <2>1
<1>7. h + 6 <= Len(b)
  <2>1. q + 7 - 1 <= Len(b)
    BY <1>5 DEF Ranging!IsFrame, Ranging!PackNum
  <2>2. QED
    BY <1>1, <1>5, <1>6, <2>1
<1>8. O[l] = n
  BY <1>1, <1>3, <1>6, <1>7 DEF q
<1>9. QED
  BY <1>1, <1>8

(* A reading used lost no byte, comes behind those used before and before  *)
(* those that are still on their way.                                      *)
LEMMA WholeUsed ==
  ASSUME NEW s, NEW E, NEW D, NEW G, Held(s, E, D, G), NEW n, n # 0,
         NEW h, Whole(s, h, E, n)
  PROVE  /\ n \notin D
         /\ \A y \in 1 .. Len(s) : h + 7 <= y /\ Id(s, y) # 0 => n < Id(s, y)
         /\ \A k \in 1 .. Len(G) : G[k] # 0 => G[k] < n
<1>1. /\ s \in Seq(Bytes(Len(E))) /\ Len(s) \in Nat /\ Len(E) \in Nat
      /\ Sorted(s) /\ Narrow(s, D) /\ Ahead(s, D, G)
  BY DEF Held, HeldTyped
<1>2. \A x \in 1 .. Len(s) : Id(s, x) \in 0 .. Len(E)
  BY <1>1, IdIn
<1>3. 0 \in 0 .. 6 /\ 6 \in 0 .. 6
  OBVIOUS
<1>4. h \in 1 .. Len(s) /\ h + 0 = h
  BY DEF Whole
<1>5. h + 0 \in 1 .. Len(s) /\ Id(s, h + 0) = n
  BY ONLY <1>1, <1>3, Whole(s, h, E, n), WholeHas
<1>6. h + 6 \in 1 .. Len(s) /\ Id(s, h + 6) = n
  BY ONLY <1>1, <1>3, Whole(s, h, E, n), WholeHas
<1>7. h \in 1 .. Len(s) /\ Id(s, h) = n /\ n \in Int
  BY <1>2, <1>4, <1>5
<1>8. n \notin D
  <2>1. h <= h + 6 /\ (h + 6) - h = 6
    BY <1>4
  <2>2. n \in D => (h + 6) - h <= 5
    BY <1>1, <1>6, <1>7, <2>1 DEF Narrow
  <2>3. QED
    BY <2>1, <2>2
<1>9. ASSUME NEW y \in 1 .. Len(s), h + 7 <= y, Id(s, y) # 0 PROVE n < Id(s, y)
  <2>1. h <= y /\ ~(y - h <= 6)
    BY <1>4, <1>9
  <2>2. n <= Id(s, y)
    BY <1>1, <1>7, <1>9, <2>1 DEF Sorted
  <2>3. n # Id(s, y)
    BY <1>1, <1>7, <1>9, <2>1 DEF Narrow
  <2>4. QED
    BY <1>2, <1>7, <2>2, <2>3
<1>10. \A k \in 1 .. Len(G) : G[k] # 0 => G[k] < n
  BY <1>1, <1>7 DEF Ahead
<1>11. QED
  BY <1>8, <1>9, <1>10

(* A read and its parse keep it. *)
LEMMA HeldRead ==
  ASSUME NEW s, NEW E, NEW D, NEW G, Held(s, E, D, G), NEW t, NEW b, NEW r, NEW out,
         NEW O, IsScanned(s, t, b, r, out, E, O)
  PROVE  Held(t, E, D, G \o O)
<1> DEFINE J == G \o O
<1>1. /\ s \in Seq(Bytes(Len(E))) /\ E \in Seq(Distances)
      /\ D \subseteq 0 .. Len(E) /\ G \in Seq(0 .. Len(E)) /\ Len(G) \in Nat
      /\ Len(s) \in Nat /\ Len(E) \in Nat
      /\ Sorted(s) /\ Narrow(s, D) /\ Known(s, E, D, G) /\ Ahead(s, D, G) /\ Rising(G)
  BY DEF Held, HeldTyped
<1>2. /\ Len(b) \in Nat /\ Prefix(s, b) /\ t \in Seq(Bytes(Len(E))) /\ Later(s, t, r)
      /\ Len(t) \in Nat /\ O \in Seq(0 .. Len(E)) /\ Len(O) = Len(out) /\ Len(O) \in Nat
      /\ \A k \in 1 .. Len(O) : O[k] = 0 \/ Whole(b, out[k], E, O[k])
  BY DEF IsScanned, Origins
<1>3. /\ r \in 1 .. Len(b) + 1 /\ out \in Seq(Int)
      /\ \A k \in 1 .. Len(O) : out[k] \in Int /\ 1 <= out[k] /\ out[k] + 7 <= r
      /\ \A k, l \in 1 .. Len(O) : k < l => out[k] + 7 <= out[l]
  BY <1>2 DEF IsScanned, Scanned
<1>4. Len(b) <= Len(s) /\ Len(t) = Len(s) + 1 - r /\ r \in Int /\ 1 <= r /\ r <= Len(s) + 1
  BY <1>1, <1>2, <1>3 DEF Prefix, Later
<1>5. \A x \in 1 .. Len(t) : /\ x + r - 1 \in 1 .. Len(s) /\ r <= x + r - 1
                             /\ Id(t, x) = Id(s, x + r - 1)
  <2> SUFFICES ASSUME NEW x \in 1 .. Len(t)
               PROVE  /\ x + r - 1 \in 1 .. Len(s) /\ r <= x + r - 1
                      /\ Id(t, x) = Id(s, x + r - 1)
    OBVIOUS
  <2>1. x + r - 1 \in 1 .. Len(s) /\ r <= x + r - 1
    BY <1>1, <1>2, <1>4
  <2>2. t[x] = s[x + r - 1]
    BY <1>2 DEF Later
  <2>3. QED
    BY <2>1, <2>2 DEF Id
<1>6. /\ J \in Seq(0 .. Len(E)) /\ Len(J) = Len(G) + Len(O)
      /\ \A k \in 1 .. Len(G) : J[k] = G[k]
      /\ \A k \in 1 .. Len(O) : J[Len(G) + k] = O[k]
  <2> DEFINE S == 0 .. Len(E)
  <2>1. G \in Seq(S) /\ O \in Seq(S)
    BY <1>1, <1>2
  <2> HIDE DEF S
  <2>2. /\ J \in Seq(S) /\ Len(J) = Len(G) + Len(O)
        /\ \A k \in 1 .. Len(G) : J[k] = G[k]
        /\ \A k \in 1 .. Len(O) : J[Len(G) + k] = O[k]
    BY ONLY <2>1, Joined
  <2>3. QED
    BY <2>2 DEF S
<1> HIDE DEF J
<1>7. \A k \in 1 .. Len(J) :
        \/ k \in 1 .. Len(G) /\ J[k] = G[k]
        \/ \E l \in 1 .. Len(O) : k = Len(G) + l /\ J[k] = O[l]
  <2> SUFFICES ASSUME NEW k \in 1 .. Len(J), ~(k \in 1 .. Len(G))
               PROVE  \E l \in 1 .. Len(O) : k = Len(G) + l /\ J[k] = O[l]
    BY <1>6
  <2> DEFINE l == k - Len(G)
  <2>1. l \in 1 .. Len(O) /\ k = Len(G) + l
    BY <1>1, <1>2, <1>6
  <2> HIDE DEF l
  <2>2. J[Len(G) + l] = O[l]
    BY <1>6, <2>1
  <2>3. QED
    BY <2>1, <2>2
<1>8. ASSUME NEW l \in 1 .. Len(O), O[l] # 0
      PROVE  /\ Whole(s, out[l], E, O[l]) /\ O[l] \notin D
             /\ \A y \in 1 .. Len(s) : out[l] + 7 <= y /\ Id(s, y) # 0 => O[l] < Id(s, y)
             /\ \A k \in 1 .. Len(G) : G[k] # 0 => G[k] < O[l]
  <2> DEFINE n == O[l]
             h == out[l]
  <2>1. Whole(b, h, E, n) /\ n # 0
    BY <1>2, <1>8
  <2> HIDE DEF n, h
  <2>2. Whole(s, h, E, n)
    BY <1>1, <1>2, <2>1, WholeMoves
  <2>3. /\ n \notin D
        /\ \A y \in 1 .. Len(s) : h + 7 <= y /\ Id(s, y) # 0 => n < Id(s, y)
        /\ \A k \in 1 .. Len(G) : G[k] # 0 => G[k] < n
    BY <2>1, <2>2, WholeUsed
  <2>4. QED
    BY <2>2, <2>3 DEF n, h
<1>9. Sorted(t)
  <2> SUFFICES ASSUME NEW x \in 1 .. Len(t), NEW y \in 1 .. Len(t),
                      x <= y, Id(t, x) # 0, Id(t, y) # 0
               PROVE  Id(t, x) <= Id(t, y)
    BY DEF Sorted
  <2> DEFINE a == x + r - 1
             c == y + r - 1
  <2>1. /\ a \in 1 .. Len(s) /\ c \in 1 .. Len(s) /\ a <= c
        /\ Id(t, x) = Id(s, a) /\ Id(t, y) = Id(s, c)
    BY <1>4, <1>5
  <2> HIDE DEF a, c
  <2>2. QED
    BY <1>1, <2>1 DEF Sorted
<1>10. Narrow(t, D)
  <2> SUFFICES ASSUME NEW x \in 1 .. Len(t), NEW y \in 1 .. Len(t),
                      x <= y, Id(t, x) # 0, Id(t, x) = Id(t, y)
               PROVE  y - x <= 6 /\ (Id(t, x) \in D => y - x <= 5)
    BY DEF Narrow
  <2> DEFINE a == x + r - 1
             c == y + r - 1
  <2>1. /\ a \in 1 .. Len(s) /\ c \in 1 .. Len(s) /\ a <= c /\ c - a = y - x
        /\ Id(t, x) = Id(s, a) /\ Id(t, y) = Id(s, c)
    BY <1>4, <1>5
  <2> HIDE DEF a, c
  <2>2. c - a <= 6 /\ (Id(t, x) \in D => c - a <= 5)
    BY <1>1, <2>1 DEF Narrow
  <2>3. QED
    BY <2>1, <2>2
<1>11. Known(t, E, D, J)
  <2> SUFFICES ASSUME NEW n \in 1 .. Len(E)
               PROVE  n \in D \/ (\E k \in 1 .. Len(J) : J[k] = n) \/ (\E h : Whole(t, h, E, n))
    BY DEF Known
  <2>1. ASSUME NEW k \in 1 .. Len(G), G[k] = n PROVE \E l \in 1 .. Len(J) : J[l] = n
    <3>1. k \in 1 .. Len(J)
      BY <1>1, <1>2, <1>6
    <3>2. QED
      BY <1>6, <2>1, <3>1
  <2>2. ASSUME NEW h, Whole(s, h, E, n), h < r PROVE \E l \in 1 .. Len(J) : J[l] = n
    <3>1. PICK l \in 1 .. Len(O) : O[l] = n
      BY <1>1, <2>2, WholeFound
    <3> DEFINE k == Len(G) + l
    <3>2. k \in 1 .. Len(J)
      BY <1>1, <1>2, <1>6
    <3>3. J[k] = n
      BY <1>6, <3>1
    <3> HIDE DEF k
    <3>4. QED
      BY <3>2, <3>3
  <2>3. ASSUME NEW h, Whole(s, h, E, n), ~(h < r) PROVE \E g : Whole(t, g, E, n)
    <3>1. h \in 1 .. Len(s) /\ h + 6 <= Len(s)
      BY <2>3 DEF Whole
    <3> DEFINE g == h - r + 1
    <3>2. g \in 1 .. Len(t) /\ g + 6 <= Len(t) /\ \A k \in 0 .. 6 : (g + k) + r - 1 = h + k
      BY <1>1, <1>2, <1>4, <2>3, <3>1
    <3> HIDE DEF g
    <3>3. ASSUME NEW k \in 0 .. 6 PROVE t[g + k] = s[h + k]
      <4>0. k \in 0 .. 6 /\ g \in 1 .. Len(t) /\ g + 6 <= Len(t) /\ Len(t) \in Nat
        BY <1>2, <3>2
      <4>1. g + k \in 1 .. Len(t)
        BY ONLY <4>0
      <4>2. t[g + k] = s[(g + k) + r - 1]
        BY <1>2, <4>1 DEF Later
      <4>3. QED
        BY <3>2, <4>2
    <3>3a. /\ Len(s) \in Nat /\ Len(t) \in Nat /\ Whole(s, h, E, n)
           /\ g \in 1 .. Len(t) /\ g + 6 <= Len(t)
      BY <1>1, <1>2, <2>3, <3>2
    <3>4. Whole(t, g, E, n)
      BY ONLY <3>3, <3>3a, WholeStays
    <3>5. QED
      BY <3>4
  <2>4. n \in D \/ (\E k \in 1 .. Len(G) : G[k] = n) \/ (\E h : Whole(s, h, E, n))
    BY <1>1 DEF Known
  <2>5. QED
    BY <2>1, <2>2, <2>3, <2>4
<1>12. Ahead(t, D, J)
  <2> SUFFICES ASSUME NEW k \in 1 .. Len(J), J[k] # 0
               PROVE  /\ J[k] \notin D
                      /\ \A x \in 1 .. Len(t) : Id(t, x) # 0 => J[k] < Id(t, x)
    BY DEF Ahead
  <2> DEFINE q == J[k]
  <2>1. /\ q \notin D
        /\ \A y \in 1 .. Len(s) : r <= y /\ Id(s, y) # 0 => q < Id(s, y)
    <3>1. CASE k \in 1 .. Len(G) /\ J[k] = G[k]
      BY <1>1, <3>1 DEF Ahead
    <3>2. ASSUME NEW l \in 1 .. Len(O), J[k] = O[l]
          PROVE  /\ q \notin D
                 /\ \A y \in 1 .. Len(s) : r <= y /\ Id(s, y) # 0 => q < Id(s, y)
      <4> DEFINE h == out[l]
      <4>1. /\ q = O[l] /\ q \notin D /\ h \in Int /\ h + 7 <= r
            /\ \A y \in 1 .. Len(s) : h + 7 <= y /\ Id(s, y) # 0 => q < Id(s, y)
        BY <1>3, <1>8, <3>2
      <4> HIDE DEF q, h
      <4>2. \A y \in 1 .. Len(s) : r <= y => h + 7 <= y
        BY <1>3, <4>1
      <4>3. QED
        BY <4>1, <4>2
    <3>3. QED
      BY <1>7, <3>1, <3>2
  <2> HIDE DEF q
  <2>2. \A x \in 1 .. Len(t) : Id(t, x) # 0 => q < Id(t, x)
    BY <1>5, <2>1
  <2>3. QED
    BY <2>1, <2>2 DEF q
<1>13. Rising(J)
  <2> SUFFICES ASSUME NEW k \in 1 .. Len(J), NEW l \in 1 .. Len(J),
                      k < l, J[k] # 0, J[l] # 0
               PROVE  J[k] < J[l]
    BY DEF Rising
  <2>1. CASE k \in 1 .. Len(G) /\ J[k] = G[k]
    <3>1. CASE l \in 1 .. Len(G) /\ J[l] = G[l]
      BY <1>1, <2>1, <3>1 DEF Rising
    <3>2. ASSUME NEW m \in 1 .. Len(O), J[l] = O[m] PROVE J[k] < J[l]
      BY <1>8, <2>1, <3>2
    <3>3. QED
      BY <1>7, <3>1, <3>2
  <2>2. ASSUME NEW m \in 1 .. Len(O), k = Len(G) + m, J[k] = O[m] PROVE J[k] < J[l]
    <3>1. ~(l \in 1 .. Len(G))
      BY <1>1, <2>2
    <3>2. PICK z \in 1 .. Len(O) : l = Len(G) + z /\ J[l] = O[z]
      BY <1>7, <3>1
    <3>3. m < z
      BY <1>1, <2>2, <3>2
    <3> DEFINE h == out[z]
               n == O[z]
    <3>4. out[m] + 7 <= h
      BY <1>3, <3>3
    <3>5. Whole(s, h, E, n) /\ n # 0
      BY <1>8, <3>2
    <3> HIDE DEF h, n
    <3>6. Id(s, h) = n /\ h \in 1 .. Len(s)
      <4>1. h \in 1 .. Len(s) /\ h + 0 = h /\ 0 \in 0 .. 6
        BY <3>5 DEF Whole
      <4>2. Id(s, h + 0) = n
        BY ONLY <1>1, <3>5, <4>1, WholeHas
      <4>3. QED
        BY <4>1, <4>2
    <3>7. O[m] < n
      BY <1>8, <2>2, <3>4, <3>5, <3>6
    <3>8. QED
      BY <2>2, <3>2, <3>7 DEF n
  <2>3. QED
    BY <1>7, <2>1, <2>2
<1>14. HeldTyped(t, E, D, J)
  BY <1>1, <1>2, <1>6 DEF HeldTyped
<1>15. QED
  BY <1>9, <1>10, <1>11, <1>12, <1>13, <1>14 DEF Held, J

(* Without bytes between the readings: x is the byte g[x] of all that was  *)
(* sent, and at most d bytes are missing between any two of s.             *)
Slots(s, E, g, d) ==
  /\ g \in [1 .. Len(s) + 1 -> Int]
  /\ g[Len(s) + 1] = 7 * Len(E) + 1
  /\ \A x \in 1 .. Len(s) : \E n \in 1 .. Len(E), o \in 0 .. 6 :
       g[x] = 7 * n - 6 + o /\ s[x] = << Letter(E, n, o), n >>
  /\ \A x, y \in 1 .. Len(s) + 1 :
       x <= y => y - x <= g[y] - g[x] /\ g[y] - g[x] <= y - x + d

InSlots(s, E, d) == \E g : Slots(s, E, g, d)

(* A reading sent stands in the slots. *)
LEMMA SlotsSend ==
  ASSUME NEW s, NEW t, Len(s) \in Nat, Len(t) \in Nat, NEW E \in Seq(Distances),
         NEW d \in Nat, InSlots(s, E, d), NEW v \in Distances,
         NEW z, z = [k \in 1 .. 7 |-> << Ranging!Reading(v)[k], Len(E) + 1 >>],
         Longer(s, t, z)
  PROVE  InSlots(t, Append(E, v), d)
<1> DEFINE M == Len(E) + 1
           F == Append(E, v)
<1>1. PICK g : Slots(s, E, g, d)
  BY DEF InSlots
<1>2. /\ g \in [1 .. Len(s) + 1 -> Int]
      /\ g[Len(s) + 1] = 7 * Len(E) + 1
      /\ \A x \in 1 .. Len(s) : \E n \in 1 .. Len(E), o \in 0 .. 6 :
           g[x] = 7 * n - 6 + o /\ s[x] = << Letter(E, n, o), n >>
      /\ \A x, y \in 1 .. Len(s) + 1 :
           x <= y => y - x <= g[y] - g[x] /\ g[y] - g[x] <= y - x + d
  BY <1>1 DEF Slots
<1>3. F \in Seq(Distances) /\ Len(F) = M /\ F[M] = v /\ \A n \in 1 .. Len(E) : F[n] = E[n]
  OBVIOUS
<1>4. Len(z) = 7 /\ \A k \in 1 .. 7 : z[k] = << Ranging!Reading(v)[k], M >>
  OBVIOUS
<1>5. /\ Len(t) = Len(s) + 7 /\ \A x \in 1 .. Len(s) : t[x] = s[x]
      /\ \A k \in 1 .. 7 : t[Len(s) + k] = z[k]
  BY <1>4 DEF Longer
<1>6. Len(t) = Len(s) + 7 /\ Len(s) \in Nat /\ Len(E) \in Nat /\ M = Len(E) + 1 /\ d \in Nat
  BY <1>5
<1> DEFINE e == 7 * Len(E)
           f == [x \in 1 .. Len(t) + 1 |-> IF x <= Len(s) THEN g[x] ELSE e + (x - Len(s))]
<1>7. e \in Nat /\ g[Len(s) + 1] = e + 1
  BY <1>2, <1>6
<1>7a. \A x \in 1 .. Len(t) + 1 : f[x] = IF x <= Len(s) THEN g[x] ELSE e + (x - Len(s))
  OBVIOUS
<1>7b. \A x \in 1 .. Len(s) : g[x] \in Int
  <2>1. g \in [1 .. Len(s) + 1 -> Int]
    BY <1>2
  <2>2. \A x \in 1 .. Len(s) : x \in 1 .. Len(s) + 1
    BY ONLY <1>6
  <2>3. QED
    BY ONLY <2>1, <2>2
<1>7c. f \in [1 .. Len(t) + 1 -> Int]
  <2>1. \A x \in 1 .. Len(t) + 1 : (IF x <= Len(s) THEN g[x] ELSE e + (x - Len(s))) \in Int
    BY ONLY <1>6, <1>7, <1>7b
  <2>2. QED
    BY <2>1
<1>7d. e = 7 * M - 7
  BY ONLY <1>6
<1> HIDE DEF f, F, M, e
<1>8. \A x \in 1 .. Len(s) : f[x] = g[x] /\ x \in 1 .. Len(t) + 1
  BY ONLY <1>6, <1>7a
<1>9. \A x \in Len(s) + 1 .. Len(t) + 1 : f[x] = e + (x - Len(s)) /\ x \in 1 .. Len(t) + 1
  BY ONLY <1>6, <1>7a
<1>10. f[Len(t) + 1] = 7 * Len(F) + 1
  <2>1. Len(t) + 1 \in Len(s) + 1 .. Len(t) + 1 /\ (Len(t) + 1) - Len(s) = 8
    BY ONLY <1>6
  <2>2. f[Len(t) + 1] = e + 8
    BY <1>9, <2>1
  <2>3. QED
    BY ONLY <1>3, <1>6, <1>7d, <2>2
<1>11. ASSUME NEW x \in 1 .. Len(t)
       PROVE  \E n \in 1 .. Len(F), o \in 0 .. 6 :
                f[x] = 7 * n - 6 + o /\ t[x] = << Letter(F, n, o), n >>
  <2>1. CASE x <= Len(s)
    <3>0. x \in 1 .. Len(t)
      OBVIOUS
    <3>0a. x \in 1 .. Len(s)
      BY ONLY <1>6, <2>1, <3>0
    <3>1. x \in 1 .. Len(s) /\ f[x] = g[x] /\ t[x] = s[x]
      BY ONLY <1>5, <1>8, <3>0a
    <3>2. PICK n \in 1 .. Len(E), o \in 0 .. 6 :
            g[x] = 7 * n - 6 + o /\ s[x] = << Letter(E, n, o), n >>
      BY <1>2, <3>1
    <3>3. n \in 1 .. Len(F) /\ Letter(F, n, o) = Letter(E, n, o)
      BY <1>3, <1>6 DEF Letter
    <3>4. QED
      BY <3>1, <3>2, <3>3
  <2>2. CASE ~(x <= Len(s))
    <3> DEFINE k == x - Len(s)
               o == k - 1
    <3>0. x \in 1 .. Len(t)
      OBVIOUS
    <3>1. k \in 1 .. 7 /\ Len(s) + k = x /\ o \in 0 .. 6 /\ o + 1 = k
          /\ x \in Len(s) + 1 .. Len(t) + 1
      BY ONLY <1>6, <2>2, <3>0
    <3>2. f[x] = e + k
      BY <1>9, <3>1
    <3>3. f[x] = 7 * M - 6 + o
      BY ONLY <1>6, <1>7d, <3>1, <3>2
    <3> HIDE DEF k, o
    <3>4. t[x] = << Ranging!Reading(v)[k], M >>
      BY <1>4, <1>5, <3>1
    <3>5. Letter(F, M, o) = Ranging!Reading(v)[k]
      BY <1>3, <3>1 DEF Letter
    <3>6. M \in 1 .. Len(F)
      BY ONLY <1>3, <1>6, SMTT(30)
    <3>7. QED
      BY <3>1, <3>3, <3>4, <3>5, <3>6
  <2>3. QED
    BY <2>1, <2>2
<1>12. ASSUME NEW x \in 1 .. Len(t) + 1, NEW y \in 1 .. Len(t) + 1, x <= y
       PROVE  y - x <= f[y] - f[x] /\ f[y] - f[x] <= y - x + d
  <2>0. x \in 1 .. Len(t) + 1 /\ y \in 1 .. Len(t) + 1 /\ x <= y
    BY <1>12
  <2> DEFINE a == f[x]
             c == f[y]
             h == Len(s) + 1
  <2>1. CASE y <= Len(s)
    <3>1. x \in 1 .. Len(s) /\ y \in 1 .. Len(s) /\ x \in 1 .. Len(s) + 1
          /\ y \in 1 .. Len(s) + 1
      BY ONLY <1>6, <2>0, <2>1
    <3>2. f[x] = g[x] /\ f[y] = g[y]
      BY <1>8, <3>1
    <3>3. QED
      BY <1>2, <2>0, <3>1, <3>2
  <2>2. CASE x <= Len(s) /\ ~(y <= Len(s))
    <3>1. /\ x \in 1 .. Len(s) /\ y \in Len(s) + 1 .. Len(t) + 1 /\ x \in 1 .. Len(s) + 1
          /\ h \in 1 .. Len(s) + 1 /\ x <= h
      BY ONLY <1>6, <2>0, <2>2
    <3>2. a = g[x] /\ c = e + (y - Len(s)) /\ g[x] \in Int
      BY <1>7b, <1>8, <1>9, <3>1
    <3>3. h - x <= g[h] - g[x] /\ g[h] - g[x] <= h - x + d
      BY <1>2, <3>1
    <3> DEFINE w == g[x]
               w2 == g[h]
    <3>3a. w2 = e + 1 /\ w \in Int /\ a = w
      BY <1>7, <3>2
    <3>3b. h - x <= w2 - w /\ w2 - w <= h - x + d
      BY <3>3
    <3> HIDE DEF a, c, w, w2
    <3>4. c = e + (y - Len(s)) /\ h \in Int /\ h = Len(s) + 1 /\ x \in Int /\ y \in Int
      BY <3>2, <1>6, <2>0
    <3> HIDE DEF h
    <3>5. y - x <= c - a /\ c - a <= y - x + d
      BY ONLY <1>6, <1>7, <2>0, <3>3a, <3>3b, <3>4, SMTT(30)
    <3>6. QED
      BY <3>5 DEF a, c
  <2>3. CASE ~(x <= Len(s))
    <3>1. x \in Len(s) + 1 .. Len(t) + 1 /\ y \in Len(s) + 1 .. Len(t) + 1
      BY ONLY <1>6, <2>0, <2>3
    <3>2. a = e + (x - Len(s)) /\ c = e + (y - Len(s))
      BY <1>9, <3>1
    <3> HIDE DEF a, c
    <3>3. y - x <= c - a /\ c - a <= y - x + d
      BY ONLY <1>6, <1>7, <3>1, <3>2
    <3>4. QED
      BY <3>3 DEF a, c
  <2>4. QED
    BY <2>1, <2>2, <2>3
<1>13. Slots(t, F, f, d)
  BY <1>7c, <1>10, <1>11, <1>12 DEF Slots
<1>14. QED
  BY <1>13 DEF InSlots, F

(* t is s without some bytes, at most c between any two that are left: x   *)
(* of t was m[x] of s.                                                     *)
Thins(s, t, m, c) ==
  /\ m \in [1 .. Len(t) + 1 -> 1 .. Len(s) + 1]
  /\ m[Len(t) + 1] = Len(s) + 1
  /\ \A x \in 1 .. Len(t) : m[x] \in 1 .. Len(s) /\ t[x] = s[m[x]]
  /\ \A x, y \in 1 .. Len(t) + 1 :
       x <= y => m[x] <= m[y] /\ y - x <= m[y] - m[x] /\ m[y] - m[x] <= y - x + c

(* Bytes taken out displace the others by no more than their number. *)
LEMMA SlotsThin ==
  ASSUME NEW s, NEW t, Len(s) \in Nat, Len(t) \in Nat, NEW E, NEW d \in Nat, InSlots(s, E, d),
         NEW c \in Nat, NEW m, Thins(s, t, m, c)
  PROVE  InSlots(t, E, d + c)
<1>0. /\ m \in [1 .. Len(t) + 1 -> 1 .. Len(s) + 1]
      /\ m[Len(t) + 1] = Len(s) + 1
      /\ \A x \in 1 .. Len(t) : m[x] \in 1 .. Len(s) /\ t[x] = s[m[x]]
      /\ \A x, y \in 1 .. Len(t) + 1 :
           x <= y => m[x] <= m[y] /\ y - x <= m[y] - m[x] /\ m[y] - m[x] <= y - x + c
  BY DEF Thins
<1>1. PICK g : Slots(s, E, g, d)
  BY DEF InSlots
<1>2. /\ g \in [1 .. Len(s) + 1 -> Int]
      /\ g[Len(s) + 1] = 7 * Len(E) + 1
      /\ \A x \in 1 .. Len(s) : \E n \in 1 .. Len(E), o \in 0 .. 6 :
           g[x] = 7 * n - 6 + o /\ s[x] = << Letter(E, n, o), n >>
      /\ \A x, y \in 1 .. Len(s) + 1 :
           x <= y => y - x <= g[y] - g[x] /\ g[y] - g[x] <= y - x + d
  BY <1>1 DEF Slots
<1> DEFINE f == [x \in 1 .. Len(t) + 1 |-> g[m[x]]]
<1>3. \A x \in 1 .. Len(t) + 1 : f[x] = g[m[x]] /\ m[x] \in 1 .. Len(s) + 1 /\ g[m[x]] \in Int
  BY <1>0, <1>2
<1>4. f \in [1 .. Len(t) + 1 -> Int]
  BY <1>3
<1> HIDE DEF f
<1>5. f[Len(t) + 1] = 7 * Len(E) + 1
  <2>1. Len(t) + 1 \in 1 .. Len(t) + 1
    OBVIOUS
  <2>2. QED
    BY <1>0, <1>2, <1>3, <2>1
<1>6. ASSUME NEW x \in 1 .. Len(t)
      PROVE  \E n \in 1 .. Len(E), o \in 0 .. 6 :
               f[x] = 7 * n - 6 + o /\ t[x] = << Letter(E, n, o), n >>
  <2>1. x \in 1 .. Len(t) + 1
    OBVIOUS
  <2>2. f[x] = g[m[x]] /\ m[x] \in 1 .. Len(s) /\ t[x] = s[m[x]]
    BY <1>0, <1>3, <2>1
  <2>3. PICK n \in 1 .. Len(E), o \in 0 .. 6 :
          g[m[x]] = 7 * n - 6 + o /\ s[m[x]] = << Letter(E, n, o), n >>
    BY <1>2, <2>2
  <2>4. QED
    BY <2>2, <2>3
<1>7. ASSUME NEW x \in 1 .. Len(t) + 1, NEW y \in 1 .. Len(t) + 1, x <= y
      PROVE  y - x <= f[y] - f[x] /\ f[y] - f[x] <= y - x + (d + c)
  <2> DEFINE a == m[x]
             b == m[y]
             u == g[a]
             w == g[b]
  <2>1. /\ f[x] = u /\ f[y] = w /\ a \in 1 .. Len(s) + 1 /\ b \in 1 .. Len(s) + 1
        /\ u \in Int /\ w \in Int
    BY <1>3
  <2>2. a <= b /\ y - x <= b - a /\ b - a <= y - x + c
    BY <1>0, <1>7
  <2>3. b - a <= w - u /\ w - u <= b - a + d
    BY <1>2, <2>1, <2>2
  <2>4. x \in Int /\ y \in Int /\ c \in Nat /\ d \in Nat
    OBVIOUS
  <2> HIDE DEF a, b, u, w
  <2>5. y - x <= w - u /\ w - u <= y - x + (d + c)
    BY ONLY <2>1, <2>2, <2>3, <2>4
  <2>6. QED
    BY <2>1, <2>5
<1>8. Slots(t, E, f, d + c)
  BY <1>4, <1>5, <1>6, <1>7 DEF Slots
<1>9. QED
  BY <1>8 DEF InSlots

(* A byte lost displaces the others by one more. *)
LEMMA SlotsLose ==
  ASSUME NEW s, NEW t, Len(s) \in Nat, Len(t) \in Nat, NEW E, NEW d \in Nat, InSlots(s, E, d),
         NEW p \in 1 .. Len(s), Shorter(s, t, p)
  PROVE  InSlots(t, E, d + 1)
<1> DEFINE m == [x \in 1 .. Len(t) + 1 |-> Over(p, x)]
<1>0. Len(s) \in Nat /\ Len(t) \in Nat /\ p \in Int /\ 1 <= p /\ p <= Len(s) /\ Len(t) = Len(s) - 1
  BY DEF Shorter
<1>1. \A x \in 1 .. Len(t) + 1 : m[x] = Over(p, x) /\ Over(p, x) \in 1 .. Len(s) + 1
  BY <1>0 DEF Over
<1>2. m \in [1 .. Len(t) + 1 -> 1 .. Len(s) + 1]
  BY <1>1
<1> HIDE DEF m
<1>3. m[Len(t) + 1] = Len(s) + 1
  <2>1. Len(t) + 1 \in 1 .. Len(t) + 1 /\ Over(p, Len(t) + 1) = Len(s) + 1
    BY <1>0 DEF Over
  <2>2. QED
    BY <1>1, <2>1
<1>4. \A x \in 1 .. Len(t) : m[x] \in 1 .. Len(s) /\ t[x] = s[m[x]]
  <2> SUFFICES ASSUME NEW x \in 1 .. Len(t) PROVE m[x] \in 1 .. Len(s) /\ t[x] = s[m[x]]
    OBVIOUS
  <2>1. x \in 1 .. Len(t) + 1 /\ Over(p, x) \in 1 .. Len(s)
    BY <1>0 DEF Over
  <2>2. m[x] = Over(p, x) /\ t[x] = s[Over(p, x)]
    BY <1>1, <2>1 DEF Shorter
  <2>3. QED
    BY <2>1, <2>2
<1>5. \A x, y \in 1 .. Len(t) + 1 : x <= y =>
        /\ Over(p, x) <= Over(p, y) /\ y - x <= Over(p, y) - Over(p, x)
        /\ Over(p, y) - Over(p, x) <= y - x + 1
  BY <1>0 DEF Over
<1>6. \A x, y \in 1 .. Len(t) + 1 :
        x <= y => m[x] <= m[y] /\ y - x <= m[y] - m[x] /\ m[y] - m[x] <= y - x + 1
  BY <1>1, <1>5
<1>7. Thins(s, t, m, 1)
  BY <1>2, <1>3, <1>4, <1>6 DEF Thins
<1>8. QED
  BY <1>7, SlotsThin

(* A read displaces nothing. *)
LEMMA SlotsRead ==
  ASSUME NEW s, NEW t, Len(s) \in Nat, Len(t) \in Nat, NEW E, NEW d \in Nat, InSlots(s, E, d),
         NEW r \in 1 .. Len(s) + 1, Later(s, t, r)
  PROVE  InSlots(t, E, d)
<1> DEFINE m == [x \in 1 .. Len(t) + 1 |-> x + r - 1]
<1>0. Len(s) \in Nat /\ Len(t) \in Nat /\ r \in Int /\ 1 <= r /\ r <= Len(s) + 1
      /\ Len(t) = Len(s) + 1 - r
  BY DEF Later
<1>1. \A x \in 1 .. Len(t) + 1 : m[x] = x + r - 1 /\ x + r - 1 \in 1 .. Len(s) + 1
  BY <1>0
<1>2. m \in [1 .. Len(t) + 1 -> 1 .. Len(s) + 1]
  BY <1>1
<1> HIDE DEF m
<1>3. m[Len(t) + 1] = Len(s) + 1
  <2>1. Len(t) + 1 \in 1 .. Len(t) + 1 /\ (Len(t) + 1) + r - 1 = Len(s) + 1
    BY <1>0
  <2>2. QED
    BY <1>1, <2>1
<1>4. \A x \in 1 .. Len(t) : m[x] \in 1 .. Len(s) /\ t[x] = s[m[x]]
  <2> SUFFICES ASSUME NEW x \in 1 .. Len(t) PROVE m[x] \in 1 .. Len(s) /\ t[x] = s[m[x]]
    OBVIOUS
  <2>1. x \in 1 .. Len(t) + 1 /\ x + r - 1 \in 1 .. Len(s)
    BY <1>0
  <2>2. m[x] = x + r - 1 /\ t[x] = s[x + r - 1]
    BY <1>1, <2>1 DEF Later
  <2>3. QED
    BY <2>1, <2>2
<1>5. \A x, y \in 1 .. Len(t) + 1 :
        x <= y => m[x] <= m[y] /\ y - x <= m[y] - m[x] /\ m[y] - m[x] <= y - x + 0
  BY <1>0, <1>1
<1>5a. Thins(s, t, m, 0)
  BY <1>2, <1>3, <1>4, <1>5 DEF Thins
<1>6. InSlots(t, E, d + 0)
  BY <1>5a, SlotsThin
<1>7. d + 0 = d
  OBVIOUS
<1>8. QED
  BY <1>6, <1>7

(* Fewer lost bytes than a reading has: what looks like a reading is one.  *)
LEMMA SlotsFrame ==
  ASSUME NEW s, NEW b, Len(s) \in Nat, Len(b) \in Nat, Prefix(s, b), NEW E \in Seq(Distances),
         NEW d \in Nat, d < 7, InSlots(s, E, d), NEW q \in Int, 1 <= q, Ranging!IsFrame(b, q)
  PROVE  \E n \in 1 .. Len(E) : Whole(b, q, E, n)
<1>1. PICK g : Slots(s, E, g, d)
  BY DEF InSlots
<1>2. /\ g \in [1 .. Len(s) + 1 -> Int]
      /\ \A x \in 1 .. Len(s) : \E n \in 1 .. Len(E), o \in 0 .. 6 :
           g[x] = 7 * n - 6 + o /\ s[x] = << Letter(E, n, o), n >>
      /\ \A x, y \in 1 .. Len(s) + 1 :
           x <= y => y - x <= g[y] - g[x] /\ g[y] - g[x] <= y - x + d
  BY <1>1 DEF Slots
<1>3. q + 7 - 1 <= Len(b) /\ b[q][1] = 101 /\ b[q + 7 - 1][1] = 109
  BY DEF Ranging!IsFrame, Ranging!PackNum, Ranging!HEAD1, Ranging!TAIL
<1>4. /\ q + 6 <= Len(b) /\ q + 7 - 1 = q + 6 /\ q \in 1 .. Len(s) /\ q \in 1 .. Len(s) + 1 /\ q \in 1 .. Len(b) /\ b[q] = s[q]
      /\ \A k \in 0 .. 6 : q + k \in 1 .. Len(b) /\ q + k \in 1 .. Len(s) /\ q + k \in 1 .. Len(s) + 1
  BY <1>3 DEF Prefix
<1>5. \A k \in 0 .. 6 : b[q + k] = s[q + k]
  BY <1>4 DEF Prefix
<1>6. 0 \in 0 .. 6 /\ 6 \in 0 .. 6
  OBVIOUS
<1>7. PICK n \in 1 .. Len(E), o \in 0 .. 6 :
        g[q] = 7 * n - 6 + o /\ s[q] = << Letter(E, n, o), n >>
  BY <1>2, <1>4, <1>6
<1>8. PICK n2 \in 1 .. Len(E), o2 \in 0 .. 6 :
        g[q + 6] = 7 * n2 - 6 + o2 /\ s[q + 6] = << Letter(E, n2, o2), n2 >>
  BY <1>2, <1>4, <1>6
<1>9. o = 0
  <2> DEFINE c == s[q]
             a == Letter(E, n, o)
  <2>1. c = << a, n >> /\ c[1] = 101
    BY <1>3, <1>4, <1>7
  <2> HIDE DEF c, a
  <2>2. a = 101
    BY <2>1
  <2>3. QED
    BY <2>2, Letters DEF a
<1>10. o2 = 6
  <2> DEFINE c == s[q + 6]
             a == Letter(E, n2, o2)
  <2>0. b[q + 6] = s[q + 6]
    BY ONLY <1>5, <1>6
  <2>1. c = << a, n2 >> /\ c[1] = 109
    BY ONLY <1>3, <1>4, <1>8, <2>0
  <2> HIDE DEF c, a
  <2>2. a = 109
    BY <2>1
  <2>3. QED
    BY <2>2, Letters DEF a
<1> DEFINE u == g[q]
           w == g[q + 6]
<1>11. u = 7 * n - 6 /\ w = 7 * n2 /\ n \in Int /\ n2 \in Int
  BY <1>7, <1>8, <1>9, <1>10
<1>12. 6 <= w - u /\ w - u <= 6 + d
  <2>1. q \in 1 .. Len(s) + 1 /\ q + 6 \in 1 .. Len(s) + 1 /\ q <= q + 6
        /\ (q + 6) - (q) = 6
    BY <1>4, <1>6
  <2>2. /\ (q + 6) - (q) <= g[q + 6] - g[q]
        /\ g[q + 6] - g[q] <= (q + 6) - (q) + d
    BY <1>2, <2>1
  <2>3. QED
    BY <2>1, <2>2
<1> HIDE DEF u, w
<1>13. n2 = n
  <2>1. d \in Nat /\ d < 7
    OBVIOUS
  <2>2. QED
    BY ONLY <1>11, <1>12, <2>1
<1>14. ASSUME NEW k \in 0 .. 6 PROVE b[q + k] = << Letter(E, n, k), n >>
  <2>0. k \in 0 .. 6
    OBVIOUS
  <2> DEFINE l == q + k
             m == q + 6
  <2>1. q \in 1 .. Len(s) + 1 /\ m \in 1 .. Len(s) + 1 /\ l \in 1 .. Len(s) + 1
        /\ l \in 1 .. Len(s) /\ q <= l /\ l <= m
    BY <1>4, <1>6
  <2>1a. l - q = k /\ m - l = 6 - k
    <3>1. q \in Int
      BY <1>4
    <3>2. QED
      BY ONLY <2>0, <3>1
  <2> DEFINE y == g[l]
  <2> HIDE DEF l
  <2>2. l - q <= y - u /\ m - l <= w - y /\ y \in Int
    BY <1>2, <2>1 DEF u, w
  <2>3. k <= y - u /\ 6 - k <= w - y
    BY <2>1a, <2>2
  <2>4. PICK j \in 1 .. Len(E), h \in 0 .. 6 :
          y = 7 * j - 6 + h /\ s[l] = << Letter(E, j, h), j >>
    BY <1>2, <2>1
  <2>4a. k \in 0 .. 6 /\ j \in Int /\ h \in 0 .. 6 /\ y = 7 * j - 6 + h
    BY <2>0, <2>4
  <2> HIDE DEF y
  <2>5. y = 7 * n - 6 + k
    BY ONLY <1>11, <1>13, <2>2, <2>3, <2>4a
  <2>6. j = n /\ h = k
    BY ONLY <1>11, <2>4a, <2>5
  <2>7. b[l] = s[l]
    BY <1>5, <2>0 DEF l
  <2>8. QED
    BY <2>4, <2>6, <2>7 DEF l
<1>15. q \in 1 .. Len(b)
  BY <1>4
<1>16. Whole(b, q, E, n)
  BY <1>4, <1>14, <1>15 DEF Whole
<1>17. QED
  BY <1>16

(* Where a frame came from: a reading that is whole there, or none. *)
LEMMA OriginIs ==
  ASSUME sent \in Seq(Distances), NEW b, Len(b) \in Nat, NEW x \in Int, 1 <= x, x + 6 <= Len(b)
  PROVE  /\ Ranging!Origin(b, x) \in 0 .. Len(sent)
         /\ Ranging!Origin(b, x) = 0 \/ Whole(b, x, sent, Ranging!Origin(b, x))
         /\ \A n \in 1 .. Len(sent) : Whole(b, x, sent, n) => Ranging!Origin(b, x) = n
<1> DEFINE o == Ranging!Origin(b, x)
           Comes(n) == \A k \in 0 .. 6 : b[x + k] = << Letter(sent, n, k), n >>
<1>1. 0 .. 7 - 1 = 0 .. 6 /\ DOMAIN sent = 1 .. Len(sent) /\ x \in 1 .. Len(b) /\ Len(sent) \in Nat
      /\ x + 0 = x /\ 0 \in 0 .. 6
  OBVIOUS
<1>2. o = IF \E n \in DOMAIN sent : \A k \in 0 .. 7 - 1 : b[x + k] = << Letter(sent, n, k), n >>
            THEN b[x][2] ELSE 0
  BY Zenon DEF Ranging!Origin, Ranging!PackNum, Letter
<1>3. o = IF \E n \in 1 .. Len(sent) : Comes(n) THEN b[x][2] ELSE 0
  BY <1>1, <1>2
<1>4. ASSUME NEW n \in 1 .. Len(sent), Comes(n) PROVE o = n /\ Whole(b, x, sent, n)
  <2> DEFINE a == Letter(sent, n, 0)
             c == b[x]
  <2>1. c = << a, n >>
    BY <1>1, <1>4
  <2> HIDE DEF a, c
  <2>2. c[2] = n
    BY <2>1
  <2>3. o = n
    BY <1>3, <1>4, <2>2 DEF c
  <2>4. QED
    BY <1>1, <1>4, <2>3 DEF Whole
<1>5. \A n \in 1 .. Len(sent) : Whole(b, x, sent, n) => Comes(n)
  BY DEF Whole
<1> HIDE DEF o, Comes
<1>6. CASE \E n \in 1 .. Len(sent) : Comes(n)
  <2>1. PICK n \in 1 .. Len(sent) : Comes(n)
    BY <1>6
  <2>2. o = n /\ Whole(b, x, sent, n)
    BY <1>4, <2>1
  <2>3. o \in 0 .. Len(sent) /\ Whole(b, x, sent, o)
    BY <2>2
  <2>4. QED
    BY <1>4, <1>5, <2>3 DEF o
<1>7. CASE ~(\E n \in 1 .. Len(sent) : Comes(n))
  <2>1. o = 0
    BY <1>3, <1>7
  <2>2. QED
    BY <1>1, <1>5, <1>7, <2>1 DEF o
<1>8. QED
  BY <1>6, <1>7

(* The frames a parse took, by where they came from. *)
LEMMA OriginsAre ==
  ASSUME sent \in Seq(Distances), NEW b, Len(b) \in Nat, NEW out \in Seq(Int),
         \A k \in 1 .. Len(out) : 1 <= out[k] /\ Ranging!IsFrame(b, out[k])
  PROVE  Origins(b, out, sent, [k \in DOMAIN out |-> Ranging!Origin(b, out[k])])
<1> DEFINE O == [k \in DOMAIN out |-> Ranging!Origin(b, out[k])]
<1>0. Len(out) \in Nat /\ DOMAIN out = 1 .. Len(out) /\ \A k \in 1 .. Len(out) : out[k] \in Int
  OBVIOUS
<1>1. ASSUME NEW k \in 1 .. Len(out)
      PROVE  /\ Ranging!Origin(b, out[k]) \in 0 .. Len(sent)
             /\ Ranging!Origin(b, out[k]) = 0 \/ Whole(b, out[k], sent, Ranging!Origin(b, out[k]))
             /\ \A n \in 1 .. Len(sent) : Whole(b, out[k], sent, n) => Ranging!Origin(b, out[k]) = n
  <2> DEFINE x == out[k]
  <2>1. x \in Int /\ 1 <= x /\ x + 7 - 1 <= Len(b)
    BY <1>0 DEF Ranging!IsFrame, Ranging!PackNum
  <2> HIDE DEF x
  <2>2. x + 6 <= Len(b)
    BY ONLY Len(b) \in Nat, <2>1
  <2>3. /\ Ranging!Origin(b, x) \in 0 .. Len(sent)
        /\ Ranging!Origin(b, x) = 0 \/ Whole(b, x, sent, Ranging!Origin(b, x))
        /\ \A n \in 1 .. Len(sent) : Whole(b, x, sent, n) => Ranging!Origin(b, x) = n
    BY <2>1, <2>2, OriginIs
  <2>4. QED
    BY <2>3 DEF x
<1>2. /\ \A k \in 1 .. Len(out) : O[k] = Ranging!Origin(b, out[k])
      /\ O = [k \in 1 .. Len(out) |-> O[k]]
  BY <1>0
<1> HIDE DEF O
<1>3. \A k \in 1 .. Len(out) : O[k] \in 0 .. Len(sent)
  BY <1>1, <1>2
<1>4. O \in Seq(0 .. Len(sent)) /\ Len(O) = Len(out)
  <2> DEFINE S == 0 .. Len(sent)
  <2>1. \A k \in 1 .. Len(out) : O[k] \in S
    BY <1>3
  <2> HIDE DEF S
  <2>2. O \in Seq(S) /\ Len(O) = Len(out)
    BY ONLY <1>0, <1>2, <2>1
  <2>3. QED
    BY <2>2 DEF S
<1>5. Origins(b, out, sent, O)
  BY <1>1, <1>2, <1>4 DEF Origins
<1>6. QED
  BY <1>5 DEF O

(* A remainder is less than the divisor. *)
LEMMA Remainder ==
  ASSUME NEW z \in Int, NEW n \in Nat, n > 0, NEW v, v = z % n
  PROVE  v \in 0 .. n - 1
OBVIOUS

(* The distance read is a uint16_t. *)
LEMMA DistanceFits ==
  ASSUME NEW N \in Nat, NEW b \in Seq(Bytes(N)), NEW x \in Int, 1 <= x, x + 6 <= Len(b)
  PROVE  Ranging!DataProc(b, x) \in 0 .. Ranging!UInt16 - 1
<1>1. \A k \in 2 .. 5 : b[x + k][1] \in 0 .. 255
  <2> SUFFICES ASSUME NEW k \in 2 .. 5 PROVE b[x + k][1] \in 0 .. 255
    OBVIOUS
  <2> DEFINE c == b[x + k]
             S == Bytes(N)
  <2>1. x + k \in 1 .. Len(b)
    OBVIOUS
  <2>2. c \in S
    <3> HIDE DEF S
    <3>1. b \in Seq(S)
      BY DEF S
    <3>2. QED
      BY <2>1, <3>1
  <2>3. c \in (0 .. 255) \X (0 .. N)
    BY <2>2 DEF Bytes
  <2> HIDE DEF c
  <2>4. c[1] \in 0 .. 255
    BY <2>3
  <2>5. QED
    BY <2>4 DEF c
<1>2. \A c \in 0 .. 255 : Ranging!Digit(c) \in Int
  BY DEF Ranging!Digit
<1> DEFINE d2 == Ranging!Digit(b[x + 2][1])
           d3 == Ranging!Digit(b[x + 3][1])
           d4 == Ranging!Digit(b[x + 4][1])
           d5 == Ranging!Digit(b[x + 5][1])
<1>3. d2 \in Int /\ d3 \in Int /\ d4 \in Int /\ d5 \in Int
  <2>1. 2 \in 2 .. 5 /\ 3 \in 2 .. 5 /\ 4 \in 2 .. 5 /\ 5 \in 2 .. 5
    OBVIOUS
  <2>2. ASSUME NEW k \in 2 .. 5 PROVE Ranging!Digit(b[x + k][1]) \in Int
    <3> DEFINE c == b[x + k][1]
    <3>1. c \in 0 .. 255
      BY <1>1
    <3> HIDE DEF c
    <3>2. QED
      BY <1>2, <3>1 DEF c
  <2>3. QED
    BY ONLY <2>1, <2>2
<1>4. Ranging!DataProc(b, x) = (d2 * 1000 + d3 * 100 + d4 * 10 + d5) % Ranging!UInt16
  BY SMT DEF Ranging!DataProc
<1> HIDE DEF d2, d3, d4, d5
<1>5. d2 * 1000 + d3 * 100 + d4 * 10 + d5 \in Int
  BY ONLY <1>3
<1> DEFINE z == d2 * 1000 + d3 * 100 + d4 * 10 + d5
           v == Ranging!DataProc(b, x)
           n == Ranging!UInt16
<1>6. z \in Int /\ v = z % n
  BY <1>4, <1>5
<1>7. n \in Nat /\ n > 0
  BY DEF Ranging!UInt16
<1> HIDE DEF z, v, n
<1>8. v \in 0 .. n - 1
  BY <1>6, <1>7, Remainder
<1>9. QED
  BY <1>8 DEF v, n

ReadingsTyped ==
  /\ line \in Seq(Bytes(Len(sent))) /\ buffer \in Seq(Bytes(Len(sent)))
  /\ Len(line) <= RangingCapacity /\ Len(buffer) < 7
  /\ Distance \in 0 .. Ranging!UInt16 - 1 /\ sent \in Seq(Value)
  /\ losses \in 0 .. MaxReadingLosses /\ noises \in 0 .. MaxNoise

ReadingsHeld == Held(buffer \o line, sent, damaged, taken)

ReadingsSlotted == noises = 0 => InSlots(buffer \o line, sent, losses)

ReadingsReal == noises = 0 /\ losses < 7 => \A k \in 1 .. Len(taken) : taken[k] # 0

(* The inductive invariant of the range finder. *)
ReadingsInv ==
  ReadingsTyped /\ ReadingsHeld /\ ReadingsSlotted /\ ReadingsReal /\ Ranging!DistanceIsRead

(* What is assumed of the constants of the range finder. *)
LEMMA RangingConstants ==
  ASSUME StreamsAssumption
  PROVE  /\ Value \subseteq Distances /\ Noise \subseteq 0 .. 255
         /\ RangingCapacity \in Nat /\ RangingMaxLen \in Nat
         /\ RangingMaxLen >= RangingCapacity + 6
         /\ MaxReadingLosses \in Nat /\ MaxNoise \in Nat
<1>1. Ranging!RangingAssumption
  BY DEF StreamsAssumption
<1>2. Value \subseteq 0 .. 9999
  BY ONLY <1>1, SMTT(60) DEF Ranging!RangingAssumption
<1> DEFINE D == 0 .. 9999
<1>3. Value \subseteq D /\ D = Distances
  BY <1>2 DEF Distances
<1> HIDE DEF D
<1>4. Value \subseteq Distances
  BY <1>3
<1>5. QED
  BY <1>1, <1>4 DEF Ranging!RangingAssumption

(* The types the invariant gives. *)
LEMMA HeldHas ==
  ASSUME ReadingsInv
  PROVE  /\ sent \in Seq(Distances) /\ damaged \subseteq 0 .. Len(sent)
         /\ taken \in Seq(0 .. Len(sent)) /\ Len(sent) \in Nat /\ Len(taken) \in Nat
         /\ Len(line) \in Nat /\ Len(buffer) \in Nat
         /\ buffer \o line \in Seq(Bytes(Len(sent)))
<1>1. HeldTyped(buffer \o line, sent, damaged, taken)
  BY DEF ReadingsInv, ReadingsHeld, Held
<1>2. line \in Seq(Bytes(Len(sent))) /\ buffer \in Seq(Bytes(Len(sent)))
  BY DEF ReadingsInv, ReadingsTyped
<1>3. QED
  BY <1>1, <1>2 DEF HeldTyped

(* A byte on the way, as a pair. *)
LEMMA ByteIs ==
  ASSUME NEW N \in Nat, NEW s \in Seq(Bytes(N)), NEW k \in 1 .. Len(s)
  PROVE  s[k] \in (0 .. 255) \X (0 .. N)
<1> DEFINE S == Bytes(N)
<1>1. s \in Seq(S)
  OBVIOUS
<1>2. s[k] \in S
  <2> HIDE DEF S
  <2>1. QED
    BY <1>1
<1>3. QED
  BY <1>2 DEF Bytes

(* The readings with a byte on the way. *)
LEMMA WaitingIs ==
  ASSUME ReadingsInv, NEW n
  PROVE  n \in Ranging!Waiting <=> \E x \in 1 .. Len(buffer \o line) : Id(buffer \o line, x) = n
<1> DEFINE B == Bytes(Len(sent))
           s == buffer \o line
<1>0. /\ line \in Seq(B) /\ buffer \in Seq(B) /\ Len(line) \in Nat /\ Len(buffer) \in Nat
      /\ DOMAIN line = 1 .. Len(line) /\ DOMAIN buffer = 1 .. Len(buffer)
  BY DEF ReadingsInv, ReadingsTyped
<1>1. /\ Len(s) = Len(buffer) + Len(line)
      /\ \A x \in 1 .. Len(buffer) : s[x] = buffer[x]
      /\ \A x \in 1 .. Len(line) : s[Len(buffer) + x] = line[x]
  <2> HIDE DEF B
  <2>1. line \in Seq(B) /\ buffer \in Seq(B)
    BY <1>0
  <2>2. QED
    BY ONLY <2>1, Joined
<1> HIDE DEF s, B
<1>2. n \in Ranging!Waiting <=> \/ \E k \in 1 .. Len(line) : line[k][2] = n
                                \/ \E k \in 1 .. Len(buffer) : buffer[k][2] = n
  BY <1>0, Zenon DEF Ranging!Waiting
<1>3. ASSUME NEW k \in 1 .. Len(line) PROVE Len(buffer) + k \in 1 .. Len(s) /\ Id(s, Len(buffer) + k) = line[k][2]
  BY <1>0, <1>1 DEF Id
<1>4. ASSUME NEW k \in 1 .. Len(buffer) PROVE k \in 1 .. Len(s) /\ Id(s, k) = buffer[k][2]
  BY <1>0, <1>1 DEF Id
<1>5. ASSUME NEW x \in 1 .. Len(s)
      PROVE  x \in 1 .. Len(buffer) \/ \E k \in 1 .. Len(line) : x = Len(buffer) + k
  <2>1. CASE x <= Len(buffer)
    BY <2>1
  <2>2. CASE ~(x <= Len(buffer))
    <3>1. x - Len(buffer) \in 1 .. Len(line) /\ x = Len(buffer) + (x - Len(buffer))
      BY <1>0, <1>1, <2>2
    <3>2. QED
      BY <3>1
  <2>3. QED
    BY <2>1, <2>2
<1>6. ASSUME NEW x \in 1 .. Len(s), Id(s, x) = n PROVE n \in Ranging!Waiting
  <2>1. CASE x \in 1 .. Len(buffer)
    BY <1>2, <1>4, <1>6, <2>1
  <2>2. CASE \E k \in 1 .. Len(line) : x = Len(buffer) + k
    BY <1>2, <1>3, <1>6, <2>2
  <2>3. QED
    BY <1>5, <2>1, <2>2
<1>7. ASSUME n \in Ranging!Waiting PROVE \E x \in 1 .. Len(s) : Id(s, x) = n
  BY <1>2, <1>3, <1>4, <1>7
<1>8. QED
  BY <1>6, <1>7 DEF s

(* The invariant is enough for the property and for the types. *)
LEMMA ReadingsInvHolds ==
  ASSUME ReadingsInv
  PROVE  /\ Ranging!TypeOK /\ Ranging!WholeReadingsUsed
         /\ Ranging!DistanceIsRead /\ Ranging!NothingInvented
<1> DEFINE s == buffer \o line
<1>0. /\ sent \in Seq(Distances) /\ damaged \subseteq 0 .. Len(sent) /\ DOMAIN sent = 1 .. Len(sent)
      /\ taken \in Seq(0 .. Len(sent)) /\ Len(sent) \in Nat /\ Len(taken) \in Nat
      /\ DOMAIN taken = 1 .. Len(taken) /\ \A k \in 1 .. Len(taken) : taken[k] \in 0 .. Len(sent)
      /\ s \in Seq(Bytes(Len(sent))) /\ Len(s) \in Nat
  BY HeldHas
<1>1. /\ Known(s, sent, damaged, taken) /\ Ahead(s, damaged, taken) /\ Rising(taken)
  BY DEF ReadingsInv, ReadingsHeld, Held
<1>2. Ranging!TypeOK
  <2>1. /\ line \in Seq(Bytes(Len(sent))) /\ buffer \in Seq(Bytes(Len(sent)))
        /\ DOMAIN line = 1 .. Len(line) /\ DOMAIN buffer = 1 .. Len(buffer)
        /\ Len(line) <= RangingCapacity /\ Len(buffer) < 7 /\ Distance \in 0 .. Ranging!UInt16 - 1
        /\ sent \in Seq(Value) /\ losses \in 0 .. MaxReadingLosses /\ noises \in 0 .. MaxNoise
    BY DEF ReadingsInv, ReadingsTyped
  <2>1a. /\ Len(sent) \in Nat
         /\ line \in Seq(Bytes(Len(sent))) /\ buffer \in Seq(Bytes(Len(sent)))
         /\ DOMAIN line = 1 .. Len(line) /\ DOMAIN buffer = 1 .. Len(buffer)
    BY <1>0, <2>1
  <2>2. \A k \in DOMAIN line : line[k] \in (0 .. 255) \X (0 .. Len(sent))
    BY ONLY <2>1a, ByteIs
  <2>3. \A k \in DOMAIN buffer : buffer[k] \in (0 .. 255) \X (0 .. Len(sent))
    BY ONLY <2>1a, ByteIs
  <2>4. QED
    BY <1>0, <2>1, <2>2, <2>3 DEF Ranging!TypeOK, Ranging!PackNum
<1>3. \A n : n \in Ranging!ToSet(taken) <=> \E k \in 1 .. Len(taken) : taken[k] = n
  BY <1>0, Zenon DEF Ranging!ToSet
<1>4. Ranging!ToSet(taken) \ {0} = (DOMAIN sent \ damaged) \ Ranging!Waiting
  <2>1. ASSUME NEW n \in Ranging!ToSet(taken) \ {0}
        PROVE  n \in 1 .. Len(sent) /\ n \notin damaged /\ n \notin Ranging!Waiting
    <3>1. PICK k \in 1 .. Len(taken) : taken[k] = n /\ n # 0
      BY <1>3, <2>1
    <3>2. n \in 1 .. Len(sent)
      <4>1. n \in 0 .. Len(sent)
        BY <1>0, <3>1
      <4>2. QED
        BY <1>0, <3>1, <4>1
    <3>3. n \notin damaged /\ \A x \in 1 .. Len(s) : Id(s, x) # 0 => n < Id(s, x)
      BY <1>1, <3>1 DEF Ahead
    <3>4. ~(n < n)
      BY <3>2
    <3>5. \A x \in 1 .. Len(s) : Id(s, x) # n
      BY <3>1, <3>3, <3>4
    <3>6. n \notin Ranging!Waiting
      BY <3>5, WaitingIs
    <3>7. QED
      BY <3>2, <3>3, <3>6
  <2>2. ASSUME NEW n \in 1 .. Len(sent), n \notin damaged, n \notin Ranging!Waiting
        PROVE  n \in Ranging!ToSet(taken) \ {0}
    <3>1. ASSUME NEW h, Whole(s, h, sent, n) PROVE FALSE
      <4>0. h \in 1 .. Len(s) /\ \A k \in 0 .. 6 : s[h + k] = << Letter(sent, n, k), n >>
        BY <3>1 DEF Whole
      <4>0a. h \in Int /\ 0 \in 0 .. 6
        BY <1>0, <4>0
      <4>0b. h + 0 = h
        BY ONLY <4>0a
      <4>1. s[h] = << Letter(sent, n, 0), n >>
        BY ONLY <4>0, <4>0a, <4>0b
      <4> DEFINE c == s[h]
                 a == Letter(sent, n, 0)
      <4>2. c = << a, n >>
        BY <4>1
      <4> HIDE DEF a, c
      <4>3. c[2] = n
        BY <4>2
      <4>4. Id(s, h) = n
        BY <4>3 DEF Id, c
      <4>5. QED
        BY <2>2, <4>0, <4>4, WaitingIs
    <3>2. \E k \in 1 .. Len(taken) : taken[k] = n
      BY <1>1, <2>2, <3>1 DEF Known
    <3>3. QED
      BY <1>3, <3>2
  <2>3. QED
    BY <1>0, <2>1, <2>2
<1>5. Ranging!WholeReadingsUsed
  <2>1. \A k, l \in DOMAIN taken : k < l /\ taken[k] # 0 /\ taken[l] # 0 => taken[k] < taken[l]
    BY <1>0, <1>1 DEF Rising
  <2>2. QED
    BY <1>4, <2>1, Zenon DEF Ranging!WholeReadingsUsed
<1>6. Ranging!NothingInvented
  <2>1. ASSUME noises = 0, losses < 7 PROVE 0 \notin Ranging!ToSet(taken)
    BY <1>3, <2>1 DEF ReadingsInv, ReadingsReal
  <2>2. QED
    BY <2>1 DEF Ranging!NothingInvented, Ranging!PackNum
<1>7. QED
  BY <1>2, <1>5, <1>6 DEF ReadingsInv

(* A pair of a byte and a number is a byte on the way. *)
LEMMA ByteIn ==
  ASSUME NEW N \in Nat, NEW a \in 0 .. 255, NEW n \in 0 .. N
  PROVE  << a, n >> \in Bytes(N)
<1> DEFINE A == 0 .. 255
           C == 0 .. N
<1>1. a \in A /\ n \in C
  OBVIOUS
<1>2. Bytes(N) = A \X C
  BY DEF Bytes
<1> HIDE DEF A, C
<1>3. QED
  BY <1>1, <1>2

(* The invariant holds at the start. *)
LEMMA ReadingsInit ==
  ASSUME Ranging!Init, StreamsAssumption
  PROVE  ReadingsInv
<1>1. /\ RangingCapacity \in Nat /\ MaxReadingLosses \in Nat /\ MaxNoise \in Nat
  BY RangingConstants
<1>2. /\ line = << >> /\ buffer = << >> /\ sent = << >> /\ taken = << >> /\ damaged = {}
      /\ losses = 0 /\ noises = 0 /\ Distance = 0
  BY DEF Ranging!Init
<1>3. 0 \in 0 .. Ranging!UInt16 - 1
  BY DEF Ranging!UInt16
<1>4. ReadingsTyped
  BY <1>1, <1>2, <1>3 DEF ReadingsTyped
<1>5. buffer \o line = << >> /\ Len(<< >>) = 0
  BY <1>2
<1>6. Held(<< >>, << >>, {}, << >>)
  <2>1. HeldTyped(<< >>, << >>, {}, << >>)
    BY DEF HeldTyped
  <2>2. /\ Sorted(<< >>) /\ Narrow(<< >>, {}) /\ Known(<< >>, << >>, {}, << >>)
        /\ Ahead(<< >>, {}, << >>) /\ Rising(<< >>)
    BY <1>5 DEF Sorted, Narrow, Known, Ahead, Rising
  <2>3. QED
    BY <2>1, <2>2 DEF Held
<1>7. InSlots(<< >>, << >>, 0)
  <2> DEFINE g == [x \in 1 .. 1 |-> 1]
  <2>1. /\ g \in [1 .. Len(<< >>) + 1 -> Int] /\ g[Len(<< >>) + 1] = 7 * Len(<< >>) + 1
        /\ \A x \in 1 .. 1 : g[x] = 1 /\ x = 1
    BY <1>5
  <2>2. \A x \in 1 .. Len(<< >>) : FALSE
    BY <1>5
  <2>3. \A x, y \in 1 .. Len(<< >>) + 1 : x = 1 /\ y = 1 /\ g[x] = 1 /\ g[y] = 1
    BY <1>5, <2>1
  <2> HIDE DEF g
  <2>4. Slots(<< >>, << >>, g, 0)
    BY <2>1, <2>2, <2>3 DEF Slots
  <2>5. QED
    BY <2>4 DEF InSlots
<1>8. Len(taken) = 0 /\ taken = << >>
  BY <1>2
<1>9. ReadingsHeld /\ ReadingsSlotted
  BY <1>2, <1>5, <1>6, <1>7 DEF ReadingsHeld, ReadingsSlotted
<1>10. ReadingsReal
  BY <1>8 DEF ReadingsReal
<1>11. Ranging!DistanceIsRead
  BY <1>8 DEF Ranging!DistanceIsRead
<1>12. QED
  BY <1>4, <1>9, <1>10, <1>11 DEF ReadingsInv

(* Bytes of the readings so far are bytes of one reading more. *)
LEMMA MoreReadings ==
  ASSUME NEW N \in Nat, NEW s \in Seq(Bytes(N))
  PROVE  s \in Seq(Bytes(N + 1))
<1> DEFINE A == Bytes(N)
           B == Bytes(N + 1)
<1>1. A \subseteq B
  BY DEF Bytes
<1>2. s \in Seq(A)
  OBVIOUS
<1> HIDE DEF A, B
<1>3. s \in Seq(B)
  BY <1>1, <1>2
<1>4. QED
  BY <1>3 DEF B

(* The reading used last is one of those used. *)
LEMMA LastUsed ==
  ASSUME ReadingsInv, taken # << >>
  PROVE  /\ Ranging!Last(taken) = taken[Len(taken)] /\ Len(taken) \in 1 .. Len(taken)
         /\ taken[Len(taken)] \in 0 .. Len(sent)
<1>1. taken \in Seq(0 .. Len(sent)) /\ Len(taken) \in Nat
  BY HeldHas
<1>2. Len(taken) # 0
  BY <1>1
<1>3. Len(taken) \in 1 .. Len(taken)
  BY <1>1, <1>2
<1>4. taken[Len(taken)] \in 0 .. Len(sent)
  <2> DEFINE S == 0 .. Len(sent)
  <2>1. taken \in Seq(S)
    BY <1>1
  <2> HIDE DEF S
  <2>2. taken[Len(taken)] \in S
    BY <1>3, <2>1
  <2>3. QED
    BY <2>2 DEF S
<1>5. QED
  BY <1>3, <1>4 DEF Ranging!Last

(* A reading sent keeps the invariant. *)
LEMMA ReadingsSend ==
  ASSUME StreamsAssumption, ReadingsInv, NEW v \in Value, Ranging!SendReading(v)
  PROVE  ReadingsInv'
<1> DEFINE E == sent
           F == Append(sent, v)
           s == buffer \o line
           z == [k \in 1 .. 7 |-> << Ranging!Reading(v)[k], Len(E) + 1 >>]
           B == Bytes(Len(E) + 1)
<1>0. /\ E \in Seq(Distances) /\ Len(E) \in Nat /\ taken \in Seq(0 .. Len(E))
      /\ Len(line) \in Nat /\ Len(buffer) \in Nat
  BY HeldHas
<1>1. /\ sent' = F /\ Len(line) + 7 <= RangingCapacity /\ line' = line \o z
      /\ buffer' = buffer /\ Distance' = Distance /\ taken' = taken /\ damaged' = damaged
      /\ losses' = losses /\ noises' = noises
  <2>1. /\ sent' = F /\ Len(line) + 7 <= RangingCapacity
        /\ line' = line \o [k \in 1 .. 7 |-> << Ranging!Reading(v)[k], Len(sent') >>]
        /\ buffer' = buffer /\ Distance' = Distance /\ taken' = taken /\ damaged' = damaged
        /\ losses' = losses /\ noises' = noises
    BY DEF Ranging!SendReading, Ranging!PackNum
  <2>2. Len(F) = Len(E) + 1
    BY <1>0
  <2>3. Len(sent') = Len(E) + 1
    BY <2>1, <2>2
  <2>4. QED
    BY <2>1, <2>3
<1>2. v \in Distances /\ RangingCapacity \in Nat
  BY RangingConstants
<1>3. F \in Seq(Value) /\ Len(F) = Len(E) + 1 /\ \A n \in 1 .. Len(E) : F[n] = E[n]
  BY <1>0 DEF ReadingsInv, ReadingsTyped
<1>4. z \in Seq(B) /\ Len(z) = 7
  <2>1. \A k \in 1 .. 7 : << Ranging!Reading(v)[k], Len(E) + 1 >> \in B
    <3>1. \A k \in 1 .. 7 : Ranging!Reading(v)[k] \in 0 .. 255
      BY <1>2, ReadingIs
    <3>2. Len(E) + 1 \in Nat /\ Len(E) + 1 \in 0 .. Len(E) + 1
      BY <1>0
    <3>3. QED
      BY <3>1, <3>2, ByteIn
  <2> HIDE DEF B
  <2>2. QED
    BY <2>1
<1>5. line \in Seq(B) /\ buffer \in Seq(B)
  <2>1. line \in Seq(Bytes(Len(sent))) /\ buffer \in Seq(Bytes(Len(sent)))
    BY DEF ReadingsInv, ReadingsTyped
  <2>2. QED
    BY <1>0, <2>1, MoreReadings
<1>6. z = [k \in 1 .. 7 |-> << Ranging!Reading(v)[k], Len(E) + 1 >>]
  OBVIOUS
<1> HIDE DEF z, B
<1>7. buffer \o (line \o z) \in Seq(B) /\ Longer(s, buffer \o (line \o z), z)
  BY ONLY <1>4, <1>5, JoinedMore DEF s
<1>8. line' \in Seq(B) /\ Len(line') = Len(line) + 7
  <2>1. line \o z \in Seq(B) /\ Len(line \o z) = Len(line) + Len(z)
    BY ONLY <1>4, <1>5, ConcatProperties
  <2>2. QED
    BY <1>1, <1>4, <2>1
<1> DEFINE t == buffer \o (line \o z)
<1>9. t = buffer' \o line'
  BY <1>1
<1>9a. Len(s) \in Nat /\ Len(t) \in Nat
  <2>1. s \in Seq(Bytes(Len(sent)))
    BY HeldHas
  <2>2. QED
    BY <1>7, <2>1
<1>10. ReadingsTyped'
  <2>1. line' \in Seq(Bytes(Len(sent'))) /\ buffer' \in Seq(Bytes(Len(sent')))
    BY <1>1, <1>3, <1>5, <1>8 DEF B
  <2>2. Len(line') <= RangingCapacity /\ Len(buffer') < 7 /\ sent' \in Seq(Value)
    BY <1>1, <1>3, <1>8 DEF ReadingsInv, ReadingsTyped
  <2>3. Distance' \in 0 .. Ranging!UInt16 - 1 /\ losses' \in 0 .. MaxReadingLosses /\ noises' \in 0 .. MaxNoise
    BY <1>1 DEF ReadingsInv, ReadingsTyped
  <2>4. QED
    BY <2>1, <2>2, <2>3 DEF ReadingsTyped
<1> HIDE DEF s, t
<1>11. Held(t, F, damaged, taken)
  <2>1. Held(s, E, damaged, taken)
    BY DEF ReadingsInv, ReadingsHeld, s
  <2>2. t \in Seq(Bytes(Len(E) + 1)) /\ Longer(s, t, z)
    BY <1>7 DEF t, B
  <2>3. QED
    BY <1>2, <1>6, <2>1, <2>2, HeldSend
<1>12. noises = 0 => InSlots(t, F, losses)
  <2> SUFFICES ASSUME noises = 0 PROVE InSlots(t, F, losses)
    OBVIOUS
  <2>1. InSlots(s, E, losses)
    BY DEF ReadingsInv, ReadingsSlotted, s
  <2>2. losses \in Nat
    BY RangingConstants DEF ReadingsInv, ReadingsTyped
  <2>3. Longer(s, t, z)
    BY <1>7 DEF t
  <2>4. QED
    BY <1>0, <1>2, <1>6, <1>9a, <2>1, <2>2, <2>3, SlotsSend
<1>13. ReadingsHeld' /\ ReadingsSlotted'
  BY <1>1, <1>9, <1>11, <1>12 DEF ReadingsHeld, ReadingsSlotted
<1>14. ReadingsReal'
  BY <1>1 DEF ReadingsInv, ReadingsReal
<1>15. Ranging!DistanceIsRead'
  <2> SUFFICES ASSUME taken # << >>, Ranging!Last(taken) # 0
               PROVE  Distance = F[Ranging!Last(taken)]
    BY <1>1, Zenon DEF Ranging!DistanceIsRead
  <2>1. Distance = E[Ranging!Last(taken)]
    BY DEF ReadingsInv, Ranging!DistanceIsRead
  <2>2. Ranging!Last(taken) \in 1 .. Len(E)
    BY <1>0, LastUsed
  <2>3. QED
    BY <1>3, <2>1, <2>2
<1>16. QED
  BY <1>10, <1>13, <1>14, <1>15 DEF ReadingsInv

(* Noise keeps it. *)
LEMMA ReadingsNoise ==
  ASSUME StreamsAssumption, ReadingsInv, NEW a \in Noise, Ranging!SendNoise(a)
  PROVE  ReadingsInv'
<1> DEFINE s == buffer \o line
           z == << << a, 0 >> >>
           B == Bytes(Len(sent))
           t == buffer \o (line \o z)
<1>0. /\ sent \in Seq(Distances) /\ Len(sent) \in Nat /\ Len(line) \in Nat /\ Len(buffer) \in Nat
      /\ s \in Seq(B)
  BY HeldHas
<1>1. /\ noises < MaxNoise /\ noises' = noises + 1 /\ Len(line) < RangingCapacity
      /\ line' = Append(line, << a, 0 >>)
      /\ buffer' = buffer /\ Distance' = Distance /\ sent' = sent /\ taken' = taken
      /\ damaged' = damaged /\ losses' = losses
  BY DEF Ranging!SendNoise
<1>2. a \in 0 .. 255 /\ RangingCapacity \in Nat /\ MaxNoise \in Nat
  BY RangingConstants
<1>3. line \in Seq(B) /\ buffer \in Seq(B)
  BY DEF ReadingsInv, ReadingsTyped
<1>3a. << a, 0 >> \in B
  <2>1. 0 \in 0 .. Len(sent)
    BY <1>0
  <2>2. QED
    BY <1>0, <1>2, <2>1, ByteIn
<1>4. z \in Seq(B) /\ Len(z) = 1
  <2>1. << a, 0 >> \in B
    BY <1>3a
  <2> HIDE DEF B
  <2>2. QED
    BY <2>1
<1>5. line' = line \o z
  <2> DEFINE c == << a, 0 >>
  <2>1. line \in Seq(B) /\ c \in B
    BY <1>3, <1>3a
  <2> HIDE DEF B, c
  <2>2. Append(line, c) = line \o << c >>
    BY <2>1, AppendIsConcat
  <2>3. QED
    BY <1>1, <2>2 DEF c
<1>6. z = << << a, 0 >> >>
  OBVIOUS
<1> HIDE DEF z, B, s
<1>7. t \in Seq(B) /\ Longer(s, t, z)
  BY ONLY <1>3, <1>4, JoinedMore DEF s, t
<1> HIDE DEF t
<1>8. line' \in Seq(B) /\ Len(line') = Len(line) + 1
  <2>1. line \o z \in Seq(B) /\ Len(line \o z) = Len(line) + Len(z)
    BY ONLY <1>3, <1>4, ConcatProperties
  <2>2. QED
    BY <1>4, <1>5, <2>1
<1>9. ReadingsTyped'
  <2>1. line' \in Seq(Bytes(Len(sent'))) /\ buffer' \in Seq(Bytes(Len(sent')))
    BY <1>1, <1>3, <1>8 DEF B
  <2>2. Len(line') <= RangingCapacity /\ Len(buffer') < 7 /\ sent' \in Seq(Value)
    BY <1>0, <1>1, <1>2, <1>8 DEF ReadingsInv, ReadingsTyped
  <2>3. Distance' \in 0 .. Ranging!UInt16 - 1 /\ losses' \in 0 .. MaxReadingLosses /\ noises' \in 0 .. MaxNoise
    BY <1>1, <1>2 DEF ReadingsInv, ReadingsTyped
  <2>4. QED
    BY <2>1, <2>2, <2>3 DEF ReadingsTyped
<1>10. Held(t, sent, damaged, taken)
  <2>1. Held(s, sent, damaged, taken)
    BY DEF ReadingsInv, ReadingsHeld, s
  <2>2. t \in Seq(Bytes(Len(sent))) /\ Longer(s, t, z)
    BY <1>7 DEF B
  <2>3. QED
    BY <1>6, <2>1, <2>2, HeldNoise
<1>11. t = buffer' \o line'
  BY <1>1, <1>5 DEF t
<1>12. noises' # 0
  BY <1>1, <1>2 DEF ReadingsInv, ReadingsTyped
<1>13. ReadingsHeld' /\ ReadingsSlotted' /\ ReadingsReal'
  BY <1>1, <1>10, <1>11, <1>12 DEF ReadingsHeld, ReadingsSlotted, ReadingsReal
<1>14. Ranging!DistanceIsRead'
  BY <1>1 DEF ReadingsInv, Ranging!DistanceIsRead
<1>15. QED
  BY <1>9, <1>13, <1>14 DEF ReadingsInv

(* A byte lost keeps it. *)
LEMMA ReadingsLose ==
  ASSUME StreamsAssumption, ReadingsInv, NEW k \in DOMAIN line, Ranging!Lose(k)
  PROVE  ReadingsInv'
<1> DEFINE s == buffer \o line
           w == SubSeq(line, 1, k - 1) \o SubSeq(line, k + 1, Len(line))
           B == Bytes(Len(sent))
           t == buffer \o w
           p == Len(buffer) + k
<1>0. /\ sent \in Seq(Distances) /\ Len(sent) \in Nat /\ Len(line) \in Nat /\ Len(buffer) \in Nat
      /\ s \in Seq(B) /\ Len(s) \in Nat
  BY HeldHas
<1>1. /\ losses < MaxReadingLosses /\ losses' = losses + 1
      /\ line' = w /\ damaged' = damaged \cup {line[k][2]}
      /\ buffer' = buffer /\ Distance' = Distance /\ sent' = sent /\ taken' = taken
      /\ noises' = noises
  BY DEF Ranging!Lose, Ranging!RemoveAt
<1>2. RangingCapacity \in Nat /\ MaxReadingLosses \in Nat
  BY RangingConstants
<1>3. line \in Seq(B) /\ buffer \in Seq(B) /\ k \in 1 .. Len(line)
  BY DEF ReadingsInv, ReadingsTyped
<1> HIDE DEF B
<1>4. w \in Seq(B) /\ Shorter(line, w, k)
  BY ONLY <1>3, Without
<1> HIDE DEF w
<1>5. t \in Seq(B) /\ Shorter(s, t, p)
  BY ONLY <1>3, <1>4, JoinedLess DEF s, t, p
<1>6. p \in 1 .. Len(s) /\ Id(s, p) = line[k][2]
  <2>1. Len(s) = Len(buffer) + Len(line) /\ s[Len(buffer) + k] = line[k]
    BY ONLY <1>3, Joined DEF s
  <2> HIDE DEF s
  <2>2. p \in 1 .. Len(s)
    BY <1>0, <1>3, <2>1
  <2>3. QED
    BY <2>1, <2>2 DEF Id
<1> HIDE DEF s, t, p
<1>7. Len(t) \in Nat /\ Len(line') <= RangingCapacity
  <2>1. Len(line') = Len(line) - 1 /\ Len(line) <= RangingCapacity
    BY <1>1, <1>4 DEF Shorter, ReadingsInv, ReadingsTyped
  <2>2. QED
    BY <1>0, <1>2, <1>5, <2>1
<1>8. ReadingsTyped'
  <2>1. line' \in Seq(Bytes(Len(sent'))) /\ buffer' \in Seq(Bytes(Len(sent')))
    BY <1>1, <1>3, <1>4 DEF B
  <2>2. Len(line') <= RangingCapacity /\ Len(buffer') < 7 /\ sent' \in Seq(Value)
    BY <1>1, <1>7 DEF ReadingsInv, ReadingsTyped
  <2>3. Distance' \in 0 .. Ranging!UInt16 - 1 /\ losses' \in 0 .. MaxReadingLosses /\ noises' \in 0 .. MaxNoise
    BY <1>1, <1>2 DEF ReadingsInv, ReadingsTyped
  <2>4. QED
    BY <2>1, <2>2, <2>3 DEF ReadingsTyped
<1>9. Held(t, sent, damaged \cup {Id(s, p)}, taken)
  <2>1. Held(s, sent, damaged, taken)
    BY DEF ReadingsInv, ReadingsHeld, s
  <2>2. t \in Seq(Bytes(Len(sent))) /\ Shorter(s, t, p)
    BY <1>5 DEF B
  <2>3. QED
    BY <1>6, <2>1, <2>2, HeldLose
<1>10. noises = 0 => InSlots(t, sent, losses + 1)
  <2> SUFFICES ASSUME noises = 0 PROVE InSlots(t, sent, losses + 1)
    OBVIOUS
  <2>1. InSlots(s, sent, losses) /\ losses \in Nat
    BY RangingConstants DEF ReadingsInv, ReadingsSlotted, ReadingsTyped, s
  <2>2. QED
    BY <1>0, <1>5, <1>6, <1>7, <2>1, SlotsLose
<1>11. t = buffer' \o line'
  BY <1>1 DEF t
<1>12. ReadingsHeld' /\ ReadingsSlotted'
  BY <1>1, <1>6, <1>9, <1>10, <1>11 DEF ReadingsHeld, ReadingsSlotted
<1>13. ReadingsReal'
  <2>1. losses' < 7 => losses < 7
    BY <1>1, <1>2 DEF ReadingsInv, ReadingsTyped
  <2>2. QED
    BY <1>1, <2>1 DEF ReadingsInv, ReadingsReal
<1>14. Ranging!DistanceIsRead'
  BY <1>1 DEF ReadingsInv, Ranging!DistanceIsRead
<1>15. QED
  BY <1>8, <1>12, <1>13, <1>14 DEF ReadingsInv

(* The other links leave it alone. *)
LEMMA ReadingsRest ==
  ASSUME ReadingsInv, UNCHANGED << frameVars, Distance, noises >>
  PROVE  ReadingsInv'
BY DEF ReadingsInv, ReadingsTyped, ReadingsHeld, ReadingsSlotted, ReadingsReal, frameVars,
       Ranging!DistanceIsRead

(* What usart1_rx_entry makes of the bytes, apart from the names of the    *)
(* variables: s was on its way, t still is.                                *)
LEMMA ReadingsReadOut ==
  ASSUME StreamsAssumption, ReadingsInv, NEW arrived \in DOMAIN line, Ranging!Read(arrived)
  PROVE  \E b, r, out, O :
           /\ b \in Seq(Bytes(Len(sent))) /\ Len(b) <= Len(buffer \o line)
           /\ IsScanned(buffer \o line, buffer' \o line', b, r, out, sent, O)
           /\ line' \in Seq(Bytes(Len(sent))) /\ buffer' \in Seq(Bytes(Len(sent)))
           /\ Len(line') <= RangingCapacity /\ Len(buffer') < 7
           /\ taken' = taken \o O
           /\ Distance' = IF out = << >> THEN Distance ELSE Ranging!DataProc(b, out[Len(out)])
<1> DEFINE B == Bytes(Len(sent))
           s == buffer \o line
           v1 == SubSeq(line, 1, arrived)
           v2 == SubSeq(line, arrived + 1, Len(line))
           b == Ranging!Extend(v1)
           parsed == Ranging!TryParse(b)
<1>0. /\ line \in Seq(B) /\ buffer \in Seq(B) /\ Len(line) \in Nat /\ Len(buffer) \in Nat
      /\ arrived \in 1 .. Len(line) /\ Len(line) <= RangingCapacity /\ Len(buffer) < 7
      /\ RangingCapacity \in Nat /\ RangingMaxLen \in Nat /\ RangingMaxLen >= RangingCapacity + 6
      /\ arrived \in DOMAIN line
  BY RangingConstants DEF ReadingsInv, ReadingsTyped
<1>0a. sent \in Seq(Distances) /\ Len(sent) \in Nat
  BY HeldHas
<1>1. /\ line' = v2 /\ buffer' = parsed.rest
      /\ Distance' = IF parsed.frames = << >> THEN Distance
                     ELSE Ranging!DataProc(b, Ranging!Last(parsed.frames))
      /\ taken' = taken \o [k \in DOMAIN parsed.frames |-> Ranging!Origin(b, parsed.frames[k])]
  BY Zenon DEF Ranging!Read
<1>2. v1 \in Seq(B) /\ Len(v1) = arrived
  <2> HIDE DEF B
  <2>1. QED
    BY <1>0
<1>3. v2 \in Seq(B) /\ Len(v2) <= RangingCapacity
  <2>1. arrived + 1 \in 1 .. Len(line) + 1
    BY <1>0
  <2> HIDE DEF B
  <2>2. v2 \in Seq(B) /\ Len(v2) = Len(line) + 1 - (arrived + 1)
    BY <1>0, <2>1, RestIs
  <2> HIDE DEF v2
  <2>3. QED
    BY <1>0, <2>2
<1>4. b = buffer \o v1
  <2> HIDE DEF v1
  <2>1. ~(Len(buffer) + Len(v1) > RangingMaxLen)
    BY <1>0, <1>2
  <2>2. QED
    BY <2>1 DEF Ranging!Extend
<1> HIDE DEF b, parsed, B, s
<1>5. /\ b \in Seq(B) /\ Len(b) = Len(buffer) + arrived /\ Prefix(s, b)
      /\ \A r \in 1 .. Len(b) + 1 :
           /\ SubSeq(b, r, Len(b)) \o v2 \in Seq(B)
           /\ Later(s, SubSeq(b, r, Len(b)) \o v2, r)
  <2>1. /\ line \in Seq(B) /\ buffer \in Seq(B) /\ arrived \in 1 .. Len(line)
        /\ b = buffer \o SubSeq(line, 1, arrived)
    BY <1>0, <1>4 DEF v1
  <2>2. IsRead(B, buffer, line, arrived, b)
    BY <2>1 DEF IsRead
  <2>3. /\ b \in Seq(B) /\ Len(b) = Len(buffer) + arrived /\ Prefix(buffer \o line, b)
        /\ KeptFrom(B, buffer \o line, b, SubSeq(line, arrived + 1, Len(line)))
    BY ONLY <2>2, JoinedRead
  <2>4. QED
    BY <2>3, Zenon DEF s, v2, KeptFrom
<1> HIDE DEF v1, v2
<1>6. PICK r, out : Scanned(b, 1, r, out) /\ parsed = [rest |-> SubSeq(b, r, Len(b)), frames |-> out]
  BY <1>5, ReadingParser DEF parsed
<1>7. Len(b) \in Nat
  BY <1>5
<1>8. /\ r \in 1 .. Len(b) + 1 /\ r + 6 > Len(b) /\ out \in Seq(Int)
      /\ \A k \in 1 .. Len(out) : 1 <= out[k] /\ Ranging!IsFrame(b, out[k])
  BY <1>6 DEF Scanned
<1> DEFINE O == [k \in DOMAIN out |-> Ranging!Origin(b, out[k])]
           t == SubSeq(b, r, Len(b)) \o v2
<1>9. Origins(b, out, sent, O)
  BY <1>0a, <1>7, <1>8, OriginsAre
<1>10. parsed.rest = SubSeq(b, r, Len(b)) /\ parsed.frames = out
  BY <1>6
<1>11. taken' = taken \o O /\ buffer' = SubSeq(b, r, Len(b)) /\ line' = v2
  BY <1>1, <1>10
<1> HIDE DEF O
<1>12. buffer' \in Seq(B) /\ Len(buffer') < 7
  <2> DEFINE c == SubSeq(b, r, Len(b))
  <2>1. c \in Seq(B) /\ Len(c) = Len(b) + 1 - r
    BY ONLY <1>5, <1>8, RestIs
  <2> HIDE DEF c
  <2>2. Len(c) < 7
    BY ONLY <1>7, <1>8, <2>1
  <2>3. QED
    BY <1>11, <2>1, <2>2 DEF c
<1>13. t = buffer' \o line'
  BY <1>11
<1>14. t \in Seq(B) /\ Later(s, t, r)
  BY <1>5, <1>8
<1> HIDE DEF t
<1>15. IsScanned(s, t, b, r, out, sent, O)
  BY <1>5, <1>6, <1>7, <1>9, <1>14 DEF IsScanned, B
<1>16. Len(b) <= Len(s)
  BY <1>5 DEF Prefix
<1>17. Distance' = IF out = << >> THEN Distance ELSE Ranging!DataProc(b, out[Len(out)])
  BY <1>1, <1>10, Zenon DEF Ranging!Last
<1>18. /\ b \in Seq(Bytes(Len(sent))) /\ Len(b) <= Len(buffer \o line)
       /\ IsScanned(buffer \o line, buffer' \o line', b, r, out, sent, O)
       /\ line' \in Seq(Bytes(Len(sent))) /\ buffer' \in Seq(Bytes(Len(sent)))
       /\ Len(line') <= RangingCapacity /\ Len(buffer') < 7
  BY <1>3, <1>5, <1>11, <1>12, <1>13, <1>15, <1>16 DEF s, B
<1>19. QED
  BY <1>11, <1>17, <1>18, Zenon

(* A read, its parse and the distance it leaves keep it. *)
LEMMA ReadingsRead ==
  ASSUME StreamsAssumption, ReadingsInv, NEW arrived \in DOMAIN line, Ranging!Read(arrived)
  PROVE  ReadingsInv'
<1> DEFINE s == buffer \o line
           t == buffer' \o line'
           E == sent
<1>0. /\ sent' = sent /\ damaged' = damaged /\ losses' = losses /\ noises' = noises
  BY DEF Ranging!Read
<1>1. PICK b, r, out, O :
           /\ b \in Seq(Bytes(Len(sent))) /\ Len(b) <= Len(s)
           /\ IsScanned(s, t, b, r, out, E, O)
           /\ line' \in Seq(Bytes(Len(sent))) /\ buffer' \in Seq(Bytes(Len(sent)))
           /\ Len(line') <= RangingCapacity /\ Len(buffer') < 7
           /\ taken' = taken \o O
           /\ Distance' = IF out = << >> THEN Distance ELSE Ranging!DataProc(b, out[Len(out)])
  BY ReadingsReadOut, Zenon
<1>2. /\ E \in Seq(Distances) /\ Len(E) \in Nat /\ Len(s) \in Nat
      /\ taken \in Seq(0 .. Len(E)) /\ Len(taken) \in Nat
  BY HeldHas
<1>3. /\ Len(b) \in Nat /\ Prefix(s, b) /\ t \in Seq(Bytes(Len(E))) /\ Later(s, t, r)
      /\ O \in Seq(0 .. Len(E)) /\ Len(O) = Len(out) /\ Len(O) \in Nat
      /\ \A k \in 1 .. Len(out) : O[k] = 0 \/ Whole(b, out[k], E, O[k])
      /\ \A k \in 1 .. Len(out), n \in 1 .. Len(E) : Whole(b, out[k], E, n) => O[k] = n
      /\ r \in 1 .. Len(b) + 1 /\ out \in Seq(Int)
      /\ \A k \in 1 .. Len(out) : 1 <= out[k] /\ Ranging!IsFrame(b, out[k])
  BY <1>1 DEF IsScanned, Origins, Scanned
<1>4. Len(t) \in Nat /\ r \in 1 .. Len(s) + 1 /\ \A k \in 1 .. Len(out) : out[k] \in Int
  BY <1>1, <1>2, <1>3
<1> HIDE DEF s, t
<1>5. /\ taken \o O \in Seq(0 .. Len(E)) /\ Len(taken \o O) = Len(taken) + Len(O)
      /\ \A k \in 1 .. Len(taken) : (taken \o O)[k] = taken[k]
      /\ \A k \in 1 .. Len(O) : (taken \o O)[Len(taken) + k] = O[k]
  <2> DEFINE S == 0 .. Len(E)
  <2>1. taken \in Seq(S) /\ O \in Seq(S)
    BY <1>2, <1>3
  <2> HIDE DEF S
  <2>2. /\ taken \o O \in Seq(S) /\ Len(taken \o O) = Len(taken) + Len(O)
        /\ \A k \in 1 .. Len(taken) : (taken \o O)[k] = taken[k]
        /\ \A k \in 1 .. Len(O) : (taken \o O)[Len(taken) + k] = O[k]
    BY ONLY <2>1, Joined
  <2>3. QED
    BY <2>2 DEF S
<1>6. Held(t, E, damaged, taken \o O)
  <2>1. Held(s, E, damaged, taken)
    BY DEF ReadingsInv, ReadingsHeld, s
  <2>2. QED
    BY <1>1, <2>1, HeldRead
<1>7. ReadingsHeld'
  BY <1>0, <1>1, <1>6 DEF ReadingsHeld, t
<1>8. losses \in Nat
  BY RangingConstants DEF ReadingsInv, ReadingsTyped
<1>9. ASSUME noises = 0 PROVE InSlots(s, E, losses) /\ InSlots(t, E, losses)
  <2>1. InSlots(s, E, losses)
    BY <1>9 DEF ReadingsInv, ReadingsSlotted, s
  <2>2. QED
    BY <1>2, <1>3, <1>4, <1>8, <2>1, SlotsRead
<1>10. ReadingsSlotted'
  BY <1>0, <1>9 DEF ReadingsSlotted, t
<1>11. ReadingsReal'
  <2> SUFFICES ASSUME noises = 0, losses < 7, NEW k \in 1 .. Len(taken \o O)
               PROVE  (taken \o O)[k] # 0
    BY <1>0, <1>1 DEF ReadingsReal
  <2>1. CASE k <= Len(taken)
    <3>1. k \in 1 .. Len(taken)
      BY <2>1
    <3>2. taken[k] # 0
      BY <3>1 DEF ReadingsInv, ReadingsReal
    <3>3. QED
      BY <1>5, <3>1, <3>2
  <2>2. CASE ~(k <= Len(taken))
    <3> DEFINE l == k - Len(taken)
    <3>1. l \in 1 .. Len(O) /\ Len(taken) + l = k
      BY <1>2, <1>3, <1>5, <2>2
    <3> HIDE DEF l
    <3>2. (taken \o O)[k] = O[l]
      BY ONLY <1>5, <3>1
    <3>3. out[l] \in Int /\ 1 <= out[l] /\ Ranging!IsFrame(b, out[l]) /\ l \in 1 .. Len(out)
      BY <1>3, <1>4, <3>1
    <3>4. \E n \in 1 .. Len(E) : Whole(b, out[l], E, n)
      BY <1>2, <1>3, <1>8, <1>9, <3>3, SlotsFrame
    <3>5. PICK n \in 1 .. Len(E) : O[l] = n
      BY <1>3, <3>3, <3>4
    <3>6. QED
      BY <3>2, <3>5
  <2>3. QED
    BY <2>1, <2>2
<1>12. ASSUME Len(out) # 0
       PROVE  /\ Len(out) \in 1 .. Len(out) /\ out # << >>
              /\ out[Len(out)] \in Int /\ 1 <= out[Len(out)] /\ out[Len(out)] + 6 <= Len(b)
  <2> DEFINE x == out[Len(out)]
  <2>1. Len(out) \in 1 .. Len(out) /\ out # << >>
    BY <1>3, <1>12
  <2>2. x \in Int /\ 1 <= x /\ Ranging!IsFrame(b, x)
    BY <1>3, <1>4, <2>1
  <2> HIDE DEF x
  <2>3. x + 7 - 1 <= Len(b)
    BY <2>2 DEF Ranging!IsFrame, Ranging!PackNum
  <2>4. x + 6 <= Len(b)
    BY ONLY <1>3, <2>2, <2>3
  <2>5. QED
    BY <2>1, <2>2, <2>4 DEF x
<1>13. Len(out) = 0 => out = << >> /\ O = << >> /\ taken \o O = taken
  <2> SUFFICES ASSUME Len(out) = 0 PROVE out = << >> /\ O = << >> /\ taken \o O = taken
    OBVIOUS
  <2>1. out = << >> /\ O = << >>
    BY <1>3, EmptySeq
  <2>2. taken \o << >> = taken
    BY <1>2
  <2>3. QED
    BY <2>1, <2>2
<1>14. Distance' \in 0 .. Ranging!UInt16 - 1
  <2>1. CASE Len(out) = 0
    BY <1>1, <1>13, <2>1 DEF ReadingsInv, ReadingsTyped
  <2>2. CASE Len(out) # 0
    <3>1. Distance' = Ranging!DataProc(b, out[Len(out)])
      BY <1>1, <1>12, <2>2
    <3>2. QED
      BY <1>1, <1>2, <1>12, <2>2, <3>1, DistanceFits
  <2>3. QED
    BY <2>1, <2>2
<1>15. ReadingsTyped'
  BY <1>0, <1>1, <1>14 DEF ReadingsInv, ReadingsTyped
<1>16. Ranging!DistanceIsRead'
  <2> DEFINE all == taken \o O
  <2> SUFFICES ASSUME all # << >>, Ranging!Last(all) # 0
               PROVE  Distance' = E[Ranging!Last(all)]
    BY <1>0, <1>1, Zenon DEF Ranging!DistanceIsRead
  <2>1. CASE Len(out) = 0
    <3>1. all = taken /\ Distance' = Distance
      BY <1>1, <1>13, <2>1
    <3>2. QED
      BY <3>1 DEF ReadingsInv, Ranging!DistanceIsRead
  <2>2. CASE Len(out) # 0
    <3> DEFINE x == out[Len(out)]
               n == O[Len(out)]
    <3>1. Ranging!Last(all) = n
      <4>1. Ranging!Last(all) = all[Len(all)]
        BY DEF Ranging!Last
      <4>2. Len(out) \in 1 .. Len(O) /\ Len(all) = Len(taken) + Len(out)
        BY <1>3, <1>5, <1>12, <2>2
      <4>3. all[Len(taken) + Len(out)] = O[Len(out)]
        BY <1>5, <4>2
      <4>4. QED
        BY <4>1, <4>2, <4>3
    <3>2. n \in 1 .. Len(E) /\ Whole(b, x, E, n)
      <4>1. Len(out) \in 1 .. Len(O) /\ Len(out) \in 1 .. Len(out)
        BY <1>3, <1>12, <2>2
      <4>2. n = 0 \/ Whole(b, x, E, n)
        BY <1>3, <4>1
      <4>3. n \in 0 .. Len(E)
        <5> DEFINE S == 0 .. Len(E)
        <5>1. O \in Seq(S)
          BY <1>3
        <5> HIDE DEF S
        <5>2. n \in S
          BY <4>1, <5>1
        <5>3. QED
          BY <5>2 DEF S
      <4> HIDE DEF n
      <4>4. QED
        BY <3>1, <4>2, <4>3
    <3>3. x \in Int
      BY <1>12, <2>2
    <3> HIDE DEF n, x
    <3>4. E[n] \in Distances
      BY <1>2, <3>2
    <3>5. \A k \in 0 .. 6 : b[x + k][1] = Ranging!Reading(E[n])[k + 1]
      <4> SUFFICES ASSUME NEW k \in 0 .. 6 PROVE b[x + k][1] = Ranging!Reading(E[n])[k + 1]
        OBVIOUS
      <4>0. Len(b) \in Nat /\ Whole(b, x, E, n) /\ k \in 0 .. 6
        BY <1>3, <3>2
      <4>1. b[x + k][1] = Letter(E, n, k)
        BY ONLY <4>0, WholeHas
      <4>2. QED
        BY <4>1 DEF Letter
    <3>6. Ranging!DataProc(b, x) = E[n]
      BY <3>3, <3>4, <3>5, Decoded
    <3>7. Distance' = Ranging!DataProc(b, x)
      BY <1>1, <1>12, <2>2 DEF x
    <3>8. QED
      BY <3>1, <3>6, <3>7
  <2>3. QED
    BY <2>1, <2>2
<1>17. QED
  BY <1>7, <1>10, <1>11, <1>15, <1>16 DEF ReadingsInv

(* Ranging (usart1_rx_entry, usart1_try_parse, VL53_DataProc): a reading   *)
(* that arrived whole is used, once and in its turn, whatever was lost or  *)
(* made up around it, and Distance is what the sensor wrote; without noise *)
(* fewer lost bytes than a reading has never make a distance out of parts  *)
(* of two readings.                                                        *)
THEOREM ReadingsAreUsed == StreamsSpec => []ReadingsUsed
<1> DEFINE Inv == link = "ranging" => ReadingsInv
<1>1. StreamsInit => Inv
  <2> SUFFICES ASSUME StreamsInit, link = "ranging" PROVE ReadingsInv
    OBVIOUS
  <2>1. Ranging!Init
    BY DEF StreamsInit
  <2>2. QED
    BY <2>1, ReadingsInit, StreamsAssumption
<1>2. Inv /\ [StreamsNext]_<< link, commandVars, forgeVars, otherVars >> => Inv'
  <2> SUFFICES ASSUME Inv, [StreamsNext]_<< link, commandVars, forgeVars, otherVars >>,
                      link' = "ranging"
               PROVE  ReadingsInv'
    OBVIOUS
  <2>1. CASE RangingStep
    <3>1. ReadingsInv /\ Ranging!Next
      BY <2>1 DEF RangingStep
    <3>2. ASSUME NEW v \in Value, Ranging!SendReading(v) PROVE ReadingsInv'
      BY <3>1, <3>2, ReadingsSend, StreamsAssumption
    <3>3. ASSUME NEW a \in Noise, Ranging!SendNoise(a) PROVE ReadingsInv'
      BY <3>1, <3>3, ReadingsNoise, StreamsAssumption
    <3>4. ASSUME NEW k \in DOMAIN line, Ranging!Lose(k) PROVE ReadingsInv'
      BY <3>1, <3>4, ReadingsLose, StreamsAssumption
    <3>5. ASSUME NEW arrived \in DOMAIN line, Ranging!Read(arrived) PROVE ReadingsInv'
      BY <3>1, <3>5, ReadingsRead, StreamsAssumption
    <3>6. QED
      BY <3>1, <3>2, <3>3, <3>4, <3>5 DEF Ranging!Next
  <2>2. CASE ~RangingStep
    <3>1. UNCHANGED << link, commandVars, forgeVars, otherVars >>
      <4>1. link' = link
        BY DEF StreamsNext, CommandStep, ForgeStep, CameraStep, StallStep, PacketStep,
               RangingStep, CutsStep, Rest
      <4>2. QED
        BY <2>2, <4>1 DEF StreamsNext, CommandStep, ForgeStep, CameraStep, StallStep,
                          PacketStep, CutsStep
    <3>2. link = "ranging" /\ UNCHANGED << frameVars, Distance, noises >>
      BY <3>1 DEF otherVars
    <3>3. QED
      BY <3>2, ReadingsRest
  <2>3. QED
    BY <2>1, <2>2
<1>3. Inv => ReadingsUsed
  BY ReadingsInvHolds DEF ReadingsUsed
<1>4. QED
  BY <1>1, <1>2, <1>3, PTL DEF StreamsSpec
=============================================================================
