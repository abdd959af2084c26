--------------------------- MODULE SpeedyBeeProofs ---------------------------
(***************************************************************************)
(* Theorems about the SpeedyBee firmware and the frames it exchanges with  *)
(* an ESP32 node: what is encoded is what is decoded, for every value a    *)
(* field can hold; and for any number of nodes, any timing and any         *)
(* commands the firmware ranges whom it means to, as whom it is, keeps its *)
(* amplifier with its chip, and is quiet for half a turn of its clock when *)
(* nobody wants quality reports any more.                                  *)
(***************************************************************************)
EXTENDS SpeedyBee, SequenceTheorems, WellFoundedInduction, TLAPS

(* The least-number principle, from the well-foundedness of <.             *)
LEMMA LeastNatural ==
  ASSUME NEW T \in SUBSET Nat, T # {}
  PROVE  \E x \in T : \A y \in T : x <= y
<1> DEFINE R == OpToRel(<, Nat)
<1>1. IsWellFoundedOn(R, Nat)
  BY NatLessThanWellFounded
<1>2. \A x, y \in Nat : x < y => <<x, y>> \in R
  BY DEF OpToRel
<1> HIDE DEF R
<1>3. PICK x \in T : \A y \in T : ~(<<y, x>> \in R)
  BY <1>1, WFMin
<1>4. ASSUME NEW y \in T PROVE x <= y
  <2>1. x \in Nat /\ y \in Nat
    OBVIOUS
  <2>2. ~(y < x)
    BY <1>2, <1>3, <2>1
  <2>. QED BY <2>1, <2>2
<1>. QED BY <1>4

-----------------------------------------------------------------------------
(* A field.                                                                *)

(* Whole divisions undone: v is its byte and the rest.                     *)
LEMMA OneByte ==
  ASSUME NEW v \in Int
  PROVE  v % 256 \in 0 .. 255 /\ v \div 256 \in Int /\ ((v \div 256) * 256) + (v % 256) = v
BY Z3

(* The divisions of the four places are divisions by 256 one after the     *)
(* other.                                                                  *)
LEMMA NextPlace ==
  ASSUME NEW v \in Int
  PROVE  /\ v \div 1 = v
         /\ v \div 65536 = (v \div 256) \div 256
         /\ v \div 16777216 = (v \div 65536) \div 256
BY Z3

(* A field is written as as many bytes as it is wide.                      *)
LEMMA PutBytesType ==
  ASSUME NEW kind \in Kinds, NEW v \in Int
  PROVE  /\ Width(kind) \in {1, 2, 4}
         /\ PutBytes(kind, v) \in Seq(Byte)
         /\ Len(PutBytes(kind, v)) = Width(kind)
         /\ \A k \in 1 .. Width(kind) : PutBytes(kind, v)[k] = (v \div Place[k]) % 256
<1>1. Width(kind) \in {1, 2, 4} BY DEF Width, Kinds
<1>2. \A k \in 1 .. 4 : Place[k] \in Nat \ {0} BY DEF Place
<1>3. \A k \in 1 .. Width(kind) : (v \div Place[k]) % 256 \in Byte
  <2> TAKE k \in 1 .. Width(kind)
  <2>1. Place[k] \in Nat \ {0} BY <1>1, <1>2
  <2>2. v \div Place[k] \in Int BY <2>1
  <2>. QED BY <2>2, OneByte DEF Byte
<1>. QED BY <1>1, <1>3 DEF PutBytes

(* What is read is what was written, for every value the field can hold.   *)
THEOREM FieldRoundTrip ==
  ASSUME NEW kind \in Kinds, NEW v, Holds(kind, v)
  PROVE  GetBytes(kind, PutBytes(kind, v)) = v
<1>0. Width(kind) \in {1, 2, 4} BY DEF Width, Kinds
<1>1. v \in Int BY DEF Holds
<1> DEFINE b == PutBytes(kind, v)
           q == v \div 256
           r == q \div 256
           t == r \div 256
<1>2. /\ b[1] = v % 256
      /\ Width(kind) > 1 => b[2] = q % 256
      /\ Width(kind) > 2 => b[3] = r % 256 /\ b[4] = t % 256
  <2>1. /\ v \div Place[1] = v /\ v \div Place[2] = q
        /\ v \div Place[3] = r /\ v \div Place[4] = t
    BY <1>1, NextPlace DEF Place
  <2>2. \A k \in 1 .. Width(kind) : b[k] = (v \div Place[k]) % 256
    BY <1>1, PutBytesType
  <2> HIDE DEF b, q, r, t
  <2>. QED BY <1>0, <2>1, <2>2
<1>3. /\ q \in Int /\ (v % 256) \in 0 .. 255 /\ (q * 256) + (v % 256) = v
      /\ r \in Int /\ (q % 256) \in 0 .. 255 /\ (r * 256) + (q % 256) = q
      /\ t \in Int /\ (r % 256) \in 0 .. 255 /\ (t * 256) + (r % 256) = r
      /\ (t % 256) \in 0 .. 255
      /\ (t \div 256) \in Int /\ ((t \div 256) * 256) + (t % 256) = t
  BY <1>1, OneByte
<1>4. v \div 65536 = r BY <1>1, NextPlace
<1> HIDE DEF b, q, r, t
<1> DEFINE v0 == v % 256
           q0 == q % 256
           r0 == r % 256
           t0 == t % 256
           u == t \div 256
<1> HIDE DEF v0, q0, r0, t0, u
<1>6. /\ b[1] = v0
      /\ Width(kind) > 1 => b[2] = q0
      /\ Width(kind) > 2 => b[3] = r0 /\ b[4] = t0
      /\ q \in Int /\ r \in Int /\ t \in Int /\ u \in Int
      /\ v0 \in 0 .. 255 /\ q0 \in 0 .. 255 /\ r0 \in 0 .. 255 /\ t0 \in 0 .. 255
      /\ v = (q * 256) + v0 /\ q = (r * 256) + q0 /\ r = (t * 256) + r0 /\ t = (u * 256) + t0
  BY <1>2, <1>3 DEF v0, q0, r0, t0, u
<1>7. GetBytes(kind, PutBytes(kind, v)) = GetBytes(kind, b) BY DEF b
<1> SUFFICES GetBytes(kind, b) = v BY <1>7
<1>8. /\ q \in Int /\ r \in Int /\ t \in Int /\ u \in Int
      /\ v0 \in 0 .. 255 /\ q0 \in 0 .. 255 /\ r0 \in 0 .. 255 /\ t0 \in 0 .. 255
      /\ v = (q * 256) + v0 /\ q = (r * 256) + q0 /\ r = (t * 256) + r0 /\ t = (u * 256) + t0
  BY <1>6
<1>11. CASE kind = "u8"
  <2>1. 0 <= v /\ v <= 255 BY <1>11 DEF Holds
  <2>2. GetBytes(kind, b) = b[1] BY <1>11 DEF GetBytes, Width
  <2>3. v = v0 BY <1>8, <2>1
  <2>. QED BY <1>6, <2>2, <2>3
<1>12. CASE kind = "u16"
  <2>1. 0 <= v /\ v <= 65535 BY <1>12 DEF Holds
  <2>2. GetBytes(kind, b) = (b[2] * 256) + b[1] /\ Width(kind) = 2
    BY <1>12 DEF GetBytes, Width, Lead
  <2>3. v = (q0 * 256) + v0 BY <1>8, <2>1
  <2>4. b[1] = v0 /\ b[2] = q0 BY <1>6, <2>2
  <2>. QED BY <2>2, <2>3, <2>4
<1>13. CASE kind = "i16"
  <2>1. -32768 <= v /\ v <= 32767 BY <1>13 DEF Holds
  <2>2. /\ GetBytes(kind, b) = ((IF b[2] >= 128 THEN b[2] - 256 ELSE b[2]) * 256) + b[1]
        /\ Width(kind) = 2
    BY <1>13 DEF GetBytes, Width, Lead
  <2>3. v = ((IF q0 >= 128 THEN q0 - 256 ELSE q0) * 256) + v0 BY <1>8, <2>1
  <2>4. b[1] = v0 /\ b[2] = q0 BY <1>6, <2>2
  <2>. QED BY <2>2, <2>3, <2>4
<1>14. CASE kind = "u32"
  <2>1. 0 <= v /\ r <= 65535 BY <1>4, <1>14 DEF Holds
  <2>2. /\ GetBytes(kind, b) = (((((b[4] * 256) + b[3]) * 256) + b[2]) * 256) + b[1]
        /\ Width(kind) = 4
    BY <1>14 DEF GetBytes, Width, Lead
  <2>3. t = t0 BY <1>8, <2>1
  <2>4. b[1] = v0 /\ b[2] = q0 /\ b[3] = r0 /\ b[4] = t0 BY <1>6, <2>2
  <2>5. v = (((((t0 * 256) + r0) * 256) + q0) * 256) + v0 BY <1>8, <2>3
  <2>. QED BY <2>2, <2>4, <2>5
<1>15. CASE kind = "i32"
  <2>1. -32768 <= r /\ r <= 32767 BY <1>4, <1>15 DEF Holds
  <2>2. /\ GetBytes(kind, b)
             = ((((((IF b[4] >= 128 THEN b[4] - 256 ELSE b[4]) * 256) + b[3]) * 256) + b[2]) * 256) + b[1]
        /\ Width(kind) = 4
    BY <1>15 DEF GetBytes, Width, Lead
  <2>3. t = IF t0 >= 128 THEN t0 - 256 ELSE t0 BY <1>8, <2>1
  <2>4. b[1] = v0 /\ b[2] = q0 /\ b[3] = r0 /\ b[4] = t0 BY <1>6, <2>2
  <2>5. v = ((((((IF t0 >= 128 THEN t0 - 256 ELSE t0) * 256) + r0) * 256) + q0) * 256) + v0
    BY <1>8, <2>3
  <2>. QED BY <2>2, <2>4, <2>5
<1>. QED BY <1>11, <1>12, <1>13, <1>14, <1>15 DEF Kinds

-----------------------------------------------------------------------------
(* Recursive functions, which are CHOOSEn: they exist by induction, and    *)
(* induction is the least number that fails.                               *)

(* Induction over the numbers, from the least number that fails.           *)
LEMMA Induction ==
  ASSUME NEW S, 0 \in S, \A k \in Nat : k \in S => k + 1 \in S
  PROVE  Nat \subseteq S
<1> DEFINE T == Nat \ S
<1> SUFFICES ASSUME T # {} PROVE FALSE
  OBVIOUS
<1>1. PICK x \in T : \A y \in T : x <= y
  <2>. T \in SUBSET Nat OBVIOUS
  <2> HIDE DEF T
  <2>. QED BY LeastNatural
<1>2. x \in Nat /\ x # 0 BY <1>1
<1>3. x - 1 \in Nat /\ ~(x <= x - 1) /\ (x - 1) + 1 = x BY <1>2
<1>4. x - 1 \notin T BY <1>1, <1>3
<1>5. x \in S BY <1>3, <1>4
<1>. QED BY <1>1, <1>5

(* A function may be defined by what each value makes of the one before.   *)
Steps(n, D, a, s, f) ==
  f \in [0 .. n -> D] /\ f[0] = a /\ \A k \in 1 .. n : f[k] = s[k][f[k - 1]]

(* Such a function exists, which is what a CHOOSE over one needs.          *)
LEMMA StepsExist ==
  ASSUME NEW n \in Nat, NEW D, NEW a \in D, NEW s \in [1 .. n -> [D -> D]]
  PROVE  \E f : Steps(n, D, a, s, f)
<1> DEFINE Good(m, f) == f \in [0 .. m -> D] /\ f[0] = a /\ \A k \in 1 .. m : f[k] = s[k][f[k - 1]]
           S == {m \in Nat : m <= n => \E f : Good(m, f)}
<1>1. 0 \in S
  <2>1. Good(0, [k \in 0 .. 0 |-> a]) OBVIOUS
  <2>. QED BY <2>1
<1>2. ASSUME NEW m \in Nat, m \in S PROVE m + 1 \in S
  <2> SUFFICES ASSUME m + 1 <= n PROVE \E f : Good(m + 1, f)
    OBVIOUS
  <2>1. PICK f : Good(m, f) BY <1>2
  <2> DEFINE g == [k \in 0 .. m + 1 |-> IF k = m + 1 THEN s[m + 1][f[m]] ELSE f[k]]
  <2>2. f[m] \in D /\ s[m + 1] \in [D -> D] BY <2>1
  <2>3. g \in [0 .. m + 1 -> D] BY <2>1, <2>2
  <2>4. g[0] = a BY <2>1
  <2>5. ASSUME NEW k \in 1 .. m + 1 PROVE g[k] = s[k][g[k - 1]]
    <3>1. CASE k = m + 1 BY <3>1
    <3>2. CASE k # m + 1
      <4>1. k \in 1 .. m /\ k - 1 \in 0 .. m + 1 /\ k - 1 # m + 1 /\ k \in 0 .. m + 1 BY <3>2
      <4>2. g[k] = f[k] /\ g[k - 1] = f[k - 1] BY <3>2, <4>1
      <4>. QED BY <2>1, <4>1, <4>2
    <3>. QED BY <3>1, <3>2
  <2>6. Good(m + 1, g) BY <2>3, <2>4, <2>5
  <2>. QED BY <2>6
<1> HIDE DEF S
<1>3. Nat \subseteq S BY <1>1, <1>2, Induction
<1>4. n \in S BY <1>3
<1>5. \E f : Good(n, f) BY <1>4 DEF S
<1>. QED BY <1>5 DEF Steps

(* A layout, as far as its cursor goes.                                    *)
IsLayout(layout) ==
  /\ Len(layout) \in Nat /\ DOMAIN layout = 1 .. Len(layout)
  /\ \A k \in 1 .. Len(layout) : layout[k].kind \in Kinds

(* Fields are one, two or four bytes wide.                                 *)
LEMMA WidthType == ASSUME NEW kind \in Kinds PROVE Width(kind) \in {1, 2, 4}
BY DEF Width, Kinds

(* The cursor of a layout exists and moves by the widths of the fields.    *)
LEMMA CursorMoves ==
  ASSUME NEW layout, IsLayout(layout)
  PROVE  /\ Cursor(layout) \in [0 .. Len(layout) -> Nat]
         /\ Cursor(layout)[0] = 0
         /\ \A k \in 1 .. Len(layout) :
              Cursor(layout)[k] = Cursor(layout)[k - 1] + Width(layout[k].kind)
<1> DEFINE n == Len(layout)
           Is(f) == f = [k \in 0 .. n |-> IF k = 0 THEN 0 ELSE f[k - 1] + Width(layout[k].kind)]
           s == [k \in 1 .. n |-> [x \in Nat |-> x + Width(layout[k].kind)]]
<1>0. n \in Nat BY DEF IsLayout
<1>1. \A k \in 1 .. n : layout[k].kind \in Kinds BY DEF IsLayout
<1>2. \A k \in 1 .. n : Width(layout[k].kind) \in Nat BY <1>1, WidthType
<1> HIDE DEF n
<1>3. s \in [1 .. n -> [Nat -> Nat]] BY <1>2
<1>4. PICK f \in [0 .. n -> Nat] : f[0] = 0 /\ \A k \in 1 .. n : f[k] = s[k][f[k - 1]]
  <2>1. 0 \in Nat OBVIOUS
  <2> HIDE DEF s
  <2>2. \E f : Steps(n, Nat, 0, s, f) BY <1>0, <1>3, <2>1, StepsExist
  <2>. QED BY <2>2 DEF Steps
<1>5. \A k \in 1 .. n : f[k - 1] \in Nat /\ f[k] = f[k - 1] + Width(layout[k].kind)
  <2> TAKE k \in 1 .. n
  <2>1. k - 1 \in 0 .. n BY <1>0
  <2>2. f[k - 1] \in Nat BY <1>4, <2>1
  <2>3. s[k] = [x \in Nat |-> x + Width(layout[k].kind)] OBVIOUS
  <2>4. f[k] = s[k][f[k - 1]] BY <1>4
  <2> HIDE DEF s
  <2>. QED BY <2>2, <2>3, <2>4
<1>6. Is(f)
  <2> DEFINE g == [k \in 0 .. n |-> IF k = 0 THEN 0 ELSE f[k - 1] + Width(layout[k].kind)]
  <2>1. ASSUME NEW k \in 0 .. n PROVE f[k] = g[k]
    <3>1. CASE k = 0 BY <1>4, <3>1
    <3>2. CASE k # 0
      <4>1. k \in 1 .. n BY <1>0, <3>2
      <4>. QED BY <1>5, <3>2, <4>1
    <3>. QED BY <3>1, <3>2
  <2>2. f = [k \in 0 .. n |-> f[k]] BY <1>4
  <2>. QED BY <2>1, <2>2
<1> DEFINE at == Cursor(layout)
<1>7. at = CHOOSE g : Is(g) BY DEF Cursor, n
<1>8. Is(at)
  <2> HIDE DEF Is, at
  <2>. QED BY <1>6, <1>7
<1> HIDE DEF at
<1>9. at[0] = 0 /\ \A k \in 1 .. n : at[k] = at[k - 1] + Width(layout[k].kind) BY <1>0, <1>8
<1>10. \A k \in 0 .. n : at[k] \in Nat
  <2> DEFINE S == {k \in Nat : k <= n => at[k] \in Nat}
  <2>1. 0 \in S BY <1>9
  <2>2. ASSUME NEW k \in Nat, k \in S PROVE k + 1 \in S
    <3> SUFFICES ASSUME k + 1 <= n PROVE at[k + 1] \in Nat
      OBVIOUS
    <3>1. at[k] \in Nat BY <1>0, <2>2
    <3>2. k + 1 \in 1 .. n /\ (k + 1) - 1 = k BY <1>0
    <3>3. at[k + 1] = at[k] + Width(layout[k + 1].kind) BY <1>9, <3>2
    <3>. QED BY <1>2, <3>1, <3>2, <3>3
  <2> HIDE DEF S
  <2>3. Nat \subseteq S BY <2>1, <2>2, Induction
  <2>. QED BY <1>0, <2>3 DEF S
<1>11. at \in [0 .. n -> Nat] BY <1>8, <1>10
<1>. QED BY <1>9, <1>11 DEF at, n

-----------------------------------------------------------------------------
(* Sequences joined field by field.                                        *)

(* Joining the fields, one after the other.                                *)
Joins(n, S, bs, f) ==
  f \in [1 .. n -> Seq(S)] /\ f[1] = bs[1] /\ \A k \in 2 .. n : f[k] = f[k - 1] \o bs[k]

(* FlattenSeq is the last of the joins.                                    *)
LEMMA FlattenJoins ==
  ASSUME NEW S, NEW bs \in Seq(Seq(S)), Len(bs) > 0
  PROVE  \E f : Joins(Len(bs), S, bs, f) /\ FlattenSeq(bs) = f[Len(bs)]
<1> DEFINE n == Len(bs)
           Is(f) == f = [k \in 1 .. n |-> IF k = 1 THEN bs[k] ELSE f[k - 1] \o bs[k]]
           s == [k \in 1 .. n - 1 |-> [x \in Seq(S) |-> x \o bs[k + 1]]]
<1>0. n \in Nat /\ n > 0 OBVIOUS
<1>1. \A k \in 1 .. n : bs[k] \in Seq(S) OBVIOUS
<1>2. FlattenSeq(bs) = (CHOOSE f : Is(f))[n] BY <1>0 DEF FlattenSeq
<1> HIDE DEF n
<1>3. s \in [1 .. n - 1 -> [Seq(S) -> Seq(S)]]
  <2>1. ASSUME NEW k \in 1 .. n - 1, NEW x \in Seq(S) PROVE x \o bs[k + 1] \in Seq(S)
    <3>1. k + 1 \in 1 .. n BY <1>0
    <3>2. bs[k + 1] \in Seq(S) BY <1>1, <3>1
    <3>. QED BY <3>2, ConcatProperties
  <2>. QED BY <2>1
<1>4. bs[1] \in Seq(S) /\ n - 1 \in Nat BY <1>0, <1>1
<1>5. PICK g : Steps(n - 1, Seq(S), bs[1], s, g)
  <2> HIDE DEF s
  <2>. QED BY <1>3, <1>4, StepsExist
<1> DEFINE f == [k \in 1 .. n |-> g[k - 1]]
<1>6. \A k \in 1 .. n : f[k] = g[k - 1] /\ f[k] \in Seq(S)
  <2> TAKE k \in 1 .. n
  <2>1. k - 1 \in 0 .. n - 1 BY <1>0
  <2>. QED BY <1>5, <2>1 DEF Steps
<1>7. f[1] = bs[1] BY <1>0, <1>5, <1>6 DEF Steps
<1>8. ASSUME NEW k \in 2 .. n PROVE f[k] = f[k - 1] \o bs[k]
  <2>1. k - 1 \in 1 .. n - 1 /\ k - 1 \in 1 .. n /\ (k - 1) + 1 = k /\ k \in 1 .. n BY <1>0
  <2>2. f[k - 1] \in Seq(S) /\ f[k - 1] = g[(k - 1) - 1] /\ f[k] = g[k - 1] BY <1>6, <2>1
  <2>3. g[k - 1] = s[k - 1][g[(k - 1) - 1]] BY <1>5, <2>1 DEF Steps
  <2>4. s[k - 1] = [x \in Seq(S) |-> x \o bs[k]] BY <2>1
  <2> HIDE DEF s, f
  <2>. QED BY <2>2, <2>3, <2>4
<1> HIDE DEF s
<1>9. f \in [1 .. n -> Seq(S)] BY <1>6
<1>10. Is(f)
  <2> DEFINE h == [k \in 1 .. n |-> IF k = 1 THEN bs[k] ELSE f[k - 1] \o bs[k]]
  <2> HIDE DEF f
  <2>1. ASSUME NEW k \in 1 .. n PROVE f[k] = h[k]
    <3>1. CASE k = 1 BY <1>7, <3>1
    <3>2. CASE k # 1
      <4>1. k \in 2 .. n BY <1>0, <3>2
      <4>. QED BY <1>8, <3>2, <4>1
    <3>. QED BY <3>1, <3>2
  <2>2. f = [k \in 1 .. n |-> f[k]] BY <1>9
  <2>. QED BY <2>1, <2>2
<1> DEFINE c == CHOOSE e : Is(e)
<1>11. Is(c)
  <2> HIDE DEF Is, f
  <2>. QED BY <1>10
<1> HIDE DEF c, f
<1>12. c[1] = bs[1] /\ (\A k \in 2 .. n : c[k] = c[k - 1] \o bs[k]) /\ c = [k \in 1 .. n |-> c[k]]
  <2>1. c = [k \in 1 .. n |-> IF k = 1 THEN bs[k] ELSE c[k - 1] \o bs[k]] BY <1>11
  <2>2. 1 \in 1 .. n BY <1>0
  <2>3. \A k \in 1 .. n : c[k] = IF k = 1 THEN bs[k] ELSE c[k - 1] \o bs[k] BY <2>1, Zenon
  <2>4. c[1] = bs[1] BY <2>2, <2>3
  <2>5. ASSUME NEW k \in 2 .. n PROVE c[k] = c[k - 1] \o bs[k]
    <3>1. k \in 1 .. n /\ k # 1 BY <1>0
    <3>. QED BY <2>3, <3>1
  <2>6. DOMAIN c = 1 .. n BY <2>1, Zenon
  <2>7. c = [k \in 1 .. n |-> c[k]] BY <2>1, <2>6, Zenon
  <2>. QED BY <2>4, <2>5, <2>7
<1>13. \A k \in 1 .. n : c[k] \in Seq(S)
  <2> DEFINE T == {k \in Nat : k + 1 <= n => c[k + 1] \in Seq(S)}
  <2>1. 0 \in T BY <1>4, <1>12
  <2>2. ASSUME NEW k \in Nat, k \in T PROVE k + 1 \in T
    <3> SUFFICES ASSUME (k + 1) + 1 <= n PROVE c[(k + 1) + 1] \in Seq(S)
      OBVIOUS
    <3>1. c[k + 1] \in Seq(S) BY <1>0, <2>2
    <3>2. (k + 1) + 1 \in 2 .. n /\ (k + 1) + 1 \in 1 .. n /\ ((k + 1) + 1) - 1 = k + 1 BY <1>0
    <3>3. c[(k + 1) + 1] = c[k + 1] \o bs[(k + 1) + 1] BY <1>12, <3>2
    <3>4. bs[(k + 1) + 1] \in Seq(S) BY <1>1, <3>2
    <3>. QED BY <3>1, <3>3, <3>4, ConcatProperties
  <2> HIDE DEF T
  <2>3. Nat \subseteq T BY <2>1, <2>2, Induction
  <2> TAKE k \in 1 .. n
  <2>4. k - 1 \in Nat /\ (k - 1) + 1 = k /\ (k - 1) + 1 <= n BY <1>0
  <2>5. k - 1 \in T BY <2>3, <2>4
  <2>6. (k - 1) + 1 <= n => c[(k - 1) + 1] \in Seq(S) BY <2>5 DEF T
  <2>. QED BY <2>4, <2>6
<1>14. c \in [1 .. n -> Seq(S)] BY <1>12, <1>13
<1>15. Joins(n, S, bs, c) BY <1>12, <1>14 DEF Joins
<1>16. FlattenSeq(bs) = c[n] BY <1>2 DEF c
<1>. QED BY <1>15, <1>16 DEF n

(* What lies within the first of two sequences is not moved by the second. *)
LEMMA SubOfJoin ==
  ASSUME NEW S, NEW s \in Seq(S), NEW t \in Seq(S), NEW a \in Nat, NEW b \in Nat,
         a <= b, b <= Len(s)
  PROVE  SubSeq(s \o t, a + 1, b) = SubSeq(s, a + 1, b)
OBVIOUS

(* What follows the first is the second.                                   *)
LEMMA SuffixOfJoin ==
  ASSUME NEW S, NEW s \in Seq(S), NEW t \in Seq(S)
  PROVE  SubSeq(s \o t, Len(s) + 1, Len(s) + Len(t)) = t
OBVIOUS

(* Each field is found again between the two places of the cursor.         *)
LEMMA FlattenFields ==
  ASSUME NEW S, NEW bs \in Seq(Seq(S)), Len(bs) > 0,
         NEW at \in [0 .. Len(bs) -> Nat], at[0] = 0,
         \A k \in 1 .. Len(bs) : at[k] = at[k - 1] + Len(bs[k])
  PROVE  /\ FlattenSeq(bs) \in Seq(S)
         /\ Len(FlattenSeq(bs)) = at[Len(bs)]
         /\ \A k \in 1 .. Len(bs) : SubSeq(FlattenSeq(bs), at[k - 1] + 1, at[k]) = bs[k]
<1> DEFINE n == Len(bs)
<1>0. n \in Nat /\ n > 0 OBVIOUS
<1>1. PICK f : Joins(n, S, bs, f) /\ FlattenSeq(bs) = f[n] BY FlattenJoins
<1>2. \A k \in 1 .. n : bs[k] \in Seq(S) /\ Len(bs[k]) \in Nat OBVIOUS
<1> DEFINE Has(k) == /\ f[k] \in Seq(S)
                     /\ Len(f[k]) = at[k]
                     /\ \A j \in 1 .. k :
                          at[j] <= at[k] /\ SubSeq(f[k], at[j - 1] + 1, at[j]) = bs[j]
<1> HIDE DEF n
<1>3. \A k \in 0 .. n : at[k] \in Nat BY DEF n
<1>3a. \A k \in 1 .. n : at[k] = at[k - 1] + Len(bs[k]) BY DEF n
<1>4. \A k \in 1 .. n : Has(k)
  <2> DEFINE T == {k \in Nat : k + 1 <= n => Has(k + 1)}
  <2>1. Has(1)
    <3>1. f[1] = bs[1] /\ bs[1] \in Seq(S) BY <1>0, <1>1, <1>2 DEF Joins
    <3>2. at[1] = Len(bs[1]) /\ at[0] = 0 /\ 1 - 1 = 0 BY <1>0, <1>2, <1>3a
    <3>3. SubSeq(bs[1], 1, Len(bs[1])) = bs[1] BY <3>1
    <3>4. at[1] <= at[1] BY <1>0, <1>3
    <3>. QED BY <3>1, <3>2, <3>3, <3>4
  <2>2. ASSUME NEW k \in Nat, k \in T PROVE k + 1 \in T
    <3> DEFINE l == k + 1
    <3> SUFFICES ASSUME l + 1 <= n PROVE Has(l + 1)
      OBVIOUS
    <3>1. Has(l) BY <1>0, <2>2
    <3>2. l + 1 \in 2 .. n /\ l + 1 \in 1 .. n /\ (l + 1) - 1 = l /\ l \in 1 .. n /\ l + 1 > l
      BY <1>0
    <3> HIDE DEF l
    <3>3. f[l + 1] = f[l] \o bs[l + 1] BY <1>1, <3>2 DEF Joins
    <3>4. bs[l + 1] \in Seq(S) /\ f[l] \in Seq(S) BY <1>2, <3>1, <3>2
    <3>5. f[l + 1] \in Seq(S) /\ Len(f[l + 1]) = Len(f[l]) + Len(bs[l + 1])
      BY <3>3, <3>4, ConcatProperties
    <3>6. at[l + 1] = at[l] + Len(bs[l + 1]) /\ at[l] = Len(f[l])
      BY <1>3a, <3>1, <3>2
    <3>7. Len(f[l + 1]) = at[l + 1] BY <3>5, <3>6
    <3>8. Len(bs[l + 1]) \in Nat /\ Len(f[l]) \in Nat BY <3>4
    <3>10. at[l] <= at[l + 1] /\ at[l] \in Nat /\ at[l + 1] \in Nat
      <4>1. at[l] \in Nat BY <3>6, <3>8
      <4>2. at[l + 1] = at[l] + Len(bs[l + 1]) BY <3>6
      <4>3. \A x, y \in Nat : x + y \in Nat /\ x <= x + y OBVIOUS
      <4>. QED BY <3>8, <4>1, <4>2, <4>3
    <3>11. ASSUME NEW j \in 1 .. l + 1
           PROVE  at[j] <= at[l + 1] /\ SubSeq(f[l + 1], at[j - 1] + 1, at[j]) = bs[j]
      <4>1. CASE j = l + 1
        <5>0. SubSeq(f[l] \o bs[l + 1], Len(f[l]) + 1, Len(f[l]) + Len(bs[l + 1])) = bs[l + 1]
          BY <3>4, SuffixOfJoin
        <5>1. SubSeq(f[l + 1], at[l] + 1, at[l + 1]) = bs[l + 1]
          BY <3>3, <3>6, <5>0
        <5>. QED BY <3>2, <3>10, <4>1, <5>1
      <4>2. CASE j # l + 1
        <5>1. j \in 1 .. l /\ j \in 1 .. n /\ j - 1 \in 0 .. n /\ j \in 0 .. n BY <1>0, <3>2, <4>2
        <5>2. SubSeq(f[l], at[j - 1] + 1, at[j]) = bs[j] /\ at[j] <= at[l] BY <3>1, <5>1
        <5>3. at[j] = at[j - 1] + Len(bs[j]) /\ Len(bs[j]) \in Nat BY <1>2, <1>3a, <5>1
        <5>4. at[j - 1] \in Nat /\ at[j] \in Nat BY <1>3, <5>1
        <5>5. at[j - 1] <= at[j] BY <5>3, <5>4
        <5>6. at[j] <= Len(f[l]) BY <3>6, <5>2
        <5>7. SubSeq(f[l] \o bs[l + 1], at[j - 1] + 1, at[j]) = SubSeq(f[l], at[j - 1] + 1, at[j])
          <6> DEFINE a == at[j - 1]
                     b == at[j]
                     u == f[l]
                     w == bs[l + 1]
          <6>1. u \in Seq(S) /\ w \in Seq(S) /\ a \in Nat /\ b \in Nat /\ a <= b /\ b <= Len(u)
            BY <3>4, <5>4, <5>5, <5>6
          <6> HIDE DEF a, b, u, w
          <6>2. SubSeq(u \o w, a + 1, b) = SubSeq(u, a + 1, b) BY <6>1, SubOfJoin
          <6>. QED BY <6>2 DEF a, b, u, w
        <5>8. at[j] <= at[l + 1]
          <6>1. \A x, y, z \in Nat : x <= y /\ y <= z => x <= z OBVIOUS
          <6>. QED BY <3>10, <5>2, <5>4, <6>1
        <5>. QED BY <3>3, <5>2, <5>7, <5>8
      <4>. QED BY <4>1, <4>2
    <3>. QED BY <3>5, <3>7, <3>11
  <2>3. 0 \in T BY <2>1
  <2> HIDE DEF T
  <2>4. Nat \subseteq T BY <2>2, <2>3, Induction
  <2> HIDE DEF Has
  <2> TAKE k \in 1 .. n
  <2>5. k - 1 \in Nat /\ (k - 1) + 1 = k /\ (k - 1) + 1 <= n BY <1>0
  <2>6. k - 1 \in T BY <2>4, <2>5
  <2>7. (k - 1) + 1 <= n => Has((k - 1) + 1) BY <2>6 DEF T
  <2>. QED BY <2>5, <2>7
<1>5. n \in 1 .. n BY <1>0
<1>6. Has(n) BY <1>4, <1>5
<1>. QED BY <1>1, <1>6 DEF n

-----------------------------------------------------------------------------
(* Payloads: what is put is what is got.                                   *)

(* No field is wider than four bytes.                                      *)
LEMMA LengthBound ==
  ASSUME NEW layout, IsLayout(layout)
  PROVE  LengthOf(layout) \in Nat /\ LengthOf(layout) <= 4 * Len(layout)
<1> DEFINE at == Cursor(layout)
           n == Len(layout)
           S == {k \in Nat : k <= n => at[k] <= 4 * k}
<1>0. n \in Nat /\ \A k \in 1 .. n : Width(layout[k].kind) \in {1, 2, 4}
  BY WidthType DEF IsLayout
<1>1. /\ at \in [0 .. n -> Nat] /\ at[0] = 0
      /\ \A k \in 1 .. n : at[k] = at[k - 1] + Width(layout[k].kind)
  BY CursorMoves
<1>5. LengthOf(layout) = at[n] BY DEF LengthOf
<1> HIDE DEF at, n
<1>2. 0 \in S BY <1>1
<1>3. ASSUME NEW k \in Nat, k \in S PROVE k + 1 \in S
  <2> SUFFICES ASSUME k + 1 <= n PROVE at[k + 1] <= 4 * (k + 1)
    OBVIOUS
  <2>1. k + 1 \in 1 .. n /\ (k + 1) - 1 = k /\ k \in 0 .. n BY <1>0
  <2>2. at[k + 1] = at[k] + Width(layout[k + 1].kind) BY <1>1, <2>1
  <2>3. Width(layout[k + 1].kind) \in {1, 2, 4} BY <1>0, <2>1
  <2>4. at[k] \in Nat /\ at[k] <= 4 * k BY <1>1, <1>3, <2>1
  <2>. QED BY <2>2, <2>3, <2>4
<1> HIDE DEF S
<1>4. Nat \subseteq S BY <1>2, <1>3, Induction
<1>6. n \in S BY <1>0, <1>4
<1>7. at[n] <= 4 * n BY <1>6 DEF S
<1>8. at[n] \in Nat BY <1>0, <1>1
<1>. QED BY <1>5, <1>7, <1>8 DEF n

(* The fields of two layouts lie in the same places.                       *)
SameShape(put, get) ==
  /\ IsLayout(put) /\ IsLayout(get) /\ Len(put) = Len(get) /\ Len(get) > 0
  /\ \A k \in 1 .. Len(get) : put[k].kind = get[k].kind

SamePlace(put, get, name) ==
  \A k \in 1 .. Len(get) : get[k].name = name => put[k].name = name

(* A record put and got: the fields whose name is the same on both sides   *)
(* come back as they were.                                                 *)
THEOREM GetPut ==
  ASSUME NEW put, NEW get, NEW rec, SameShape(put, get), Carries(put, rec)
  PROVE  /\ Put(put, rec) \in Seq(Byte)
         /\ Len(Put(put, rec)) = LengthOf(get)
         /\ \A name \in NamesOf(get) :
              SamePlace(put, get, name) => Get(get, Put(put, rec))[name] = rec[name]
<1>0. /\ IsLayout(put) /\ IsLayout(get) /\ Len(put) = Len(get) /\ Len(get) > 0
      /\ \A k \in 1 .. Len(get) : put[k].kind = get[k].kind
  BY DEF SameShape
<1> DEFINE n == Len(get)
           bs == [k \in 1 .. n |-> PutBytes(get[k].kind, rec[put[k].name])]
           at == Cursor(get)
           p == Put(put, rec)
<1>1. /\ n \in Nat /\ DOMAIN get = 1 .. n /\ DOMAIN put = 1 .. n
      /\ \A k \in 1 .. n : get[k].kind \in Kinds /\ put[k].kind = get[k].kind
  BY <1>0 DEF IsLayout
<1>2. p = FlattenSeq(bs)
  <2>1. bs = [k \in DOMAIN put |-> PutBytes(put[k].kind, rec[put[k].name])]
    BY <1>1
  <2> HIDE DEF bs
  <2>. QED BY <2>1 DEF Put
<1>3. /\ at \in [0 .. n -> Nat] /\ at[0] = 0
      /\ \A k \in 1 .. n : at[k] = at[k - 1] + Width(get[k].kind)
  BY <1>0, CursorMoves
<1>4. LengthOf(get) = at[n] BY DEF LengthOf
<1>5. \A k \in 1 .. n : Holds(get[k].kind, rec[put[k].name])
  BY <1>1 DEF Carries
<1>6. n > 0 BY <1>0
<1>7. Get(get, p) = [name \in NamesOf(get) |->
                       GetBytes(get[FieldOf(get, name)].kind,
                                SubSeq(p, at[FieldOf(get, name) - 1] + 1, at[FieldOf(get, name)]))]
  BY DEF Get
<1>8. ASSUME NEW name \in NamesOf(get)
      PROVE  FieldOf(get, name) \in 1 .. n /\ get[FieldOf(get, name)].name = name
  BY <1>1 DEF FieldOf, NamesOf
<1> HIDE DEF n, at
<1>9. ASSUME NEW k \in 1 .. n
      PROVE  /\ bs[k] \in Seq(Byte) /\ Len(bs[k]) = Width(get[k].kind)
             /\ GetBytes(get[k].kind, bs[k]) = rec[put[k].name]
  <2>1. Holds(get[k].kind, rec[put[k].name]) /\ get[k].kind \in Kinds BY <1>1, <1>5
  <2>2. rec[put[k].name] \in Int BY <2>1 DEF Holds
  <2>3. bs[k] = PutBytes(get[k].kind, rec[put[k].name]) OBVIOUS
  <2>. QED BY <2>1, <2>2, <2>3, PutBytesType, FieldRoundTrip
<1>10. bs \in Seq(Seq(Byte)) /\ Len(bs) = n
  <2>1. bs = [k \in 1 .. n |-> bs[k]] OBVIOUS
  <2>2. \A k \in 1 .. n : bs[k] \in Seq(Byte) BY <1>9
  <2> HIDE DEF bs
  <2>3. bs \in [1 .. n -> Seq(Byte)] BY <2>1, <2>2
  <2>4. bs \in Seq(Seq(Byte)) BY <1>1, <2>3, SeqDef
  <2>5. DOMAIN bs = 1 .. n BY <2>3
  <2>. QED BY <1>1, <2>4, <2>5, LenProperties
<1> HIDE DEF bs
<1>11. \A k \in 1 .. n : at[k] = at[k - 1] + Len(bs[k]) BY <1>3, <1>9
<1>12. /\ p \in Seq(Byte) /\ Len(p) = at[n]
       /\ \A k \in 1 .. n : SubSeq(p, at[k - 1] + 1, at[k]) = bs[k]
  <2> HIDE DEF p
  <2>1. Len(bs) > 0 /\ at \in [0 .. Len(bs) -> Nat] /\ at[0] = 0
        /\ \A k \in 1 .. Len(bs) : at[k] = at[k - 1] + Len(bs[k])
    BY <1>3, <1>6, <1>10, <1>11
  <2>. QED BY <1>2, <1>10, <2>1, FlattenFields
<1> HIDE DEF p
<1>13. ASSUME NEW name \in NamesOf(get), SamePlace(put, get, name)
       PROVE  Get(get, p)[name] = rec[name]
  <2> DEFINE k == FieldOf(get, name)
  <2>1. k \in 1 .. n /\ get[k].name = name BY <1>8
  <2>2. Get(get, p)[name] = GetBytes(get[k].kind, SubSeq(p, at[k - 1] + 1, at[k])) BY <1>7
  <2> HIDE DEF k
  <2>3. put[k].name = name BY <1>13, <2>1 DEF SamePlace, n
  <2>4. SubSeq(p, at[k - 1] + 1, at[k]) = bs[k] BY <1>12, <2>1
  <2>. QED BY <1>9, <2>1, <2>2, <2>3, <2>4
<1>. QED BY <1>4, <1>12, <1>13 DEF p, n

-----------------------------------------------------------------------------
(* Frames.                                                                 *)

(* What a frame is made of before it is checked: numbers.                  *)
Cell == Int

(* A join is one sequence and then the other.                              *)
LEMMA Join ==
  ASSUME NEW S, NEW s \in Seq(S), NEW t \in Seq(S)
  PROVE  /\ s \o t \in Seq(S) /\ Len(s \o t) = Len(s) + Len(t)
         /\ \A i \in 1 .. Len(s) : (s \o t)[i] = s[i]
         /\ \A i \in 1 .. Len(t) : (s \o t)[Len(s) + i] = t[i]
OBVIOUS

Header(t, q, n) == Magic \o <<t>> \o q \o <<n>>

(* The six bytes of a header, at their places.                             *)
LEMMA HeaderJoins ==
  ASSUME NEW t \in Cell, NEW q \in Seq(Cell), Len(q) = 2, NEW n \in Cell
  PROVE  /\ Header(t, q, n) \in Seq(Cell) /\ Len(Header(t, q, n)) = 6
         /\ Header(t, q, n)[1] = 78 /\ Header(t, q, n)[2] = 82
         /\ Header(t, q, n)[3] = t /\ Header(t, q, n)[6] = n
<1> DEFINE h == Header(t, q, n)
<1> DEFINE o == <<t>>
           e == <<n>>
           a == Magic \o o
           b == a \o q
<1>0. /\ o \in Seq(Cell) /\ Len(o) = 1 /\ o[1] = t
      /\ e \in Seq(Cell) /\ Len(e) = 1 /\ e[1] = n
  OBVIOUS
<1>1. Magic \in Seq(Cell) /\ Len(Magic) = 2 /\ Magic[1] = 78 /\ Magic[2] = 82 BY DEF Magic, Cell
<1>4. h = b \o e BY DEF Header
<1> HIDE DEF o, e, b, h
<1>2. a \in Seq(Cell) /\ Len(a) = 3 /\ a[1] = 78 /\ a[2] = 82 /\ a[3] = t
  <2>0. Magic \in Seq(Cell) /\ o \in Seq(Cell) BY <1>0, <1>1
  <2>1. /\ a \in Seq(Cell) /\ Len(a) = Len(Magic) + Len(o)
        /\ \A i \in 1 .. Len(Magic) : a[i] = Magic[i]
        /\ \A i \in 1 .. Len(o) : a[Len(Magic) + i] = o[i]
    BY <2>0, Join
  <2> HIDE DEF a
  <2>2. 1 \in 1 .. Len(Magic) /\ 2 \in 1 .. Len(Magic) /\ 1 \in 1 .. Len(o) /\ Len(Magic) + 1 = 3
    BY <1>0, <1>1
  <2>3. a[Len(Magic) + 1] = o[1] BY <2>1, <2>2
  <2>. QED BY <1>0, <1>1, <2>1, <2>2, <2>3
<1> HIDE DEF a
<1>3. /\ b \in Seq(Cell) /\ Len(b) = Len(a) + Len(q)
      /\ \A i \in 1 .. Len(a) : b[i] = a[i]
  <2>0. a \in Seq(Cell) BY <1>2
  <2> USE DEF b
  <2>. QED BY <2>0, Join
<1>5. Len(a) = 3 /\ Len(b) = 5 BY <1>2, <1>3
<1>6. 1 \in 1 .. Len(a) /\ 2 \in 1 .. Len(a) /\ 3 \in 1 .. Len(a)
      /\ 1 \in 1 .. Len(b) /\ 2 \in 1 .. Len(b) /\ 3 \in 1 .. Len(b)
  BY <1>5
<1>7. /\ h \in Seq(Cell) /\ Len(h) = 5 + 1
      /\ \A i \in 1 .. Len(b) : h[i] = b[i]
      /\ h[5 + 1] = n
  <2>0. b \in Seq(Cell) /\ e \in Seq(Cell) BY <1>0, <1>3
  <2>1. /\ h \in Seq(Cell) /\ Len(h) = Len(b) + Len(e)
        /\ \A i \in 1 .. Len(b) : h[i] = b[i]
        /\ \A i \in 1 .. Len(e) : h[Len(b) + i] = e[i]
    <3>1. /\ b \o e \in Seq(Cell) /\ Len(b \o e) = Len(b) + Len(e)
          /\ \A i \in 1 .. Len(b) : (b \o e)[i] = b[i]
          /\ \A i \in 1 .. Len(e) : (b \o e)[Len(b) + i] = e[i]
      BY <2>0, Join
    <3>. QED BY <1>4, <3>1
  <2>2. 1 \in 1 .. Len(e) BY <1>0
  <2>3. h[Len(b) + 1] = e[1] BY <2>1, <2>2
  <2>. QED BY <1>0, <1>5, <2>1, <2>3
<1>8. b[1] = 78 /\ b[2] = 82 /\ b[3] = t BY <1>2, <1>3, <1>6
<1>9. h[1] = b[1] /\ h[2] = b[2] /\ h[3] = b[3] BY <1>6, <1>7
<1>. QED BY <1>5, <1>7, <1>8, <1>9 DEF h

(* A frame that starts with the two magic bytes starts with the magic.     *)
LEMMA FirstTwo ==
  ASSUME NEW f \in Seq(Cell), Len(f) >= 2, f[1] = 78, f[2] = 82
  PROVE  SubSeq(f, 1, 2) = Magic
<1> DEFINE q == SubSeq(f, 1, 2)
<1>1. q \in Seq(Cell) /\ Len(q) = 2 /\ q[1] = f[1] /\ q[2] = f[2] OBVIOUS
<1> HIDE DEF q
<1>2. q = <<q[1], q[2]>> BY <1>1
<1>3. q = Magic BY <1>1, <1>2 DEF Magic
<1>. QED BY <1>3 DEF q

Framed(t, q, p) == Header(t, q, Len(p)) \o p

(* What a receiver reads off a frame: its header and, behind it, its       *)
(* payload.                                                                *)
LEMMA FrameBytes ==
  ASSUME NEW t \in Cell, NEW q \in Seq(Cell), Len(q) = 2, NEW p \in Seq(Cell)
  PROVE  /\ Len(Framed(t, q, p)) = 6 + Len(p)
         /\ Framed(t, q, p)[3] = t /\ Framed(t, q, p)[6] = Len(p)
         /\ SubSeq(Framed(t, q, p), 1, 2) = Magic
         /\ SubSeq(Framed(t, q, p), 6 + 1, Len(Framed(t, q, p))) = p
<1> DEFINE n == Len(p)
           h == Header(t, q, n)
           f == h \o p
<1>1. n \in Cell /\ n \in Nat /\ n = Len(p) BY DEF Cell
<1> HIDE DEF n
<1>4. /\ h \in Seq(Cell) /\ Len(h) = 6
      /\ h[1] = 78 /\ h[2] = 82 /\ h[3] = t /\ h[6] = n
  BY <1>1, HeaderJoins
<1> HIDE DEF h
<1>5. h \in Seq(Cell) BY <1>4
<1>6. /\ f \in Seq(Cell) /\ Len(f) = Len(h) + Len(p)
      /\ \A i \in 1 .. Len(h) : f[i] = h[i]
  BY <1>5, Join
<1>10. SubSeq(f, Len(h) + 1, Len(h) + Len(p)) = p BY <1>5, SuffixOfJoin
<1> HIDE DEF f
<1>7. 1 \in 1 .. Len(h) /\ 2 \in 1 .. Len(h) /\ 3 \in 1 .. Len(h) /\ 6 \in 1 .. Len(h)
  BY <1>4
<1>7a. f[1] = h[1] /\ f[2] = h[2] /\ f[3] = h[3] /\ f[6] = h[6] BY <1>6, <1>7
<1>8. /\ f \in Seq(Cell) /\ Len(f) = 6 + n
      /\ f[1] = 78 /\ f[2] = 82 /\ f[3] = t /\ f[6] = n
  BY <1>1, <1>4, <1>6, <1>7a
<1>9. SubSeq(f, 1, 2) = Magic
  <2>1. Len(f) >= 2 BY <1>1, <1>8
  <2>. QED BY <1>8, <2>1, FirstTwo
<1>11. SubSeq(f, 6 + 1, Len(f)) = p BY <1>1, <1>4, <1>8, <1>10
<1>12. f = Framed(t, q, p) BY DEF f, h, n, Framed
<1>13. /\ Len(f) = 6 + Len(p) /\ f[3] = t /\ f[6] = Len(p) BY <1>1, <1>8
<1>. QED BY <1>9, <1>11, <1>12, <1>13

(* Every frame that is encoded is well formed for the decoder, which finds *)
(* the type and the payload it was given (nav_radio_encode_frame and       *)
(* nav_radio_decode_frame).                                                *)
THEOREM FrameRoundTrip ==
  ASSUME NEW type, TypeCode[type] \in Int, NEW seq \in Int,
         NEW payload \in Seq(Byte), Len(payload) <= MaxPayload
  PROVE  /\ FrameOk(EncodeFrame(type, seq, payload))
         /\ FrameType(EncodeFrame(type, seq, payload)) = TypeCode[type]
         /\ FramePayload(EncodeFrame(type, seq, payload)) = payload
<1> DEFINE t == TypeCode[type]
           q == PutBytes("u16", seq)
           f == EncodeFrame(type, seq, payload)
<1>1. q \in Seq(Cell) /\ Len(q) = 2
  <2> DEFINE kind == "u16"
  <2>1. kind \in Kinds /\ Width(kind) = 2 BY DEF Kinds, Width
  <2> HIDE DEF kind
  <2>2. PutBytes(kind, seq) \in Seq(Byte) /\ Len(PutBytes(kind, seq)) = 2
    BY <2>1, PutBytesType
  <2>3. \A b \in Byte : b \in Cell BY DEF Byte, Cell
  <2> DEFINE p == PutBytes(kind, seq)
  <2>4. p \in Seq(Byte) /\ Len(p) = 2 BY <2>2
  <2> HIDE DEF p
  <2>5. p \in Seq(Cell) BY <2>3, <2>4
  <2>. QED BY <2>4, <2>5 DEF kind, p
<1> HIDE DEF q
<1>2. payload \in Seq(Cell)
  <2>1. \A b \in Byte : b \in Cell BY DEF Byte, Cell
  <2>. QED BY <2>1
<1>3. f = Framed(t, q, payload) BY DEF EncodeFrame, Framed, Header, q
<1>4. t \in Cell BY DEF Cell
<1> HIDE DEF f, t
<1>5. /\ Len(f) = 6 + Len(payload) /\ f[3] = t /\ f[6] = Len(payload)
      /\ SubSeq(f, 1, 2) = Magic /\ SubSeq(f, 6 + 1, Len(f)) = payload
  BY <1>1, <1>2, <1>3, <1>4, FrameBytes
<1>6. Len(payload) \in Nat OBVIOUS
<1>12. FrameOk(f) BY <1>5, <1>6 DEF FrameOk, HeaderLen
<1>13. FrameType(f) = t BY <1>5 DEF FrameType
<1>14. FramePayload(f) = payload BY <1>5 DEF FramePayload, HeaderLen
<1>. QED BY <1>12, <1>13, <1>14 DEF f, t

-----------------------------------------------------------------------------
(* The layouts of the code.                                                *)

(* The layouts are layouts: their lengths and the kinds of their fields.   *)
LEMMA BeaconPutIs == IsLayout(BeaconPut) /\ Len(BeaconPut) = 17
<1>1. Len(BeaconPut) = 17 /\ DOMAIN BeaconPut = 1 .. 17 BY DEF BeaconPut
<1>2. \A k \in 1 .. 17 : BeaconPut[k].kind \in Kinds BY DEF BeaconPut, F, Kinds
<1>. QED BY <1>1, <1>2 DEF IsLayout

LEMMA BeaconGetIs == IsLayout(BeaconGet) /\ Len(BeaconGet) = 17
<1>1. Len(BeaconGet) = 17 /\ DOMAIN BeaconGet = 1 .. 17 BY DEF BeaconGet
<1>2. \A k \in 1 .. 17 : BeaconGet[k].kind \in Kinds BY DEF BeaconGet, F, Kinds
<1>. QED BY <1>1, <1>2 DEF IsLayout

LEMMA QualityPutIs == IsLayout(QualityPut) /\ Len(QualityPut) = 21
<1>1. Len(QualityPut) = 21 /\ DOMAIN QualityPut = 1 .. 21 BY DEF QualityPut
<1>2. \A k \in 1 .. 21 : QualityPut[k].kind \in Kinds BY DEF QualityPut, F, Kinds
<1>. QED BY <1>1, <1>2 DEF IsLayout

LEMMA HeartbeatPutIs == IsLayout(HeartbeatPut) /\ Len(HeartbeatPut) = 7
<1>1. Len(HeartbeatPut) = 7 /\ DOMAIN HeartbeatPut = 1 .. 7 BY DEF HeartbeatPut
<1>2. \A k \in 1 .. 7 : HeartbeatPut[k].kind \in Kinds BY DEF HeartbeatPut, F, Kinds
<1>. QED BY <1>1, <1>2 DEF IsLayout

LEMMA DebugEnablePutIs == IsLayout(DebugEnablePut) /\ Len(DebugEnablePut) = 2
<1>1. Len(DebugEnablePut) = 2 /\ DOMAIN DebugEnablePut = 1 .. 2 BY DEF DebugEnablePut
<1>2. \A k \in 1 .. 2 : DebugEnablePut[k].kind \in Kinds BY DEF DebugEnablePut, F, Kinds
<1>. QED BY <1>1, <1>2 DEF IsLayout

LEMMA RangeResultPutIs == IsLayout(RangeResultPut) /\ Len(RangeResultPut) = 9
<1>1. Len(RangeResultPut) = 9 /\ DOMAIN RangeResultPut = 1 .. 9 BY DEF RangeResultPut
<1>2. \A k \in 1 .. 9 : RangeResultPut[k].kind \in Kinds BY DEF RangeResultPut, F, Kinds
<1>. QED BY <1>1, <1>2 DEF IsLayout

LEMMA RangeFailGetIs == IsLayout(RangeFailGet) /\ Len(RangeFailGet) = 7
<1>1. Len(RangeFailGet) = 7 /\ DOMAIN RangeFailGet = 1 .. 7 BY DEF RangeFailGet
<1>2. \A k \in 1 .. 7 : RangeFailGet[k].kind \in Kinds BY DEF RangeFailGet, F, Kinds
<1>. QED BY <1>1, <1>2 DEF IsLayout

(* What a beacon is written as and what it is read as differ only in the   *)
(* names of the three fields the receiver drops.                           *)
LEMMA BeaconKinds == \A k \in 1 .. 17 : BeaconPut[k].kind = BeaconGet[k].kind
BY DEF BeaconPut, BeaconGet, F

LEMMA BeaconNames ==
  \A k \in 1 .. 17 : BeaconGet[k].name \notin {"ignored", "reserved"} =>
                       BeaconPut[k].name = BeaconGet[k].name
BY DEF BeaconPut, BeaconGet, F

LEMMA BeaconSame == NamesOf(BeaconGet) \ {"ignored", "reserved"} = NamesOf(BeaconPut) \ {"zero"}
BY DEF BeaconPut, BeaconGet, F, NamesOf

(* A quality report is read as it is written.                              *)
LEMMA QualitySame == QualityPut = QualityGet /\ Len(QualityPut) = 21
BY DEF QualityPut, QualityGet

(* The codes of the types, all different.                                  *)
LEMMA TypeCodes ==
  /\ TypeCode["HEARTBEAT"] = 64 /\ TypeCode["BEACON_RX"] = 66 /\ TypeCode["RANGE_RESULT"] = 67
  /\ TypeCode["RANGE_FAIL"] = 68 /\ TypeCode["DEBUG_ENABLE"] = 71
  /\ TypeCode["NODE_QUALITY_REPORT"] = 72
BY DEF TypeCode

(* What a receiver makes of a frame of each type.                          *)
LEMMA DispatchFrame ==
  ASSUME NEW p \in Seq(Byte), Len(p) <= MaxPayload
  PROVE  /\ Dispatch(EncodeFrame("BEACON_RX", FrameSeq, p))
              = Decoded("BEACON_RX", p, DecodeBeacon(p))
         /\ Dispatch(EncodeFrame("HEARTBEAT", FrameSeq, p))
              = Decoded("HEARTBEAT", p, Get(HeartbeatGet, p))
         /\ Dispatch(EncodeFrame("DEBUG_ENABLE", FrameSeq, p))
              = Decoded("DEBUG_ENABLE", p, Get(DebugEnableGet, p))
         /\ Dispatch(EncodeFrame("NODE_QUALITY_REPORT", FrameSeq, p))
              = Decoded("NODE_QUALITY_REPORT", p, DecodeQuality(p))
         /\ Dispatch(EncodeFrame("RANGE_RESULT", FrameSeq, p)) = Refused
<1>0. FrameSeq \in Int BY DEF FrameSeq
<1>1. ASSUME NEW type, TypeCode[type] \in Int
      PROVE  /\ FrameOk(EncodeFrame(type, FrameSeq, p))
             /\ FrameType(EncodeFrame(type, FrameSeq, p)) = TypeCode[type]
             /\ FramePayload(EncodeFrame(type, FrameSeq, p)) = p
  BY <1>0, <1>1, FrameRoundTrip
<1>2. Dispatch(EncodeFrame("BEACON_RX", FrameSeq, p))
              = Decoded("BEACON_RX", p, DecodeBeacon(p))
  <2> DEFINE f == EncodeFrame("BEACON_RX", FrameSeq, p)
  <2>1. FrameOk(f) /\ FrameType(f) = 66 /\ FramePayload(f) = p BY <1>1, TypeCodes
  <2> HIDE DEF f
  <2>2. Dispatch(f) = DecodeEvent(f) BY <2>1, TypeCodes DEF Dispatch
  <2>3. DecodeEvent(f) = Decoded("BEACON_RX", p, DecodeBeacon(p))
    BY <2>1, TypeCodes DEF DecodeEvent
  <2>. QED BY <2>2, <2>3 DEF f
<1>3. Dispatch(EncodeFrame("HEARTBEAT", FrameSeq, p))
              = Decoded("HEARTBEAT", p, Get(HeartbeatGet, p))
  <2> DEFINE f == EncodeFrame("HEARTBEAT", FrameSeq, p)
  <2>1. FrameOk(f) /\ FrameType(f) = 64 /\ FramePayload(f) = p BY <1>1, TypeCodes
  <2> HIDE DEF f
  <2>2. Dispatch(f) = Decoded("HEARTBEAT", p, Get(HeartbeatGet, p))
    BY <2>1, TypeCodes DEF Dispatch
  <2>. QED BY <2>2 DEF f
<1>4. Dispatch(EncodeFrame("DEBUG_ENABLE", FrameSeq, p))
              = Decoded("DEBUG_ENABLE", p, Get(DebugEnableGet, p))
  <2> DEFINE f == EncodeFrame("DEBUG_ENABLE", FrameSeq, p)
  <2>1. FrameOk(f) /\ FrameType(f) = 71 /\ FramePayload(f) = p BY <1>1, TypeCodes
  <2> HIDE DEF f
  <2>2. Dispatch(f) = Decoded("DEBUG_ENABLE", p, Get(DebugEnableGet, p))
    BY <2>1, TypeCodes DEF Dispatch
  <2>. QED BY <2>2 DEF f
<1>5. Dispatch(EncodeFrame("NODE_QUALITY_REPORT", FrameSeq, p))
              = Decoded("NODE_QUALITY_REPORT", p, DecodeQuality(p))
  <2> DEFINE f == EncodeFrame("NODE_QUALITY_REPORT", FrameSeq, p)
  <2>1. FrameOk(f) /\ FrameType(f) = 72 /\ FramePayload(f) = p BY <1>1, TypeCodes
  <2> HIDE DEF f
  <2>2. Dispatch(f) = Decoded("NODE_QUALITY_REPORT", p, DecodeQuality(p))
    BY <2>1, TypeCodes DEF Dispatch
  <2>. QED BY <2>2 DEF f
<1>6. Dispatch(EncodeFrame("RANGE_RESULT", FrameSeq, p)) = Refused
  <2> DEFINE f == EncodeFrame("RANGE_RESULT", FrameSeq, p)
  <2>1. FrameOk(f) /\ FrameType(f) = 67 BY <1>1, TypeCodes
  <2> HIDE DEF f
  <2>2. Dispatch(f) = Refused BY <2>1, TypeCodes DEF Dispatch
  <2>. QED BY <2>2 DEF f
<1>. QED BY <1>2, <1>3, <1>4, <1>5, <1>6

(* What a layout carries makes a payload of its length.                    *)
LEMMA PutFits ==
  ASSUME NEW layout, IsLayout(layout), Len(layout) > 0, Len(layout) <= 32, NEW rec, Carries(layout, rec)
  PROVE  /\ Put(layout, rec) \in Seq(Byte) /\ Len(Put(layout, rec)) <= MaxPayload
         /\ Len(Put(layout, rec)) = LengthOf(layout)
         /\ \A name \in NamesOf(layout) : Get(layout, Put(layout, rec))[name] = rec[name]
<1>1. SameShape(layout, layout) /\ \A name : SamePlace(layout, layout, name)
  BY DEF SameShape, SamePlace
<1>2. Put(layout, rec) \in Seq(Byte) BY <1>1, GetPut
<1>2a. Len(Put(layout, rec)) = LengthOf(layout) BY <1>1, GetPut
<1>2b. ASSUME NEW name \in NamesOf(layout)
       PROVE  Get(layout, Put(layout, rec))[name] = rec[name]
  <2>1. SamePlace(layout, layout, name) BY <1>1
  <2>2. SameShape(layout, layout) BY <1>1
  <2>. QED BY <2>1, <2>2, GetPut
<1>3. LengthOf(layout) \in Nat /\ LengthOf(layout) <= 4 * Len(layout) BY LengthBound
<1>4. \A l, n \in Nat : l <= 4 * n /\ n <= 32 => l <= 128 OBVIOUS
<1>5. Len(layout) \in Nat /\ Len(layout) <= 32 BY DEF IsLayout
<1>6. LengthOf(layout) <= MaxPayload BY <1>3, <1>4, <1>5 DEF MaxPayload
<1>. QED BY <1>2, <1>2a, <1>2b, <1>6

-----------------------------------------------------------------------------
(* The lengths of the payloads.                                            *)

(* A layout is as long as its fields add up to.                            *)
Adds(layout, ends) ==
  \A k \in 1 .. Len(layout) :
    ends[k] = (IF k = 1 THEN 0 ELSE ends[k - 1]) + Width(layout[k].kind)

(* Its cursor ends where they do.                                          *)
LEMMA LengthAdds ==
  ASSUME NEW layout, IsLayout(layout), Len(layout) > 0, NEW ends, Adds(layout, ends)
  PROVE  LengthOf(layout) = ends[Len(layout)]
<1> DEFINE at == Cursor(layout)
           n == Len(layout)
           S == {k \in Nat : k + 1 <= n => at[k + 1] = ends[k + 1]}
<1>1. /\ at[0] = 0 /\ \A k \in 1 .. n : at[k] = at[k - 1] + Width(layout[k].kind)
  BY CursorMoves
<1>2. n \in Nat /\ n > 0 BY DEF IsLayout
<1>3. \A k \in 1 .. n : ends[k] = (IF k = 1 THEN 0 ELSE ends[k - 1]) + Width(layout[k].kind)
  BY DEF Adds
<1>4. LengthOf(layout) = at[n] BY DEF LengthOf
<1> HIDE DEF at, n
<1>5. 0 \in S
  <2>1. 1 \in 1 .. n /\ 1 - 1 = 0 BY <1>2
  <2>2. at[1] = ends[1] BY <1>1, <1>3, <2>1
  <2>. QED BY <2>2
<1>6. ASSUME NEW k \in Nat, k \in S PROVE k + 1 \in S
  <2> DEFINE l == k + 1
  <2> SUFFICES ASSUME l + 1 <= n PROVE at[l + 1] = ends[l + 1]
    OBVIOUS
  <2>1. at[l] = ends[l] BY <1>2, <1>6
  <2>2. l + 1 \in 1 .. n /\ (l + 1) - 1 = l /\ l + 1 # 1 BY <1>2
  <2> HIDE DEF l
  <2>. QED BY <1>1, <1>3, <2>1, <2>2
<1> HIDE DEF S
<1>7. Nat \subseteq S BY <1>5, <1>6, Induction
<1>8. n - 1 \in S /\ (n - 1) + 1 = n BY <1>2, <1>7
<1>9. (n - 1) + 1 <= n => at[(n - 1) + 1] = ends[(n - 1) + 1] BY <1>8 DEF S
<1>. QED BY <1>2, <1>4, <1>8, <1>9 DEF n

(* The lengths of the layouts of the code.                                 *)
LEMMA BeaconPutLength == LengthOf(BeaconPut) = 43
<1> DEFINE ends == <<1, 5, 9, 13, 17, 21, 25, 29, 33, 34, 35, 36, 37, 38, 40, 42, 43>>
<1>1. IsLayout(BeaconPut) /\ Len(BeaconPut) = 17 /\ Len(BeaconPut) > 0 BY BeaconPutIs
<1>2. \A k \in 1 .. 17 : ends[k] = (IF k = 1 THEN 0 ELSE ends[k - 1]) + Width(BeaconPut[k].kind)
  BY DEF BeaconPut, F, Width
<1>3. ends[17] = 43 OBVIOUS
<1> HIDE DEF ends
<1>4. Adds(BeaconPut, ends) BY <1>1, <1>2 DEF Adds
<1>. QED BY <1>1, <1>3, <1>4, LengthAdds

LEMMA BeaconGetLength == LengthOf(BeaconGet) = 43
<1> DEFINE ends == <<1, 5, 9, 13, 17, 21, 25, 29, 33, 34, 35, 36, 37, 38, 40, 42, 43>>
<1>1. IsLayout(BeaconGet) /\ Len(BeaconGet) = 17 /\ Len(BeaconGet) > 0 BY BeaconGetIs
<1>2. \A k \in 1 .. 17 : ends[k] = (IF k = 1 THEN 0 ELSE ends[k - 1]) + Width(BeaconGet[k].kind)
  BY DEF BeaconGet, F, Width
<1>3. ends[17] = 43 OBVIOUS
<1> HIDE DEF ends
<1>4. Adds(BeaconGet, ends) BY <1>1, <1>2 DEF Adds
<1>. QED BY <1>1, <1>3, <1>4, LengthAdds

LEMMA RangeResultPutLength == LengthOf(RangeResultPut) = 21
<1> DEFINE ends == <<1, 2, 6, 10, 14, 16, 18, 19, 21>>
<1>1. IsLayout(RangeResultPut) /\ Len(RangeResultPut) = 9 /\ Len(RangeResultPut) > 0 BY RangeResultPutIs
<1>2. \A k \in 1 .. 9 : ends[k] = (IF k = 1 THEN 0 ELSE ends[k - 1]) + Width(RangeResultPut[k].kind)
  BY DEF RangeResultPut, F, Width
<1>3. ends[9] = 21 OBVIOUS
<1> HIDE DEF ends
<1>4. Adds(RangeResultPut, ends) BY <1>1, <1>2 DEF Adds
<1>. QED BY <1>1, <1>3, <1>4, LengthAdds

LEMMA RangeFailGetLength == LengthOf(RangeFailGet) = 13
<1> DEFINE ends == <<1, 2, 6, 7, 9, 11, 13>>
<1>1. IsLayout(RangeFailGet) /\ Len(RangeFailGet) = 7 /\ Len(RangeFailGet) > 0 BY RangeFailGetIs
<1>2. \A k \in 1 .. 7 : ends[k] = (IF k = 1 THEN 0 ELSE ends[k - 1]) + Width(RangeFailGet[k].kind)
  BY DEF RangeFailGet, F, Width
<1>3. ends[7] = 13 OBVIOUS
<1> HIDE DEF ends
<1>4. Adds(RangeFailGet, ends) BY <1>1, <1>2 DEF Adds
<1>. QED BY <1>1, <1>3, <1>4, LengthAdds

LEMMA DebugEnablePutLength == LengthOf(DebugEnablePut) = 3
<1> DEFINE ends == <<1, 3>>
<1>1. IsLayout(DebugEnablePut) /\ Len(DebugEnablePut) = 2 /\ Len(DebugEnablePut) > 0 BY DebugEnablePutIs
<1>2. \A k \in 1 .. 2 : ends[k] = (IF k = 1 THEN 0 ELSE ends[k - 1]) + Width(DebugEnablePut[k].kind)
  BY DEF DebugEnablePut, F, Width
<1>3. ends[2] = 3 OBVIOUS
<1> HIDE DEF ends
<1>4. Adds(DebugEnablePut, ends) BY <1>1, <1>2 DEF Adds
<1>. QED BY <1>1, <1>3, <1>4, LengthAdds

LEMMA HeartbeatPutLength == LengthOf(HeartbeatPut) = 18
<1> DEFINE ends == <<1, 5, 9, 13, 14, 16, 18>>
<1>1. IsLayout(HeartbeatPut) /\ Len(HeartbeatPut) = 7 /\ Len(HeartbeatPut) > 0 BY HeartbeatPutIs
<1>2. \A k \in 1 .. 7 : ends[k] = (IF k = 1 THEN 0 ELSE ends[k - 1]) + Width(HeartbeatPut[k].kind)
  BY DEF HeartbeatPut, F, Width
<1>3. ends[7] = 18 OBVIOUS
<1> HIDE DEF ends
<1>4. Adds(HeartbeatPut, ends) BY <1>1, <1>2 DEF Adds
<1>. QED BY <1>1, <1>3, <1>4, LengthAdds

LEMMA QualityPutLength == LengthOf(QualityPut) = 42
<1> DEFINE ends == <<1, 2, 3, 4, 5, 6, 7, 8, 9, 10, 11, 12, 14, 16, 18, 22, 26, 30, 34, 38, 42>>
<1>1. IsLayout(QualityPut) /\ Len(QualityPut) = 21 /\ Len(QualityPut) > 0 BY QualityPutIs
<1>2. \A k \in 1 .. 21 : ends[k] = (IF k = 1 THEN 0 ELSE ends[k - 1]) + Width(QualityPut[k].kind)
  BY DEF QualityPut, F, Width
<1>3. ends[21] = 42 OBVIOUS
<1> HIDE DEF ends
<1>4. Adds(QualityPut, ends) BY <1>1, <1>2 DEF Adds
<1>. QED BY <1>1, <1>3, <1>4, LengthAdds

(* Every encoder fills its buffer exactly, and a decoder that finds its    *)
(* length finds all its fields (the NAV_TELEMETRY_*_LEN of nav_telemetry.c *)
(* against the cursors of its encoders and decoders).                      *)
THEOREM PayloadLengths ==
  /\ LengthOf(BeaconPut) = PayloadLen["BEACON_RX"] /\ LengthOf(BeaconGet) = PayloadLen["BEACON_RX"]
  /\ LengthOf(RangeResultPut) = PayloadLen["RANGE_RESULT"]
  /\ LengthOf(RangeResultGet) = PayloadLen["RANGE_RESULT"]
  /\ LengthOf(RangeFailGet) = PayloadLen["RANGE_FAIL"]
  /\ LengthOf(DebugEnablePut) = PayloadLen["DEBUG_ENABLE"]
  /\ LengthOf(DebugEnableGet) = PayloadLen["DEBUG_ENABLE"]
  /\ LengthOf(HeartbeatPut) = PayloadLen["HEARTBEAT"]
  /\ LengthOf(HeartbeatGet) = PayloadLen["HEARTBEAT"]
  /\ LengthOf(QualityPut) = PayloadLen["NODE_QUALITY_REPORT"]
  /\ LengthOf(QualityGet) = PayloadLen["NODE_QUALITY_REPORT"]
<1>1. /\ RangeResultGet = RangeResultPut /\ DebugEnableGet = DebugEnablePut
      /\ HeartbeatGet = HeartbeatPut /\ QualityGet = QualityPut
  BY DEF RangeResultGet, RangeResultPut, DebugEnableGet, DebugEnablePut, HeartbeatGet,
         HeartbeatPut, QualityGet, QualityPut
<1>2. /\ PayloadLen["BEACON_RX"] = 43 /\ PayloadLen["RANGE_RESULT"] = 21
      /\ PayloadLen["RANGE_FAIL"] = 13 /\ PayloadLen["DEBUG_ENABLE"] = 3
      /\ PayloadLen["HEARTBEAT"] = 18 /\ PayloadLen["NODE_QUALITY_REPORT"] = 42
  BY DEF PayloadLen
<1>. QED
  BY <1>1, <1>2, BeaconPutLength, BeaconGetLength, RangeResultPutLength, RangeFailGetLength,
     DebugEnablePutLength, HeartbeatPutLength, QualityPutLength

-----------------------------------------------------------------------------
(* Each kind of frame, from what is said to what is taken.                 *)

(* What the assumptions say of the constants the frames carry.             *)
LEMMA Contents ==
  /\ NodeCount \in Nat /\ NodeCount > 1 /\ NodeCount <= 255
  /\ DebugTtl \in Nat /\ DebugTtl > 0 /\ DebugTtl <= 65535
  /\ EspId \in Node
BY SpeedyBeeAssumption, ContentsAssumption

(* Two functions that agree on one domain are one.                         *)
LEMMA SameFunction ==
  ASSUME NEW N, NEW f, NEW g, f = [n \in N |-> f[n]], g = [n \in N |-> g[n]],
         \A n \in N : f[n] = g[n]
  PROVE  f = g
<1>1. [n \in N |-> f[n]] = [n \in N |-> g[n]] BY Zenon
<1>. QED BY <1>1

(* A beacon is taken for what it says.                                     *)
LEMMA BeaconTaken ==
  ASSUME NEW b \in Beacons
  PROVE  Dispatch(Bytes(Said("BEACON_RX", b))) = Said("BEACON_RX", b)
<1> DEFINE rec == BeaconOnAir(b)
           p == Put(BeaconPut, rec)
           names == NamesOf(BeaconPut) \ {"zero"}
           g == Get(BeaconGet, p)
<1>1. IsRecord(b, names) /\ b.gnss_valid \in BOOLEAN /\ Carries(BeaconPut, rec)
  BY ContentsAssumption
<1>2. /\ p \in Seq(Byte) /\ Len(p) <= MaxPayload /\ Len(p) = LengthOf(BeaconGet)
      /\ \A name \in NamesOf(BeaconGet) \ {"ignored", "reserved"} : g[name] = rec[name]
  <2>1. p \in Seq(Byte) /\ Len(p) <= MaxPayload
    <3>1. Len(BeaconPut) > 0 /\ Len(BeaconPut) <= 32 BY BeaconPutIs
    <3> HIDE DEF rec
    <3>. QED BY <1>1, <3>1, BeaconPutIs, PutFits
  <2>2. /\ IsLayout(BeaconPut) /\ IsLayout(BeaconGet)
        /\ Len(BeaconPut) = Len(BeaconGet) /\ Len(BeaconGet) = 17 /\ Len(BeaconGet) > 0
    BY BeaconPutIs, BeaconGetIs
  <2>3. SameShape(BeaconPut, BeaconGet) BY <2>2, BeaconKinds DEF SameShape
  <2>5. \A name : name \notin {"ignored", "reserved"} => SamePlace(BeaconPut, BeaconGet, name)
    BY <2>2, BeaconNames DEF SamePlace
  <2> HIDE DEF rec
  <2> DEFINE put == BeaconPut
             get == BeaconGet
  <2>4. SameShape(put, get) /\ Carries(put, rec) BY <1>1, <2>3
  <2> HIDE DEF put, get
  <2>6. Len(Put(put, rec)) = LengthOf(get) BY <2>4, GetPut
  <2>7. ASSUME NEW name \in NamesOf(get), SamePlace(put, get, name)
        PROVE  Get(get, Put(put, rec))[name] = rec[name]
    BY <2>4, <2>7, GetPut
  <2> USE DEF put, get
  <2>. QED BY <2>1, <2>5, <2>6, <2>7
<1>3. Dispatch(Bytes(Said("BEACON_RX", b))) = Decoded("BEACON_RX", p, DecodeBeacon(p))
  <2>1. Bytes(Said("BEACON_RX", b)) = EncodeFrame("BEACON_RX", FrameSeq, p)
    BY DEF Bytes, Said, EncodeBeacon
  <2> HIDE DEF p
  <2>. QED BY <1>2, <2>1, DispatchFrame
<1>4. Fits("BEACON_RX", p)
  <2>1. Len(p) = 43 BY <1>2, BeaconGetLength
  <2> HIDE DEF p
  <2>. QED BY <2>1 DEF Fits, PayloadLen
<1>5. DecodeBeacon(p) = b
  <2>1. DOMAIN g = NamesOf(BeaconGet) BY DEF Get
  <2>2. NamesOf(BeaconGet) \ {"ignored", "reserved"} = names BY BeaconSame
  <2>3. DOMAIN b = names BY <1>1, Zenon DEF IsRecord
  <2>4. \A name \in names : name # "zero" /\ name \in DOMAIN b BY <2>3
  <2>5. ASSUME NEW name \in names
        PROVE  (IF name = "gnss_valid" THEN g[name] # 0 ELSE g[name]) = b[name]
    <3>1. g[name] = rec[name] BY <1>2, <2>2
    <3>2. rec[name] = IF name = "gnss_valid" THEN (IF b.gnss_valid THEN 1 ELSE 0) ELSE b[name]
      BY <2>4 DEF BeaconOnAir
    <3> HIDE DEF g, rec
    <3>3. CASE name = "gnss_valid"
      <4>1. g["gnss_valid"] = IF b.gnss_valid THEN 1 ELSE 0 BY <3>1, <3>2, <3>3
      <4>2. CASE b.gnss_valid
        <5>1. g["gnss_valid"] # 0 BY <4>1, <4>2
        <5>2. b.gnss_valid = TRUE BY <1>1, <4>2
        <5>. QED BY <3>3, <5>1, <5>2, Zenon
      <4>3. CASE ~b.gnss_valid
        <5>1. ~(g["gnss_valid"] # 0) BY <4>1, <4>3
        <5>2. b.gnss_valid = FALSE BY <1>1, <4>3
        <5>. QED BY <3>3, <5>1, <5>2, Zenon
      <4>. QED BY <4>2, <4>3
    <3>4. CASE name # "gnss_valid" BY <3>1, <3>2, <3>4
    <3>. QED BY <3>3, <3>4
  <2>6. DecodeBeacon(p) = [name \in names |-> IF name = "gnss_valid" THEN g[name] # 0 ELSE g[name]]
    BY <2>1, <2>2 DEF DecodeBeacon
  <2>7. b = [name \in names |-> b[name]] BY <1>1 DEF IsRecord
  <2> HIDE DEF g, names
  <2>8. [name \in names |-> IF name = "gnss_valid" THEN g[name] # 0 ELSE g[name]]
          = [name \in names |-> b[name]]
    BY <2>5, Zenon
  <2>. QED BY <2>6, <2>7, <2>8
<1> HIDE DEF p
<1>. QED BY <1>3, <1>4, <1>5 DEF Decoded, Said

(* A whole record comes back when it has just the fields of the layout.    *)
LEMMA WholeRecord ==
  ASSUME NEW layout, IsLayout(layout), Len(layout) > 0, Len(layout) <= 32,
         NEW rec, Carries(layout, rec), IsRecord(rec, NamesOf(layout))
  PROVE  Get(layout, Put(layout, rec)) = rec
<1> DEFINE N == NamesOf(layout)
           g == Get(layout, Put(layout, rec))
<1>1. \A name \in N : g[name] = rec[name] BY PutFits
<1>2. g = [name \in N |-> g[name]]
  <2>1. \E e : g = [name \in N |-> e[name]]
    <3> DEFINE e == [name \in N |->
                       GetBytes(layout[FieldOf(layout, name)].kind,
                         SubSeq(Put(layout, rec), Cursor(layout)[FieldOf(layout, name) - 1] + 1,
                                Cursor(layout)[FieldOf(layout, name)]))]
    <3>1. g = e BY DEF Get
    <3>2. e = [name \in N |-> e[name]] OBVIOUS
    <3> HIDE DEF e, g
    <3>3. g = [name \in N |-> e[name]] BY <3>1, <3>2
    <3>. QED BY <3>3
  <2> HIDE DEF g, N
  <2>. QED BY <2>1
<1>3. rec = [name \in N |-> rec[name]] BY DEF IsRecord
<1> HIDE DEF g, N
<1>4. g = rec BY <1>1, <1>2, <1>3, SameFunction
<1>. QED BY <1>4 DEF g

(* The fields of a request for debug telemetry.                            *)
LEMMA DebugEnableNames == NamesOf(DebugEnablePut) = {"origin_node_id", "ttl_ms"}
BY DEF NamesOf, DebugEnablePut, F

(* A request for debug telemetry is taken for what it says.                *)
LEMMA DebugEnableTaken ==
  ASSUME NEW id \in Node, NEW ttl, Holds("u16", ttl)
  PROVE  Dispatch(Bytes(DebugEnable(id, ttl))) = DebugEnable(id, ttl)
<1> DEFINE rec == [origin_node_id |-> id, ttl_ms |-> ttl]
           p == Put(DebugEnablePut, rec)
<1>1. Carries(DebugEnablePut, rec)
  <2>1. id \in Int /\ 0 <= id /\ id <= 255 BY Contents DEF Node
  <2>2. Holds("u8", id) BY <2>1 DEF Holds
  <2>. QED BY <2>2 DEF Carries, DebugEnablePut, F
<1>2. IsLayout(DebugEnablePut) /\ Len(DebugEnablePut) > 0 /\ Len(DebugEnablePut) <= 32 BY DebugEnablePutIs
<1>3. DebugEnableGet = DebugEnablePut BY DEF DebugEnableGet, DebugEnablePut
<1>5. IsRecord(rec, NamesOf(DebugEnablePut))
  <2>1. NamesOf(DebugEnablePut) = {"origin_node_id", "ttl_ms"} BY DebugEnableNames
  <2>2. rec = [name \in {"origin_node_id", "ttl_ms"} |-> rec[name]] OBVIOUS
  <2> HIDE DEF rec
  <2>. QED BY <2>1, <2>2 DEF IsRecord
<1>6. Bytes(DebugEnable(id, ttl)) = EncodeFrame("DEBUG_ENABLE", FrameSeq, p)
  BY DEF Bytes, DebugEnable, Said, EncodeDebugEnable
<1>7. DebugEnable(id, ttl) = [type |-> "DEBUG_ENABLE", value |-> rec] BY DEF DebugEnable, Said
<1> HIDE DEF rec
<1>8. p \in Seq(Byte) /\ Len(p) <= MaxPayload /\ Len(p) = LengthOf(DebugEnableGet)
  BY <1>1, <1>2, <1>3, PutFits
<1>11. Get(DebugEnableGet, p) = rec BY <1>1, <1>2, <1>3, <1>5, WholeRecord
<1> HIDE DEF p
<1>9. Dispatch(Bytes(DebugEnable(id, ttl)))
        = Decoded("DEBUG_ENABLE", p, Get(DebugEnableGet, p))
  BY <1>6, <1>8, DispatchFrame
<1>10. Fits("DEBUG_ENABLE", p)
  <2>1. Len(p) = 3 BY <1>3, <1>8, DebugEnablePutLength
  <2>. QED BY <2>1 DEF Fits, PayloadLen
<1>12. Decoded("DEBUG_ENABLE", p, rec) = [type |-> "DEBUG_ENABLE", value |-> rec]
  BY <1>10 DEF Decoded
<1>13. Dispatch(Bytes(DebugEnable(id, ttl))) = Decoded("DEBUG_ENABLE", p, rec)
  BY <1>9, <1>11
<1>. QED BY <1>7, <1>12, <1>13

FineReport(r) ==
  /\ IsRecord(r, NamesOf(QualityPut)) /\ Carries(QualityPut, NarrowReport(r))
  /\ r.num_anchors \in Nat /\ r.residual_rms_mm \in Nat /\ r.max_residual_mm \in Nat
  /\ r.geometry \in Int /\ r.quality \in Int

Narrowed(r) ==
  [r EXCEPT !.num_anchors = Smaller(@, 3),
            !.geometry = QualityByte(@), !.quality = QualityByte(@),
            !.residual_rms_mm = Smaller(@, 65535),
            !.max_residual_mm = Smaller(@, 65535)]

(* The fields of a report that are narrowed or exchanged are fields of it. *)
LEMMA QualityNames ==
  {"node_id", "num_anchors", "geometry", "quality", "residual_rms_mm", "max_residual_mm"}
    \subseteq NamesOf(QualityPut)
BY DEF NamesOf, QualityPut, F

(* Narrowing a report is what the receiver sees of it, and clamping it     *)
(* again changes nothing.                                                  *)
LEMMA NarrowIs ==
  ASSUME NEW r, NEW N, IsRecord(r, N),
         {"node_id", "num_anchors", "geometry", "quality", "residual_rms_mm", "max_residual_mm"}
            \subseteq N,
         r.num_anchors \in Nat, r.residual_rms_mm \in Nat, r.max_residual_mm \in Nat
  PROVE  /\ NarrowReport(r) = Narrowed(r)
         /\ IsRecord(NarrowReport(r), N)
         /\ [NarrowReport(r) EXCEPT !.num_anchors = ClampAnchors(@)] = NarrowReport(r)
<1>1. r = [name \in N |-> r[name]] BY DEF IsRecord
<1>2. DOMAIN r = N BY <1>1
<1>3. /\ ClampAnchors(r.num_anchors) = Smaller(r.num_anchors, 3)
      /\ SaturateU16(r.residual_rms_mm) = Smaller(r.residual_rms_mm, 65535)
      /\ SaturateU16(r.max_residual_mm) = Smaller(r.max_residual_mm, 65535)
      /\ ClampAnchors(ClampAnchors(r.num_anchors)) = ClampAnchors(r.num_anchors)
  BY DEF ClampAnchors, SaturateU16, Smaller
<1> DEFINE m == NarrowReport(r)
<1>4. DOMAIN m = N BY <1>2 DEF NarrowReport
<1>5. m.num_anchors = ClampAnchors(r.num_anchors)
  BY <1>2 DEF NarrowReport
<1>6. NarrowReport(r) = Narrowed(r) BY <1>2, <1>3 DEF NarrowReport, Narrowed
<1>7. m = [name \in N |-> m[name]] BY <1>2 DEF NarrowReport
<1> HIDE DEF m
<1>8. [m EXCEPT !.num_anchors = ClampAnchors(@)] = m
  <2>1. ClampAnchors(m.num_anchors) = m.num_anchors BY <1>3, <1>5
  <2>2. m = [name \in DOMAIN m |-> m[name]] BY <1>4, <1>7
  <2>. QED BY <2>1, <2>2
<1>. QED BY <1>6, <1>7, <1>8 DEF m, IsRecord

(* A node quality report is taken for what it says, as far as it fits.     *)
LEMMA QualityTaken ==
  ASSUME NEW r, FineReport(r)
  PROVE  Dispatch(Bytes(Said("NODE_QUALITY_REPORT", r)))
           = Said("NODE_QUALITY_REPORT", Narrowed(r))
<1> DEFINE m == NarrowReport(r)
           p == Put(QualityPut, m)
<1>1. /\ IsRecord(r, NamesOf(QualityPut)) /\ Carries(QualityPut, m)
      /\ r.num_anchors \in Nat /\ r.residual_rms_mm \in Nat /\ r.max_residual_mm \in Nat
  BY DEF FineReport
<1>2. /\ m = Narrowed(r) /\ IsRecord(m, NamesOf(QualityPut))
      /\ [m EXCEPT !.num_anchors = ClampAnchors(@)] = m
  <2> DEFINE N == NamesOf(QualityPut)
  <2>1. {"node_id", "num_anchors", "geometry", "quality", "residual_rms_mm", "max_residual_mm"}
            \subseteq N
    BY QualityNames
  <2> HIDE DEF N
  <2>2. IsRecord(r, N) BY <1>1 DEF N
  <2>3. /\ NarrowReport(r) = Narrowed(r)
        /\ IsRecord(NarrowReport(r), N)
        /\ [NarrowReport(r) EXCEPT !.num_anchors = ClampAnchors(@)] = NarrowReport(r)
    BY <1>1, <2>1, <2>2, NarrowIs
  <2>. QED BY <2>3 DEF N
<1>3. IsLayout(QualityPut) /\ Len(QualityPut) > 0 /\ Len(QualityPut) <= 32 BY QualityPutIs
<1>4. QualityGet = QualityPut BY QualitySame
<1>5. Bytes(Said("NODE_QUALITY_REPORT", r)) = EncodeFrame("NODE_QUALITY_REPORT", FrameSeq, p)
  BY DEF Bytes, Said, EncodeQuality
<1> HIDE DEF m
<1>6. p \in Seq(Byte) /\ Len(p) <= MaxPayload /\ Len(p) = LengthOf(QualityPut)
  BY <1>1, <1>3, PutFits
<1>7. Get(QualityPut, p) = m BY <1>1, <1>2, <1>3, WholeRecord
<1> HIDE DEF p
<1>8. Dispatch(Bytes(Said("NODE_QUALITY_REPORT", r)))
        = Decoded("NODE_QUALITY_REPORT", p, DecodeQuality(p))
  BY <1>5, <1>6, DispatchFrame
<1>9. Fits("NODE_QUALITY_REPORT", p)
  <2>1. Len(p) = 42 BY <1>6, QualityPutLength
  <2>. QED BY <2>1 DEF Fits, PayloadLen
<1>10. DecodeQuality(p) = m BY <1>2, <1>4, <1>7 DEF DecodeQuality
<1>11. Decoded("NODE_QUALITY_REPORT", p, m) = [type |-> "NODE_QUALITY_REPORT", value |-> m]
  BY <1>9 DEF Decoded
<1>12. Dispatch(Bytes(Said("NODE_QUALITY_REPORT", r))) = [type |-> "NODE_QUALITY_REPORT", value |-> m]
  BY <1>8, <1>10, <1>11
<1>. QED BY <1>2, <1>12 DEF Said

(* The field that says whose report it is takes a byte.                    *)
LEMMA NodeIdIsByte ==
  \A k \in 1 .. 21 : QualityPut[k].name = "node_id" => QualityPut[k].kind = "u8"
BY DEF QualityPut, F

(* A report sent under the node's id is still one that fits.               *)
LEMMA OwnReport ==
  ASSUME NEW r \in Reports, NEW id \in Node
  PROVE  FineReport([r EXCEPT !.node_id = id])
<1> DEFINE N == NamesOf(QualityPut)
           e == [r EXCEPT !.node_id = id]
           m == NarrowReport(r)
           n == NarrowReport(e)
<1>1. /\ IsRecord(r, N) /\ Carries(QualityPut, m)
      /\ r.num_anchors \in Nat /\ r.residual_rms_mm \in Nat /\ r.max_residual_mm \in Nat
      /\ r.geometry \in Int /\ r.quality \in Int
  BY ContentsAssumption
<1>2. r = [name \in N |-> r[name]] BY <1>1 DEF IsRecord
<1>3. {"node_id", "num_anchors", "geometry", "quality", "residual_rms_mm", "max_residual_mm"} \subseteq N
  BY QualityNames
<1>4. DOMAIN QualityPut = 1 .. 21 BY QualityPutIs DEF IsLayout
<1>5. \A k \in 1 .. 21 : QualityPut[k].name \in N BY <1>4 DEF NamesOf
<1>6. \A k \in 1 .. 21 : Holds(QualityPut[k].kind, m[QualityPut[k].name])
  <2> HIDE DEF m
  <2>. QED BY <1>1, <1>4 DEF Carries
<1>7. Holds("u8", id)
  <2>1. id \in Int /\ 0 <= id /\ id <= 255 BY Contents DEF Node
  <2>. QED BY <2>1 DEF Holds
<1> HIDE DEF N
<1>8. DOMAIN r = N BY <1>2
<1>9. e = [name \in N |-> IF name = "node_id" THEN id ELSE r[name]] BY <1>3, <1>8
<1>10. e = [name \in N |-> e[name]] BY <1>9
<1>11. /\ e.num_anchors = r.num_anchors /\ e.residual_rms_mm = r.residual_rms_mm
       /\ e.max_residual_mm = r.max_residual_mm
       /\ e.geometry = r.geometry /\ e.quality = r.quality
  BY <1>3, <1>9
<1>12. DOMAIN e = N BY <1>9
<1> HIDE DEF e
<1>13. \A name \in N : n[name] = IF name = "node_id" THEN e[name] ELSE m[name]
  <2>1. ASSUME NEW name \in N,
               name \notin {"num_anchors", "geometry", "quality", "residual_rms_mm", "max_residual_mm"}
        PROVE  n[name] = e[name] /\ m[name] = r[name]
    BY <1>8, <1>12, <2>1 DEF NarrowReport
  <2>2. /\ n.num_anchors = m.num_anchors /\ n.geometry = m.geometry /\ n.quality = m.quality
        /\ n.residual_rms_mm = m.residual_rms_mm /\ n.max_residual_mm = m.max_residual_mm
    BY <1>3, <1>8, <1>12, <1>11 DEF NarrowReport
  <2>3. \A name \in N : name # "node_id" => e[name] = r[name]
    BY <1>9
  <2> HIDE DEF n, m
  <2>. QED BY <2>1, <2>2, <2>3
<1>14. e.node_id = id BY <1>3, <1>9
<1> HIDE DEF n, m
<1>15. \A k \in 1 .. 21 : Holds(QualityPut[k].kind, n[QualityPut[k].name])
  <2> TAKE k \in 1 .. 21
  <2>1. CASE QualityPut[k].name = "node_id"
    <3>1. QualityPut[k].kind = "u8" BY <2>1, NodeIdIsByte
    <3>2. n[QualityPut[k].name] = id BY <1>5, <1>13, <1>14, <2>1
    <3>. QED BY <1>7, <3>1, <3>2
  <2>2. CASE QualityPut[k].name # "node_id"
    <3>1. n[QualityPut[k].name] = m[QualityPut[k].name] BY <1>5, <1>13, <2>2
    <3>. QED BY <1>6, <3>1
  <2>. QED BY <2>1, <2>2
<1>16. Carries(QualityPut, n) BY <1>4, <1>15 DEF Carries
<1>17. IsRecord(e, N) BY <1>10 DEF IsRecord
<1>. QED BY <1>1, <1>11, <1>16, <1>17 DEF FineReport, N, n, e

(* A heartbeat is received as one or not at all.                           *)
LEMMA HeartbeatRefused ==
  ASSUME NEW h \in Heartbeats
  PROVE  Dispatch(Bytes(Said("HEARTBEAT", h))).type \in {"HEARTBEAT", "none"}
<1> DEFINE p == Put(HeartbeatPut, h)
<1>1. Carries(HeartbeatPut, h) BY ContentsAssumption
<1>2. IsLayout(HeartbeatPut) /\ Len(HeartbeatPut) > 0 /\ Len(HeartbeatPut) <= 32 BY HeartbeatPutIs
<1>3. p \in Seq(Byte) /\ Len(p) <= MaxPayload BY <1>1, <1>2, PutFits
<1>4. Bytes(Said("HEARTBEAT", h)) = EncodeFrame("HEARTBEAT", FrameSeq, p)
  BY DEF Bytes, Said, EncodeHeartbeat
<1> HIDE DEF p
<1>5. Dispatch(Bytes(Said("HEARTBEAT", h)))
        = Decoded("HEARTBEAT", p, Get(HeartbeatGet, p))
  BY <1>3, <1>4, DispatchFrame
<1>. QED BY <1>5 DEF Decoded, Refused

(* A range is never taken from a frame of its own type.                    *)
LEMMA RangeRefused ==
  ASSUME NEW r \in Ranges
  PROVE  Dispatch(Bytes(Said("RANGE_RESULT", r))) = Refused
<1> DEFINE m == RangeOnAir(r)
           p == Put(RangeResultPut, m)
<1>1. Carries(RangeResultPut, m) BY ContentsAssumption
<1>2. IsLayout(RangeResultPut) /\ Len(RangeResultPut) > 0 /\ Len(RangeResultPut) <= 32
  BY RangeResultPutIs
<1>4. Bytes(Said("RANGE_RESULT", r)) = EncodeFrame("RANGE_RESULT", FrameSeq, p)
  BY DEF Bytes, Said, EncodeRangeResult
<1> HIDE DEF m
<1>3. p \in Seq(Byte) /\ Len(p) <= MaxPayload BY <1>1, <1>2, PutFits
<1> HIDE DEF p
<1>. QED BY <1>3, <1>4, DispatchFrame

-----------------------------------------------------------------------------
(* What the node and the ESP32 take.                                       *)

Agreed(said) ==
  Said(said.type, IF said.type = "NODE_QUALITY_REPORT" THEN Narrowed(said.value) ELSE said.value)

(* What FrameTaken makes of a frame, by the frame it is.                   *)
LEMMA TakenBeacon ==
  ASSUME NEW b \in Beacons
  PROVE  FrameTaken[Said("BEACON_RX", b)] = Said("BEACON_RX", b)
<1> DEFINE said == Said("BEACON_RX", b)
<1>1. said \in OtherFrames BY DEF OtherFrames
<1>2. Dispatch(Bytes(said)) = said BY BeaconTaken
<1>3. said.type = "BEACON_RX" BY DEF Said
<1> HIDE DEF said
<1>4. FrameTaken[said] = said BY <1>1, <1>2, <1>3 DEF FrameTaken
<1>. QED BY <1>4 DEF said

(* The times to live that are sent fit their field.                        *)
LEMMA TtlFits == Holds("u16", DebugTtl) /\ Holds("u16", 0)
<1>1. DebugTtl \in Nat /\ DebugTtl <= 65535 BY Contents
<1>2. DebugTtl \in Int /\ 0 <= DebugTtl BY <1>1
<1>. QED BY <1>1, <1>2 DEF Holds

LEMMA TakenDebugEnable ==
  ASSUME NEW t \in {0, DebugTtl}
  PROVE  FrameTaken[DebugEnable(EspId, t)] = DebugEnable(EspId, t)
<1> DEFINE said == DebugEnable(EspId, t)
<1>1. said \in OtherFrames BY DEF OtherFrames
<1>2. Dispatch(Bytes(said)) = said
  <2>1. EspId \in Node BY Contents
  <2>2. Holds("u16", t) BY TtlFits
  <2>. QED BY <2>1, <2>2, DebugEnableTaken
<1>3. said.type = "DEBUG_ENABLE" BY DEF Said, DebugEnable
<1> HIDE DEF said
<1>4. FrameTaken[said] = said BY <1>1, <1>2, <1>3 DEF FrameTaken
<1>. QED BY <1>4 DEF said

(* Narrowing leaves a report under its node.                               *)
LEMMA NarrowedKeepsId ==
  ASSUME NEW r, IsRecord(r, NamesOf(QualityPut))
  PROVE  Narrowed(r).node_id = r.node_id
<1> DEFINE N == NamesOf(QualityPut)
<1>1. r = [name \in N |-> r[name]] BY DEF IsRecord
<1>2. "node_id" \in N BY QualityNames
<1> HIDE DEF N
<1>3. "node_id" \in DOMAIN r BY <1>1, <1>2
<1>. QED BY <1>3 DEF Narrowed

LEMMA TakenQuality ==
  ASSUME NEW r \in Reports
  PROVE  LET said == Said("NODE_QUALITY_REPORT", r)
         IN  \/ r.node_id >= NodeCount /\ FrameTaken[said] = Refused
             \/ FrameTaken[said] = Said("NODE_QUALITY_REPORT", Narrowed(r))
<1> DEFINE said == Said("NODE_QUALITY_REPORT", r)
           d == Said("NODE_QUALITY_REPORT", Narrowed(r))
<1>1. said \in OtherFrames BY DEF OtherFrames
<1>2. /\ IsRecord(r, NamesOf(QualityPut)) /\ FineReport(r) BY ContentsAssumption DEF FineReport
<1>3. Dispatch(Bytes(said)) = d BY <1>2, QualityTaken
<1>4. d.type = "NODE_QUALITY_REPORT" /\ d.value = Narrowed(r) BY DEF Said
<1>5. Narrowed(r).node_id = r.node_id BY <1>2, NarrowedKeepsId
<1>6. r.node_id \in Int
  <2>1. Carries(QualityPut, NarrowReport(r)) BY ContentsAssumption
  <2>2. 1 \in DOMAIN QualityPut /\ QualityPut[1].name = "node_id"
    BY DEF QualityPut, F
  <2>3. Holds(QualityPut[1].kind, NarrowReport(r)[QualityPut[1].name]) BY <2>1, <2>2 DEF Carries
  <2>4. NarrowReport(r)["node_id"] \in Int BY <2>2, <2>3 DEF Holds
  <2>5. NarrowReport(r) = Narrowed(r)
    <3> DEFINE N == NamesOf(QualityPut)
    <3>1. {"node_id", "num_anchors", "geometry", "quality", "residual_rms_mm", "max_residual_mm"}
              \subseteq N
      BY QualityNames
    <3> HIDE DEF N
    <3>2. /\ IsRecord(r, N) /\ r.num_anchors \in Nat /\ r.residual_rms_mm \in Nat
          /\ r.max_residual_mm \in Nat
      BY <1>2 DEF N, FineReport
    <3>. QED BY <3>1, <3>2, NarrowIs
  <2>. QED BY <1>5, <2>4, <2>5
<1>7. NodeCount \in Int BY Contents
<1> DEFINE node == d.value.node_id
<1>8. node = r.node_id BY <1>4, <1>5
<1> HIDE DEF said, d, node
<1>9. FrameTaken[said] = IF node < NodeCount THEN d ELSE Refused
  BY <1>1, <1>3, <1>4 DEF FrameTaken, node
<1>10. node >= NodeCount \/ node < NodeCount BY <1>6, <1>7, <1>8
<1>. QED BY <1>8, <1>9, <1>10 DEF said, d

LEMMA TakenHeartbeat ==
  ASSUME NEW h \in Heartbeats
  PROVE  FrameTaken[Said("HEARTBEAT", h)] = Refused
<1> DEFINE said == Said("HEARTBEAT", h)
<1>1. said \in OtherFrames BY DEF OtherFrames
<1>2. Dispatch(Bytes(said)).type \in {"HEARTBEAT", "none"} BY HeartbeatRefused
<1> HIDE DEF said
<1>3. FrameTaken[said] = Refused BY <1>1, <1>2 DEF FrameTaken
<1>. QED BY <1>3 DEF said

LEMMA TakenRange ==
  ASSUME NEW r \in Ranges
  PROVE  FrameTaken[Said("RANGE_RESULT", r)] = Refused
<1> DEFINE said == Said("RANGE_RESULT", r)
<1>1. said \in OtherFrames BY DEF OtherFrames
<1>2. Dispatch(Bytes(said)).type = "none" BY RangeRefused DEF Refused
<1> HIDE DEF said
<1>3. FrameTaken[said] = Refused BY <1>1, <1>2 DEF FrameTaken
<1>. QED BY <1>3 DEF said

(* What the node takes from any frame it may hear.                         *)
LEMMA TakenFrame ==
  ASSUME NEW said \in OtherFrames
  PROVE  \/ said.type \in {"HEARTBEAT", "RANGE_RESULT"} /\ FrameTaken[said] = Refused
         \/ said.type = "BEACON_RX" /\ FrameTaken[said] = Agreed(said)
         \/ /\ said.type = "DEBUG_ENABLE" /\ FrameTaken[said] = Agreed(said)
            /\ Agreed(said).type = "DEBUG_ENABLE"
            /\ Agreed(said).value.ttl_ms \in {0, DebugTtl}
         \/ /\ said.type = "NODE_QUALITY_REPORT"
            /\ \/ FrameTaken[said] = Agreed(said)
               \/ said.value.node_id >= NodeCount /\ FrameTaken[said] = Refused
<1>1. ASSUME NEW type \in {"HEARTBEAT", "RANGE_RESULT", "BEACON_RX", "DEBUG_ENABLE",
                           "NODE_QUALITY_REPORT"}, NEW v
      PROVE  /\ Said(type, v).type = type /\ Said(type, v).value = v
             /\ Agreed(Said(type, v))
                  = Said(type, IF type = "NODE_QUALITY_REPORT" THEN Narrowed(v) ELSE v)
  BY DEF Said, Agreed
<1>2. CASE \E b \in Beacons : said = Said("BEACON_RX", b)
  <2>1. PICK b \in Beacons : said = Said("BEACON_RX", b) BY <1>2
  <2>. QED BY <1>1, <2>1, TakenBeacon
<1>3. CASE \E h \in Heartbeats : said = Said("HEARTBEAT", h)
  <2>1. PICK h \in Heartbeats : said = Said("HEARTBEAT", h) BY <1>3
  <2>. QED BY <1>1, <2>1, TakenHeartbeat
<1>4. CASE \E r \in Reports : said = Said("NODE_QUALITY_REPORT", r)
  <2>1. PICK r \in Reports : said = Said("NODE_QUALITY_REPORT", r) BY <1>4
  <2>2. Agreed(said) = Said("NODE_QUALITY_REPORT", Narrowed(r)) BY <1>1, <2>1
  <2>3. said.type = "NODE_QUALITY_REPORT" /\ said.value = r BY <1>1, <2>1
  <2>. QED BY <2>1, <2>2, <2>3, TakenQuality
<1>5. CASE \E r \in Ranges : said = Said("RANGE_RESULT", r)
  <2>1. PICK r \in Ranges : said = Said("RANGE_RESULT", r) BY <1>5
  <2>. QED BY <1>1, <2>1, TakenRange
<1>6. CASE \E t \in {0, DebugTtl} : said = DebugEnable(EspId, t)
  <2>1. PICK t \in {0, DebugTtl} : said = DebugEnable(EspId, t) BY <1>6
  <2>2. said = Said("DEBUG_ENABLE", [origin_node_id |-> EspId, ttl_ms |-> t])
    BY <2>1 DEF DebugEnable
  <2>3. said.type = "DEBUG_ENABLE" /\ said.value.ttl_ms = t BY <2>2 DEF Said
  <2>4. Agreed(said) = said BY <2>2, <1>1
  <2>. QED BY <2>1, <2>3, <2>4, TakenDebugEnable
<1>. QED BY <1>2, <1>3, <1>4, <1>5, <1>6 DEF OtherFrames

(* What the ESP32 takes from a frame of the node's.                        *)
THEOREM EspTakesFrame ==
  ASSUME NEW said \in OwnFrames
  PROVE  EspTakes[said] = Agreed(said)
<1>1. CASE \E i \in Node : said = DebugEnable(i, DebugTtl)
  <2>1. PICK i \in Node : said = DebugEnable(i, DebugTtl) BY <1>1
  <2>2. Dispatch(Bytes(DebugEnable(i, DebugTtl))) = DebugEnable(i, DebugTtl)
    BY TtlFits, DebugEnableTaken
  <2>3. Dispatch(Bytes(said)) = said BY <2>1, <2>2
  <2>4. said.type = "DEBUG_ENABLE" /\ Agreed(said) = said BY <2>1 DEF DebugEnable, Said, Agreed
  <2>. QED BY <2>3, <2>4 DEF EspTakes
<1>2. CASE \E i \in Node, r \in Reports : said = Quality(i, r)
  <2>1. PICK i \in Node, r \in Reports : said = Quality(i, r) BY <1>2
  <2> DEFINE e == [r EXCEPT !.node_id = i]
             d == Said("NODE_QUALITY_REPORT", Narrowed(e))
  <2>2. said = Said("NODE_QUALITY_REPORT", e) BY <2>1 DEF Quality
  <2>3. FineReport(e) BY OwnReport
  <2>4. e.node_id = i
    <3> DEFINE N == NamesOf(QualityPut)
    <3>1. r = [name \in N |-> r[name]] BY ContentsAssumption DEF IsRecord
    <3>2. "node_id" \in N BY QualityNames
    <3> HIDE DEF N
    <3>3. "node_id" \in DOMAIN r BY <3>1, <3>2
    <3>. QED BY <3>3
  <2> HIDE DEF e
  <2>5. Dispatch(Bytes(said)) = d BY <2>2, <2>3, QualityTaken
  <2>6. d.type = "NODE_QUALITY_REPORT" /\ d.value.node_id = i
    BY <2>3, <2>4, NarrowedKeepsId DEF FineReport, Said
  <2>7. Agreed(said) = d BY <2>2 DEF Agreed, Said
  <2>8. ~(i >= NodeCount) BY Contents DEF Node
  <2> HIDE DEF d
  <2>. QED BY <2>5, <2>6, <2>7, <2>8 DEF EspTakes
<1>. QED BY <1>1, <1>2 DEF OwnFrames

-----------------------------------------------------------------------------
(* Arithmetic of the turns.                                                *)

(* The ranges of the constants.                                            *)
LEMMA Numbers ==
  /\ NodeCount \in Nat /\ NodeCount > 1
  /\ EspId \in Node /\ Assignable \subseteq Node /\ Node \subseteq Nat
  /\ ScanInterval \in Nat /\ PeerGap \in Nat /\ ScanInterval > PeerGap
  /\ InitialDelay \in Nat /\ TurnSpacing \in Nat
  /\ HostTimeout \in Nat /\ ListenWindow \in Nat
  /\ SlaveSlice \in Nat /\ SlaveSlice > 0
  /\ DebugTtl \in Nat /\ DebugTtl > 0 /\ Wrap \in Nat /\ Wrap > 2 * DebugTtl
BY SpeedyBeeAssumption DEF Node

(* A remainder, up to twice around in either direction.                    *)
LEMMA Around ==
  ASSUME NEW W \in Nat \ {0}, NEW x \in Int
  PROVE  /\ 0 <= x /\ x < W => x % W = x
         /\ W <= x /\ x < W + W => x % W = x - W
         /\ 0 - W <= x /\ x < 0 => x % W = x + W
         /\ x % W \in Int /\ 0 <= x % W /\ x % W < W
<1>1. 0 <= x /\ x < W => x % W = x OBVIOUS
<1>2. W <= x /\ x < W + W => x % W = x - W OBVIOUS
<1>3. 0 - W <= x /\ x < 0 => x % W = x + W OBVIOUS
<1>4. x % W \in Int /\ 0 <= x % W /\ x % W < W OBVIOUS
<1>. QED BY <1>1, <1>2, <1>3, <1>4

(* Two steps in a row lead to two places.                                  *)
LEMMA TwoSteps ==
  ASSUME NEW W \in Nat, W > 1, NEW p \in Int, 0 <= p, p < W
  PROVE  (p + 1) % W # (p + 2) % W
<1>1. W \in Nat \ {0} /\ p + 1 \in Int /\ p + 2 \in Int OBVIOUS
<1>2. CASE p + 2 < W
  <2>1. (p + 1) % W = p + 1 /\ (p + 2) % W = p + 2 BY <1>2
  <2>. QED BY <2>1
<1>3. CASE p + 2 = W
  <2>1. (p + 1) % W = p + 1 BY <1>3
  <2>2. (p + 2) % W = 0 BY <1>3
  <2>. QED BY <2>1, <2>2
<1>4. CASE p + 1 = W
  <2>1. (p + 1) % W = 0 BY <1>4
  <2>2. (p + 2) % W = 1 BY <1>4
  <2>. QED BY <2>1, <2>2
<1>. QED BY <1>2, <1>3, <1>4

(* Whoever is next, it is another node.                                    *)
THEOREM NextPeerIs ==
  ASSUME NEW self \in Node, NEW previous \in Node
  PROVE  NextPeerAfter(self, previous) \in Node /\ NextPeerAfter(self, previous) # self
<1> DEFINE Step(offset) == (previous + offset) % NodeCount
           Fit(k) == Step(k) # self /\ \A j \in 1 .. k - 1 : Step(j) = self
           o == CHOOSE k \in 1 .. NodeCount : Fit(k)
<1>1. /\ NodeCount \in Nat \ {0} /\ NodeCount > 1 /\ self \in Int
      /\ previous \in Int /\ 0 <= previous /\ previous < NodeCount
  BY Numbers DEF Node
<1>2. \A k \in 1 .. NodeCount : Step(k) \in Node
  <2> TAKE k \in 1 .. NodeCount
  <2>1. previous + k \in Int BY <1>1
  <2>. QED BY <1>1, <2>1, Around DEF Node
<1>3. \E k \in 1 .. NodeCount : Fit(k)
  <2>1. Step(1) # Step(2) BY <1>1, TwoSteps
  <2>2. 1 \in 1 .. NodeCount /\ 2 \in 1 .. NodeCount BY <1>1
  <2> HIDE DEF Step
  <2>3. CASE Step(1) # self
    <3>1. Fit(1) BY <2>3
    <3>. QED BY <2>2, <3>1
  <2>4. CASE Step(1) = self
    <3>1. \A j \in 1 .. 2 - 1 : j = 1 OBVIOUS
    <3>2. Fit(2) BY <2>1, <2>4, <3>1
    <3>. QED BY <2>2, <3>2
  <2>. QED BY <2>3, <2>4
<1> HIDE DEF Fit
<1>4. o \in 1 .. NodeCount /\ Fit(o) BY <1>3
<1> HIDE DEF o
<1>5. Step(o) \in Node /\ Step(o) # self BY <1>2, <1>4 DEF Fit
<1>6. NextPeerAfter(self, previous) = Step(o) BY DEF NextPeerAfter, o, Fit
<1>. QED BY <1>5, <1>6

(* No node begins its turns later than the last one.                       *)
LEMMA InitialTurn ==
  ASSUME NEW id \in Node
  PROVE  InitialMasterAt(id) \in Nat /\ InitialMasterAt(id) <= InitialMasterAt(NodeCount - 1)
<1>1. /\ NodeCount \in Nat /\ TurnSpacing \in Nat /\ InitialDelay \in Nat
      /\ id \in Nat /\ id < NodeCount
  BY Numbers DEF Node
<1> DEFINE k == NodeCount - 1 - id
<1>2. k \in Nat /\ NodeCount - 1 = id + k BY <1>1
<1> HIDE DEF k
<1>3. (id + k) * TurnSpacing = id * TurnSpacing + k * TurnSpacing BY <1>1, <1>2
<1>4. id * TurnSpacing \in Nat /\ k * TurnSpacing \in Nat BY <1>1, <1>2
<1>. QED BY <1>1, <1>2, <1>3, <1>4 DEF InitialMasterAt

(* Waiting leaves no more than there was,                                  *)
LEMMA LaterIs ==
  ASSUME NEW left \in Nat, NEW d \in Nat
  PROVE  Later(left, d) \in Nat /\ Later(left, d) <= left
BY DEF Later

(* and keeps the shorter of two waits the shorter.                         *)
LEMMA LaterKeeps ==
  ASSUME NEW a \in Nat, NEW b \in Nat, NEW d \in Nat, a <= b
  PROVE  Later(a, d) <= Later(b, d)
BY DEF Later

-----------------------------------------------------------------------------
NodeOrNone == Node \cup {Invalid}

Jobs == [id : NodeOrNone, peer : NodeOrNone, window : Nat, left : Nat]

Chips == [type : {"gfsk", "ranging", "lora"}, state : {"standby", "rx", "tx"},
          role : {"none", "master", "slave"}, device : NodeOrNone, request : NodeOrNone]

(* What the globals hold.  There is a next peer once an identity has been  *)
(* adopted, and nothing is under way before that.                          *)
Kept ==
  /\ ready \in BOOLEAN /\ debug \in BOOLEAN /\ nodeId \in Node
  /\ radioId \in NodeOrNone /\ nextPeer \in NodeOrNone
  /\ radioId # Invalid => nextPeer \in Node
  /\ pc \in {"loop", "master", "listen", "packet", "turn", "slave"}
  /\ pc # "loop" => radioId # Invalid

(* A listening window never outlasts the wait for the node's own turn, nor *)
(* a slave's slice the window.                                             *)
Waits ==
  /\ toMaster \in Nat
  /\ toMaster <= ScanInterval - PeerGap \/ toMaster <= InitialMasterAt(NodeCount - 1)
  /\ job \in Jobs /\ job.window <= toMaster
  /\ pc = "slave" => 0 < job.left /\ job.left <= job.window
  /\ pc \in {"loop", "master"} => job.window = 0
  /\ pc # "loop" => job.id \in Node

(* The chip ranges, and the amplifier is on, just while an exchange or a   *)
(* slice is under way, in the role and for the addresses of the job.       *)
OnAir ==
  /\ chip \in Chips /\ pa \in {"off", "rx"}
  /\ pc \in {"master", "slave"} => pa = "rx"
  /\ pc \notin {"master", "slave"} => pa = "off" /\ chip.state = "standby"
  /\ pc = "slave" => /\ chip.state = "rx" /\ chip.role = "slave"
                     /\ chip.device = Address(job.id)
  /\ pc = "master" => /\ chip.state = "tx" /\ chip.role = "master"
                      /\ chip.request = Address(job.peer) /\ job.peer # job.id

(* The end of remote debug, seen from its beginning.                       *)
Clock ==
  /\ until = Never \/ (until \in Int /\ 0 <= until /\ until < Wrap)
  /\ askedAgo = Never \/ (askedAgo \in Int /\ 0 <= askedAgo /\ askedAgo <= Wrap)
  /\ until # Never =>
       /\ askedAgo # Never
       /\ askedAgo < Wrap => until = IF askedAgo <= DebugTtl THEN DebugTtl - askedAgo
                                     ELSE DebugTtl - askedAgo + Wrap

FirmwareInv == Kept /\ Waits /\ OnAir /\ Clock

-----------------------------------------------------------------------------
(* The clock.                                                              *)
LEMMA ClockTicks ==
  ASSUME Clock, NEW d \in Nat, Elapse(d)
  PROVE  Clock'
<1>1. Wrap \in Nat /\ DebugTtl \in Nat /\ 0 < DebugTtl /\ 2 * DebugTtl < Wrap BY Numbers
<1>2. askedAgo' = Never \/ (askedAgo' \in Int /\ 0 <= askedAgo' /\ askedAgo' <= Wrap)
  BY <1>1 DEF Clock, Elapse, Smaller, Never
<1>3. CASE until = Never BY <1>2, <1>3 DEF Clock, Elapse
<1>4. CASE until # Never
  <2>1. /\ until \in Int /\ 0 <= until /\ until < Wrap
        /\ askedAgo \in Int /\ 0 <= askedAgo /\ askedAgo # Never
    BY <1>4 DEF Clock, Never
  <2>2. until' = (until - d) % Wrap BY <1>4 DEF Elapse
  <2>3. until' \in Int /\ 0 <= until' /\ until' < Wrap BY <1>1, <2>1, <2>2
  <2>4. ASSUME askedAgo' < Wrap
        PROVE  until' = IF askedAgo' <= DebugTtl THEN DebugTtl - askedAgo'
                        ELSE DebugTtl - askedAgo' + Wrap
    <3>1. askedAgo' = askedAgo + d /\ askedAgo < Wrap
      BY <1>1, <2>1, <2>4 DEF Elapse, Smaller
    <3>2. d < Wrap BY <1>1, <2>1, <2>4, <3>1
    <3>3. until = IF askedAgo <= DebugTtl THEN DebugTtl - askedAgo
                  ELSE DebugTtl - askedAgo + Wrap
      BY <1>4, <3>1 DEF Clock
    <3>4. CASE until >= d
      <4>1. until' = until - d BY <1>1, <2>1, <2>2, <3>4
      <4>. QED BY <1>1, <2>1, <2>4, <3>1, <3>3, <3>4, <4>1
    <3>5. CASE until < d
      <4>1. until' = until - d + Wrap BY <1>1, <2>1, <2>2, <3>2, <3>5
      <4>. QED BY <1>1, <2>1, <2>4, <3>1, <3>3, <3>5, <4>1
    <3>. QED BY <2>1, <3>4, <3>5
  <2>5. askedAgo' # Never BY <1>1, <2>1 DEF Elapse, Smaller, Never
  <2>. QED BY <1>2, <2>3, <2>4, <2>5 DEF Clock
<1>. QED BY <1>3, <1>4

(* While remote debug looks active, it was asked for less than a time to   *)
(* live ago, or half a wrap after that.                                    *)
LEMMA ActiveMeansAsked ==
  ASSUME Clock, RemoteActive
  PROVE  \/ askedAgo \in 0 .. DebugTtl - 1
         \/ askedAgo >= DebugTtl + Wrap \div 2
<1>1. Wrap \in Nat /\ DebugTtl \in Nat /\ 0 < DebugTtl /\ 2 * DebugTtl < Wrap BY Numbers
<1>2. /\ until \in Int /\ 0 < until /\ until <= Wrap \div 2
      /\ askedAgo \in Int /\ 0 <= askedAgo /\ askedAgo <= Wrap
      /\ askedAgo < Wrap => until = IF askedAgo <= DebugTtl THEN DebugTtl - askedAgo
                                    ELSE DebugTtl - askedAgo + Wrap
  BY DEF Clock, RemoteActive
<1> DEFINE half == Wrap \div 2
<1>3. half \in Int /\ 2 * half <= Wrap BY <1>1
<1>4. until <= half BY <1>2
<1> HIDE DEF half
<1>5. askedAgo \in 0 .. DebugTtl - 1 \/ askedAgo >= DebugTtl + half
  BY <1>1, <1>2, <1>3, <1>4
<1>. QED BY <1>5 DEF half

(* No step upsets the clock: time passes, stands still, or debug is asked  *)
(* for.                                                                    *)
LEMMA ClockNext == ASSUME FirmwareInv, [Next]_vars PROVE Clock'
<1>0. Clock /\ PeerGap \in Nat BY Numbers DEF FirmwareInv
<1>1. ASSUME UNCHANGED timeVars PROVE Clock' BY <1>0, <1>1 DEF Clock, timeVars
<1>2. ASSUME NEW d \in Nat, Elapse(d) PROVE Clock' BY <1>0, <1>2, ClockTicks
<1>3. CASE SetNodeId \/ SetDebug \/ UNCHANGED vars
  BY <1>1, <1>3 DEF SetNodeId, SetDebug, vars
<1>4. CASE Restart BY <1>4 DEF Restart, Clock
<1>5. CASE StartExchange \/ StartListening \/ StartSlaveListen \/ ListenEnds
  BY <1>1, <1>5 DEF StartExchange, StartListening, StartSlaveListen, ListenEnds, NoTime
<1>6. CASE RadioNotReady \/ MasterWaits \/ SlaveWaits
  <2>1. Elapse(1) BY <1>6 DEF RadioNotReady, MasterWaits, SlaveWaits
  <2>. QED BY <1>2, <2>1
<1>7. CASE TurnSkipped \/ ExchangeNotStarted \/ MasterFails
  <2>1. Elapse(PeerGap) BY <1>7 DEF TurnSkipped, ExchangeNotStarted, MasterFails
  <2>. QED BY <1>0, <1>2, <2>1
<1>8. CASE MasterRanged
  <2>1. Elapse(PeerGap + 1) BY <1>8 DEF MasterRanged
  <2>2. PeerGap + 1 \in Nat BY <1>0
  <2>. QED BY <1>2, <2>1, <2>2
<1>9. CASE \/ TransmitDebugEnable \/ TransmitNodeQuality \/ HearNothing \/ HearFrame
           \/ SlaveNotStarted \/ SlaveEnds
  <2>1. Elapse(1)
    BY <1>9 DEF TransmitDebugEnable, TransmitNodeQuality, HearNothing, HearFrame,
                SlaveNotStarted, SlaveEnds, Transmit, Listening
  <2>. QED BY <1>2, <2>1
<1>10. CASE NothingDue \/ NoTimeForPacket
  <2>1. Elapse(0) BY <1>10 DEF NothingDue, NoTimeForPacket, Listening
  <2>. QED BY <1>2, <2>1
<1>11. CASE HearDebugEnable
  <2>1. PICK said \in OtherFrames :
          /\ Taken(said).type = "DEBUG_ENABLE"
          /\ LET ttl == Taken(said).value.ttl_ms
             IN  until' \in {IF ttl = 0 THEN DebugTtl ELSE ttl, Never}
    BY <1>11 DEF HearDebugEnable
  <2>2. Taken(said).value.ttl_ms \in {0, DebugTtl}
    <3>1. FrameTaken[said].type = "DEBUG_ENABLE" /\ Taken(said) = FrameTaken[said]
      BY <2>1 DEF Taken, Refused
    <3>2. FrameTaken[said] = Refused \/ FrameTaken[said] = Agreed(said) BY TakenFrame
    <3>3. Agreed(said).type = said.type BY DEF Agreed, Said
    <3>4. Refused.type # "DEBUG_ENABLE" BY DEF Refused
    <3>5. FrameTaken[said] = Agreed(said) /\ said.type = "DEBUG_ENABLE" BY <3>1, <3>2, <3>3, <3>4
    <3>6. Agreed(said).value.ttl_ms \in {0, DebugTtl} BY <3>5, TakenFrame
    <3>. QED BY <3>1, <3>5, <3>6
  <2>3. until' \in {DebugTtl, Never} BY <2>1, <2>2
  <2>4. askedAgo' = 0 BY <1>11 DEF HearDebugEnable
  <2>. QED BY <2>3, <2>4, Numbers DEF Clock, Never
<1>. QED
  BY <1>3, <1>4, <1>5, <1>6, <1>7, <1>8, <1>9, <1>10, <1>11 DEF Next, Loop

-----------------------------------------------------------------------------
(* The globals and the waits.                                              *)

(* No node has the invalid id.                                             *)
LEMMA NoNode == Invalid \notin Node /\ NoAddress = Invalid
BY DEF Node, Invalid, NoAddress

(* Whom a turn addresses is a node.                                        *)
LEMMA TargetIs == ASSUME Kept PROVE Target \in Node
<1>1. CASE Adopted BY <1>1, NoNode DEF Kept, Target, Adopted
<1>2. CASE ~Adopted BY <1>2, NextPeerIs DEF Kept, Target
<1>. QED BY <1>1, <1>2

(* No step upsets the globals.                                             *)
LEMMA KeptNext == ASSUME FirmwareInv, [Next]_vars PROVE Kept'
<1>0. Kept BY DEF FirmwareInv
<1> USE DEF Kept
<1>1. CASE UNCHANGED vars BY <1>0, <1>1 DEF vars, loopVars
<1>2. CASE SetNodeId \/ SetDebug
  <2>1. nodeId' \in Node /\ debug' \in BOOLEAN
    BY <1>0, <1>2, Numbers DEF SetNodeId, SetDebug
  <2>2. UNCHANGED <<ready, radioId, nextPeer, pc>>
    BY <1>2 DEF SetNodeId, SetDebug, loopVars
  <2>. QED BY <1>0, <2>1, <2>2
<1>3. CASE Restart
  <2>1. 0 \in Node BY Numbers DEF Node
  <2>. QED BY <1>0, <1>3, <2>1 DEF Restart, NodeOrNone
<1>4. CASE StartExchange \/ StartListening
  <2>1. /\ radioId' = nodeId /\ nextPeer' = Target /\ pc' \in {"master", "listen"}
        /\ UNCHANGED <<ready, nodeId, debug>>
    BY <1>4 DEF StartExchange, StartListening
  <2>. QED BY <1>0, <2>1, TargetIs, NoNode DEF NodeOrNone
<1>5. CASE TurnSkipped \/ ExchangeNotStarted
  <2>1. /\ radioId' = nodeId /\ nextPeer' = NextPeerAfter(nodeId, Target)
        /\ UNCHANGED <<ready, nodeId, debug, pc>>
    BY <1>5 DEF TurnSkipped, ExchangeNotStarted
  <2>2. nextPeer' \in Node BY <1>0, <2>1, TargetIs, NextPeerIs
  <2>. QED BY <1>0, <2>1, <2>2, NoNode DEF NodeOrNone
<1>6. CASE MasterFails \/ MasterRanged
  <2>1. /\ nextPeer' = NextPeerAfter(nodeId, nextPeer) /\ pc' = "loop" /\ pc = "master"
        /\ UNCHANGED <<ready, nodeId, debug, radioId>>
    BY <1>6 DEF MasterFails, MasterRanged, TurnOver, Return
  <2>2. nextPeer \in Node BY <1>0, <2>1
  <2>3. nextPeer' \in Node BY <1>0, <2>1, <2>2, NextPeerIs
  <2>. QED BY <1>0, <2>1, <2>3 DEF NodeOrNone
<1>7. CASE RadioNotReady \/ MasterWaits \/ SlaveWaits \/ StartSlaveListen \/ ListenEnds
  <2>1. /\ pc' \in {pc, "slave", "loop"} /\ (pc' = "slave" => pc # "loop")
        /\ UNCHANGED <<ready, nodeId, debug, radioId, nextPeer>>
    BY <1>7 DEF RadioNotReady, MasterWaits, SlaveWaits, StartSlaveListen, ListenEnds, Return,
                loopVars
  <2>. QED BY <1>0, <2>1
<1>8. CASE \/ TransmitDebugEnable \/ TransmitNodeQuality \/ NothingDue
           \/ HearNothing \/ HearFrame \/ HearDebugEnable \/ NoTimeForPacket
           \/ SlaveNotStarted \/ SlaveEnds
  <2>1. /\ pc # "loop" /\ pc' \in {"packet", "turn", "listen"}
        /\ UNCHANGED <<ready, nodeId, debug, radioId, nextPeer>>
    BY <1>8 DEF TransmitDebugEnable, TransmitNodeQuality, NothingDue, HearNothing, HearFrame,
                HearDebugEnable, NoTimeForPacket, SlaveNotStarted, SlaveEnds, Transmit, Listening
  <2>. QED BY <1>0, <2>1
<1>. QED BY <1>1, <1>2, <1>3, <1>4, <1>5, <1>6, <1>7, <1>8 DEF Next, Loop

(* The wait that loop() finds is in bounds, whoever the node has become.   *)
LEMMA TurnIs ==
  ASSUME Kept, Waits
  PROVE  /\ Turn \in Nat
         /\ Turn <= ScanInterval - PeerGap \/ Turn <= InitialMasterAt(NodeCount - 1)
BY InitialTurn DEF Kept, Waits, Turn

(* A listening window ends with the turn at the latest.                    *)
LEMMA WindowFits ==
  ASSUME NEW turn \in Nat
  PROVE  ListenWindowFor(turn) \in Nat /\ ListenWindowFor(turn) <= turn
BY Numbers DEF ListenWindowFor, Smaller

(* A round of listening that takes d keeps the window within the turn.     *)
LEMMA RoundKeeps ==
  ASSUME Waits, NEW d \in Nat, job' = [job EXCEPT !.window = Later(@, d), !.left = 0],
         toMaster' = Later(toMaster, d), pc' \in {"listen", "packet", "turn"}, pc # "loop"
  PROVE  Waits'
<1>1. job.window \in Nat /\ toMaster \in Nat /\ job.window <= toMaster /\ job \in Jobs
  BY DEF Waits, Jobs
<1>2. /\ Later(job.window, d) \in Nat /\ Later(toMaster, d) \in Nat
      /\ Later(job.window, d) <= Later(toMaster, d) /\ Later(toMaster, d) <= toMaster
  BY <1>1, LaterIs, LaterKeeps
<1>3. job' \in Jobs /\ job'.window = Later(job.window, d) /\ job'.id = job.id
  BY <1>1, <1>2 DEF Jobs
<1>4. /\ InitialMasterAt(NodeCount - 1) \in Nat /\ ScanInterval - PeerGap \in Nat
  <2>1. NodeCount - 1 \in Node BY Numbers DEF Node
  <2>. QED BY <2>1, Numbers, InitialTurn
<1>. QED BY <1>1, <1>2, <1>3, <1>4 DEF Waits

(* No step upsets the waits.                                               *)
LEMMA WaitsNext == ASSUME FirmwareInv, [Next]_vars PROVE Waits'
<1>0. Kept /\ Waits BY DEF FirmwareInv
<1>1. /\ job \in Jobs /\ job.window \in Nat /\ job.left \in Nat /\ toMaster \in Nat
      /\ job.window <= toMaster
  BY <1>0 DEF Waits, Jobs
<1>2. NoJob \in Jobs /\ NoJob.window = 0 BY DEF NoJob, Jobs, NodeOrNone
<1>3. ScanInterval - PeerGap \in Nat BY Numbers
<1>4. CASE UNCHANGED <<toMaster, job, pc>> BY <1>0, <1>4 DEF Waits
<1>5. CASE SetNodeId \/ SetDebug \/ RadioNotReady \/ UNCHANGED vars
  <2>1. UNCHANGED <<toMaster, job, pc>>
    BY <1>5 DEF SetNodeId, SetDebug, RadioNotReady, vars, loopVars
  <2>. QED BY <1>4, <2>1
<1>6. CASE Restart BY <1>2, <1>3, <1>6 DEF Restart, Waits
<1>7. CASE MasterFails \/ MasterRanged
  <2>1. toMaster' = ScanInterval - PeerGap /\ pc' = "loop" /\ job' = NoJob
    BY <1>7 DEF MasterFails, MasterRanged, TurnOver, Return
  <2>. QED BY <1>2, <1>3, <2>1 DEF Waits
<1>8. CASE TurnSkipped \/ ExchangeNotStarted
  <2>1. /\ toMaster' = ScanInterval - PeerGap /\ pc' = "loop" /\ job' = job /\ Turn = 0
        /\ pc = "loop"
    BY <1>8 DEF TurnSkipped, ExchangeNotStarted
  <2>2. job.window = 0 BY <1>0, <2>1 DEF Waits
  <2>. QED BY <1>1, <1>3, <2>1, <2>2 DEF Waits
<1>9. CASE StartExchange
  <2>1. toMaster' = 0 /\ pc' = "master"
        /\ job' = [id |-> nodeId, peer |-> Target, window |-> 0, left |-> HostTimeout]
    BY <1>9 DEF StartExchange
  <2>2. job' \in Jobs /\ job'.window = 0 /\ job'.id \in Node
    BY <1>0, <2>1, TargetIs, Numbers DEF Jobs, NodeOrNone, Kept
  <2>. QED BY <1>3, <2>1, <2>2 DEF Waits
<1>10. CASE StartListening
  <2>1. /\ toMaster' = Turn /\ pc' = "listen"
        /\ job' = [id |-> nodeId, peer |-> Invalid, window |-> ListenWindowFor(Turn), left |-> 0]
    BY <1>10 DEF StartListening
  <2>2. /\ Turn \in Nat
        /\ Turn <= ScanInterval - PeerGap \/ Turn <= InitialMasterAt(NodeCount - 1)
    BY <1>0, TurnIs
  <2>3. ListenWindowFor(Turn) \in Nat /\ ListenWindowFor(Turn) <= Turn BY <2>2, WindowFits
  <2>4. job' \in Jobs /\ job'.window = ListenWindowFor(Turn) /\ job'.id \in Node
    BY <1>0, <2>1, <2>3 DEF Jobs, NodeOrNone, Kept
  <2>. QED BY <2>1, <2>2, <2>3, <2>4 DEF Waits
<1>11. CASE MasterWaits
  <2>1. /\ job.left > 0 /\ job' = [job EXCEPT !.left = @ - 1] /\ UNCHANGED <<toMaster, pc>>
        /\ pc = "master"
    BY <1>11 DEF MasterWaits, loopVars
  <2>2. job' \in Jobs /\ job'.window = job.window /\ job'.id = job.id
    BY <1>1, <2>1 DEF Jobs
  <2>. QED BY <1>0, <2>1, <2>2 DEF Waits
<1>12. CASE StartSlaveListen
  <2>1. /\ job.window > 0 /\ job' = [job EXCEPT !.left = Smaller(job.window, SlaveSlice)]
        /\ toMaster' = toMaster /\ pc' = "slave" /\ pc # "loop"
    BY <1>12 DEF StartSlaveListen, loopVars
  <2>2. Smaller(job.window, SlaveSlice) \in Nat /\ Smaller(job.window, SlaveSlice) > 0
        /\ Smaller(job.window, SlaveSlice) <= job.window
    BY <1>1, <2>1, Numbers DEF Smaller
  <2>3. /\ job' \in Jobs /\ job'.window = job.window /\ job'.id = job.id
        /\ job'.left = Smaller(job.window, SlaveSlice)
    BY <1>1, <2>1, <2>2 DEF Jobs
  <2>. QED BY <1>0, <2>1, <2>2, <2>3 DEF Waits
<1>13. CASE SlaveWaits
  <2>1. /\ pc = "slave" /\ pc' = pc /\ job.left > 1 /\ toMaster' = Later(toMaster, 1)
        /\ job' = [job EXCEPT !.window = Later(@, 1), !.left = @ - 1]
    BY <1>13 DEF SlaveWaits
  <2>2. job.left <= job.window BY <1>0, <2>1 DEF Waits
  <2>3. Later(job.window, 1) = job.window - 1 /\ Later(toMaster, 1) = toMaster - 1
    BY <1>1, <2>1, <2>2 DEF Later
  <2>4. /\ job' \in Jobs /\ job'.window = job.window - 1 /\ job'.id = job.id
        /\ job'.left = job.left - 1
    <3>1. job.window - 1 \in Nat /\ job.left - 1 \in Nat BY <1>1, <2>1, <2>2
    <3>2. job' = [job EXCEPT !.window = job.window - 1, !.left = job.left - 1] BY <2>1, <2>3
    <3>. QED BY <1>1, <3>1, <3>2 DEF Jobs
  <2>5. InitialMasterAt(NodeCount - 1) \in Nat
    <3>1. NodeCount - 1 \in Node BY Numbers DEF Node
    <3>. QED BY <3>1, InitialTurn
  <2>. QED BY <1>0, <1>1, <1>3, <2>1, <2>2, <2>3, <2>4, <2>5 DEF Waits
<1>14. CASE ListenEnds
  <2>1. toMaster' = toMaster /\ pc' = "loop" /\ job' = NoJob
    BY <1>14 DEF ListenEnds, Return, loopVars
  <2>. QED BY <1>0, <1>1, <1>2, <2>1 DEF Waits
<1>15. ASSUME NEW d \in Nat, Listening(d), pc' \in {"listen", "packet", "turn"}, pc # "loop"
       PROVE  Waits'
  BY <1>0, <1>15, RoundKeeps DEF Listening
<1>16. CASE \/ TransmitDebugEnable \/ TransmitNodeQuality \/ HearNothing \/ HearFrame
            \/ SlaveNotStarted \/ SlaveEnds
  <2>1. Listening(1) /\ pc' \in {"listen", "packet", "turn"} /\ pc # "loop"
    BY <1>16 DEF TransmitDebugEnable, TransmitNodeQuality, HearNothing, HearFrame,
                 SlaveNotStarted, SlaveEnds, Transmit
  <2>. QED BY <1>15, <2>1
<1>17. CASE NothingDue \/ NoTimeForPacket
  <2>1. Listening(0) /\ pc' \in {"listen", "packet", "turn"} /\ pc # "loop"
    BY <1>17 DEF NothingDue, NoTimeForPacket
  <2>. QED BY <1>15, <2>1
<1>18. CASE HearDebugEnable
  <2>1. /\ job' = [job EXCEPT !.window = Later(@, 1)] /\ toMaster' = Later(toMaster, 1)
        /\ pc' = "turn" /\ pc = "packet"
    BY <1>18 DEF HearDebugEnable
  <2>2. /\ Later(job.window, 1) \in Nat /\ Later(toMaster, 1) \in Nat
        /\ Later(job.window, 1) <= Later(toMaster, 1) /\ Later(toMaster, 1) <= toMaster
    BY <1>1, LaterIs, LaterKeeps
  <2>3. job' \in Jobs /\ job'.window = Later(job.window, 1) /\ job'.id = job.id
    BY <1>1, <2>1, <2>2 DEF Jobs
  <2>4. InitialMasterAt(NodeCount - 1) \in Nat
    <3>1. NodeCount - 1 \in Node BY Numbers DEF Node
    <3>. QED BY <3>1, InitialTurn
  <2>. QED BY <1>0, <1>1, <1>3, <2>1, <2>2, <2>3, <2>4 DEF Waits
<1>. QED
  BY <1>5, <1>6, <1>7, <1>8, <1>9, <1>10, <1>11, <1>12, <1>13, <1>14, <1>16, <1>17, <1>18
     DEF Next, Loop

-----------------------------------------------------------------------------
(* The radio.                                                              *)

(* The driver's calls leave a chip, in the state and the role they name.   *)
LEMMA ChipCalls ==
  /\ ResetChip \in Chips /\ ResetChip.state = "standby"
  /\ \A c \in Chips : /\ SetStandby(c) \in Chips /\ SetStandby(c).state = "standby"
                      /\ AfterPacket(c) \in Chips /\ AfterPacket(c).state = "standby"
<1>1. ResetChip \in Chips /\ ResetChip.state = "standby"
  BY NoNode DEF ResetChip, Chips, NodeOrNone
<1>2. ASSUME NEW c \in Chips
      PROVE  SetStandby(c) \in Chips /\ SetStandby(c).state = "standby"
  BY DEF SetStandby, Chips
<1>3. ASSUME NEW c \in Chips
      PROVE  AfterPacket(c) \in Chips /\ AfterPacket(c).state = "standby"
  BY DEF AfterPacket, SetStandby, Chips
<1>. QED BY <1>1, <1>2, <1>3

(* Begun as a slave, the chip answers for the id.                          *)
LEMMA SlaveChip ==
  ASSUME NEW id \in Node
  PROVE  LET c == BeginRanging("slave", Address(id))
         IN  /\ c \in Chips /\ c.state = "standby"
             /\ StartSlave(c) \in Chips /\ StartSlave(c).state = "rx"
             /\ StartSlave(c).role = "slave" /\ StartSlave(c).device = Address(id)
<1> DEFINE c == BeginRanging("slave", Address(id))
<1>1. c = [type |-> "ranging", state |-> "standby", role |-> "slave",
           device |-> id, request |-> Invalid]
  BY NoNode DEF BeginRanging, SetRangingAddress, ResetChip, Address
<1> HIDE DEF c
<1>2. c \in Chips /\ c.role = "slave" /\ c.device = id /\ c.state = "standby"
  BY <1>1 DEF Chips, NodeOrNone
<1>3. StartSlave(c) = [c EXCEPT !.state = "rx"] BY <1>1 DEF StartSlave, SetStandby
<1>4. StartSlave(c) \in Chips /\ StartSlave(c).state = "rx"
      /\ StartSlave(c).role = "slave" /\ StartSlave(c).device = id
  BY <1>2, <1>3 DEF Chips
<1>. QED BY <1>2, <1>4 DEF c, Address

(* Begun as a master, the chip addresses the id.                           *)
LEMMA MasterChip ==
  ASSUME NEW id \in Node
  PROVE  LET c == BeginRanging("master", Address(id))
         IN  /\ c \in Chips /\ c.state = "standby"
             /\ StartMaster(c) \in Chips /\ StartMaster(c).state = "tx"
             /\ StartMaster(c).role = "master" /\ StartMaster(c).request = Address(id)
<1> DEFINE c == BeginRanging("master", Address(id))
<1>1. c = [type |-> "ranging", state |-> "standby", role |-> "master",
           device |-> Invalid, request |-> id]
  BY NoNode DEF BeginRanging, SetRangingAddress, ResetChip, Address
<1> HIDE DEF c
<1>2. c \in Chips /\ c.role = "master" /\ c.request = id /\ c.state = "standby"
  BY <1>1 DEF Chips, NodeOrNone
<1>3. StartMaster(c) = [c EXCEPT !.state = "tx"] BY <1>1 DEF StartMaster, SetStandby
<1>4. StartMaster(c) \in Chips /\ StartMaster(c).state = "tx"
      /\ StartMaster(c).role = "master" /\ StartMaster(c).request = id
  BY <1>2, <1>3 DEF Chips
<1>. QED BY <1>2, <1>4 DEF c, Address

(* No step upsets the radio.                                               *)
LEMMA OnAirNext == ASSUME FirmwareInv, [Next]_vars PROVE OnAir'
<1>0. Kept /\ Waits /\ OnAir BY DEF FirmwareInv
<1>1. chip \in Chips /\ pa \in {"off", "rx"} /\ nodeId \in Node /\ (pc # "loop" => job.id \in Node)
  BY <1>0 DEF OnAir, Kept, Waits
<1>2. ASSUME chip' \in Chips, chip'.state = "standby", pa' = "off",
             pc' \in {"loop", "listen", "packet", "turn"}
      PROVE  OnAir'
  BY <1>2 DEF OnAir
<1>3. ASSUME UNCHANGED <<chip, pa, pc>>, job'.id = job.id, job'.peer = job.peer
      PROVE  OnAir'
  BY <1>0, <1>3 DEF OnAir
<1>4. ASSUME UNCHANGED <<chip, pa>>, pc \in {"loop", "listen", "packet", "turn"},
             pc' \in {"loop", "listen", "packet", "turn"}
      PROVE  OnAir'
  <2>1. chip.state = "standby" /\ pa = "off" BY <1>0, <1>4 DEF OnAir
  <2>. QED BY <1>1, <1>2, <1>4, <2>1
<1>5. CASE SetNodeId \/ SetDebug \/ RadioNotReady \/ TurnSkipped \/ UNCHANGED vars
  <2>1. UNCHANGED <<chip, pa, pc, job>>
    BY <1>5 DEF SetNodeId, SetDebug, RadioNotReady, TurnSkipped, vars, airVars
  <2>. QED BY <1>3, <2>1
<1>6. CASE Restart
  <2>1. nodeId' \in Node
    <3>1. 0 \in Node BY Numbers DEF Node
    <3>. QED BY <1>1, <1>6, <3>1 DEF Restart
  <2>2. chip' \in {BeginRanging("slave", Address(nodeId')), ResetChip} /\ pa' = "off" /\ pc' = "loop"
    BY <1>6 DEF Restart
  <2>3. chip' \in Chips /\ chip'.state = "standby" BY <2>1, <2>2, ChipCalls, SlaveChip
  <2>. QED BY <1>2, <2>2, <2>3
<1>7. CASE StartExchange
  <2>1. /\ chip' = StartMaster(BeginRanging("master", Address(Target))) /\ pa' = "rx"
        /\ pc' = "master" /\ job'.id = nodeId /\ job'.peer = Target /\ Target # nodeId
    BY <1>7 DEF StartExchange
  <2>2. Target \in Node BY <1>0, TargetIs
  <2>3. /\ chip' \in Chips /\ chip'.state = "tx" /\ chip'.role = "master"
        /\ chip'.request = Address(Target)
    BY <2>1, <2>2, MasterChip
  <2>. QED BY <2>1, <2>3 DEF OnAir
<1>8. CASE ExchangeNotStarted
  <2>1. /\ chip' = BeginRanging("master", Address(Target)) /\ pa' = pa /\ pc' = pc /\ pc = "loop"
    BY <1>8 DEF ExchangeNotStarted
  <2>2. chip' \in Chips /\ chip'.state = "standby" BY <1>0, <2>1, TargetIs, MasterChip
  <2>3. pa = "off" BY <1>0, <2>1 DEF OnAir
  <2>. QED BY <1>2, <2>1, <2>2, <2>3
<1>9. CASE StartListening \/ NothingDue \/ NoTimeForPacket \/ ListenEnds
  <2>1. /\ UNCHANGED <<chip, pa>> /\ pc \in {"loop", "listen", "packet", "turn"}
        /\ pc' \in {"loop", "listen", "packet", "turn"}
    BY <1>9 DEF StartListening, NothingDue, NoTimeForPacket, ListenEnds, airVars, Return
  <2>. QED BY <1>4, <2>1
<1>10. CASE MasterWaits \/ SlaveWaits
  <2>1. UNCHANGED <<chip, pa, pc>> /\ job \in Jobs
    BY <1>0, <1>10 DEF MasterWaits, SlaveWaits, airVars, Waits
  <2>2. job'.id = job.id /\ job'.peer = job.peer
    BY <1>10, <2>1 DEF MasterWaits, SlaveWaits, Jobs
  <2>. QED BY <1>3, <2>1, <2>2
<1>11. CASE MasterFails \/ SlaveEnds
  <2>1. chip' = SetStandby(chip) /\ pa' = "off" /\ pc' \in {"loop", "listen"}
    BY <1>11 DEF MasterFails, SlaveEnds, Unusable, TurnOver, Return
  <2>. QED BY <1>1, <1>2, <2>1, ChipCalls
<1>12. CASE MasterRanged
  <2>1. chip' = SetStandby(AfterPacket(chip)) /\ pa' = "off" /\ pc' = "loop"
    BY <1>12 DEF MasterRanged, TurnOver, Return
  <2>2. AfterPacket(chip) \in Chips BY <1>1, ChipCalls
  <2>. QED BY <1>2, <2>1, <2>2, ChipCalls
<1>13. CASE \/ TransmitDebugEnable \/ TransmitNodeQuality \/ HearNothing \/ HearFrame
            \/ HearDebugEnable
  <2>1. chip' = AfterPacket(chip) /\ pa' = "off" /\ pc' \in {"packet", "turn"}
    BY <1>13 DEF TransmitDebugEnable, TransmitNodeQuality, HearNothing, HearFrame,
                 HearDebugEnable, Transmit
  <2>. QED BY <1>1, <1>2, <2>1, ChipCalls
<1>14. CASE StartSlaveListen
  <2>1. /\ chip' = StartSlave(BeginRanging("slave", Address(job.id))) /\ pa' = "rx"
        /\ pc' = "slave" /\ pc = "turn" /\ job' = [job EXCEPT !.left = Smaller(job.window, SlaveSlice)]
    BY <1>14 DEF StartSlaveListen
  <2>2. job \in Jobs /\ job'.id = job.id /\ job.id \in Node
    BY <1>0, <1>1, <2>1 DEF Waits, Jobs
  <2>3. /\ chip' \in Chips /\ chip'.state = "rx" /\ chip'.role = "slave"
        /\ chip'.device = Address(job.id)
    BY <2>1, <2>2, SlaveChip
  <2>. QED BY <2>1, <2>2, <2>3 DEF OnAir
<1>15. CASE SlaveNotStarted
  <2>1. /\ chip' = BeginRanging("slave", Address(job.id)) /\ pa' = "off" /\ pc' = "listen"
        /\ pc = "turn"
    BY <1>15 DEF SlaveNotStarted
  <2>2. job.id \in Node BY <1>1, <2>1
  <2>3. chip' \in Chips /\ chip'.state = "standby" BY <2>1, <2>2, SlaveChip
  <2>. QED BY <1>2, <2>1, <2>3
<1>. QED
  BY <1>5, <1>6, <1>7, <1>8, <1>9, <1>10, <1>11, <1>12, <1>13, <1>14, <1>15 DEF Next, Loop

-----------------------------------------------------------------------------
(* The theorems.                                                           *)

(* The firmware starts in the invariant.                                   *)
LEMMA FirmwareInit == ASSUME Init PROVE FirmwareInv
<1>1. nodeId \in Node BY Numbers DEF Init
<1>2. /\ ready \in BOOLEAN /\ debug \in BOOLEAN /\ radioId = Invalid /\ nextPeer = Invalid
      /\ toMaster = 0 /\ until = Never /\ askedAgo = Never /\ pc = "loop" /\ job = NoJob /\ pa = "off"
  BY DEF Init
<1>3. chip \in {BeginRanging("slave", Address(nodeId)), ResetChip} BY DEF Init
<1>4. chip \in Chips /\ chip.state = "standby" BY <1>1, <1>3, ChipCalls, SlaveChip
<1>5. Kept BY <1>1, <1>2 DEF Kept, NodeOrNone
<1>6. Waits
  <2>1. NoJob \in Jobs /\ NoJob.window = 0 BY DEF NoJob, Jobs, NodeOrNone
  <2>2. ScanInterval - PeerGap \in Nat BY Numbers
  <2>. QED BY <1>2, <2>1, <2>2 DEF Waits
<1>7. OnAir BY <1>2, <1>4 DEF OnAir
<1>8. Clock BY <1>2 DEF Clock
<1>. QED BY <1>5, <1>6, <1>7, <1>8 DEF FirmwareInv

(* The invariant holds of every behaviour of the firmware.                 *)
THEOREM FirmwareInvariant == Spec => []FirmwareInv
<1>1. ASSUME FirmwareInv, [Next]_vars PROVE FirmwareInv'
  BY <1>1, KeptNext, WaitsNext, OnAirNext, ClockNext DEF FirmwareInv
<1>. QED BY <1>1, FirmwareInit, PTL DEF Spec

(* The globals keep their types.                                           *)
THEOREM FirmwareTypes == Spec => []TypeOK
<1>1. ASSUME FirmwareInv PROVE TypeOK
  <2>1. Kept /\ Waits /\ OnAir /\ Clock BY <1>1 DEF FirmwareInv
  <2>2. /\ ready \in BOOLEAN /\ debug \in BOOLEAN /\ nodeId \in Node
        /\ radioId \in Node \cup {Invalid} /\ nextPeer \in Node \cup {Invalid}
        /\ pc \in {"loop", "master", "listen", "packet", "turn", "slave"}
    BY <2>1 DEF Kept, NodeOrNone
  <2>3. /\ job.window \in Int /\ job.left \in Int /\ toMaster \in Int /\ job.window <= toMaster
        /\ pc = "slave" => 0 < job.left /\ job.left <= job.window
    BY <2>1 DEF Waits, Jobs
  <2>4. pc = "slave" => job.left \in 1 .. job.window BY <2>3
  <2>5. toMaster \in 0 .. ScanInterval - PeerGap \/ toMaster \in 0 .. InitialMasterAt(NodeCount - 1)
    <3>1. InitialMasterAt(NodeCount - 1) \in Nat
      <4>1. NodeCount - 1 \in Node BY Numbers DEF Node
      <4>. QED BY <4>1, InitialTurn
    <3>2. /\ toMaster \in Nat
          /\ toMaster <= ScanInterval - PeerGap \/ toMaster <= InitialMasterAt(NodeCount - 1)
      BY <2>1 DEF Waits
    <3>3. ScanInterval - PeerGap \in Nat BY Numbers
    <3>. QED BY <3>1, <3>2, <3>3
  <2>6. chip.state \in {"standby", "rx", "tx"} /\ pa \in {"off", "rx"}
    BY <2>1 DEF OnAir, Chips
  <2>7. until \in -1 .. Wrap - 1 /\ askedAgo \in -1 .. Wrap
    <3>1. Wrap \in Nat /\ Wrap > 0 BY Numbers
    <3>. QED BY <2>1, <3>1 DEF Clock, Never
  <2>. QED BY <2>2, <2>3, <2>4, <2>5, <2>6, <2>7 DEF TypeOK
<1>. QED BY <1>1, FirmwareInvariant, PTL

(* Whoever ranges the node, or is ranged by it, is meant.                  *)
THEOREM NodesMeant == Spec => []AddressIsIdentity
<1>1. ASSUME FirmwareInv PROVE AddressIsIdentity
  BY <1>1 DEF FirmwareInv, OnAir, AddressIsIdentity
<1>. QED BY <1>1, FirmwareInvariant, PTL

(* The amplifier is on exactly while the chip sends or receives.           *)
THEOREM AmplifierFollows == Spec => []PaFollowsChip
<1>1. ASSUME FirmwareInv PROVE PaFollowsChip
  <2>1. Kept /\ OnAir BY <1>1 DEF FirmwareInv
  <2>2. CASE pc \in {"master", "slave"}
    <3>1. pa = "rx" /\ chip.state \in {"rx", "tx"} BY <2>1, <2>2 DEF OnAir
    <3>. QED BY <3>1 DEF PaFollowsChip
  <2>3. CASE pc \notin {"master", "slave"}
    <3>1. pa = "off" /\ chip.state = "standby" BY <2>1, <2>3 DEF OnAir
    <3>2. ~(pa = "rx") /\ ~(chip.state \in {"rx", "tx"}) BY <3>1
    <3>. QED BY <3>2 DEF PaFollowsChip
  <2>. QED BY <2>2, <2>3
<1>. QED BY <1>1, FirmwareInvariant, PTL

(* What the step did, when it was no frame.                                *)
LEMMA NoFrame ==
  ASSUME [Next]_vars
  PROVE  \/ UNCHANGED vars
         \/ did'.kind \notin {"sent", "taken"}
         \/ TransmitDebugEnable \/ TransmitNodeQuality \/ HearFrame \/ HearDebugEnable
<1>1. CASE UNCHANGED vars BY <1>1 DEF vars
<1>2. CASE SetNodeId \/ SetDebug \/ Restart
  BY <1>2 DEF SetNodeId, SetDebug, Restart, Nothing
<1>3. CASE RadioNotReady \/ StartListening \/ MasterWaits \/ NothingDue \/ HearNothing
           \/ NoTimeForPacket \/ StartSlaveListen \/ SlaveNotStarted \/ SlaveWaits \/ SlaveEnds
           \/ ListenEnds
  <2>1. did' = Nothing
    BY <1>3 DEF RadioNotReady, StartListening, MasterWaits, NothingDue, HearNothing,
                NoTimeForPacket, StartSlaveListen, SlaveNotStarted, SlaveWaits, SlaveEnds,
                ListenEnds
  <2>. QED BY <2>1 DEF Nothing
<1>4. CASE TurnSkipped BY <1>4 DEF TurnSkipped
<1>5. CASE StartExchange BY <1>5 DEF StartExchange
<1>6. CASE ExchangeNotStarted BY <1>6 DEF ExchangeNotStarted
<1>7. CASE MasterFails
  <2>1. PICK reason : did' = Failed(reason) BY <1>7 DEF MasterFails
  <2>. QED BY <2>1 DEF Failed
<1>8. CASE MasterRanged
  <2>1. did'.kind = "ranged" BY <1>8 DEF MasterRanged
  <2>. QED BY <2>1
<1>. QED BY <1>1, <1>2, <1>3, <1>4, <1>5, <1>6, <1>7, <1>8 DEF Next, Loop

(* Nobody asked, or the time to live is over: half a turn of silence.      *)
THEOREM QuietForHalf == Spec => QuietForHalfTheClock
<1> DEFINE Quiet ==
      ~debug /\ (askedAgo = Never \/ askedAgo \in DebugTtl .. DebugTtl + (Wrap \div 2) - 1)
        => ~ReportsQuality
<1>1. ASSUME FirmwareInv, [Next]_vars PROVE Quiet \/ UNCHANGED vars
  <2>1. CASE UNCHANGED vars BY <2>1
  <2>2. CASE did'.kind \notin {"sent", "taken"} BY <2>2 DEF ReportsQuality
  <2>3. CASE TransmitDebugEnable
    <3>1. did'.said = DebugEnable(nodeId, DebugTtl)
      BY <2>3 DEF TransmitDebugEnable, Transmit
    <3>2. did'.said.type = "DEBUG_ENABLE" BY <3>1 DEF DebugEnable, Said
    <3>. QED BY <3>2 DEF ReportsQuality
  <2>4. CASE TransmitNodeQuality
    <3>1. debug \/ RemoteActive BY <2>4 DEF TransmitNodeQuality
    <3>2. Clock BY <1>1 DEF FirmwareInv
    <3> DEFINE half == Wrap \div 2
    <3>3. debug \/ askedAgo \in 0 .. DebugTtl - 1 \/ askedAgo >= DebugTtl + half
      BY <3>1, <3>2, ActiveMeansAsked
    <3>4. DebugTtl \in Nat /\ Wrap \in Nat BY Numbers
    <3>5. half \in Nat BY <3>4
    <3>6. askedAgo \in Int BY <3>2 DEF Clock, Never
    <3> HIDE DEF half
    <3>7. ~(~debug /\ (askedAgo = Never \/ askedAgo \in DebugTtl .. DebugTtl + half - 1))
      BY <3>3, <3>4, <3>5, <3>6 DEF Never
    <3>. QED BY <3>7 DEF half
  <2>5. CASE HearFrame \/ HearDebugEnable
    <3>1. did'.kind = "taken" BY <2>5 DEF HearFrame, HearDebugEnable
    <3>. QED BY <3>1 DEF ReportsQuality
  <2>. QED BY <1>1, <2>1, <2>2, <2>3, <2>4, <2>5, NoFrame
<1>2. FirmwareInv /\ [Next]_vars => [Quiet]_vars BY <1>1
<1>. QED BY <1>2, FirmwareInvariant, PTL DEF Spec, QuietForHalfTheClock

-----------------------------------------------------------------------------
(* What a receiver makes of a frame, for the node and for the ESP32.       *)
FrameHeard(d, id) ==
  \/ d.heard = Refused /\ (d.kind = "taken" =>
        \/ d.said.type \in {"HEARTBEAT", "RANGE_RESULT"}
        \/ d.said.type = "BEACON_RX" /\ d.said.value.node_id = id
        \/ d.said.type = "NODE_QUALITY_REPORT" /\ d.said.value.node_id >= NodeCount)
  \/ d.heard = Agreed(d.said)

(* The property of the frames, by the step that sends or takes one.        *)
LEMMA HeardIs ==
  HeardIsSaid <=> (did.kind \in {"sent", "taken"} => FrameHeard(did, nodeId))
BY DEF HeardIsSaid, FrameHeard, Agreed, Narrowed

(* The node takes what is said, or has a reason not to.                    *)
LEMMA NodeHears ==
  ASSUME NEW said \in OtherFrames
  PROVE  FrameHeard([kind |-> "taken", said |-> said, heard |-> Taken(said)], nodeId)
<1> DEFINE d == [kind |-> "taken", said |-> said, heard |-> Taken(said)]
           f == FrameTaken[said]
<1>1. d.kind = "taken" /\ d.said = said /\ d.heard = Taken(said) OBVIOUS
<1>2. Agreed(said).type = said.type BY DEF Agreed, Said
<1>3. Refused.type = "none" BY DEF Refused
<1>4. Taken(said) = IF f.type = "BEACON_RX" /\ f.value.node_id = nodeId THEN Refused ELSE f
  BY DEF Taken
<1> HIDE DEF d, f
<1>5. CASE said.type \in {"HEARTBEAT", "RANGE_RESULT"} /\ f = Refused
  BY <1>1, <1>3, <1>4, <1>5 DEF FrameHeard
<1>6. CASE said.type = "BEACON_RX" /\ f = Agreed(said)
  <2>1. Agreed(said).value = said.value BY <1>6 DEF Agreed, Said
  <2>. QED BY <1>1, <1>4, <1>6, <2>1 DEF FrameHeard
<1>7. CASE said.type = "DEBUG_ENABLE" /\ f = Agreed(said)
  BY <1>1, <1>2, <1>4, <1>7 DEF FrameHeard
<1>8. CASE /\ said.type = "NODE_QUALITY_REPORT"
           /\ \/ f = Agreed(said)
              \/ said.value.node_id >= NodeCount /\ f = Refused
  BY <1>1, <1>2, <1>3, <1>4, <1>8 DEF FrameHeard
<1>. QED BY <1>5, <1>6, <1>7, <1>8, TakenFrame DEF d, f

(* The ESP32 takes what is said, or misses it.                             *)
LEMMA EspHears ==
  ASSUME NEW said \in OwnFrames, NEW heard \in BOOLEAN
  PROVE  FrameHeard([kind |-> "sent", said |-> said,
                     heard |-> IF heard THEN EspTakes[said] ELSE Refused], nodeId)
BY EspTakesFrame DEF FrameHeard

(* What is taken from a frame is what was said in it.                      *)
THEOREM FramesAgree == Spec => []HeardIsSaid
<1> DEFINE H == did.kind \in {"sent", "taken"} => FrameHeard(did, nodeId)
<1>1. Init => H BY DEF Init, Nothing
<1>2. ASSUME FirmwareInv, H, [Next]_vars PROVE H'
  <2>1. CASE UNCHANGED vars BY <1>2, <2>1 DEF vars, FrameHeard
  <2>2. CASE did'.kind \notin {"sent", "taken"} BY <2>2
  <2>3. nodeId \in Node BY <1>2 DEF FirmwareInv, Kept
  <2>4. ASSUME NEW said \in OwnFrames, Transmit(said) PROVE H'
    <3>1. PICK heard \in BOOLEAN :
            did' = [kind |-> "sent", said |-> said, heard |-> IF heard THEN EspTakes[said] ELSE Refused]
      BY <2>4 DEF Transmit
    <3>2. nodeId' = nodeId BY <2>4 DEF Transmit, Listening
    <3>. QED BY <3>1, <3>2, EspHears
  <2>5. CASE TransmitDebugEnable
    <3>1. DebugEnable(nodeId, DebugTtl) \in OwnFrames BY <2>3 DEF OwnFrames
    <3>2. Transmit(DebugEnable(nodeId, DebugTtl)) BY <2>5 DEF TransmitDebugEnable
    <3>. QED BY <2>4, <3>1, <3>2
  <2>6. CASE TransmitNodeQuality
    <3>1. PICK r \in Reports : Transmit(Quality(nodeId, r)) BY <2>6 DEF TransmitNodeQuality
    <3>2. Quality(nodeId, r) \in OwnFrames BY <2>3 DEF OwnFrames
    <3>. QED BY <2>4, <3>1, <3>2
  <2>7. CASE HearFrame \/ HearDebugEnable
    <3>1. PICK said \in OtherFrames :
            did' = [kind |-> "taken", said |-> said, heard |-> Taken(said)]
      BY <2>7 DEF HearFrame, HearDebugEnable
    <3>2. nodeId' = nodeId BY <2>7 DEF HearFrame, HearDebugEnable, Listening
    <3>. QED BY <3>1, <3>2, NodeHears
  <2>. QED BY <1>2, <2>1, <2>2, <2>5, <2>6, <2>7, NoFrame
<1>3. H <=> HeardIsSaid BY HeardIs
<1> HIDE DEF H
<1>. QED BY <1>1, <1>2, <1>3, FirmwareInvariant, PTL DEF Spec
=============================================================================
